SPECIFICATION Spec
CONSTANTS
  Lease = 2
  SubmitWait = 1
  ContainedLimit = 1
  MaxFaults = 2
  MaxCommands = 1
INVARIANTS
  TypeOK
  OneSender
  NothingSentAfterRefuted
  GuardWithinLease
PROPERTIES
  WorkIsNotDropped
