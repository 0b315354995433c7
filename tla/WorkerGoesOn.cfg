SPECIFICATION LiveSpec
CONSTANTS
  Lease = 2
  SubmitWait = 1
  ContainedLimit = 1
  MaxFaults = 1
  MaxCommands = 0
PROPERTIES
  ReceiptArrives
  KeepsPolling
