\* Every part on a small instance; two polls, or requests of a store or the ledger.
CONSTANTS
    Callers = {q1, q2}
SPECIFICATION Spec
SYMMETRY Symmetry
INVARIANTS TypeOK FormsAreMeant SnapshotsServe StoresAgree
PROPERTIES QueuesNoReported
CHECK_DEADLOCK FALSE
