\* Two runs under a changing selection; two attempts of a role; two workers and a board.
CONSTANTS
    Workers = {w1, w2}
SPECIFICATION OrdersSpec
SYMMETRY WorkerSymmetry
INVARIANTS
    OneAtATime
    LeaseRules
PROPERTIES
    KeepsLedger
