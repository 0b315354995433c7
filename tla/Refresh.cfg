\* Requests and their runners, and the lock of a machine.
SPECIFICATION RefreshSpec
CONSTANTS
    Runners = {c, l}
    Cloud = {c}
    Visitors = {v}
    ClaimTimeout = 1
    Limit = 1
    MaxRequests = 2
    MaxFaults = 1
    Shells = {"s", "t"}
    Mirrors = {"m", "n"}
    MaxCrashes = 2
INVARIANTS
    RefreshTypeOK
    CloudKeepsItsClaim
    AnswerIsFresh
    OutcomeIsOfTheClaim
    OneCycle
PROPERTIES
    RequestsEnd
    CyclesGoOn
