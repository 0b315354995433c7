\* What must happen in the end, whatever else does.
CONSTANTS
    Workers = {w1}
    Roles = {r1}
    Runs = {u1}
    MaxAttempt = 1
    MaxProfile = 1
    Lease = 2
    SubmitWait = 2
    RetryLimit = 2
    TenantOf <- OneTenant
    Policies <- OnePolicy
    EmptyPolicy <- NoPolicy
    Reports <- AllReports
    QuestionKinds = {"needs_answer"}
SPECIFICATION LiveSpec
PROPERTIES
    SubmittingEnds
    DoubtIsReconciled
    LeavesDoubtForGood
