\* Another attempt reaches the employer after reapplication was withdrawn.
CONSTANTS
    Workers = {w1}
    Roles = {r1}
    Runs = {u1}
    MaxAttempt = 3
    MaxProfile = 1
    Lease = 1
    SubmitWait = 1
    RetryLimit = 1
    TenantOf <- OneTenant
    Policies <- ReapplyPolicies
    EmptyPolicy <- NoPolicy
    Reports <- StraightReports
    QuestionKinds = {"needs_answer"}
SPECIFICATION SpecAttempts
PROPERTIES
    ReapplyNeedsPermission
