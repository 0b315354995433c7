\* Every action, on one application of one run, under policies that differ in forms.
CONSTANTS
    Workers = {w1}
    Roles = {r1}
    Runs = {u1}
    MaxAttempt = 1
    MaxProfile = 1
    Lease = 1
    SubmitWait = 1
    RetryLimit = 1
    TenantOf <- OneTenant
    Policies <- FormPolicies
    EmptyPolicy <- NoPolicy
    Reports <- AllReports
    QuestionKinds = {"needs_answer"}
SPECIFICATION Spec
INVARIANTS
    PlaneTypeOK
    KnownMeansUnchanged
    IntentDecides
    WorkIsBound
PROPERTIES
    SubmitsWhatWasApproved
