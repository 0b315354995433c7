SPECIFICATION Spec
CONSTANTS
 Keys = {k1, k2, k3}
 Values = {u, v}
 MaxId = 2
 MaxChanges = 4
 MaxJobs = 3
 MaxFailures = 0
 MaxLost = 0
INVARIANT MirrorLands
CHECK_DEADLOCK FALSE
