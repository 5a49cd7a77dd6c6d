\* No fault, and no other job beside: the daemon records a linkedid, and the
\* command regenerates it while a correlated linkedid is open.
SPECIFICATION Spec
CONSTANTS
    Cel <- TransferredCall
    Tenant = {"t1"}
    TenantOf <- OneTenant
    Process = {"daemon", "cli"}
    CelCount = 5
    GenerateSince = {}
    DeleteSince = {}
    AbortAt = {}
    MaxFaults = 0
    MaxDeletes = 0
    PurgeBefore = {}
    RemovableTenant = {}
PROPERTY RegenerationReplacesWhatItDeletes
\* All calls may be over and recorded.
CHECK_DEADLOCK FALSE
