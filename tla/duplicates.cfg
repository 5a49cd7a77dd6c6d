\* The command overlaps the daemon, no fault.
SPECIFICATION Spec
CONSTANTS
    Cel <- TransferredCall
    Tenant = {"t1"}
    TenantOf <- OneTenant
    Process = {"daemon", "cli"}
    CelCount = 5
    GenerateSince = {}
    DeleteSince = {}
    AbortAt = {}
    MaxFaults = 0
    MaxDeletes = 0
    PurgeBefore = {}
    RemovableTenant = {}
INVARIANT OneCallLogAtRest
\* All calls may be over and recorded.
CHECK_DEADLOCK FALSE
