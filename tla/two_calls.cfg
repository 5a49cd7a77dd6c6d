\* Two calls that a job may record in one batch, the daemon and the command at
\* the same time, a restart or a failed interpretation, retention and the removal
\* of the tenant at any time.
SPECIFICATION Spec
CONSTANTS
    Cel <- TwoCalls
    Tenant = {"t1"}
    TenantOf <- OneTenant
    Process = {"daemon", "cli"}
    CelCount = 4
    GenerateSince = {}
    DeleteSince = {}
    AbortAt = {}
    MaxFaults = 1
    MaxDeletes = 0
    PurgeBefore = {3}
    RemovableTenant = {"t1"}
INVARIANTS
    AssociationAccountedFor
    AssociatedCelIsListed
\* All calls may be over and recorded.
CHECK_DEADLOCK FALSE
