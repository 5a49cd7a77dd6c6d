\* The daemon alone records calls whose groups overlap, with retention and the
\* removal of the tenant at any time, and two faults anywhere.  The command is
\* left out: while one of the calls lasts, its runs delete and record the others
\* without end, with ever new ids.
SPECIFICATION Spec
CONSTANTS
    Cel <- MeetingCallsAndNoise
    Tenant = {"t1"}
    TenantOf <- OneTenant
    Process = {"daemon"}
    CelCount = 8
    GenerateSince = {}
    DeleteSince = {}
    AbortAt = {"correlate", "read", "delete", "unassociate", "tenants", "create", "associate", "publish"}
    MaxFaults = 2
    MaxDeletes = 0
    PurgeBefore = {5}
    RemovableTenant = {"t1"}
INVARIANT OneCallLogPerCall
\* All calls may be over and recorded.
CHECK_DEADLOCK FALSE
