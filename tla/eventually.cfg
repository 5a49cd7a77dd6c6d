\* The command takes the most recent unprocessed CEL only, so it reaches the
\* older ones run after run.  One fault: a restart, a failed interpretation, or a
\* job cut when it has deleted call logs and not yet created the new ones.
SPECIFICATION FairSpec
CONSTANTS
    Cel <- TransferredCallAfterCrash
    Tenant = {"t1"}
    TenantOf <- OneTenant
    Process = {"daemon", "cli"}
    CelCount = 1
    GenerateSince = {}
    DeleteSince = {}
    AbortAt = {"create"}
    MaxFaults = 1
    MaxDeletes = 0
    PurgeBefore = {}
    RemovableTenant = {}
\* No action reads the history left out of the view, nor does the property.
VIEW Programs
PROPERTY EventuallyRecorded
\* All calls may be over and recorded.
CHECK_DEADLOCK FALSE
