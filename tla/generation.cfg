\* The daemon and the command at the same time, with one deletion by the command
\* (of everything, or from a date that spares the older call log) and one fault
\* anywhere.
SPECIFICATION Spec
CONSTANTS
    Cel <- TransferredCall
    Tenant = {"t1"}
    TenantOf <- OneTenant
    Process = {"daemon", "cli"}
    CelCount = 5
    GenerateSince = {4}
    DeleteSince = {0, 3}
    AbortAt = {"correlate", "read", "delete", "unassociate", "tenants", "create", "associate", "publish",
               "wipe", "wipe_unassociate", "wipe_unassociate_all"}
    MaxFaults = 1
    MaxDeletes = 1
    PurgeBefore = {}
    RemovableTenant = {}
INVARIANTS
    TypeOK
    AssociationAccountedFor
    CallLogIsWholeCall
    AssociatedCelIsListed
    UnfinishedCallLogUntouched
    OneCallLogPerCall
PROPERTY ImplementsCallBook
\* All calls may be over and recorded.
CHECK_DEADLOCK FALSE
