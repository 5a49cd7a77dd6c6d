\* Requests, exports, purges and settings of two tenants over three days. Each is
\* bounded in number, so the run stops when they are spent.
SPECIFICATION MediaSpec
CONSTANTS
    Tenant = {"t1", "t2"}
    Request <- Requests
    FactoryDays <- Factory
    FileDays <- LongerCdr
    Put = {"p1"}
    CallLog = {"c1", "c2"}
    Recording = {"r1", "r2", "r3"}
    Export = {"e1"}
    Delete = {"d1", "d2"}
    CallOf <- CallOfRecording
    TenantOf <- TenantOfCall
    Date <- DateOfCall
    LastDay = 2
    Purger = {"cron", "daemon"}
    FactoryPurgeDays = 1
    PurgeDays = {0, 1}
    MaxJobs = 2
    MaxFaults = 1
INVARIANTS
    MediaTypeOK
    AvailableMediaIsServed
    NoOrphanFile
    DownloadServesWholeArchive
PROPERTIES
    TenantRetentionRespected
    ExportSettles
CHECK_DEADLOCK FALSE
