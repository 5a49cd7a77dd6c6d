\* The services answer requests and events for ever; the bounds stop them,
\* with every call log stored, every hour filled or every event sent.
CHECK_DEADLOCK FALSE
SPECIFICATION ServicesSpec
CONSTANTS
    Row <- CallLogs
    Query <- Searches
    MaxId = 3
    Hours = 2
    Days = 2
    LastHour = 3
    Call <- Calls
    Logins <- LoggedIn
    Ask <- Asks
    Tenant = {"t1", "t2"}
    Request <- Requests
    FactoryDays <- Factory
    FileDays <- Files
    Put = {"p1", "p2"}
    Message = {"m1"}
    Text = {"x", "y"}
INVARIANTS
    SearchTypeOK
    CountsAgree
    StatusFilterAgrees
    ListedCallLogShowsItsUser
    PagesMakeUpTheList
    StatTypeOK
    IntervalsTilePeriod
    IntervalsAccountForTotal
    QualityAccountsForEveryCall
    BreakdownAddsUp
    TranscriptTypeOK
    TranscriptsMatchAnnouncements
    PromisedSettingsInForce
PROPERTIES
    TranscriptKeepsTenant
