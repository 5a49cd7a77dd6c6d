\* As services.cfg, for what the unit tests say of intervals.
CHECK_DEADLOCK FALSE
SPECIFICATION ServicesSpec
CONSTANTS
    Row <- CallLogs
    Query <- Searches
    MaxId = 3
    Hours = 2
    Days = 2
    LastHour = 3
    Call <- Calls
    Logins <- LoggedIn
    Ask <- Asks
    Tenant = {"t1", "t2"}
    Request <- Requests
    FactoryDays <- Factory
    FileDays <- Files
    Put = {"p1", "p2"}
    Message = {"m1"}
    Text = {"x", "y"}
INVARIANT IntervalsStayWithinLimits
