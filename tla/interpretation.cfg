\* One call of at most three channels. A call log is made once, so the run stops.
SPECIFICATION InterpretationSpec
CONSTANTS
    Channel = {1, 2, 3}
    User <- Users
    Extension <- Extensions
    Known = {"alice", "bob"}
    File = {"f1"}
    Tenant = {"t1"}
    MaxRecordings = 2
    Scenario <- Scenarios
INVARIANTS
    InterpretationTypeOK
    AnsweredUserIsListed
    AtMostOneRequested
    RecordingsSound
    CallerFieldsSound
PROPERTIES
    AnnouncedDestinationKept
CHECK_DEADLOCK FALSE
