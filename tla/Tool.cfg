SPECIFICATION ToolSpec
CONSTANTS
    Room = 1
    MaxRequests = 5
    Status = {"kOk", "kNotFound", "kServerBusy"}
CHECK_DEADLOCK FALSE
INVARIANTS CleanUnlessCut ExitTellsVerdict
PROPERTIES OwnResponse CallsReturn
