CONSTANTS
    Catalog = {"d1", "d2"}
    None = None
    Now = 1000
    OtherTraces <- MCOtherTraces
    Checkpoints <- MCCheckpoints
    RunId = "run"
    BaseTime = 100
    MaxRecords = 5
SPECIFICATION Spec
INVARIANTS
    ScenariosAreMapped
    RowsTellTheTrace
    BuiltRowsAreStorable
CHECK_DEADLOCK FALSE
