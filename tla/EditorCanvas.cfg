SPECIFICATION Spec
CONSTANTS
    Trees = {t1, t2}
    Initial = {t1}
    None = None
    MaxEdits = 2
    MaxWrites = 2
    MaxOpens = 2
    Others = {"save", "delete"}
INVARIANTS TypeOK NoCrossTreeSave SelectionValid
PROPERTIES ReloadNeedsWrite
CHECK_DEADLOCK FALSE
