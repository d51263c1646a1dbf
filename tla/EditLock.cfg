SPECIFICATION Spec
CONSTANTS
    a = a
    b = b
    Tabs = {a, b}
    Trees = {t1}
    None = None
    Does <- MCDoes
    MaxInFlight = 2
    MaxEvents = 1
INVARIANTS TypeOK EditingWatched OwnMeansEditing
PROPERTIES StaleEditorStopped
