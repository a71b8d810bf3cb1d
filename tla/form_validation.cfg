SPECIFICATION Spec
CONSTANTS
    Fields <- MCFields
    Replace <- MCReplace
    Pages <- MCPages
    Values <- MCValues
    Conforms <- MCConforms
    Taken <- MCTaken
    None = None
    MaxDrops = 1
INVARIANTS
    TypeOK
    PostedIsValid
    ShownAgrees
CHECK_DEADLOCK FALSE
