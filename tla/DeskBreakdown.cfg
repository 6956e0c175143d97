CONSTANTS
    None = None
    MaxItems = 2
    MaxSelections = 2
    MaxClicks = 1
    Rungs = {r1, r2}
SPECIFICATION DeskSpec
PROPERTY OverrideOfItsItem
CHECK_DEADLOCK FALSE
