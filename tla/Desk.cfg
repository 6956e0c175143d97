\* Two items on the table, two selections, trades that settle one of them, and every
\* order of the two threads and the user's clicks.
CONSTANTS
    None = None
    MaxItems = 2
    MaxSelections = 2
    MaxClicks = 2
    Rungs = {r1, r2}
SPECIFICATION DeskSpec
INVARIANTS
    ScreenCatchesUp
    ExpandedWasOffered
PROPERTY PricesArrive
CHECK_DEADLOCK FALSE
