\* Two clicks, two messages about the selection and two trades.
CONSTANTS
    None = None
    Chest = Chest
    OtherChest = OtherChest
    Sword = Sword
    SameSword = SameSword
    LongSword = LongSword
    Junk = Junk
    Screens <- MCScreens
    ScreenId <- MCScreenId
    Slots = {1, 2}
    Content <- MCContent
    Encodes <- MCEncodes
    Signature <- MCSignature
    NameOf <- MCNameOf
    Within <- MCWithin
    Trades <- MCTrades
    MaxItems = 2
    FlushTicks = 2
    MaxPicks = 2
    MaxSends = 2
    MaxTrades = 2
SPECIFICATION Spec
INVARIANTS
    ListsLastSent
    ReportsAreAnnounced
    NoTradeLost
    MatchIsCertain
PROPERTY BlocksClose
CHECK_DEADLOCK FALSE
