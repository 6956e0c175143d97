\* Two or three rules in the list and five kinds of file; two enchantments, one of them
\* quoted and without a level of its own at first, one modifier the bazaar does not trade
\* and one skin; seven settings in two directories, three command lines; MaxTurns things
\* the user does over all starts, on one of the three tabs.
CONSTANTS
    Shipped <- MCShipped
    HandFiles <- MCHandFiles
    Sheets <- MCSheets
    MaxRules = 3
    Enchants = {"book", "lore"}
    Skins = {"skin"}
    DefaultTable <- MCDefaultTable
    HandTables <- MCHandTables
    Quotes <- MCQuotes
    TypedCoins = {1}
    TypedTiers = {3}
    Dirs = {"home", "elsewhere"}
    Home = "home"
    HandSettings <- MCHandSettings
    Starts <- MCStarts
    Unset = Unset
    Ports = {8765, 9000}
    Comparables = {3, 5}
    Percents = {5, 6}
    Amounts <- MCAmounts
    Tabs = {"rules", "prices", "settings"}
    MaxTurns = 6
SPECIFICATION ConfigSpec
INVARIANTS PriceAtItsLevel RestartChangesNothing
PROPERTIES WholeFileOrNothing SaveKeepsProtection EditsSurviveFetch
CHECK_DEADLOCK FALSE
