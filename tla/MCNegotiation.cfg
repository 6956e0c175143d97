\* Two items on the table, with offers turned down, countered, confirmed and
\* abandoned, handlers that raise, kills and restarts, and the history erased
\* meanwhile, with a fault while it is.
CONSTANTS
    Keys = {k1, k2}
    Sessions = {s1, s2}
    Offers = {o1, o2, o3}
    Items = {i1}
    Amounts = {1}
    None = None
    ClaimTax <- MCClaimTax
    LegacyLogs <- MCLegacyLogs
    Estimates = {1}
    Patches = {}
    Operations <- MCOperations
    FaultWindows = {"clearing"}
    MaxEvents = 5
SYMMETRY MCSymmetry
SPECIFICATION NegotiationSpec
INVARIANTS
    PendingRecorded
    OneOfferWaits
PROPERTIES
    OutcomesFinal
    DealCredited
    CloseSettles
    ClearedTogether
