\* One item bought, sold, kept, unwound and revalued, and one session with two
\* offers, with corrections of any event, clearing, restarts, databases of an older
\* build and faults while correcting.
CONSTANTS
    Sessions = {s1}
    Offers = {o1, o2}
    Items = {i1}
    Amounts = {1, 2}
    None = None
    ClaimTax <- MCClaimTax
    LegacyLogs <- MCLegacyLogs
    Estimates = {2}
    Patches <- MCPatches
    Operations <- MCLedgerOperations
    FaultWindows = {"correcting"}
    MaxEvents = 4
SYMMETRY MCNegotiationSymmetry
SPECIFICATION Spec
INVARIANTS
    Agreement
    ExitsMatchItems
    LastCorrectionWins
    ExitsTraceable
    ChainNumbered
