\* A fault between the correction and the rebuild: the tables ignore the correction.
CONSTANTS
    Sessions = {}
    Offers = {}
    Items = {i1}
    Amounts = {1, 2}
    None = None
    ClaimTax <- MCClaimTax
    LegacyLogs <- MCLegacyLogs
    Estimates = {2}
    Patches <- MCPatches
    Operations <- MCItemOperations
    FaultWindows = {"correcting"}
    MaxEvents = 3
SPECIFICATION Spec
INVARIANT NeverDisagree
