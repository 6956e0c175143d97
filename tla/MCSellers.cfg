\* Two sellers and a listing that names none, three clicks, three lookups.
CONSTANTS
    a = a
    b = b
    c = c
    x = x
    y = y
    None = None
    Listings <- MCListings
    Sellers <- MCSellers
    SellerOf <- MCSellerOf
    MaxClicks = 3
    MaxLookups = 3
SPECIFICATION Spec
INVARIANT LastClickStays
PROPERTY ClicksAnswered
CHECK_DEADLOCK FALSE
