\* Two items: bought, sold, kept and put back, with every tab, filter and band.
CONSTANTS
    Items = {i1, i2}
    Prices = {0, 1}
    Worth <- MCWorth
    Nothing = Nothing
SYMMETRY MCSymmetry
SPECIFICATION BooksSpec
INVARIANT FrontIsCurrent
PROPERTY SavedAsItWas
