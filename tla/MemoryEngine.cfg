SPECIFICATION Spec
CONSTANTS
    h1 = h1
    h2 = h2
    red = red
    blue = blue
    Hash = {h1, h2}
    Word = {red, blue}
    a1 = a1
    a2 = a2
    Addr = {a1, a2}
    Offer <- MCOffer
    MaxSession = 2
    MaxLayout = 2
    MaxLoad = 1
    Chunk = 1
    Page = 2
    StaleMax = 0
SYMMETRY Symmetry
INVARIANTS
    WalkExact OfferedExact SourcesExact RecordsExact NamesCover
