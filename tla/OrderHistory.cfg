SPECIFICATION FairSpec
CONSTANTS
    alice = alice
    bob = bob
    c1 = c1
    c2 = c2
    l1 = l1
    User = {alice, bob}
    Lister = {l1, l2}
    Creator = {c1, c2}
    Patcher = {p1}
    Order = {1, 2, 3}
    By <- MadeBy
    Of <- Owner
    Size <- PageSize
    None = None
INVARIANTS
    TotalsAreBacked
    PageShowsOwnOrders
    MissesAreFresh
    HistoryInv
PROPERTIES
    EventuallyFresh
