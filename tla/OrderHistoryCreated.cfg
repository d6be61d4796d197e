SPECIFICATION Spec
CONSTANTS
    alice = alice
    bob = bob
    c1 = c1
    c2 = c2
    l1 = l1
    User = {alice}
    Lister = {l1, l2}
    Creator = {c1}
    Patcher = {}
    Order = {1, 2}
    By <- MadeBy
    Of <- Owner
    Size <- PageSize
    None = None
INVARIANTS
    CreatedOrdersAreCounted
