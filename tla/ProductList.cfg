SPECIFICATION FairSpec
CONSTANTS
    Caller = {l1, l2}
    Janitor = Janitor
    Key <- MCKey
    Value <- MCValue
    NoValue = NoValue
    Matches <- MCMatches
    Column <- MCColumn
    Query <- MCQuery
INVARIANTS
    ListInv
    OnlyGetsCollide
    RowsFitTotal
    PagesAreDisjoint
PROPERTIES
    KeepsAMap
    ListsAreAnswered
