SPECIFICATION Spec
CONSTANTS
    CreateReq = {c1, c2}
    PlanReq = {p1, p2}
    PatchReq = {}
    light = light
    heavy = heavy
    Product <- MCProduct
    NoProduct = NoProduct
    Weight <- MCWeight
    Cart <- FilledCarts
    Capacity = {2}
    PatchStatus = {}
    MaxOrder = 2
SYMMETRY RequestSymmetry
INVARIANTS
    Inv
    BatchAtomic
    AcksAreTrue
    PlansHoldRealOrders
    StrandedOnlyByCut
PROPERTIES
    ReadsNothingTaken
    OverwritesOverlapOnly
