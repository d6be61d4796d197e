SPECIFICATION Spec
CONSTANTS
    CreateReq = {c1}
    PlanReq = {p1}
    PatchReq = {u1}
    light = light
    heavy = heavy
    Product <- MCProduct
    NoProduct = NoProduct
    Weight <- MCWeight
    Cart <- LightCarts
    Capacity = {1}
    PatchStatus = {"shipping", "completed"}
    MaxOrder = 1
INVARIANTS
    TakenStaysTaken
PROPERTIES
    OverwritesOverlapOnly
    KeepsTheBook
    LocksReleased
    RobotsAreAnswered
