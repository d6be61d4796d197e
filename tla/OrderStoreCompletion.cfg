SPECIFICATION Spec
CONSTANTS
    CreateReq = {c1}
    PlanReq = {p1, p2}
    PatchReq = {u1}
    light = light
    heavy = heavy
    Product <- MCProduct
    NoProduct = NoProduct
    Weight <- MCWeight
    Cart <- OnlySingle
    Capacity = {1}
    PatchStatus = {"completed"}
    MaxOrder = 1
SYMMETRY RequestSymmetry
PROPERTIES
    CompletionSticks
