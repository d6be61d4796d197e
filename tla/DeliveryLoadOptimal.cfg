SPECIFICATION Spec
CONSTANTS
    MaxLen = 2
    Weights = {3, 4}
    Values = {1}
    Input <- MCInput
    Capacity = {5}
    WordBits = 64
INVARIANTS
    PlanIsOptimal
