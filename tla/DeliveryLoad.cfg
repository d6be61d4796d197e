SPECIFICATION Spec
CONSTANTS
    MaxLen = 3
    Weights = {0, 2, 3, 4}
    Values = {0, 1, 3}
    Input <- MCInput
    Capacity = {0, 3, 5, 6, 7}
    WordBits = 2
INVARIANTS
    LoadInv
    EnumerationIsExact
    RowsAreLoads
    RowsAreBest
    PlanIsALoad
    FillsExactly
