SPECIFICATION Spec
CONSTANTS
    Ids = {1, 2, 3, 4, 5, 6}
    Genesis = 3
    K = 1
    MaxParents = 3
    Times = {0}
    MaxFuture = 0
    Worked = {1, 2, 3, 4, 5, 6}
    MaxHeight = 5
INVARIANTS AncestryIsOrdered TipsCoverTheDag OrderIsTopological BluesAreTheLoop
PROPERTIES WeightOnlyGrows
CHECK_DEADLOCK FALSE
