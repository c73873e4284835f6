SPECIFICATION Spec
CONSTANTS
    Ids = {1, 2, 3, 4, 5, 6}
    Genesis = 3
    K = 1
    MaxParents = 2
    Times = {0}
    MaxFuture = 0
    Worked = {1, 2, 3, 4, 5, 6}
    MaxHeight = 5
    Window = 5
    MaxWalk = 2
INVARIANTS AgreesWithReference OrderIsTheReferenceOrder
PROPERTIES ExtendsByOneOrRebuilds
CHECK_DEADLOCK FALSE
