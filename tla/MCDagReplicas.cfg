SPECIFICATION Spec
CONSTANTS
    Ids = {1, 2, 3, 4, 5}
    Genesis = 2
    K = 1
    MaxParents = 2
    Times = {0, 1}
    MaxFuture = 0
    Worked = {1, 2, 3, 4}
    MaxHeight = 3
INVARIANTS SameBlocksSameAnswers ForkIsOnlyDelay RefusalIsNotFinal
CHECK_DEADLOCK FALSE
