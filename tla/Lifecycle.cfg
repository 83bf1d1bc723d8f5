SPECIFICATION Spec
CONSTANT MaxLaunches = 2
CHECK_DEADLOCK FALSE
INVARIANTS
    EndIsClean
    AnswerIsTrue
    BackendReleased
PROPERTY StopHeard
