SPECIFICATION PathFairSpec
CONSTANTS
    Requests = {q1}
    Ops = {o1}
    MaxRequests = 1
    Window = 2
    MaxBuffered = 1
    Horizon = 1
CHECK_DEADLOCK FALSE
PROPERTIES
    AnswersArrive
