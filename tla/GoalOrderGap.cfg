SPECIFICATION Spec
CONSTANTS
    Goal = {g1, g2, g3}
    Tab = {t1}
    NoGoal = NoGoal
    MaxOrder = 3
    Closing = {TRUE}
PROPERTIES
    MovesMove
