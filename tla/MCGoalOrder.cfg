SPECIFICATION Spec
CONSTANTS
    Goal = {g1, g2, g3}
    Tab = {t1, t2}
    NoGoal = NoGoal
    MaxOrder = 4
    Closing = {TRUE, FALSE}
SYMMETRY Symmetry
INVARIANTS
    OrdersStayDistinct
    TypeOK
PROPERTIES
    MovesOnePlace
