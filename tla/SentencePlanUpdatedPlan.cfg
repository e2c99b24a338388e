SPECIFICATION Spec
CONSTANTS
    Goal = {g1}
    Tab = {t1}
    NoGoal = NoGoal
    HeldPage = {"plan", "none", "change", "update", "remove", "view"}
INVARIANTS
    UpdatedPlanHasCurrentGoal
