SPECIFICATION FairSpec
CONSTANTS
    Goal = {g1}
    Tab = {t1, t2}
    NoGoal = NoGoal
    HeldPage = {"plan", "none", "change", "update", "remove", "view"}
PROPERTIES
    DeletedOnlyBeforeAgreement
