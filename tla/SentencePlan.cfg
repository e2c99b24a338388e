SPECIFICATION FairSpec
CONSTANTS
    Goal = {g1}
    Tab = {t1, t2}
    NoGoal = NoGoal
    HeldPage = {"update"}
INVARIANTS
    TypeOK
    DraftGoalsAreLive
    ReadyDraftHasCurrentGoal
    UpdateFollowsCouldNotAnswer
    IInv
PROPERTIES
    SettledAgreement
    SettledGoals
    ImplementsLifecycle
    RedirectsEnd
