SPECIFICATION Spec
CONSTANTS
    Tab = {t1, t2}
    Text = {a, b}
    Blank = blank
    Choice = {"NOT_STARTED", "COMPLETED"}
    MaxSteps = 2
    MaxPuts = 3
    Request = {r1, r2}
    Operation = {"saveAllSteps", "deleteGoal"}
    User = {"u1", "u2"}
    NoUser = "none"
    SignIns <- TwoUsers
    Area = {"thinkingBehaviourAndAttitudes", "accommodation", "finance"}
    Need <- Needs
    NotPresent = notPresent
    NotANumber = notANumber
    FirstDay <- FirstDays
    TypedDate <- TypedDates
    MaxNights = 2
CHECK_DEADLOCK FALSE
INVARIANTS
    StepsTypeOK
    UpdateFitsForm
    SectionsInOrder
    AskedWhenCompleted
    CallsTypeOK
    WritesOnce
    ReportedDeleteIsDone
    SpeaksForPrincipal
    EachAreaInOneGroup
    RiskierFirst
    DatesTypeOK
    OptionIsMonthsOn
PROPERTIES
    CallsEnd
    CallsKeepPromise
    CallsGetOn
    UntouchedKeepsDate
    NoDateInThePast
