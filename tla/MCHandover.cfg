SPECIFICATION HandoverSpec
CONSTANTS
    Tab = {t1, t2}
    Person = {p1, p2}
    Sid = {s1, s2}
    Flow = {"handover"}
    NoTab = NoTab
    NoOne = NoOne
    NoSid = NoSid
    NoSession = NoSession
    Window = {t1, t2}
    Version = {p1, p2}
    Id = {s1, s2}
    MaxSignIns = 2
    NoWindow = NoWindow
    NoVersion = NoVersion
    NoId = NoId
    NotStored = NotStored
SYMMETRY Symmetry
INVARIANTS
    WritesToPlanShown
    IInv
    LandingTypeOK
    PlanAfterPrivacy
    VersionAsAsked
