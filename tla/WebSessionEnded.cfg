SPECIFICATION Spec
CONSTANTS
    Tab = {t1, t2}
    Person = {p1}
    Sid = {s1, s2}
    Flow = {"handover"}
    NoTab = NoTab
    NoOne = NoOne
    NoSid = NoSid
    NoSession = NoSession
INVARIANT
    EndedStaysEnded
