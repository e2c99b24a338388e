SPECIFICATION Spec
CONSTANTS
    Tab = {t1}
    Person = {p1}
    Sid = {s1, s2}
    Flow = {"hmpps"}
    NoTab = NoTab
    NoOne = NoOne
    NoSid = NoSid
    NoSession = NoSession
INVARIANT
    MissingRoleIsDenied
