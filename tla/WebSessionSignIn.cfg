SPECIFICATION Spec
CONSTANTS
    Tab = {t1, t2}
    Person = {p1, p2}
    Sid = {s1, s2}
    Flow = {"hmpps"}
    NoTab = NoTab
    NoOne = NoOne
    NoSid = NoSid
    NoSession = NoSession
SYMMETRY Symmetry
INVARIANTS
    TypeOK
    WriterHasPlan
    SignInForAsked
