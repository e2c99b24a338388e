SPECIFICATION Spec
CONSTANTS
    Req = {r1, r2}
    Plan = {p1, p2}
    Kind = {"get", "previous"}
    Status = {"DRAFT", "AGREED"}
    NoReq = NoReq
    NoPlan = NoPlan
INVARIANTS
    PageShowsOwnPlan
