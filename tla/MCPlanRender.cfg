SPECIFICATION Spec
CONSTANTS
    Req = {r1, r2}
    Plan = {p1, p2}
    Kind = {"get", "post", "updateGet", "updatePost"}
    Status = {"DRAFT", "COULD_NOT_ANSWER"}
    NoReq = NoReq
    NoPlan = NoPlan
SYMMETRY Symmetry
INVARIANTS
    TypeOK
    DecidesOnOwnPlan
    UpdateShowsOwnPlan
