-------------------------- MODULE AssessmentAreas --------------------------
(***************************************************************************)
(* The about page (AboutPersonController): the areas of need of a person's *)
(* assessment, put into groups and in order (assessmentUtils).             *)
(*                                                                         *)
(* The scores, the risks and whether an area's section of the assessment   *)
(* is complete come from two places, the sign-in and the assessment        *)
(* service; here one record has them all.  The texts that are shown with   *)
(* an area are left out.                                                   *)
(***************************************************************************)
EXTENDS Integers, Sequences, FiniteSets

CONSTANTS
    Area,          \* the areas that are looked at, by their crimNeedsKey
    Need,          \* what may be known of an area
    NotPresent,    \* the area, or the score, is not there
    NotANumber     \* "N/A" or "NULL" for a score

\* assessmentAreaConfig.json: the greatest score.
UpperBound == [thinkingBehaviourAndAttitudes |-> 10, alcoholMisuse |-> 4,
               accommodation |-> 6, educationTrainingEmployability |-> 4,
               personalRelationshipsAndCommunity |-> 6, drugMisuse |-> 8]

\* assessmentAreaThresholds.ts: a higher score is high.
Threshold == [thinkingBehaviourAndAttitudes |-> 2, alcoholMisuse |-> 1,
              accommodation |-> 1, educationTrainingEmployability |-> 1,
              personalRelationshipsAndCommunity |-> 1, drugMisuse |-> 0]

\* The finance and health sections never have a score.
Scored == DOMAIN Threshold
Scoreless == {"finance", "healthAndWellbeing"}

\* The alphabetical order of the titles.
Title == [accommodation |-> 1, alcoholMisuse |-> 2, drugMisuse |-> 3,
          educationTrainingEmployability |-> 4, finance |-> 5,
          healthAndWellbeing |-> 6, personalRelationshipsAndCommunity |-> 7,
          thinkingBehaviourAndAttitudes |-> 8]

Thinking == "thinkingBehaviourAndAttitudes"
Lifestyle == "lifestyleAndAssociates"

Score == Nat \cup {NotANumber, NotPresent}
AreaNeed == [score: Score, linkedToHarm: BOOLEAN, linkedToReoffending: BOOLEAN,
             sectionComplete: BOOLEAN]

ASSUME AreasAssumption ==
    /\ Area \subseteq Scored \cup Scoreless
    /\ Need \subseteq AreaNeed
    /\ NotPresent \notin Need \cup Nat
    /\ NotANumber \notin Nat \cup {NotPresent}

\* The lifestyle area is only a part of another one.  Scoreless areas have no number.
CriminogenicNeeds ==
    {needs \in [Area \cup {Lifestyle} -> Need \cup {NotPresent}] :
        \A a \in Area \cap Scoreless :
            needs[a] # NotPresent => needs[a].score \notin Nat}

VARIABLE about    \* the about page

areasVars == <<about>>

-----------------------------------------------------------------------------
(***************************************************************************)
(* formatAssessmentData, for the areas of the criminogenic needs.          *)
(***************************************************************************)
Present(needs) == {a \in Area : needs[a] # NotPresent}

IsAssessmentSectionComplete(needs, a) ==
    /\ needs[a].sectionComplete
    /\ a \in Scoreless \/ needs[a].score # NotPresent

\* criminogenicNeedsScore: undefined unless it is a number, and not too high.
CriminogenicNeedsScore(needs, a) ==
    LET score == needs[a].score
    IN  IF score \notin Nat THEN NotPresent
        ELSE IF score > UpperBound[a] THEN UpperBound[a] ELSE score

HasSubArea(needs, a) == a = Thinking /\ needs[Lifestyle] # NotPresent

\* Mutant: the greatest of the scores that are numbers.
OverallOfNumbers(needs, a) ==
    LET own == CriminogenicNeedsScore(needs, a)
        lifestyle == needs[Lifestyle].score
    IN  IF ~HasSubArea(needs, a) \/ lifestyle \notin Nat THEN own
        ELSE IF own \notin Nat \/ own < lifestyle THEN lifestyle ELSE own

\* overallScore: Math.max is not a number unless both are.
OverallScore(needs, a) ==
    LET think == needs[a].score
        lifestyle == needs[Lifestyle].score
    IN  IF ~HasSubArea(needs, a) THEN CriminogenicNeedsScore(needs, a)
        ELSE IF think \notin Nat \/ lifestyle \notin Nat THEN NotANumber
        ELSE IF think > lifestyle THEN think ELSE lifestyle

Complete(needs) ==
    {a \in Present(needs) : IsAssessmentSectionComplete(needs, a)}

\* Number(undefined) compares like NaN, and so does a threshold that is not there.
Comparable(needs, a) == OverallScore(needs, a) \in Nat /\ a \in Scored

HighScoring(needs) ==
    {a \in Complete(needs) :
        Comparable(needs, a) /\ OverallScore(needs, a) > Threshold[a]}

LowScoring(needs) ==
    {a \in Complete(needs) :
        Comparable(needs, a) /\ OverallScore(needs, a) <= Threshold[a]}

WithoutScore(needs) ==
    {a \in Complete(needs) : CriminogenicNeedsScore(needs, a) = NotPresent}

IncompleteAreas(needs) == Present(needs) \ Complete(needs)

EmptyAreas(needs) == Area \ Present(needs)

-----------------------------------------------------------------------------
(***************************************************************************)
(* groupAndSortByRisk                                                      *)
(***************************************************************************)
RiskCount(needs, a) == (IF needs[a].linkedToHarm THEN 2 ELSE 0)
                     + (IF needs[a].linkedToReoffending THEN 1 ELSE 0)

Distance(needs, a) == OverallScore(needs, a) - Threshold[a]

\* Mutant: the smallest distance comes first.
BeforeAscending(needs, a, b) ==
    IF \/ ~Comparable(needs, a) \/ ~Comparable(needs, b)
       \/ Distance(needs, a) = Distance(needs, b)
    THEN Title[a] < Title[b]
    ELSE Distance(needs, a) < Distance(needs, b)

\* The comparison of sortByScoreAndTitle, in one group.
Before(needs, a, b) ==
    IF \/ ~Comparable(needs, a) \/ ~Comparable(needs, b)
       \/ Distance(needs, a) = Distance(needs, b)
    THEN Title[a] < Title[b]
    ELSE Distance(needs, a) > Distance(needs, b)

(***************************************************************************)
(* What sort makes of a set that its comparison puts in one order: the     *)
(* place of an element is told by how many of the set go before it.  (A    *)
(* comparison is given as a set of pairs.)                                 *)
(***************************************************************************)
Preceding(S, before, a) == {b \in S : <<b, a>> \in before}

Sorted(S, before) ==
    [i \in 1..Cardinality(S) |->
        CHOOSE a \in S : Cardinality(Preceding(S, before, a)) = i - 1]

RiskOrder(needs) ==
    {pair \in Area \X Area : Before(needs, pair[1], pair[2])}

TitleOrder == {pair \in Area \X Area : Title[pair[1]] < Title[pair[2]]}

Group(needs, areas, risk) ==
    Sorted({a \in areas : RiskCount(needs, a) = risk}, RiskOrder(needs))

\* The greatest count comes first.
GroupAndSortByRisk(needs, areas) ==
    Group(needs, areas, 3) \o Group(needs, areas, 2)
        \o Group(needs, areas, 1) \o Group(needs, areas, 0)

SortByTitle(areas) == Sorted(areas, TitleOrder)

Lists(needs) ==
    [incompleteAreas |-> SortByTitle(IncompleteAreas(needs)),
     highScoring |-> GroupAndSortByRisk(needs, HighScoring(needs)),
     lowScoring |-> GroupAndSortByRisk(needs, LowScoring(needs)),
     other |-> GroupAndSortByRisk(needs, WithoutScore(needs))
                   \o SortByTitle(EmptyAreas(needs))]

NoLists == [incompleteAreas |-> <<>>, highScoring |-> <<>>, lowScoring |-> <<>>,
            other |-> <<>>]

-----------------------------------------------------------------------------
(***************************************************************************)
(* AboutPersonController.get, with what the services answer: the person's  *)
(* data and the assessment, or null.  The needs are the session's.         *)
(***************************************************************************)
NoPage == [at |-> "none", needs |-> [a \in Area \cup {Lifestyle} |-> NotPresent],
           errors |-> {}, complete |-> FALSE, areas |-> NoLists]

AreasInit == about = NoPage

GetAbout(authType, needs, delius, assessment) ==
    /\ about.at = "none"
    /\ \/ /\ authType = "HMPPS_AUTH"
          /\ about' = [NoPage EXCEPT !.at = "plan"]
       \/ /\ authType # "HMPPS_AUTH" /\ ~delius /\ ~assessment
          /\ about' = [NoPage EXCEPT !.at = "error"]
       \/ /\ authType # "HMPPS_AUTH" /\ (delius \/ assessment)
          /\ about' = [at |-> "about", needs |-> needs,
                errors |-> (IF delius THEN {} ELSE {"noDeliusDataFound"}) \cup
                           (IF assessment THEN {} ELSE {"noAssessmentDataFound"}),
                complete |-> assessment /\ IncompleteAreas(needs) = {},
                areas |-> IF assessment THEN Lists(needs) ELSE NoLists]

LeaveAbout == about.at # "none" /\ about' = NoPage

AreasNext ==
    \/ LeaveAbout
    \/ \E authType \in {"HMPPS_AUTH", "OASYS"}, needs \in CriminogenicNeeds,
          delius, assessment \in BOOLEAN :
          GetAbout(authType, needs, delius, assessment)

AreasSpec == AreasInit /\ [][AreasNext]_areasVars

-----------------------------------------------------------------------------
\* The page shows areas of an assessment.
Shown == about.at = "about" /\ "noAssessmentDataFound" \notin about.errors

(***************************************************************************)
(* A score that counts for no group: it is a number, but the area is       *)
(* joined with lifestyle, which has none.                                  *)
(***************************************************************************)
Lost(needs, a) ==
    /\ needs[a] # NotPresent
    /\ HasSubArea(needs, a)
    /\ needs[a].score \in Nat /\ needs[Lifestyle].score \notin Nat

(***************************************************************************)
(* Each area is in exactly one list of the page, and once: none is missed  *)
(* between incomplete, high, low and without a score, whatever its score   *)
(* is and whether or not another score is joined with it.                  *)
(***************************************************************************)
Places(list, a) == {i \in DOMAIN list : list[i] = a}

OnlyIn(name, a) ==
    \A other \in DOMAIN about.areas : \A i \in DOMAIN about.areas[other] :
        about.areas[other][i] = a =>
            /\ other = name
            /\ Places(about.areas[other], a) = {i}

EachAreaInOneGroup ==
    Shown => \A a \in Area :
        \/ /\ Lost(about.needs, a) /\ a \in Complete(about.needs)
        \/ \E name \in DOMAIN about.areas :
              /\ Places(about.areas[name], a) # {}
              /\ OnlyIn(name, a)

(***************************************************************************)
(* No area of the high-scoring or the low-scoring list stands above one    *)
(* that bears a higher risk -- first of harm, then of reoffending -- or,   *)
(* with the same risks, a score further over its threshold                 *)
(* (assessmentUtils.ts:198-200).  Nothing is said of the list of other     *)
(* areas, which have no score, and some of them no data at all.            *)
(***************************************************************************)
RiskierFirst ==
    \A name \in {"highScoring", "lowScoring"} :
        \A i, j \in DOMAIN about.areas[name] :
            LET a == about.areas[name][i]
                b == about.areas[name][j]
                na == about.needs[a]
                nb == about.needs[b]
            IN  i < j =>
                /\ nb.linkedToHarm => na.linkedToHarm
                /\ na.linkedToHarm = nb.linkedToHarm =>
                      (nb.linkedToReoffending => na.linkedToReoffending)
                /\ RiskCount(about.needs, a) = RiskCount(about.needs, b) =>
                      Distance(about.needs, a) >= Distance(about.needs, b)
=============================================================================
