-------------------------------- MODULE Monitors --------------------------------
(****************************************************************************)
(* What watches the data, the models and the sectors and tells somebody:    *)
(* the nightly quality check and its email, the alarm on a day whose        *)
(* predictions all point one way beside the gate that rejects such a model, *)
(* the report on past predictions, and the rotation of the sectors.  Shares *)
(* are compared as integers; how a price series becomes a strength is part  *)
(* of the question.                                                         *)
(****************************************************************************)
EXTENDS Question, FiniteSets, FiniteSetsExt, SequencesExt

CONSTANTS UniverseSize,  \* symbols a complete day has
          CohortSizes,   \* numbers of predictions of a day
          TopSectors     \* sectors recommended

ASSUME MonitorsAssumption ==
    UniverseSize \in Nat \ {0} /\ CohortSizes \subseteq Nat /\ TopSectors \in Nat \ {0}

--------------------------------------------------------------------------------
(* The quality of a day's bars.  A symbol's bar is absent or says whether its extremes
   are in order and whether anything was traded. *)

Bars == {"none", "good", "inverted", "idle"}

Finding(check, passed, severity, symbol) ==
    [check |-> check, passed |-> passed, severity |-> IF passed THEN "ok" ELSE severity,
     symbol |-> symbol]

CheckCompleteness(bars) ==
    LET count == Cardinality({s \in DOMAIN bars : bars[s] # "none"})
    IN {Finding("completeness", 100 * count >= 90 * UniverseSize,
                IF 100 * count < 80 * UniverseSize THEN "critical" ELSE "warning", <<>>)}

\* Hours since the newest bar of the table was first stored; <<>> for an empty table.
CheckFreshness(age) ==
    {Finding("freshness", age # <<>> /\ age[1] <= 26, "critical", <<>>)}

\* One finding for each symbol at fault, or one that says there is none.
PerSymbol(check, severity, faulty) ==
    IF faulty = {} THEN {Finding(check, TRUE, severity, <<>>)}
    ELSE {Finding(check, FALSE, severity, <<s>>) : s \in faulty}

RunFullCheck(q) ==
    CheckCompleteness(q.bars) \union CheckFreshness(q.age)
        \union PerSymbol("consistency", "critical", {s \in DOMAIN q.bars : q.bars[s] = "inverted"})
        \union PerSymbol("anomaly", "warning", {s \in DOMAIN q.bars : q.bars[s] = "idle"})

\* data_quality_failed writes of the critical findings, and of nothing without one.
DataQualityFailed(report) == {f \in report : ~f.passed /\ f.severity = "critical"}

\* run_quality_check: the findings are stored first, and then mailed.
QualityCheckJob(q) ==
    LET report == RunFullCheck(q)
    IN [stored |-> report, mailed |-> DataQualityFailed(report)]

QualityQuestions ==
    [topic: {"quality"}, bars: [1..UniverseSize -> Bars], age: {<<>>, <<2>>, <<26>>, <<27>>}]

AnswerQuality == Reply("quality", QualityCheckJob(asked))

--------------------------------------------------------------------------------
(* Predictions that all point one way. *)

Directions == {-1, 0, 1}
Most(counts) == Max({counts[d] : d \in Directions})
CohortSize(counts) == counts[-1] + counts[0] + counts[1]

\* A faulty variant: the alarm goes off at the threshold, where the gate still accepts.
DirectionCollapse_Reaches(counts) ==
    CohortSize(counts) > 0 /\ 10 * Most(counts) >= 9 * CohortSize(counts)

\* detect_direction_collapse, by the scheduler on the day's predictions.
DirectionCollapse(counts) ==
    CohortSize(counts) > 0 /\ 10 * Most(counts) > 9 * CohortSize(counts)

\* _check_degenerate_directions, by the gate on a validation set; right is how many of the
\* directions are those of the labels.
DegenerateDirections(counts, right) ==
    CohortSize(counts) > 0 /\ \/ 10 * Most(counts) > 9 * CohortSize(counts)
                              \/ 10 * right < 4 * CohortSize(counts)

CohortQuestions ==
    UNION {{[topic |-> "cohort", counts |-> c, right |-> r] :
              c \in {f \in [Directions -> 0..n] : CohortSize(f) = n}, r \in {0, n \div 2, n}} :
           n \in CohortSizes}

AnswerCohort ==
    Reply("cohort", [alarm |-> DirectionCollapse(asked.counts),
                     rejected |-> DegenerateDirections(asked.counts, asked.right)])

--------------------------------------------------------------------------------
(* PerformanceMonitor.evaluate on the predictions whose outcome is known. *)

Newer(rows, window) ==
    LET newest == Max({x.day : x \in rows})
    IN {x \in rows : x.day > newest - window}

Right(rows) == {x \in rows : x.predicted = x.actual}

\* Of the rows of a window: how many, how many right, and how many earned.
Snapshot(rows, window) ==
    LET W == Newer(rows, window)
    IN [n |-> Cardinality(W), right |-> Cardinality(Right(W)),
        traded |-> Cardinality({x \in W : x.predicted # 0}),
        earned |-> Cardinality({x \in W : x.predicted * x.actual > 0})]

RollingWindows == {7, 30, 90}

\* Accurate below 52% in any window asks for a retrain; nothing matched asks nothing.
Evaluate(rows) ==
    IF rows = {} THEN [snapshots |-> <<>>, retrain |-> FALSE]
    ELSE LET snapshots == [w \in RollingWindows |-> Snapshot(rows, w)]
         IN [snapshots |-> snapshots,
             retrain |-> \E w \in RollingWindows : 100 * snapshots[w].right < 52 * snapshots[w].n]

PerformanceRows ==
    {[day |-> d, predicted |-> p, actual |-> a] : d \in {1, 8, 9, 40}, p \in {-1, 0, 1}, a \in {-1, 1}}

PerformanceQuestions ==
    [topic: {"performance"}, rows: {R \in SUBSET PerformanceRows : Cardinality(R) <= 3}]

AnswerPerformance == Reply("performance", Evaluate(asked.rows))

--------------------------------------------------------------------------------
(* compute_sector_rotation.  Of a sector there is no price, too few days in common with
   the benchmark, or a strength and a momentum, 100 being par and <<>> NaN. *)

Par(x) == IF x = <<>> THEN 100 ELSE x[1]

Phase(ratio, momentum) ==
    CASE ratio >= 100 /\ momentum >= 100 -> "leading"
      [] ratio >= 100 /\ momentum < 100  -> "weakening"
      [] ratio < 100 /\ momentum < 100   -> "lagging"
      [] OTHER                           -> "improving"

PhaseRank(phase) ==
    CASE phase = "leading" -> 0 [] phase = "improving" -> 1 [] phase = "weakening" -> 2 [] OTHER -> 3

SectorSignal(q, s) ==
    [sector |-> s, ratio |-> Par(q.sectors[s].ratio),
     phase |-> Phase(Par(q.sectors[s].ratio), Par(q.sectors[s].momentum))]

Stronger(a, b) ==
    \/ PhaseRank(a.phase) < PhaseRank(b.phase)
    \/ PhaseRank(a.phase) = PhaseRank(b.phase) /\ a.ratio > b.ratio

\* Without ten days of the benchmark there is nothing to say; a sector with too few days
\* in common counts as data and is not ranked.
ComputeSectorRotation(q) ==
    LET priced == {s \in DOMAIN q.sectors : q.sectors[s].prices # "none"}
        ranked == SortSeq(SetToSortSeq({SectorSignal(q, s) : s \in {x \in priced : q.sectors[x].prices = "enough"}},
                                       LAMBDA a, b : a.sector < b.sector), Stronger)
        promising == SelectSeq(ranked, LAMBDA x : x.phase \in {"leading", "improving"})
    IN IF ~q.benchmark THEN [ranked |-> <<>>, top |-> <<>>, avoid |-> {}, quality |-> 0]
       ELSE [ranked |-> ranked,
             top |-> SubSeq(promising, 1, Min({TopSectors, Len(promising)})),
             avoid |-> {x.sector : x \in {y \in Range(ranked) : y.phase = "lagging"}},
             quality |-> Cardinality(priced)]

SectorStates ==
    [prices: {"none", "few"}, ratio: {<<>>}, momentum: {<<>>}]
    \union [prices: {"enough"}, ratio: {<<97>>, <<99>>, <<100>>, <<104>>, <<>>}, momentum: {<<98>>, <<101>>, <<>>}]

RotationQuestions ==
    [topic: {"rotation"}, benchmark: {TRUE}, sectors: [1..3 -> SectorStates]]
    \union [topic: {"rotation"}, benchmark: {FALSE}, sectors: [1..2 -> SectorStates]]

AnswerRotation == Reply("rotation", ComputeSectorRotation(asked))

MonitorQuestions ==
    QualityQuestions \union CohortQuestions \union PerformanceQuestions \union RotationQuestions

MonitorAnswers == AnswerQuality \/ AnswerCohort \/ AnswerPerformance \/ AnswerRotation

--------------------------------------------------------------------------------
(* Properties. *)

\* A day without bars, or with too few, is never passed in silence, whatever else is wrong;
\* every symbol with inverted extremes is named; and what is mailed was stored before
\* (run_quality_check, data_quality_failed).
BadDaysAreReported ==
    Answered("quality") =>
        LET here == {s \in DOMAIN asked.bars : asked.bars[s] # "none"}
        IN /\ 5 * Cardinality(here) < 4 * UniverseSize => answer[1].mailed # {}
           /\ {s \in here : asked.bars[s] = "inverted"}
                = UNION {Range(f.symbol) : f \in answer[1].mailed}
           /\ answer[1].mailed \subseteq answer[1].stored
           /\ {f \in answer[1].stored : ~f.passed} = {} =>
                /\ 10 * Cardinality(here) >= 9 * UniverseSize /\ asked.age # <<>>
                /\ \A s \in here : asked.bars[s] = "good"

\* Serving and training agree on what a collapse is: a cohort that raises the alarm would
\* not have passed the gate, and one that fails the gate without it was wrong in at least
\* three of five (alerts.py, "so serving and training agree").
AlarmAndGateAgree ==
    Answered("cohort") =>
        /\ answer[1].alarm => answer[1].rejected
        /\ answer[1].rejected /\ ~answer[1].alarm => 5 * asked.right < 2 * CohortSize(asked.counts)
        /\ answer[1].alarm => Cardinality({d \in Directions : 2 * asked.counts[d] > CohortSize(asked.counts)}) = 1

\* The report compares predictions with one another and never with the calendar: the same
\* rows a year later ask for the same, and no window holds less than a shorter one.
JudgedByTheNewestRow ==
    Answered("performance") =>
        /\ Evaluate({[x EXCEPT !.day = @ + 365] : x \in asked.rows}) = answer[1]
        /\ asked.rows # {} => \A v, w \in RollingWindows : v <= w =>
             /\ 0 < answer[1].snapshots[v].n /\ answer[1].snapshots[v].n <= answer[1].snapshots[w].n
             /\ answer[1].snapshots[v].earned <= answer[1].snapshots[v].traded

\* The recommended sectors are the head of the ranking and none of them is to avoid; a
\* sector nobody could measure is at par, and the ranking holds no sector without prices
\* (compute_sector_rotation).
RecommendedLeadTheRanking ==
    Answered("rotation") =>
        /\ IsPrefix(answer[1].top, answer[1].ranked)
        /\ {x.sector : x \in Range(answer[1].top)} \cap answer[1].avoid = {}
        /\ Len(answer[1].ranked) <= answer[1].quality
        /\ \A i, j \in DOMAIN answer[1].ranked : i < j => ~Stronger(answer[1].ranked[j], answer[1].ranked[i])
        /\ \A i \in DOMAIN answer[1].ranked :
             /\ asked.sectors[answer[1].ranked[i].sector].prices = "enough"
             /\ asked.sectors[answer[1].ranked[i].sector].ratio = <<>> => answer[1].ranked[i].phase \in {"leading", "weakening"}
================================================================================
