----------------------------- MODULE BacktestRules -----------------------------
(****************************************************************************)
(* What the offline judgement of the models rests on: the triple-barrier    *)
(* labels and their weights (labels/), the purged splits of backtest/cpcv,  *)
(* the trade loops of backtest/engine and backtest/walk_forward, and the    *)
(* views of backtest/sim_views.  Days are 1..n; prices are what the         *)
(* comparisons of the code tell apart.                                      *)
(****************************************************************************)
EXTENDS Question, FiniteSets, FiniteSetsExt, SequencesExt

CONSTANTS Hold,     \* max_holding_period, max_holding_days
          Purge,    \* purge_days
          Embargo   \* embargo_days

ASSUME BacktestAssumption ==
    /\ Hold \in Nat \ {0} /\ Purge \in Nat /\ Embargo \in Nat
    /\ Purge >= Hold /\ Embargo >= Hold

--------------------------------------------------------------------------------
(* Labels.  A bar touches the upper barrier, the lower one, both or none. *)

BarLabel(bar) == IF bar = "up" THEN 1 ELSE -1

\* No label while the range is unknown or too small, nor for the last Hold bars.
Labelled(q, t) == q.ranged[t] /\ t + Hold <= Len(q.bars)

\* The first bar that touches a barrier decides; without one, the time barrier does.
TripleBarrier(q) ==
    [t \in {d \in DOMAIN q.bars : Labelled(q, d)} |->
        LET hits == {d \in 1..Hold : q.bars[t + d] # "none"}
        IN IF hits = {} THEN [label |-> 0, days |-> Hold]
           ELSE [label |-> BarLabel(q.bars[t + Min(hits)]), days |-> Min(hits)]]

LabelQuestions ==
    UNION {[topic: {"label"}, bars: [1..5 -> {"none", "up", "down", "both"}],
            ranged: {[d \in 1..5 |-> d > skip]}] : skip \in 0..1}

AnswerLabel == Reply("label", TripleBarrier(asked))

\* Uniqueness: a label is active on the days of its window; a row's weight is the
\* mean of 1/concurrency over them, here times their number and in twelfths, so that
\* 1/1 to 1/4 are whole.
Window(q, i) == i..Min({i + q.days[i] - 1, Len(q.days)})

Concurrency(q, d) ==
    Cardinality({i \in DOMAIN q.days : q.labelled[i] /\ d \in Window(q, i)})

UniquenessSum(q, i) == Summed([d \in Window(q, i) |-> 12 \div Concurrency(q, d)], Window(q, i))

Uniqueness(q) == [i \in {j \in DOMAIN q.days : q.labelled[j]} |-> UniquenessSum(q, i)]

WeightQuestions ==
    [topic: {"weight"}, days: [1..4 -> 1..3], labelled: [1..4 -> BOOLEAN]]

AnswerWeight == Reply("weight", Uniqueness(asked))

--------------------------------------------------------------------------------
(* Purged splits. *)

\* Rows are 0..n-1 as in the code; the last segment takes the remainder.
Segment(q, s) ==
    LET size == q.rows \div q.segments
    IN (s * size)..(IF s < q.segments - 1 THEN (s + 1) * size - 1 ELSE q.rows - 1)

TestRows(q, combo) == UNION {Segment(q, s) : s \in combo}

\* A faulty variant: the embargo follows the last test segment only.
Excluded_LastOnly(q, combo) ==
    UNION {(Min(Segment(q, s)) - Purge)..(Max(Segment(q, s))) : s \in combo}
    \union LET last == Max(TestRows(q, combo)) IN (last + 1)..(last + Embargo)

Excluded(q, combo) ==
    UNION {(Min(Segment(q, s)) - Purge)..(Max(Segment(q, s)) + Embargo) : s \in combo}

\* One split for every choice of test segments, train and test rows.
CpcvSplits(q) ==
    {[test |-> TestRows(q, combo), train |-> (0..(q.rows - 1)) \ Excluded(q, combo)] :
        combo \in kSubset(q.k, 0..(q.segments - 1))}

SplitQuestions == [topic: {"split"}, rows: {24, 26, 29}, segments: {4, 6}, k: {1, 2}]

AnswerSplit == Reply("split", CpcvSplits(asked))

--------------------------------------------------------------------------------
(* Trade loops.  A prediction is 1 for a long with enough confidence, -1 for an    *)
(* exit, 0 for neither.                                                             *)

Flat == [in |-> FALSE, entry |-> 0, held |-> 0, trades |-> <<>>, position |-> <<>>]

\* One bar of the loop; position is what the bar ends with.
TradeBar(s, p) ==
    LET i == Len(s.position) + 1
    IN CASE ~s.in /\ p = 1 ->
              [s EXCEPT !.in = TRUE, !.entry = i, !.held = 0, !.position = Append(@, 1)]
         [] s.in /\ (p = -1 \/ s.held + 1 >= Hold) ->
              [s EXCEPT !.in = FALSE, !.held = @ + 1, !.position = Append(@, 0),
                        !.trades = Append(@, [entry |-> s.entry, exit |-> i])]
         [] s.in /\ p # -1 /\ s.held + 1 < Hold ->
              [s EXCEPT !.held = @ + 1, !.position = Append(@, 1)]
         [] OTHER -> [s EXCEPT !.position = Append(@, 0)]

TradeLoop(predictions) == FoldLeft(TradeBar, Flat, predictions)

\* The days whose return the strategy earns: the position is shifted by a day.
Earning(position) == {i \in DOMAIN position : i > 1 /\ position[i - 1] = 1}

\* run_backtest: the trades of the log and the days of the equity curve.
Backtest(predictions) ==
    LET end == TradeLoop(predictions)
    IN [trades |-> ToSet(end.trades), days |-> Earning(end.position),
        open |-> IF end.in THEN end.entry ELSE 0]

Month == 3

\* _generate_monthly_folds for months of Month days; a first month that began before
\* start is left out.
Folds(start, end) ==
    {[from |-> a, to |-> Min({a + Month - 1, end})] :
        a \in {1 + m * Month : m \in 0..2} \cap start..end}

\* run_walk_forward: each fold is predicted from the days before it and traded alone, so
\* a position that is open at the end of a fold is in no log.
WalkForward(q) ==
    {[from |-> f.from, to |-> f.to, train |-> 1..(f.from - 1),
      trades |-> {[entry |-> t.entry + f.from - 1, exit |-> t.exit + f.from - 1] :
                    t \in ToSet(TradeLoop(SubSeq(q.predictions, f.from, f.to)).trades)}] :
        f \in {g \in Folds(q.start, Len(q.predictions)) : g.from > q.minTrain}}

TradeQuestions ==
    [topic: {"backtest"}, predictions: [1..7 -> {-1, 0, 1}]]
    \union [topic: {"walk"}, predictions: [1..7 -> {-1, 0, 1}], start: {1, 2}, minTrain: {2}]

AnswerBacktest == Reply("backtest", Backtest(asked.predictions))
AnswerWalk == Reply("walk", WalkForward(asked))

--------------------------------------------------------------------------------
(* Views of a simulation. *)

\* build_range_view takes the returns back out of the dated equity; a return is the
\* pair of values around it, and after a value of 0 there is none.
CurveReturns(curve) ==
    [d \in {e \in DOMAIN curve : (IF e = 1 THEN 2 ELSE curve[e - 1]) > 0} |->
        [before |-> IF d = 1 THEN 2 ELSE curve[d - 1], after |-> curve[d]]]

\* The growth over a window: the product of its returns, as a fraction.
RangeView(q) ==
    LET returns == CurveReturns(q.curve)
        days == DOMAIN returns \cap q.from..q.to
    IN [days |-> days,
        num |-> Multiplied([d \in days |-> returns[d].after], days),
        den |-> Multiplied([d \in days |-> returns[d].before], days),
        wins |-> Cardinality({d \in days : returns[d].after > returns[d].before})]

InBucket(v, b) == v >= b[1] /\ v < b[2]

\* _distribution, in percent; 9 stands for infinity.
Buckets == {<<-9, -5>>, <<-5, -3>>, <<-3, -1>>, <<-1, 0>>, <<0, 1>>, <<1, 3>>, <<3, 5>>, <<5, 9>>}

Distribution(net) ==
    [b \in Buckets |-> Cardinality({i \in DOMAIN net : InBucket(net[i], b)})]

ViewQuestions ==
    [topic: {"range"}, curve: [1..4 -> 0..3], from: 1..4, to: 1..4]
    \union [topic: {"buckets"}, net: [1..3 -> -6..6]]

AnswerRange == Reply("range", RangeView(asked))
AnswerBuckets == Reply("buckets", Distribution(asked.net))

BacktestQuestions ==
    LabelQuestions \union WeightQuestions \union SplitQuestions
        \union TradeQuestions \union ViewQuestions

BacktestAnswers ==
    \/ AnswerLabel \/ AnswerWeight \/ AnswerSplit
    \/ AnswerBacktest \/ AnswerWalk \/ AnswerRange \/ AnswerBuckets

--------------------------------------------------------------------------------
(* Properties. *)

\* A win is a win whatever the order of prices inside the bars was: up to the day of
\* a label of 1 no bar touches the lower barrier, and a label of 0 means no touch at
\* all until the time barrier (compute_triple_barrier_labels).
WinsAreCertain ==
    Answered("label") =>
      \A t \in DOMAIN answer[1] :
        LET r == answer[1][t]
            seen == {asked.bars[t + d] : d \in 1..r.days}
        IN /\ r.label = 1 => seen \cap {"down", "both"} = {}
           /\ r.label = 0 <=> seen = {"none"}

\* The weights share out the days: summed over its rows, each day some label is active
\* on counts once, however the windows overlap and whichever rows have no label
\* (_compute_uniqueness_weights).
DaysAreSharedOut ==
    Answered("weight") =>
      Summed(answer[1], DOMAIN answer[1])
        = 12 * Cardinality(UNION {Window(asked, i) : i \in DOMAIN answer[1]})

\* No training label looks at a day a test label looks at, whatever the segments, their
\* remainder and their order; and every row is tested equally often
\* (generate_cpcv_splits with purge and embargo of at least the label horizon).
NoLeakBetweenSplits ==
    Answered("split") =>
      /\ \A s \in answer[1] : \A i \in s.train, j \in s.test :
           (i..(i + Hold)) \cap (j..(j + Hold)) = {}
      /\ \A i, j \in 0..(asked.rows - 1) :
           Cardinality({s \in answer[1] : i \in s.test})
             = Cardinality({s \in answer[1] : j \in s.test})

\* The equity curve and the trade log tell one story: a day's return is earned exactly
\* when it is after an entry and up to the exit of that trade, or of the trade still
\* open; no trade overlaps another or outlives the holding limit (run_backtest).
CurveIsOfTheTrades ==
    Answered("backtest") =>
      LET r == answer[1]
          open == IF r.open = 0 THEN {} ELSE (r.open + 1)..Len(asked.predictions)
      IN /\ r.days = open \union UNION {(t.entry + 1)..t.exit : t \in r.trades}
         /\ \A t \in r.trades : t.exit - t.entry <= Hold
         /\ \A t, u \in r.trades : t = u \/ t.exit < u.entry \/ u.exit < t.entry

\* A fold never trains on or trades outside what its month allows, and no day is in two
\* folds (run_walk_forward, _generate_monthly_folds).
FoldsAreApart ==
    Answered("walk") =>
      \A f \in answer[1] :
        /\ \A t \in f.trades : f.from <= t.entry /\ t.exit <= f.to /\ t.entry \notin f.train
        /\ \A g \in answer[1] : f = g \/ f.to < g.from \/ g.to < f.from

\* The returns of a window multiply to what the curve says: the value at its end over
\* the value before its start, which is the initial capital when it starts at the
\* first point (build_range_view), as long as the curve has not been at 0.
RangeTelescopes ==
    Answered("range") =>
      LET v == answer[1]
          before == IF asked.from = 1 THEN 2 ELSE asked.curve[asked.from - 1]
      IN (asked.from <= asked.to /\ \A d \in 1..4 : asked.curve[d] > 0)
           => v.num * before = v.den * asked.curve[asked.to]

\* Each trade is in one bucket of the histogram, those at an edge too (_distribution).
EveryTradeInOneBucket ==
    Answered("buckets") =>
      Summed(answer[1], Buckets) = Len(asked.net)
================================================================================
