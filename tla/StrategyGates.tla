----------------------------- MODULE StrategyGates -----------------------------
(****************************************************************************)
(* Which strategies run and with how much capital: the reviews of           *)
(* gates/reviewer.py, the stages of gates/strategy_lifecycle.py, the tiers  *)
(* of gates/scale_ladder.py and the comparison of gates/live_vs_paper.py.   *)
(* The four are a library; its caller applies the operations in any order.  *)
(****************************************************************************)
EXTENDS Question, FiniteSets, SequencesExt, FiniteSetsExt

CONSTANTS Strategies,
          MaxConcurrent,   \* _MAX_CONCURRENT_STRATEGIES
          MaxWeeks         \* bound: weeks that pass

ASSUME GatesAssumption ==
    IsFiniteSet(Strategies) /\ MaxConcurrent \in Nat \ {0} /\ MaxWeeks \in Nat

VARIABLES stage,      \* strategy -> its stage, or "unregistered"
          failures,   \* strategy -> consecutive_gate_failures
          tier,       \* one strategy's place on the ladder, an index of Tiers
          weeksAtTier,\* its weeks_at_tier
          weeks,      \* how many have passed since it last was in shadow
          advice      \* what the last G1 review recommended, [strategy, what]

gatesVars == <<stage, failures, tier, weeksAtTier, weeks, advice>>

--------------------------------------------------------------------------------
(* Reviews; percents, returns and budgets in basis points. *)

G1Passes(m) ==
    /\ m.cohorts >= 30 /\ m.trades >= 60
    /\ m.expectancy > 0 /\ m.lower > 0
    /\ m.winRate >= 45 /\ m.profitFactor >= 120 /\ m.drawdown > -10
    /\ m.lookahead /\ m.unbroken

G1Recommends(m, prior) ==
    IF G1Passes(m) THEN "promote" ELSE IF prior + 1 >= 2 THEN "retire" ELSE "stay"

Divergence(live, paper) == IF live > paper THEN live - paper ELSE paper - live

\* Without a budget or a paper return there is nothing to compare with.
SlippageOk(live, paper, budget) ==
    budget > 0 /\ paper # 0 => 2 * Divergence(live, paper) <= 3 * budget

G2Passes(m) ==
    /\ m.weeks >= 4 /\ m.fills >= 15
    /\ SlippageOk(m.live, m.paper, m.budget)
    /\ m.breaches = 0 /\ m.unbroken /\ m.missed = 0

\* compare_fills judges live against paper by the mean return of all fills, each
\* signed by its side; fills without a decision price do not count.
FillReturn(f) == LET gain == (10000 * (f.price - f.decided)) \div f.decided
                 IN IF f.side = "BUY" THEN gain ELSE -gain

MeanReturn(fills) ==
    LET priced == SelectSeq(fills, LAMBDA f : f.decided > 0)
    IN IF priced = <<>> THEN 0
       ELSE FoldLeft(LAMBDA sum, f : FillReturn(f) + sum, 0, priced) \div Len(priced)

WithinBudget(live, paper, budget) ==
    2 * Divergence(MeanReturn(live), MeanReturn(paper)) <= 3 * budget

\* What is recorded of a period: the report and a G2 review of its returns.
ComparePeriod(q) ==
    [within |-> WithinBudget(q.live, q.paper, q.budget),
     passes |-> G2Passes([weeks |-> q.weeks, fills |-> 15, breaches |-> q.breaches, missed |-> 0,
                          unbroken |-> TRUE, budget |-> q.budget,
                          live |-> MeanReturn(q.live), paper |-> MeanReturn(q.paper)])]

Fills == [side: {"BUY", "SELL"}, decided: {0, 1000}, price: {998, 1000, 1001}]

GateQuestions ==
    [topic: {"period"}, live: {<<f, g>> : f, g \in Fills}, paper: {<<>>} \union {<<f>> : f \in Fills},
     budget: {0, 10}, weeks: {3, 4}, breaches: {0, 1}]

AnswerPeriod == Reply("period", ComparePeriod(asked))

--------------------------------------------------------------------------------
(* Stages. *)

Active(s) == stage[s] \notin {"unregistered", "retired"}

\* A faulty variant: a retired strategy may be tried again.
Allowed_Revived(from) ==
    CASE from = "hypothesis"  -> {"paper", "retired"}
      [] from = "paper"       -> {"gate_review", "retired"}
      [] from = "gate_review" -> {"live", "paper", "retired"}
      [] from = "live"        -> {"gate_review", "retired"}
      [] from = "retired"     -> {"hypothesis"}
      [] OTHER                -> {}

Allowed(from) ==
    CASE from = "hypothesis"  -> {"paper", "retired"}
      [] from = "paper"       -> {"gate_review", "retired"}
      [] from = "gate_review" -> {"live", "paper", "retired"}
      [] from = "live"        -> {"gate_review", "retired"}
      [] OTHER                -> {}

Register(s) ==
    /\ stage[s] = "unregistered"
    /\ Cardinality({t \in Strategies : Active(t)}) < MaxConcurrent
    /\ stage' = [stage EXCEPT ![s] = "hypothesis"]
    /\ UNCHANGED <<failures, tier, weeksAtTier, weeks, advice>>

AdvanceStage(s) ==
    /\ \E to \in Allowed(stage[s]) : stage' = [stage EXCEPT ![s] = to]
    /\ UNCHANGED <<failures, tier, weeksAtTier, weeks, advice>>

\* A G1 review of a strategy and its record: a result is recorded at any stage, and the
\* second failure in a row retires.  (Failures past 3 are not counted.)
ReviewG1(s, m) ==
    /\ stage[s] # "unregistered"
    /\ advice' = [strategy |-> s, what |-> G1Recommends(m, failures[s])]
    /\ failures' = [failures EXCEPT ![s] = IF G1Passes(m) THEN 0 ELSE Min({@ + 1, 3})]
    /\ stage' = [stage EXCEPT ![s] = IF ~G1Passes(m) /\ failures'[s] >= 2 THEN "retired" ELSE @]
    /\ UNCHANGED <<tier, weeksAtTier, weeks>>

\* retire, and for the strategies that failed twice, monthly_review.
Retire(s) ==
    /\ stage[s] # "unregistered"
    /\ stage' = [stage EXCEPT ![s] = "retired"]
    /\ UNCHANGED <<failures, tier, weeksAtTier, weeks, advice>>

MonthlyReview ==
    /\ stage' = [s \in Strategies |-> IF Active(s) /\ failures[s] >= 2 THEN "retired" ELSE stage[s]]
    /\ UNCHANGED <<failures, tier, weeksAtTier, weeks, advice>>

--------------------------------------------------------------------------------
(* Tiers. *)

Tiers == <<[name |-> "shadow", weeks |-> 0, gate |-> "G1"],
           [name |-> "small_live", weeks |-> 4, gate |-> "G2"],
           [name |-> "medium_live", weeks |-> 4, gate |-> "G2"],
           [name |-> "full_live", weeks |-> 0, gate |-> "G3"]>>

\* The verdict's gate is not looked at.
CanPromote(passed) == tier < Len(Tiers) /\ passed /\ weeksAtTier >= Tiers[tier].weeks

Promote(passed) ==
    /\ CanPromote(passed)
    /\ tier' = tier + 1 /\ weeksAtTier' = 0
    /\ UNCHANGED <<stage, failures, weeks, advice>>

Demote ==
    /\ tier > 1
    /\ tier' = tier - 1 /\ weeksAtTier' = 0
    /\ weeks' = IF tier' = 1 THEN 0 ELSE weeks
    /\ UNCHANGED <<stage, failures, advice>>

\* The caller counts the weeks.
WeekPasses ==
    /\ weeks < MaxWeeks /\ tier > 1
    /\ weeks' = weeks + 1 /\ weeksAtTier' = weeksAtTier + 1
    /\ UNCHANGED <<stage, failures, tier, advice>>

\* Metrics at the thresholds: all met, or one of them just missed.
G1Metrics ==
    LET met == [cohorts |-> 30, trades |-> 60, expectancy |-> 10, lower |-> 1, winRate |-> 45,
                profitFactor |-> 120, drawdown |-> -9, lookahead |-> TRUE, unbroken |-> TRUE]
    IN {met, [met EXCEPT !.lower = 0], [met EXCEPT !.drawdown = -10]}

GatesInit ==
    /\ stage = [s \in Strategies |-> "unregistered"]
    /\ failures = [s \in Strategies |-> 0]
    /\ tier = 1 /\ weeksAtTier = 0 /\ weeks = 0 /\ advice = [strategy |-> "none", what |-> "none"]

GatesNext ==
    \/ MonthlyReview \/ Demote \/ WeekPasses
    \/ \E passed \in BOOLEAN : Promote(passed)
    \/ \E s \in Strategies :
         \/ Register(s) \/ AdvanceStage(s) \/ Retire(s)
         \/ \E m \in G1Metrics : ReviewG1(s, m)

--------------------------------------------------------------------------------
(* Properties. *)

\* Retired is for good: no sequence of calls brings a strategy back, and the place it
\* leaves is the only way to one more than the limit (register, advance,
\* record_gate_result).
RetiredForGood ==
    [][/\ \A s \in Strategies : stage[s] = "retired" => stage'[s] = "retired"
       /\ Cardinality({s \in Strategies : Active(s)'}) <= MaxConcurrent]_stage

\* What a review recommends is what is done: the advice to retire and the automatic
\* retirement count failures alike (GateReviewer, record_gate_result).
AdviceIsDone ==
    [][\A s \in Strategies :
         stage[s] # "retired" /\ failures'[s] > failures[s]
           => (advice'.what = "retire" <=> stage'[s] = "retired")]_gatesVars

\* Full capital takes the weeks of every tier since the strategy was last in shadow:
\* no demotion and promotion in between shortens the way (promote, demote).
CapitalTakesWeeks == \A i \in 2..tier : weeks >= 4 * (i - 2)

\* The report and the gate judge a period alike, up or down, wherever both compare: with
\* a budget and a paper return, a period out of the budget never passes and one within
\* fails for another criterion only (compare_fills, _review_g2).
JudgesAgree ==
    Answered("period") /\ asked.budget > 0 /\ MeanReturn(asked.paper) # 0 =>
      /\ answer[1].passes => answer[1].within
      /\ answer[1].within /\ asked.weeks >= 4 /\ asked.breaches = 0 => answer[1].passes

\* The life of a strategy through gates and scale-up: what the reviews say happens, for good,
\* and no way to full capital is shorter than the weeks it takes.
StrategyLifeIsSound ==
    RetiredForGood /\ AdviceIsDone /\ [](JudgesAgree /\ CapitalTakesWeeks)
================================================================================
