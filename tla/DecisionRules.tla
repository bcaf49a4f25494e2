----------------------------- MODULE DecisionRules -----------------------------
(****************************************************************************)
(* How a prediction becomes a decision: PredictionEngine.predict with its   *)
(* regime overlay and price levels, the composite score, the ranking of a   *)
(* scan, and the risk manager of risk/ applied to a book of holdings, whose *)
(* caller takes over the weights it is given.  Confidence and weights are   *)
(* in percent, moves in basis points, fractions of Kelly in thousandths;    *)
(* what the learned models answer is part of the question.                  *)
(****************************************************************************)
EXTENDS Question, FiniteSets, FiniteSetsExt, SequencesExt

CONSTANTS RiskSymbols,
          SectorOf,     \* symbol -> its sector
          Correlated    \* pairs <<held, new>> above max_correlation

ASSUME DecisionAssumption ==
    /\ IsFiniteSet(RiskSymbols)
    /\ Correlated \subseteq RiskSymbols \X RiskSymbols
    /\ DOMAIN SectorOf = RiskSymbols

VARIABLES weight,     \* symbol -> weight of the holding in tenths of a percent, 0 if none
          bookValue   \* value of the portfolio in percent of its peak

bookVars == <<weight, bookValue>>

--------------------------------------------------------------------------------
(* PredictionEngine.predict. *)

\* The share of Kelly of each regime; an unknown one is treated as sideways.
KellyOf(regime) ==
    CASE regime = "bear" -> 150 [] regime = "high_volatility" -> 50 [] OTHER -> 250

Models == {"xgboost", "lstm", "tft"}

\* Each model answers <<direction>> or fails, <<>>; a failed one counts as direction 0.
Succeeded(q) == {m \in Models : q.models[m] # <<>>}

ModelDirections(q) == {IF q.models[m] = <<>> THEN 0 ELSE q.models[m][1] : m \in Models}

ExpectedMove(magnitude) == IF magnitude < 0 THEN -magnitude ELSE magnitude

\* compute_position_size in tenths of a percent: half of p - q/b, b the move over 2%,
\* capped at 10%.
PositionSize(confidence, move) ==
    IF confidence < 55 \/ move <= 0 THEN 0
    ELSE Min({100, Max({0, (5 * (confidence * move - (100 - confidence) * 200)) \div move})})

\* apply_regime_overlay: the cap of 250, and in a downtrend less size and no longs;
\* without market features there is no trend.
Overlay(q, tradeable) ==
    [kelly |-> IF q.trend = "down" THEN (KellyOf(q.regime) * 3) \div 10 ELSE KellyOf(q.regime),
     tradeable |-> tradeable /\ ~(q.trend = "down" /\ q.direction = 1)]

\* _compute_atr_levels, in half ATRs from the last close; none without an ATR or for a
\* direction of 0.
Levels(q) ==
    IF q.direction = 0 \/ ~q.atr THEN <<>> ELSE <<-3 * q.direction, 4 * q.direction>>

\* _run_meta: a failure of the meta model is a confidence of 0.
MetaConfidence(q) == IF q.meta = <<>> THEN 0 ELSE q.meta[1]

\* Fewer than two models raise; otherwise every check can only take the trade away.
\* The round trip of 0.471% times 1.5 is the least move worth a trade.
Decide(q) ==
    IF Cardinality(Succeeded(q)) < 2 THEN [error |-> TRUE]
    ELSE LET gate == /\ MetaConfidence(q) > 55
                     /\ q.regime = "high_volatility" => Cardinality(ModelDirections(q)) = 1
             overlay == Overlay(q, gate)
         IN [error |-> FALSE,
             tradeable |-> overlay.tradeable /\ ExpectedMove(q.magnitude) > 70,
             size |-> PositionSize(MetaConfidence(q), ExpectedMove(q.magnitude)) * overlay.kelly,
             levels |-> Levels(q)]

DecisionQuestions ==
    [topic: {"decide"}, models: [Models -> {<<-1>>, <<1>>, <<>>}],
     regime: {"bull", "bear", "high_volatility", "unknown"}, trend: {"up", "down"},
     direction: {-1, 0, 1}, magnitude: {-400, -60, 60, 400}, meta: {<<52>>, <<60>>, <<>>},
     atr: BOOLEAN]

AnswerDecision == Reply("decide", Decide(asked))

--------------------------------------------------------------------------------
(* CompositeScorer and StockRanker. *)

ScoreWeights == [technical |-> 25, derivatives |-> 20, macro |-> 15,
                 microstructure |-> 15, news |-> 10, volatility |-> 15]

RegimeAlignment(regime, direction) ==
    CASE regime = "bull" -> 50 + 50 * direction
      [] regime = "bear" -> 50 - 50 * direction
      [] regime = "sideways" -> IF direction = 0 THEN 70 ELSE 40
      [] regime = "high_volatility" -> IF direction = 0 THEN 60 ELSE 30
      [] OTHER -> 50

\* The parts that are there: two always, four when one of their features is finite.
SubScores(q) ==
    [p \in DOMAIN q.features \union {"technical", "macro"} |->
        CASE p = "technical" -> q.confidence
          [] p = "macro" -> RegimeAlignment(q.regime, q.direction)
          [] OTHER -> q.features[p]]

\* The weights of the missing parts are shared by the others.
CompositeScore(q) ==
    LET parts == DOMAIN SubScores(q)
        weighted == [p \in parts |-> ScoreWeights[p] * SubScores(q)[p]]
    IN Summed(weighted, parts) \div Summed(ScoreWeights, parts)

ScoreQuestions ==
    [topic: {"score"}, confidence: {34, 90}, regime: {"bull", "bear", "sideways", "unknown"},
     direction: {-1, 0, 1},
     features: UNION {[P -> {10, 80}] :
                 P \in SUBSET {"derivatives", "microstructure", "news", "volatility"}}]

AnswerScore == Reply("score", CompositeScore(asked))

\* The candidates of one side, best first; equals keep their order.
Candidates(q, direction) ==
    LET ok == SelectSeq(q.predictions, LAMBDA p : /\ p.symbol \notin q.circuit
                                                  /\ p.tradeable /\ p.size > 0
                                                  /\ p.direction = direction)
    IN SortSeq(ok, LAMBDA a, b : a.score > b.score)

Cut(s, n) == SubSeq(s, 1, Min({n, Len(s)}))

Rank(q) == [buy |-> Cut(Candidates(q, 1), q.topN), sell |-> Cut(Candidates(q, -1), q.topN)]

RankedPrediction(symbol) ==
    [symbol: {symbol}, tradeable: {TRUE}, size: {0, 5}, direction: {-1, 1}, score: {40, 70}]
    \union [symbol: {symbol}, tradeable: {FALSE}, size: {5}, direction: {1}, score: {70}]

RankQuestions ==
    [topic: {"rank"}, topN: {1, 2}, circuit: {{}, {"a"}},
     predictions: {<<x, y, z>> : x \in RankedPrediction("a"), y \in RankedPrediction("b"),
                                 z \in RankedPrediction("c")}]

AnswerRank == Reply("rank", Rank(asked))

DecisionQuestionSet == DecisionQuestions \union ScoreQuestions \union RankQuestions
DecisionAnswers == AnswerDecision \/ AnswerScore \/ AnswerRank

--------------------------------------------------------------------------------
(* RiskManager.assess on a book. *)

Holdings == {s \in RiskSymbols : weight[s] > 0}

\* A faulty variant: the cap is compared with the new weight alone.
SectorRoom_Alone(symbol) == 250

\* What the other holdings of the sector leave of its 25%.
SectorRoom(symbol) ==
    250 - Summed(weight, {s \in Holdings \ {symbol} : SectorOf[s] = SectorOf[symbol]})

\* PortfolioConstraints.check for a buy; assess passes no turnover.
Constrained(symbol, size) ==
    IF \E h \in Holdings : <<h, symbol>> \in Correlated THEN 0
    ELSE Min({size, Max({0, SectorRoom(symbol)})})

\* CircuitBreaker: levels at a drawdown of 10, 15 and 20 percent.
BreakerSize(size, value, new) ==
    IF value <= 80 \/ (value <= 85 /\ new) THEN 0
    ELSE IF value <= 90 THEN size \div 2 ELSE size

\* The caller makes the weight of the holding what assess answers.
Assess(symbol, confidence, magnitude) ==
    /\ weight' = [weight EXCEPT ![symbol] =
                    BreakerSize(Constrained(symbol, PositionSize(confidence, magnitude)),
                                bookValue, symbol \notin Holdings)]
    /\ UNCHANGED bookValue

\* Prices move; the weights are what was assigned.
BookMoves(value) == bookValue' = value /\ UNCHANGED weight

BookInit == weight = [s \in RiskSymbols |-> 0] /\ bookValue = 100

BookNext ==
    \/ \E s \in RiskSymbols, c \in {54, 60, 90}, m \in {150, 400} : Assess(s, c, m)
    \/ \E v \in {100, 92, 88, 84, 79} : BookMoves(v)

--------------------------------------------------------------------------------
(* Properties. *)

\* A short is as good as a long: the mirrored prediction, outside a downtrend, is as
\* tradeable, as large, and has its levels on the other side (PredictionEngine.predict).
ShortsMirrorLongs ==
    Answered("decide") /\ asked.trend = "up" =>
      LET mirrored == [asked EXCEPT !.direction = -@, !.magnitude = -@]
          other == Decide(mirrored)
      IN /\ other.error = answer[1].error
         /\ ~other.error => /\ other.tradeable = answer[1].tradeable
                            /\ other.size = answer[1].size
                            /\ other.levels = [i \in DOMAIN answer[1].levels |-> -answer[1].levels[i]]

\* A downtrend only ever takes away: nothing becomes tradeable and nothing larger by it,
\* no long is left, and up or down what the gate rejected stays rejected
\* (apply_regime_overlay, "never enables a trade the gate rejected").
OverlayOnlyRestricts ==
    Answered("decide") /\ ~answer[1].error =>
      LET up == Decide([asked EXCEPT !.trend = "up"])
      IN /\ answer[1].tradeable => up.tradeable /\ MetaConfidence(asked) > 55
         /\ answer[1].tradeable /\ asked.trend = "down" => asked.direction # 1
         /\ answer[1].size <= up.size

\* The score lies between its worst and its best part, whichever features are missing
\* (CompositeScorer.score redistributes the weights).
ScoreIsBetweenItsParts ==
    Answered("score") =>
      LET parts == {SubScores(asked)[p] : p \in DOMAIN SubScores(asked)}
      IN Min(parts) <= answer[1] /\ answer[1] <= Max(parts)

\* Nothing eligible that was left out of a list beats what is in it, and an ineligible
\* prediction is in none (StockRanker.rank).
RankedAreTheBest ==
    Answered("rank") =>
      \A side \in {<<1, answer[1].buy>>, <<-1, answer[1].sell>>} :
        LET listed == ToSet(side[2])
            left == {p \in ToSet(Candidates(asked, side[1])) : p \notin listed}
        IN /\ \A p \in listed : p.direction = side[1] /\ p.tradeable /\ p.size > 0
           /\ \A p \in left : Len(side[2]) = asked.topN /\ \A r \in listed : r.score >= p.score

\* No sequence of assessments, of drawdowns and recoveries puts more than a quarter of
\* the book into one sector (PortfolioConstraints.check, RiskManager.assess).
SectorCapHolds ==
    \A s \in RiskSymbols :
      Summed(weight, {t \in RiskSymbols : SectorOf[t] = SectorOf[s]}) <= 250
================================================================================
