------------------------------ MODULE PairTrading ------------------------------
(****************************************************************************)
(* Spread trading on a pair (signals/pairs.py): the z-score of the spread   *)
(* over a rolling window, the loop that turns it into signals and the loop  *)
(* of the backtest that turns it into trades.  Spreads are integers and the *)
(* hedge ratio is given; the limits are kept as squares, in hundredths, so  *)
(* that a z-score is compared without a root.                               *)
(****************************************************************************)
EXTENDS Integers, Sequences, SequencesExt, FiniteSetsExt

CONSTANTS Spreads,       \* values the spread may take
          PairDays,      \* bound: the days that are looked at
          PairLookback, MinLookback,
          EntrySq, ExitSq, StopSq

ASSUME PairAssumption ==
    /\ Spreads \subseteq Int /\ PairDays \in Nat
    /\ 2 <= MinLookback /\ MinLookback <= PairLookback
    /\ 0 <= ExitSq /\ ExitSq < EntrySq /\ EntrySq < StopSq

VARIABLES spreadDay,    \* the last day both prices may have been there
          spreads,      \* the spread on the days both were
          signals,      \* of generate_signals: [day, type]
          inPosition,
          pairPosition, \* of backtest_pair: << >> or << [day, long, spread] >>
          pairTrades    \* of backtest_pair: [entry, exit, long, change, reason]

pairVars == <<spreadDay, spreads, signals, inPosition, pairPosition, pairTrades>>

SumSeq(s) == FoldSeq(LAMBDA x, y : x + y, 0, s)

\* The deviation of the last value of a window from its mean, and its spread
\* about the mean: << n * (x - mean), n^2 * population variance >>.
ComputeSpread(w) ==
    LET n == Len(w)
    IN  <<n * w[n] - SumSeq(w), n * SumSeq([i \in 1..n |-> w[i] * w[i]]) - SumSeq(w) * SumSeq(w)>>

\* Too few values, or all of them the same: no z-score.
HasZ(w) == Len(w) >= MinLookback /\ ComputeSpread(w)[2] > 0

\* z^2 (with the sample's variance) exceeds sq, or stays below it.
ZBeyond(w, sq) ==
    LET z == ComputeSpread(w) IN z[1] * z[1] * (Len(w) - 1) * 100 > sq * Len(w) * z[2]
ZWithin(w, sq) ==
    LET z == ComputeSpread(w) IN z[1] * z[1] * (Len(w) - 1) * 100 < sq * Len(w) * z[2]
ZPositive(w) == ComputeSpread(w)[1] > 0

PairWindow(s) == SubSeq(s, Max({1, Len(s) - PairLookback + 1}), Len(s))

--------------------------------------------------------------------------------
\* A pass of the loop over the days, in generate_signals.
GenerateSignals(w, day) ==
    LET emit(type) == signals' = Append(signals, [day |-> day, type |-> type])
    IN  IF ~inPosition
          THEN IF ZBeyond(w, EntrySq)
                 THEN emit(IF ZPositive(w) THEN "entry_long_b" ELSE "entry_long_a") /\ inPosition' = TRUE
                 ELSE UNCHANGED <<signals, inPosition>>
          ELSE IF ZWithin(w, ExitSq) THEN emit("exit") /\ inPosition' = FALSE
          ELSE IF ZBeyond(w, StopSq) THEN emit("stop_loss") /\ inPosition' = FALSE
          ELSE UNCHANGED <<signals, inPosition>>

ExitReason(w) ==
    IF ZWithin(w, ExitSq) THEN "exit" ELSE IF ZBeyond(w, StopSq) THEN "stop_loss" ELSE ""

\* The same pass in backtest_pair.
BacktestPair(w, day) ==
    LET spread == w[Len(w)]
    IN  IF pairPosition = <<>>
          THEN /\ pairPosition' = IF ~ZBeyond(w, EntrySq) THEN <<>>
                                  ELSE <<[day |-> day, spread |-> spread,
                                          long |-> IF ZPositive(w) THEN "b" ELSE "a"]>>
               /\ UNCHANGED pairTrades
          ELSE LET held == pairPosition[1]
               IN IF ExitReason(w) = "" THEN UNCHANGED <<pairPosition, pairTrades>>
                  ELSE /\ pairPosition' = <<>>
                       /\ pairTrades' = Append(pairTrades,
                            [entry |-> held.day, exit |-> day, long |-> held.long,
                             change |-> IF held.long = "a" THEN spread - held.spread
                                                           ELSE held.spread - spread,
                             reason |-> ExitReason(w)])

\* A day on which one of the prices is missing takes no part.
PairMissing ==
    /\ spreadDay < PairDays /\ spreadDay' = spreadDay + 1
    /\ UNCHANGED <<spreads, signals, inPosition, pairPosition, pairTrades>>

PairDay(x) ==
    /\ spreadDay < PairDays /\ spreadDay' = spreadDay + 1
    /\ spreads' = Append(spreads, x)
    /\ LET w == PairWindow(spreads')
       IN  IF HasZ(w) THEN GenerateSignals(w, spreadDay') /\ BacktestPair(w, spreadDay')
           ELSE UNCHANGED <<signals, inPosition, pairPosition, pairTrades>>

PairInit ==
    /\ spreadDay = 0 /\ spreads = <<>> /\ signals = <<>> /\ inPosition = FALSE
    /\ pairPosition = <<>> /\ pairTrades = <<>>

PairNext == PairMissing \/ \E x \in Spreads : PairDay(x)

--------------------------------------------------------------------------------
(* Properties. *)

Side(type) == IF type = "entry_long_a" THEN "a" ELSE "b"

\* The two loops over one series tell one story: the trades of the backtest are the
\* signals, taken in pairs, and its open position is the signal left over
\* (generate_signals, backtest_pair).
SignalsAreTheTrades ==
    /\ Len(pairTrades) = Len(signals) \div 2
    /\ \A k \in DOMAIN pairTrades :
         LET t == pairTrades[k] IN
         /\ signals[2 * k - 1].day = t.entry /\ Side(signals[2 * k - 1].type) = t.long
         /\ signals[2 * k] = [day |-> t.exit, type |-> t.reason]
    /\ inPosition <=> pairPosition # <<>>
    /\ inPosition =>
         LET open == signals[Len(signals)]
         IN pairPosition[1].day = open.day /\ pairPosition[1].long = Side(open.type)

================================================================================
