------------------------------- MODULE PaperDesk -------------------------------
(****************************************************************************)
(* The simulated broker of execution/broker.py, whose operations come in    *)
(* any order, and the shadow run of execution/shadow.py that the scheduler  *)
(* starts on a trading day: plans, kill switch and fills on a new broker,   *)
(* and the ghost fills of the day in the store.  Prices are in thousandths  *)
(* of the market's open, so that a slippage of 0.1% is one unit a share.    *)
(****************************************************************************)
EXTENDS Integers, FiniteSets, FiniteSetsExt, SequencesExt

CONSTANTS DeskSymbols,
          DeskCapital,    \* initial_capital
          MaxDeskOrders,  \* bound: orders of the broker's life
          ShadowTrades,   \* bound: tradeable predictions of a day
          MaxShadowRuns,  \* bound: starts of the shadow job
          DeskTrades      \* the kinds of predictions: [symbol, side, tradeable, priced, opens]

ASSUME DeskAssumption ==
    /\ DeskCapital \in Nat /\ MaxDeskOrders \in Nat /\ IsFiniteSet(DeskSymbols)
    /\ DeskTrades \subseteq [symbol : DeskSymbols, side : {"BUY", "SELL"},
                             tradeable : BOOLEAN, priced : BOOLEAN, opens : BOOLEAN]

VARIABLES deskOrders,   \* _orders, in the order they were placed
          cash,         \* _capital
          shares,       \* quantity of _positions, 0 for a symbol without one
          deskBrackets, \* _gtt_triggers
          oversold,     \* history: shares sold beyond the position, as yet
          slipPaid,     \* history: what slippage has cost
          shadowDay, shadowRuns,
          dayTrades,    \* the predictions stored for shadowDay
          ghostFills    \* rows of shadow_fills: [day, run, trade]

brokerVars == <<deskOrders, cash, shares, deskBrackets, oversold, slipPaid>>
shadowVars == <<shadowDay, shadowRuns, dayTrades, ghostFills>>
deskVars == <<brokerVars, shadowVars>>

--------------------------------------------------------------------------------
(* PaperBroker. *)

SlippageRate(tier) == CASE tier = "large" -> 1 [] tier = "small" -> 5 [] OTHER -> 3

PaperPlace(symbol, side, quantity) ==
    /\ Len(deskOrders) < MaxDeskOrders
    /\ deskOrders' = Append(deskOrders, [symbol |-> symbol, side |-> side,
                                         quantity |-> quantity, status |-> "pending"])
    /\ UNCHANGED <<cash, shares, deskBrackets, oversold, slipPaid, shadowVars>>

\* An order that is not pending raises; OPEN and REJECTED are never set.
PaperModify(i, quantity) ==
    /\ deskOrders[i].status = "pending"
    /\ deskOrders' = [deskOrders EXCEPT ![i].quantity = quantity]
    /\ UNCHANGED <<cash, shares, deskBrackets, oversold, slipPaid, shadowVars>>

PaperCancel(i) ==
    /\ deskOrders[i].status \notin {"filled", "cancelled"}
    /\ deskOrders' = [deskOrders EXCEPT ![i].status = "cancelled"]
    /\ UNCHANGED <<cash, shares, deskBrackets, oversold, slipPaid, shadowVars>>

\* A bracket is 5 above and 3 below the open; it does not know its symbol.
CreateBracket(quantity) ==
    /\ Cardinality(deskBrackets) < 2
    /\ deskBrackets' = deskBrackets \union {[quantity |-> quantity, target |-> 1005, stop |-> 997]}
    /\ UNCHANGED <<deskOrders, cash, shares, oversold, slipPaid, shadowVars>>

CancelBracket(b) ==
    /\ deskBrackets' = deskBrackets \ {b}
    /\ UNCHANGED <<deskOrders, cash, shares, oversold, slipPaid, shadowVars>>

\* check_gtt_triggers drops what the range of any symbol reaches, and sells nothing.
CheckBrackets(high, low) ==
    /\ deskBrackets' = {b \in deskBrackets : high < b.target /\ low > b.stop}
    /\ UNCHANGED <<deskOrders, cash, shares, oversold, slipPaid, shadowVars>>

\* A faulty variant: only what closes the position is paid for.
UpdatePosition_CloseOnly(o, price) ==
    /\ cash' = IF o.side = "BUY" THEN cash - price * o.quantity
               ELSE cash + price * Min({o.quantity, shares[o.symbol]})
    /\ shares' = [shares EXCEPT ![o.symbol] = IF o.side = "BUY" THEN @ + o.quantity
                                              ELSE Max({0, @ - o.quantity})]

\* A sale beyond the position is paid in full and leaves no short position.
UpdatePosition(o, price) ==
    /\ cash' = IF o.side = "BUY" THEN cash - price * o.quantity
                                 ELSE cash + price * o.quantity
    /\ shares' = [shares EXCEPT ![o.symbol] = IF o.side = "BUY" THEN @ + o.quantity
                                              ELSE Max({0, @ - o.quantity})]

SimulateFill(i, tier) ==
    LET o == deskOrders[i]
        slip == SlippageRate(tier)
    IN /\ o.status = "pending"
       /\ deskOrders' = [deskOrders EXCEPT ![i].status = "filled"]
       /\ UpdatePosition(o, IF o.side = "BUY" THEN 1000 + slip ELSE 1000 - slip)
       /\ oversold' = oversold + IF o.side = "BUY" THEN 0 ELSE Max({0, o.quantity - shares[o.symbol]})
       /\ slipPaid' = slipPaid + slip * o.quantity
       /\ UNCHANGED <<deskBrackets, shadowVars>>

--------------------------------------------------------------------------------
(* The shadow run. *)

\* What the loop knows: the exposure the order manager has counted, in percent, the
\* symbols with a position, the fills.  A short fills without opening a position.
\* One plan is 5% of the equity, the caps are 25% and 8 positions; trades that are not
\* tradeable or have no entry price are skipped, plans without an open price stay pending.
ShadowStep(run, t) ==
    IF ~t.tradeable \/ ~t.priced \/ run.exposure + 5 >= 25 \/ Cardinality(run.open) >= 8 THEN run
    ELSE [exposure |-> run.exposure + 5,
          open |-> IF ~t.opens THEN run.open
                   ELSE IF t.side = "BUY" THEN run.open \union {t.symbol}
                   ELSE run.open \ {t.symbol},
          fills |-> IF t.opens THEN Append(run.fills, t) ELSE run.fills]

ShadowRun(trades) ==
    FoldLeft(ShadowStep, [exposure |-> 0, open |-> {}, fills |-> <<>>], trades)

FillsOf(day) == {r \in ghostFills : r.day = day}

\* _run_shadow_cycle, with all fills stored in one transaction or, after a failure or
\* the death of the process, none.
ShadowCycle ==
    /\ shadowRuns < MaxShadowRuns /\ shadowRuns' = shadowRuns + 1
    /\ LET fills == ShadowRun(dayTrades).fills
       IN \/ /\ FillsOf(shadowDay) = {}
             /\ ghostFills' = ghostFills \union
                  {[day |-> shadowDay, run |-> shadowRuns, n |-> i] : i \in DOMAIN fills}
          \/ UNCHANGED ghostFills
    /\ UNCHANGED <<brokerVars, shadowDay, dayTrades>>

\* Predictions of the day, stored before the run or between two.
PredictionStored(t) ==
    /\ Len(dayTrades) < ShadowTrades
    /\ dayTrades' = Append(dayTrades, t)
    /\ UNCHANGED <<brokerVars, shadowDay, shadowRuns, ghostFills>>

ShadowDayEnds ==
    /\ shadowDay < 2
    /\ shadowDay' = shadowDay + 1 /\ dayTrades' = <<>>
    /\ UNCHANGED <<brokerVars, shadowRuns, ghostFills>>

--------------------------------------------------------------------------------

DeskInit ==
    /\ deskOrders = <<>> /\ cash = DeskCapital
    /\ shares = [s \in DeskSymbols |-> 0]
    /\ deskBrackets = {} /\ oversold = 0 /\ slipPaid = 0
    /\ shadowDay = 1 /\ shadowRuns = 0 /\ dayTrades = <<>> /\ ghostFills = {}

BrokerNext ==
    \/ \E s \in DeskSymbols, side \in {"BUY", "SELL"}, q \in 1..2 : PaperPlace(s, side, q)
    \/ \E i \in DOMAIN deskOrders :
         \/ \E q \in 1..2 : PaperModify(i, q)
         \/ PaperCancel(i)
         \/ \E tier \in {"large", "mid", "small"} : SimulateFill(i, tier)
    \/ \E q \in 1..2 : CreateBracket(q)
    \/ \E b \in deskBrackets : CancelBracket(b)
    \/ \E high \in {1001, 1005} : CheckBrackets(high, 999)

ShadowNext ==
    \/ ShadowCycle \/ ShadowDayEnds
    \/ \E t \in DeskTrades : PredictionStored(t)

--------------------------------------------------------------------------------
(* Properties. *)

SharesIn(held) == FoldFunction(+, 0, held)

\* Money and shares agree over every sequence of fills: at the open, cash and positions
\* together are the capital less the slippage, plus the shares sold that nobody had
\* (_update_position pays for those).
DeskBooksBalance ==
    cash + 1000 * SharesIn(shares)
        = DeskCapital + 1000 * oversold - slipPaid

\* The ghost fills of a day are those of one run, however often the job is started
\* and whenever it dies, so they respect the daily cap of the order manager, which
\* begins anew in each run (_run_shadow_cycle, count_shadow_fills).
OneGhostRunADay ==
    \A d \in {1, 2} :
      /\ \A r1, r2 \in FillsOf(d) : r1.run = r2.run
      /\ 5 * Cardinality(FillsOf(d)) < 25

\* The paper account: its books balance, and each day has one shadow run at most.
DeskIsSound == DeskBooksBalance /\ OneGhostRunADay
================================================================================
