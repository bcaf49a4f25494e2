--------------------------- MODULE LiveExecution ----------------------------
(***************************************************************************)
(* The execution engine against a live account: OrderManager.execute_plan  *)
(* and flatten_all (execution/oms.py) over the Kite adapter, the operator  *)
(* commands of execution/telegram.py, the calendar, and a restart of the   *)
(* process.  Neither execute_plan nor /panic suspends between its kill     *)
(* switch step and its broker calls (the adapter's SDK calls are           *)
(* synchronous), so each is one step; fills, rejections and brackets       *)
(* happen at the exchange between any two steps.                           *)
(***************************************************************************)
EXTENDS OrderManager, KiteBroker

CONSTANTS
    Signal,        \* the arguments compute_plan is called with
    EquityLevel,   \* the values the equity setter is given
    BrokerFaults,  \* whether SDK calls fail and the exchange rejects orders
    MaxRestarts    \* bound: restarts of the process

ASSUME LiveExecutionConfig ==
    /\ Signal \subseteq [symbol: Symbol, direction: {-1, 1}, sizePct: Nat,
                         price: Nat, bracketed: BOOLEAN]
    /\ EquityLevel \subseteq Nat \ {0}
    /\ BrokerFaults \in BOOLEAN
    /\ MaxRestarts \in Nat

VARIABLES
    restarts,    \* restarts of the process so far
    placedPct,   \* history: per day, position_pct of the entries at the exchange
    uncounted,   \* history: per day, the part of placedPct the OMS does not know
    tripped,     \* history: a check halted the engine and nobody resumed it
    panic        \* history: "no", or how the last /panic since /resume found
                 \* the account: "settled", or "working" with a BUY still open

historyVars == <<placedPct, uncounted, tripped, panic>>
vars == <<killSwitchVars, omsVars, exchangeVars, restarts, historyVars>>

Day == 1..MaxDay
Held == {s \in Symbol : net[s] > 0}
OpenBuys == {o \in orders : o.side = "BUY" /\ o.status = "OPEN"}

TypeOK ==
    /\ KillSwitchTypeOK
    /\ OrderManagerTypeOK
    /\ KiteBrokerTypeOK
    /\ restarts \in Nat
    /\ placedPct \in [Day -> Nat]
    /\ uncounted \in [Day -> Nat]
    /\ tripped \in BOOLEAN
    /\ panic \in {"no", "settled", "working"}

Init ==
    /\ KillSwitchInit
    /\ OrderManagerInit
    /\ KiteBrokerInit
    /\ restarts = 0
    /\ placedPct = [d \in Day |-> 0]
    /\ uncounted = [d \in Day |-> 0]
    /\ tripped = FALSE
    /\ panic = "no"

-----------------------------------------------------------------------------
(* execute_plan *)

\* get_positions raises: only the daily reset has happened.
PositionsUnavailable ==
    /\ BrokerFaults
    /\ RecordDaily(0)
    /\ UNCHANGED <<killSwitchVars, exchangeVars, restarts, historyVars>>

\* The kill switch answers that the engine is halted.
BlockPlan(plan) ==
    /\ CheckPlan(plan, Cardinality(OpenSymbols))
    /\ Halted(haltReasons')
    /\ RecordDaily(0)
    /\ tripped' = TRUE
    /\ UNCHANGED <<exchangeVars, restarts, placedPct, uncounted, panic>>

\* The check passes and place_order raises.  The order may have reached the
\* exchange all the same; the OMS counts it in neither case.
LosePlan(plan) ==
    /\ BrokerFaults
    /\ CheckPlan(plan, Cardinality(OpenSymbols))
    /\ ~Halted(haltReasons')
    /\ RecordDaily(0)
    /\ \/ UNCHANGED <<exchangeVars, placedPct, uncounted>>
       \/ /\ PlaceOrders({NewOrder(plan.symbol, plan.side, plan.quantity, plan.price, "entry")})
          /\ placedPct' = [placedPct EXCEPT ![today] = @ + plan.pct]
          /\ uncounted' = [uncounted EXCEPT ![today] = @ + plan.pct]
          /\ UNCHANGED <<net, gtts>>
    /\ UNCHANGED <<restarts, tripped, panic>>

\* The order is placed and counted, then its bracket is created; when that
\* call raises, the order stays behind without one.
PlacePlan(plan) ==
    /\ CheckPlan(plan, Cardinality(OpenSymbols))
    /\ ~Halted(haltReasons')
    /\ PlaceOrders({NewOrder(plan.symbol, plan.side, plan.quantity, plan.price, "entry")})
    /\ RecordDaily(plan.pct)
    /\ \/ plan.bracketed /\ CreateGttOco(plan.symbol, plan.quantity)
       \/ (BrokerFaults \/ ~plan.bracketed) /\ UNCHANGED gtts
    /\ placedPct' = [placedPct EXCEPT ![today] = @ + plan.pct]
    /\ UNCHANGED <<net, restarts, uncounted, tripped, panic>>

\* A signal is sized and, unless compute_plan returns None, executed.
ExecuteSignal(signal) ==
    LET plan == ComputePlan(signal)
    IN  /\ plan # NoPlan
        /\ \/ PositionsUnavailable
           \/ BlockPlan(plan)
           \/ LosePlan(plan)
           \/ PlacePlan(plan)

-----------------------------------------------------------------------------
(* The operator: /halt, /resume, /panic *)

OperatorHalt ==
    /\ Halt
    /\ UNCHANGED <<omsVars, exchangeVars, restarts, historyVars>>

OperatorResume ==
    /\ Resume
    /\ tripped' = FALSE
    /\ panic' = "no"
    /\ UNCHANGED <<omsVars, exchangeVars, restarts, placedPct, uncounted>>

\* A faulty variant: flatten_all, too, is stopped by the halt.
FlattenAll_Gated == UNCHANGED exchangeVars

\* flatten_all sells the long positions one by one, past the kill switch;
\* when a call raises, the positions after it are left as they are.
FlattenAll ==
    \E sold \in IF BrokerFaults THEN SUBSET Held ELSE {Held} :
        /\ IF sold = {}
           THEN UNCHANGED <<orders, calls>>
           ELSE PlaceOrders({NewOrder(s, "SELL", net[s], 0, "flatten") : s \in sold})
        /\ UNCHANGED <<net, gtts>>

OperatorPanic ==
    /\ Halt
    /\ FlattenAll
    /\ panic' = IF OpenBuys = {} THEN "settled" ELSE "working"
    /\ UNCHANGED <<omsVars, restarts, placedPct, uncounted, tripped>>

-----------------------------------------------------------------------------
(* The world around the engine *)

MarkEquity(value) ==
    /\ SetEquity(value)
    /\ UNCHANGED <<killSwitchVars, exchangeVars, restarts, historyVars>>

MidnightPasses ==
    /\ NextDay
    /\ UNCHANGED <<killSwitchVars, exchangeVars, restarts, historyVars>>

ExchangeFills ==
    /\ \E o \in orders : FillOrder(o)
    /\ UNCHANGED <<killSwitchVars, omsVars, restarts, historyVars>>

ExchangeRejects ==
    /\ BrokerFaults
    /\ \E o \in orders : RejectOrder(o)
    /\ UNCHANGED <<killSwitchVars, omsVars, restarts, historyVars>>

BracketFires ==
    /\ \E g \in gtts : TriggerGtt(g)
    /\ UNCHANGED <<killSwitchVars, omsVars, restarts, historyVars>>

\* The process restarts: a new kill switch and a new OMS, whose equity is
\* the account's; nothing of either was stored.
Restart ==
    /\ restarts < MaxRestarts
    /\ restarts' = restarts + 1
    /\ enabled' \in BOOLEAN
    /\ manuallyHalted' = FALSE
    /\ haltReasons' = {}
    /\ peakEquity' = equity
    /\ currentDate' = 0
    /\ dailyExposure' = 0
    /\ uncounted' = [uncounted EXCEPT ![today] = @ + ExposureToday]
    /\ UNCHANGED <<equity, today, exchangeVars, placedPct, tripped, panic>>

Next ==
    \/ \E signal \in Signal : ExecuteSignal(signal)
    \/ OperatorHalt
    \/ OperatorResume
    \/ OperatorPanic
    \/ \E value \in EquityLevel : MarkEquity(value)
    \/ MidnightPasses
    \/ ExchangeFills
    \/ ExchangeRejects
    \/ BracketFires
    \/ Restart

Spec == Init /\ [][Next]_vars

\* The exchange works every open order, and the engine keeps being offered
\* signals; nothing obliges an operator, the market or a fault to act.
FairSpec ==
    /\ Spec
    /\ WF_vars(ExchangeFills)
    /\ \A signal \in Signal : WF_vars(ExecuteSignal(signal))

-----------------------------------------------------------------------------
(* What the engine keeps *)

\* /status never reports an engine without MANUAL_HALT while a manual halt is
\* in force: check() rebuilds the reasons of kill_switch.py from scratch, and
\* has to find the flag again each time.
StatusShowsManualHalt == manuallyHalted => "MANUAL_HALT" \in haltReasons

\* The drawdown limit never decides anything: execute_plan measures the daily
\* P&L from the peak too, so a drawdown halt is always a daily-loss halt.
DrawdownNeverAlone == "DRAWDOWN" \in haltReasons => "DAILY_LOSS" \in haltReasons

\* The books agree: the exposure that reached the exchange today is what the
\* OMS counts plus what it lost to failed calls and restarts, and the part it
\* counts is under the cap.  So each fault costs at most what it hid.
ExposureAccounted ==
    /\ placedPct[today] = ExposureToday + uncounted[today]
    /\ ExposureToday < MaxDailyExposure

\* The entries placed on any one day stay under the daily exposure cap, but for
\* what a failed call or a restart hid from the OMS on that day.
DailyExposureCap == \A d \in Day : placedPct[d] < MaxDailyExposure + uncounted[d]

NewEntries == {o \in orders' : o.tag = "entry" /\ o.call > calls}

\* No entry order leaves the engine while it is disarmed or manually halted,
\* nor with the position count or the loss from the peak at its limit,
\* whatever was placed, filled, reset or resumed before.
EntriesPassTheGate ==
    [][NewEntries # {} =>
            /\ enabled
            /\ ~manuallyHalted
            /\ Cardinality(OpenSymbols) < MaxPositions
            /\ LossFromPeakPct < DailyLossLimit]_vars

\* When /panic finds no BUY still working and nobody resumes the engine, the
\* account ends without a long position.
SettledPanicFlattens == <>[](panic = "settled") => <>[](Held = {})

-----------------------------------------------------------------------------
(* What the documents say of the engine, and the code does not do *)

\* kill_switch.py: once a limit trips, all new orders are blocked until the
\* engine is manually resumed.
TripHoldsUntilResume == [][NewEntries # {} => ~tripped]_vars
=============================================================================
