------------------------ MODULE LiveExecution_proofs ------------------------
(***************************************************************************)
(* Proofs about LiveExecution, for every set of symbols and signals, every *)
(* configuration of the caps and every number of faults, restarts and      *)
(* days: type correctness, the truth of /status about a manual halt, the   *)
(* redundancy of the drawdown limit, the accounting of daily exposure, the *)
(* daily exposure cap and the gate every entry passes.                     *)
(***************************************************************************)
EXTENDS LiveExecution, FiniteSetTheorems, TLAPS

-----------------------------------------------------------------------------
(* The operators the actions are built from *)

\* The loss that execute_plan hands to the kill switch is a whole number of
\* percents.
LEMMA LossIsInt ==
    ASSUME OrderManagerTypeOK
    PROVE  LossFromPeakPct \in Int
  <1>1. (peakEquity - equity) * 100 \in Int /\ peakEquity \in Int /\ peakEquity > 0
    BY DEF OrderManagerTypeOK
  <1> QED
    BY <1>1 DEF LossFromPeakPct

PlanType == [symbol: Symbol, side: Side, quantity: Nat, price: Nat, value: Int,
             pct: Nat, bracketed: BOOLEAN]

\* What compute_plan returns, when it returns a plan, is a well-formed plan.
LEMMA ComputePlanType ==
    ASSUME OrderManagerTypeOK, NEW signal \in Signal, ComputePlan(signal) # NoPlan
    PROVE  ComputePlan(signal) \in PlanType
  <1> DEFINE pct   == IF signal.sizePct <= MaxPositionPct THEN signal.sizePct ELSE MaxPositionPct
             value == (equity * pct) \div 100
             lots  == value \div signal.price
             qty   == IF lots >= 1 THEN lots ELSE 1
  <1>1. /\ signal.symbol \in Symbol
        /\ signal.sizePct \in Nat
        /\ signal.price \in Nat
        /\ signal.bracketed \in BOOLEAN
    BY LiveExecutionConfig
  <1>2. ~(signal.price <= 0 \/ signal.sizePct <= 0)
    BY DEF ComputePlan
  <1>3. pct \in Nat
    BY <1>1, OrderManagerConfig
  <1>4. equity * pct \in Int
    BY <1>3 DEF OrderManagerTypeOK
  <1>5. value \in Int
    BY <1>4
  <1>6. lots \in Int
    BY <1>1, <1>2, <1>5
  <1>7. qty \in Nat
    BY <1>6
  <1>8. ComputePlan(signal) =
            [symbol |-> signal.symbol,
             side |-> IF signal.direction >= 0 THEN "BUY" ELSE "SELL",
             quantity |-> qty, price |-> signal.price, value |-> value,
             pct |-> pct, bracketed |-> signal.bracketed]
    BY <1>2 DEF ComputePlan
  <1> HIDE DEF pct, value, lots, qty
  <1> QED
    BY <1>1, <1>3, <1>5, <1>7, <1>8 DEF PlanType, Side

\* A check that reports no reason has found the engine armed, not halted by
\* hand, and every number it was given strictly inside its limit.
LEMMA PassedCheck ==
    ASSUME NEW plan, NEW n, CheckPlan(plan, n), ~Halted(haltReasons')
    PROVE  /\ enabled
           /\ ~manuallyHalted
           /\ ~(n >= MaxPositions)
           /\ ~(ExposureToday + plan.pct >= MaxDailyExposure)
           /\ ~(-LossFromPeakPct <= -DailyLossLimit)
  BY Zenon DEF CheckPlan, Check, Tripped, Halted, HaltReason

-----------------------------------------------------------------------------
(* Type correctness *)

LEMMA InitType == Init => TypeOK
  <1> SUFFICES ASSUME Init PROVE TypeOK
    OBVIOUS
  <1> USE DEF Init
  <1>1. KillSwitchTypeOK
    BY DEF KillSwitchInit, KillSwitchTypeOK
  <1>2. OrderManagerTypeOK
    BY OrderManagerConfig DEF OrderManagerInit, OrderManagerTypeOK
  <1>3. KiteBrokerTypeOK
    BY DEF KiteBrokerInit, KiteBrokerTypeOK
  <1>4. placedPct \in [Day -> Nat] /\ uncounted \in [Day -> Nat]
    OBVIOUS
  <1> QED
    BY <1>1, <1>2, <1>3, <1>4 DEF TypeOK

\* RecordDaily is all that execute_plan does to the state of the OMS.
LEMMA RecordDailyType ==
    ASSUME OrderManagerTypeOK, NEW pct \in Nat, RecordDaily(pct)
    PROVE  OrderManagerTypeOK'
  BY DEF OrderManagerTypeOK, RecordDaily, ExposureToday

LEMMA CheckPlanType ==
    ASSUME KillSwitchTypeOK, NEW plan, NEW n, CheckPlan(plan, n)
    PROVE  KillSwitchTypeOK'
  BY DEF KillSwitchTypeOK, CheckPlan, Check, Tripped

LEMMA PlaceOrdersType ==
    ASSUME KiteBrokerTypeOK, NEW new, new \subseteq Order, PlaceOrders(new)
    PROVE  orders' \subseteq Order /\ calls' \in Nat
  BY DEF KiteBrokerTypeOK, PlaceOrders

LEMMA ExecuteSignalType ==
    ASSUME TypeOK, NEW signal \in Signal, ExecuteSignal(signal)
    PROVE  TypeOK'
  <1> DEFINE plan == ComputePlan(signal)
             entry == NewOrder(plan.symbol, plan.side, plan.quantity, plan.price, "entry")
  <1> USE DEF TypeOK
  <1>1. plan \in PlanType
    BY ComputePlanType DEF ExecuteSignal
  <1> HIDE DEF plan
  <1>2. entry \in Order
    BY <1>1 DEF NewOrder, Order, PlanType, Side, Status, KiteBrokerTypeOK
  <1>3. today \in Day
    BY DEF OrderManagerTypeOK, Day
  <1>4. CASE PositionsUnavailable
    BY <1>4, RecordDailyType
    DEF PositionsUnavailable, killSwitchVars, exchangeVars, historyVars, KillSwitchTypeOK,
        KiteBrokerTypeOK
  <1>5. CASE BlockPlan(plan)
    BY <1>5, RecordDailyType, CheckPlanType
    DEF BlockPlan, exchangeVars, KiteBrokerTypeOK
  <1>6. CASE LosePlan(plan)
    <2>1. KillSwitchTypeOK' /\ OrderManagerTypeOK'
      BY <1>6, RecordDailyType, CheckPlanType DEF LosePlan
    <2>2. KiteBrokerTypeOK'
      BY <1>6, <1>2, PlaceOrdersType DEF LosePlan, exchangeVars, KiteBrokerTypeOK
    <2>3. placedPct' \in [Day -> Nat] /\ uncounted' \in [Day -> Nat]
      BY <1>6, <1>1, <1>3 DEF LosePlan, PlanType
    <2> QED
      BY <1>6, <2>1, <2>2, <2>3 DEF LosePlan
  <1>7. CASE PlacePlan(plan)
    <2>1. KillSwitchTypeOK' /\ OrderManagerTypeOK'
      BY <1>7, <1>1, RecordDailyType, CheckPlanType DEF PlacePlan, PlanType
    <2>2. gtts' \subseteq [call: Nat, symbol: Symbol, quantity: Nat]
      BY <1>7, <1>1 DEF PlacePlan, CreateGttOco, PlanType, KiteBrokerTypeOK
    <2>3. KiteBrokerTypeOK'
      BY <1>7, <1>2, <2>2, PlaceOrdersType DEF PlacePlan, KiteBrokerTypeOK
    <2>4. placedPct' \in [Day -> Nat]
      BY <1>7, <1>1, <1>3 DEF PlacePlan, PlanType
    <2> QED
      BY <1>7, <2>1, <2>3, <2>4 DEF PlacePlan
  <1> QED
    BY <1>4, <1>5, <1>6, <1>7 DEF ExecuteSignal, plan

LEMMA PanicType == ASSUME TypeOK, OperatorPanic PROVE TypeOK'
  <1> USE DEF TypeOK
  <1>1. KillSwitchTypeOK'
    BY DEF OperatorPanic, Halt, KillSwitchTypeOK, HaltReason
  <1>2. OrderManagerTypeOK'
    BY DEF OperatorPanic, omsVars, OrderManagerTypeOK
  <1>3. PICK sold \in SUBSET Held :
            /\ IF sold = {} THEN UNCHANGED <<orders, calls>>
               ELSE PlaceOrders({NewOrder(s, "SELL", net[s], 0, "flatten") : s \in sold})
            /\ UNCHANGED <<net, gtts>>
    BY DEF OperatorPanic, FlattenAll
  <1>4. {NewOrder(s, "SELL", net[s], 0, "flatten") : s \in sold} \subseteq Order
    BY <1>3 DEF Held, NewOrder, Order, Status, KiteBrokerTypeOK
  <1>5. KiteBrokerTypeOK'
    <2>1. CASE sold = {}
      BY <1>3, <2>1 DEF KiteBrokerTypeOK
    <2>2. CASE sold # {}
      BY <1>3, <1>4, <2>2, PlaceOrdersType DEF KiteBrokerTypeOK
    <2> QED
      BY <2>1, <2>2
  <1> QED
    BY <1>1, <1>2, <1>5 DEF OperatorPanic

\* The exchange's own steps keep the types of its book.
LEMMA ExchangeType ==
    ASSUME KiteBrokerTypeOK,
           \/ \E o \in orders : FillOrder(o) \/ RejectOrder(o)
           \/ \E g \in gtts : TriggerGtt(g)
    PROVE  KiteBrokerTypeOK'
  <1>1. ASSUME NEW o \in orders, FillOrder(o)
        PROVE  KiteBrokerTypeOK'
    <2>1. o \in Order
      BY DEF KiteBrokerTypeOK
    <2>2. [o EXCEPT !.status = "COMPLETE"] \in Order
      BY <2>1 DEF Order, Status
    <2>3. net' \in [Symbol -> Int]
      BY <1>1, <2>1 DEF FillOrder, KiteBrokerTypeOK, Order
    <2> QED
      BY <1>1, <2>2, <2>3 DEF FillOrder, KiteBrokerTypeOK
  <1>2. ASSUME NEW o \in orders, RejectOrder(o)
        PROVE  KiteBrokerTypeOK'
    <2>1. [o EXCEPT !.status = "REJECTED"] \in Order
      BY DEF Order, Status, KiteBrokerTypeOK
    <2> QED
      BY <1>2, <2>1 DEF RejectOrder, KiteBrokerTypeOK
  <1>3. ASSUME NEW g \in gtts, TriggerGtt(g)
        PROVE  KiteBrokerTypeOK'
    <2>1. {NewOrder(g.symbol, "SELL", g.quantity, 0, "bracket")} \subseteq Order
      BY DEF NewOrder, Order, Status, KiteBrokerTypeOK
    <2> QED
      BY <1>3, <2>1, PlaceOrdersType DEF TriggerGtt, KiteBrokerTypeOK
  <1> QED
    BY <1>1, <1>2, <1>3

LEMMA NextType == TypeOK /\ [Next]_vars => TypeOK'
  <1> SUFFICES ASSUME TypeOK, [Next]_vars PROVE TypeOK'
    OBVIOUS
  <1> USE DEF TypeOK
  <1>1. ASSUME NEW signal \in Signal, ExecuteSignal(signal) PROVE TypeOK'
    BY <1>1, ExecuteSignalType
  <1>2. CASE OperatorHalt
    BY <1>2 DEF OperatorHalt, Halt, KillSwitchTypeOK, HaltReason, omsVars, OrderManagerTypeOK,
                exchangeVars, KiteBrokerTypeOK, historyVars
  <1>3. CASE OperatorResume
    BY <1>3 DEF OperatorResume, Resume, KillSwitchTypeOK, omsVars, OrderManagerTypeOK,
                exchangeVars, KiteBrokerTypeOK
  <1>4. CASE OperatorPanic
    BY <1>4, PanicType
  <1>5. ASSUME NEW value \in EquityLevel, MarkEquity(value) PROVE TypeOK'
    <2>1. value \in Nat \ {0}
      BY LiveExecutionConfig
    <2> QED
      BY <1>5, <2>1 DEF MarkEquity, SetEquity, KillSwitchTypeOK, killSwitchVars,
                        OrderManagerTypeOK, exchangeVars, KiteBrokerTypeOK, historyVars
  <1>6. CASE MidnightPasses
    <2>1. KillSwitchTypeOK' /\ KiteBrokerTypeOK'
      BY <1>6 DEF MidnightPasses, KillSwitchTypeOK, killSwitchVars, exchangeVars,
                  KiteBrokerTypeOK
    <2>2. OrderManagerTypeOK'
      BY <1>6, OrderManagerConfig DEF MidnightPasses, NextDay, OrderManagerTypeOK
    <2> QED
      BY <1>6, <2>1, <2>2 DEF MidnightPasses, historyVars
  <1>7. CASE ExchangeFills \/ ExchangeRejects \/ BracketFires
    <2>1. KiteBrokerTypeOK'
      BY <1>7, ExchangeType DEF ExchangeFills, ExchangeRejects, BracketFires
    <2>2. UNCHANGED <<killSwitchVars, omsVars, restarts, historyVars>>
      BY <1>7 DEF ExchangeFills, ExchangeRejects, BracketFires
    <2> QED
      BY <2>1, <2>2 DEF KillSwitchTypeOK, killSwitchVars, OrderManagerTypeOK, omsVars,
                        historyVars
  <1>8. CASE Restart
    <2>1. KillSwitchTypeOK'
      BY <1>8 DEF Restart, KillSwitchTypeOK
    <2>2. OrderManagerTypeOK'
      BY <1>8 DEF Restart, OrderManagerTypeOK
    <2>3. KiteBrokerTypeOK'
      BY <1>8 DEF Restart, exchangeVars, KiteBrokerTypeOK
    <2>4. ExposureToday \in Nat /\ today \in Day
      BY DEF ExposureToday, OrderManagerTypeOK, Day
    <2>5. uncounted' \in [Day -> Nat]
      BY <1>8, <2>4 DEF Restart
    <2> QED
      BY <1>8, <2>1, <2>2, <2>3, <2>5 DEF Restart
  <1>9. CASE UNCHANGED vars
    BY <1>9 DEF vars, KillSwitchTypeOK, killSwitchVars, OrderManagerTypeOK, omsVars,
                exchangeVars, KiteBrokerTypeOK, historyVars
  <1> QED
    BY <1>1, <1>2, <1>3, <1>4, <1>5, <1>6, <1>7, <1>8, <1>9 DEF Next

\* Every reachable state of the live engine is well typed; in particular the
\* equity never exceeds its recorded peak and the OMS date never runs ahead.
THEOREM TypeCorrect == Spec => []TypeOK
  <1> QED
    BY InitType, NextType, PTL DEF Spec

-----------------------------------------------------------------------------
(* The kill switch *)

\* What execute_plan does to the kill switch: nothing, or one check().
LEMMA ExecuteSignalChecks ==
    ASSUME NEW signal \in Signal, ExecuteSignal(signal)
    PROVE  \/ UNCHANGED killSwitchVars
           \/ \E plan, n : CheckPlan(plan, n)
  BY DEF ExecuteSignal, PositionsUnavailable, BlockPlan, LosePlan, PlacePlan

\* A kill switch formula survives a step when it survives the four ways a step
\* can write the switch: a check, a halt, a resume, a restart.
LEMMA SwitchSteps ==
    ASSUME [Next]_vars
    PROVE  \/ UNCHANGED killSwitchVars
           \/ \E plan, n : CheckPlan(plan, n)
           \/ Halt
           \/ Resume
           \/ manuallyHalted' = FALSE /\ haltReasons' = {}
  <1>1. ASSUME NEW signal \in Signal, ExecuteSignal(signal)
        PROVE  UNCHANGED killSwitchVars \/ \E plan, n : CheckPlan(plan, n)
    BY <1>1, ExecuteSignalChecks
  <1>2. CASE OperatorHalt \/ OperatorPanic
    BY <1>2 DEF OperatorHalt, OperatorPanic
  <1>3. CASE OperatorResume
    BY <1>3 DEF OperatorResume
  <1>4. CASE Restart
    BY <1>4 DEF Restart
  <1>5. CASE \/ \E value \in EquityLevel : MarkEquity(value)
             \/ MidnightPasses
             \/ ExchangeFills
             \/ ExchangeRejects
             \/ BracketFires
             \/ UNCHANGED vars
    BY <1>5 DEF MarkEquity, MidnightPasses, ExchangeFills, ExchangeRejects, BracketFires, vars
  <1> QED
    BY <1>1, <1>2, <1>3, <1>4, <1>5 DEF Next

\* /status never reports an engine without MANUAL_HALT while a manual halt is
\* in force (kill_switch.py, check and halt).
THEOREM ManualHaltIsShown == Spec => []StatusShowsManualHalt
  <1>1. Init => StatusShowsManualHalt
    BY DEF Init, KillSwitchInit, StatusShowsManualHalt
  <1>2. StatusShowsManualHalt /\ [Next]_vars => StatusShowsManualHalt'
    <2> SUFFICES ASSUME StatusShowsManualHalt, [Next]_vars
                 PROVE  StatusShowsManualHalt'
      OBVIOUS
    <2> USE DEF StatusShowsManualHalt
    <2>1. CASE UNCHANGED killSwitchVars
      BY <2>1 DEF killSwitchVars
    <2>2. ASSUME NEW plan, NEW n, CheckPlan(plan, n)
          PROVE  StatusShowsManualHalt'
      BY <2>2, Zenon DEF CheckPlan, Check, Tripped, HaltReason
    <2>3. CASE Halt
      BY <2>3 DEF Halt
    <2>4. CASE Resume \/ (manuallyHalted' = FALSE /\ haltReasons' = {})
      BY <2>4 DEF Resume
    <2> QED
      BY SwitchSteps, <2>1, <2>2, <2>3, <2>4
  <1> QED
    BY <1>1, <1>2, PTL DEF Spec

\* The drawdown limit never decides anything: execute_plan (oms.py) measures
\* the daily P&L from the peak too, so a drawdown halt is a daily-loss halt.
THEOREM DrawdownIsRedundant == Spec => []DrawdownNeverAlone
  <1>1. Init => DrawdownNeverAlone
    BY DEF Init, KillSwitchInit, DrawdownNeverAlone
  <1>2. TypeOK /\ DrawdownNeverAlone /\ [Next]_vars => DrawdownNeverAlone'
    <2> SUFFICES ASSUME TypeOK, DrawdownNeverAlone, [Next]_vars
                 PROVE  DrawdownNeverAlone'
      OBVIOUS
    <2> USE DEF DrawdownNeverAlone
    <2>1. CASE UNCHANGED killSwitchVars
      BY <2>1 DEF killSwitchVars
    <2>2. ASSUME NEW plan, NEW n, CheckPlan(plan, n)
          PROVE  DrawdownNeverAlone'
      <3>1. LossFromPeakPct \in Int
        BY LossIsInt DEF TypeOK
      <3>2. LossFromPeakPct >= DrawdownHalt => -LossFromPeakPct <= -DailyLossLimit
        BY <3>1, KillSwitchConfig
      <3>3. "DRAWDOWN" \in haltReasons' => LossFromPeakPct >= DrawdownHalt
        BY <2>2, Zenon DEF CheckPlan, Check, Tripped, HaltReason
      <3>4. -LossFromPeakPct <= -DailyLossLimit => "DAILY_LOSS" \in haltReasons'
        BY <2>2, Zenon DEF CheckPlan, Check, Tripped, HaltReason
      <3> QED
        BY <3>2, <3>3, <3>4
    <2>3. CASE Halt
      BY <2>3 DEF Halt
    <2>4. CASE Resume \/ (manuallyHalted' = FALSE /\ haltReasons' = {})
      BY <2>4 DEF Resume
    <2> QED
      BY SwitchSteps, <2>1, <2>2, <2>3, <2>4
  <1> QED
    BY <1>1, <1>2, TypeCorrect, PTL DEF Spec

-----------------------------------------------------------------------------
(* The daily exposure *)

\* The strengthening: nothing has been placed, nor lost, on a day to come, so
\* midnight finds the new day's accounts empty.
ExposureInv ==
    /\ ExposureAccounted
    /\ \A d \in Day : d > today => placedPct[d] = 0 /\ uncounted[d] = 0

\* After a plan that adds pct, today's counted exposure is pct larger.
LEMMA RecordedExposure ==
    ASSUME OrderManagerTypeOK, NEW pct \in Nat, RecordDaily(pct)
    PROVE  /\ ExposureToday \in Nat
           /\ ExposureToday' = ExposureToday + pct
           /\ today' = today
           /\ today \in Day
  BY DEF RecordDaily, ExposureToday, OrderManagerTypeOK, Day

\* Steps that touch neither the OMS nor the two histories keep the accounts.
LEMMA ExposureUntouched ==
    ASSUME ExposureInv, UNCHANGED <<omsVars, placedPct, uncounted>>
    PROVE  ExposureInv'
  BY DEF ExposureInv, ExposureAccounted, ExposureToday, omsVars, Day

LEMMA ExecuteSignalExposure ==
    ASSUME TypeOK, ExposureInv, NEW signal \in Signal, ExecuteSignal(signal)
    PROVE  ExposureInv'
  <1> DEFINE plan == ComputePlan(signal)
  <1> USE DEF TypeOK, ExposureInv, ExposureAccounted
  <1>1. plan.pct \in Nat
    BY ComputePlanType DEF ExecuteSignal, PlanType
  <1> HIDE DEF plan
  <1>2. CASE RecordDaily(0) /\ UNCHANGED <<placedPct, uncounted>>
    <2>1. today' = today /\ ExposureToday' = ExposureToday /\ ExposureToday \in Nat
      BY <1>2, RecordedExposure
    <2> QED
      BY <1>2, <2>1 DEF Day
  <1>3. CASE /\ RecordDaily(0)
             /\ placedPct' = [placedPct EXCEPT ![today] = @ + plan.pct]
             /\ uncounted' = [uncounted EXCEPT ![today] = @ + plan.pct]
    <2>1. /\ today' = today /\ ExposureToday' = ExposureToday /\ ExposureToday \in Nat
          /\ today \in Day
      BY <1>3, RecordedExposure
    <2>2. /\ placedPct'[today] = placedPct[today] + plan.pct
          /\ uncounted'[today] = uncounted[today] + plan.pct
          /\ placedPct[today] \in Nat
          /\ uncounted[today] \in Nat
      BY <1>3, <2>1
    <2>3. placedPct'[today'] = ExposureToday' + uncounted'[today']
      BY <1>1, <2>1, <2>2
    <2>4. \A d \in Day : d > today => placedPct'[d] = 0 /\ uncounted'[d] = 0
      BY <1>3, <2>1 DEF Day
    <2> QED
      BY <2>1, <2>3, <2>4 DEF Day
  <1>4. CASE PlacePlan(plan)
    <2>1. /\ today' = today /\ ExposureToday' = ExposureToday + plan.pct
          /\ ExposureToday \in Nat /\ today \in Day
      BY <1>1, <1>4, RecordedExposure DEF PlacePlan
    <2>2. placedPct'[today] = placedPct[today] + plan.pct /\ placedPct[today] \in Nat
      BY <1>4, <2>1 DEF PlacePlan
    <2>3. uncounted' = uncounted /\ uncounted[today] \in Nat
      BY <1>4, <2>1 DEF PlacePlan
    <2>4. ExposureToday' < MaxDailyExposure
      <3>1. ~(ExposureToday + plan.pct >= MaxDailyExposure)
        BY <1>4, PassedCheck DEF PlacePlan
      <3> QED
        BY <1>1, <2>1, <3>1, KillSwitchConfig
    <2>5. placedPct'[today'] = ExposureToday' + uncounted'[today']
      BY <1>1, <2>1, <2>2, <2>3
    <2>6. \A d \in Day : d > today => placedPct'[d] = 0 /\ uncounted'[d] = 0
      BY <1>4, <2>1, <2>3 DEF Day, PlacePlan
    <2> QED
      BY <2>1, <2>4, <2>5, <2>6 DEF Day
  <1> QED
    BY <1>2, <1>3, <1>4
    DEF plan, ExecuteSignal, PositionsUnavailable, BlockPlan, LosePlan, historyVars

LEMMA NextExposure == TypeOK /\ ExposureInv /\ [Next]_vars => ExposureInv'
  <1> SUFFICES ASSUME TypeOK, ExposureInv, [Next]_vars PROVE ExposureInv'
    OBVIOUS
  <1>1. ASSUME NEW signal \in Signal, ExecuteSignal(signal) PROVE ExposureInv'
    BY <1>1, ExecuteSignalExposure
  <1>2. CASE MidnightPasses
    <2>1. /\ today' = today + 1 /\ today' \in Day /\ today' > today
          /\ currentDate' # today'
          /\ \A d \in Day : d > today' => d > today
      BY <1>2, OrderManagerConfig DEF MidnightPasses, NextDay, TypeOK, OrderManagerTypeOK, Day
    <2>2. placedPct' = placedPct /\ uncounted' = uncounted
      BY <1>2 DEF MidnightPasses, historyVars
    <2>3. ExposureToday' = 0
      BY <2>1 DEF ExposureToday
    <2> QED
      BY <2>1, <2>2, <2>3, KillSwitchConfig DEF ExposureInv, ExposureAccounted, Day
  <1>3. CASE Restart
    <2>1. /\ ExposureToday' = 0 /\ today' = today /\ today \in Day
          /\ ExposureToday \in Nat
      BY <1>3 DEF Restart, ExposureToday, TypeOK, OrderManagerTypeOK, Day
    <2>2. /\ placedPct' = placedPct
          /\ uncounted'[today] = uncounted[today] + ExposureToday
          /\ uncounted[today] \in Nat
          /\ \A d \in Day : d # today => uncounted'[d] = uncounted[d]
      BY <1>3, <2>1 DEF Restart, TypeOK
    <2>3. placedPct'[today'] = ExposureToday' + uncounted'[today']
      BY <2>1, <2>2 DEF ExposureInv, ExposureAccounted
    <2>4. \A d \in Day : d > today => placedPct'[d] = 0 /\ uncounted'[d] = 0
      BY <2>1, <2>2 DEF ExposureInv, Day
    <2> QED
      BY <2>1, <2>3, <2>4, KillSwitchConfig DEF ExposureInv, ExposureAccounted, Day
  <1>4. CASE \E value \in EquityLevel : MarkEquity(value)
    BY <1>4 DEF MarkEquity, SetEquity, historyVars, ExposureInv, ExposureAccounted,
                ExposureToday, Day
  <1>5. CASE OperatorHalt \/ OperatorResume \/ OperatorPanic
    BY <1>5, ExposureUntouched DEF OperatorHalt, OperatorResume, OperatorPanic, historyVars
  <1>6. CASE ExchangeFills \/ ExchangeRejects \/ BracketFires \/ UNCHANGED vars
    BY <1>6, ExposureUntouched
    DEF ExchangeFills, ExchangeRejects, BracketFires, vars, historyVars
  <1> QED
    BY <1>1, <1>2, <1>3, <1>4, <1>5, <1>6 DEF Next

LEMMA InitExposure == Init => ExposureInv
  BY KillSwitchConfig, OrderManagerConfig
  DEF Init, OrderManagerInit, ExposureInv, ExposureAccounted, ExposureToday, Day

\* Whatever fails and however often the process restarts, today's exposure at
\* the exchange is what the OMS counts, which is under the cap, plus what the
\* failed calls and the restarts hid from it (oms.py, execute_plan).
THEOREM ExposureIsAccounted == Spec => []ExposureAccounted
  <1>1. ExposureInv => ExposureAccounted
    BY DEF ExposureInv
  <1> QED
    BY <1>1, InitExposure, NextExposure, TypeCorrect, PTL DEF Spec

\* DailyExposureCap: on no day do the entries that oms.py places exceed the
\* kill switch's cap by more than what faults and restarts hid from it on that
\* day.  A step that places or hides something does so today, where the books
\* agree and the counted part is under the cap.
THEOREM ExposureIsCapped == Spec => []DailyExposureCap
  <1>1. Init => DailyExposureCap
    BY KillSwitchConfig DEF Init, DailyExposureCap
  <1>2. TypeOK /\ ExposureInv' /\ DailyExposureCap /\ [Next]_vars => DailyExposureCap'
    <2> SUFFICES ASSUME TypeOK, ExposureInv', DailyExposureCap, [Next]_vars
                 PROVE  DailyExposureCap'
      OBVIOUS
    <2> DEFINE OnlyToday == /\ today' = today
                            /\ \A d \in Day : d # today => /\ placedPct'[d] = placedPct[d]
                                                         /\ uncounted'[d] = uncounted[d]
    <2>1. CASE UNCHANGED <<placedPct, uncounted>>
      BY <2>1 DEF DailyExposureCap, Day
    <2>2. CASE OnlyToday
      <3>1. /\ today \in Day
            /\ placedPct'[today] = ExposureToday' + uncounted'[today]
            /\ ExposureToday' < MaxDailyExposure
        BY <2>2 DEF ExposureInv, ExposureAccounted, TypeOK, OrderManagerTypeOK, Day
      <3>2. TypeOK'
        BY NextType
      <3>3. ExposureToday' \in Int /\ uncounted'[today] \in Int
        BY <2>2, <3>1, <3>2 DEF TypeOK, OrderManagerTypeOK, ExposureToday, Day
      <3>4. placedPct'[today] < MaxDailyExposure + uncounted'[today]
        BY <3>1, <3>3, KillSwitchConfig
      <3> QED
        BY <2>2, <3>4 DEF DailyExposureCap, Day
    <2>3. ASSUME NEW signal \in Signal, ExecuteSignal(signal)
          PROVE  OnlyToday \/ UNCHANGED <<placedPct, uncounted>>
      BY <2>3 DEF ExecuteSignal, PositionsUnavailable, BlockPlan, LosePlan, PlacePlan,
                  RecordDaily, historyVars, TypeOK, Day
    <2>4. ASSUME Restart PROVE OnlyToday
      BY <2>4 DEF Restart, TypeOK, Day
    <2>5. CASE ~Restart /\ ~\E signal \in Signal : ExecuteSignal(signal)
      <3>1. UNCHANGED <<placedPct, uncounted>>
        BY <2>5
        DEF Next, OperatorHalt, OperatorResume, OperatorPanic, MarkEquity, MidnightPasses,
            ExchangeFills, ExchangeRejects, BracketFires, vars, historyVars
      <3> QED
        BY <2>1, <3>1
    <2> QED
      BY <2>1, <2>2, <2>3, <2>4, <2>5
  <1> QED
    BY <1>1, <1>2, InitExposure, NextExposure, TypeCorrect, PTL DEF Spec

-----------------------------------------------------------------------------
(* The gate in front of every entry *)

\* No order carries a number that no call has had.
OrdersNumbered == \A o \in orders : o.call <= calls

LEMMA NextNumbered == TypeOK /\ OrdersNumbered /\ [Next]_vars => OrdersNumbered'
  <1> SUFFICES ASSUME TypeOK, OrdersNumbered, [Next]_vars PROVE OrdersNumbered'
    OBVIOUS
  <1>1. orders' \subseteq Order /\ calls \in Nat /\ calls' \in Nat
    BY NextType DEF TypeOK, KiteBrokerTypeOK
  <1>2. CASE \E new : PlaceOrders(new) /\ \A o \in new : o.call = calls + 1
    <2>1. PICK new : PlaceOrders(new) /\ \A o \in new : o.call = calls + 1
      BY <1>2
    <2> QED
      BY <1>1, <2>1 DEF PlaceOrders, OrdersNumbered, TypeOK, KiteBrokerTypeOK, Order
  <1>3. CASE UNCHANGED <<orders, calls>>
    BY <1>3 DEF OrdersNumbered
  <1>4. CASE \E o \in orders : FillOrder(o) \/ RejectOrder(o)
    <2>1. PICK o \in orders : FillOrder(o) \/ RejectOrder(o)
      BY <1>4
    <2>2. /\ calls' = calls
          /\ orders' \subseteq orders \union {[o EXCEPT !.status = "COMPLETE"],
                                             [o EXCEPT !.status = "REJECTED"]}
      BY <2>1 DEF FillOrder, RejectOrder
    <2>3. \A status : [o EXCEPT !.status = status].call = o.call
      BY DEF TypeOK, KiteBrokerTypeOK, Order
    <2> QED
      BY <2>2, <2>3 DEF OrdersNumbered
  <1>5. ASSUME NEW signal \in Signal, ExecuteSignal(signal) PROVE OrdersNumbered'
    <2>1. ASSUME NEW plan,
                 PlaceOrders({NewOrder(plan.symbol, plan.side, plan.quantity, plan.price, "entry")})
          PROVE  \E new : PlaceOrders(new) /\ \A o \in new : o.call = calls + 1
      BY <2>1 DEF NewOrder
    <2> QED
      BY <1>2, <1>3, <1>5, <2>1
      DEF ExecuteSignal, PositionsUnavailable, BlockPlan, LosePlan, PlacePlan, exchangeVars
  <1>6. CASE OperatorPanic
    <2>1. PICK sold \in SUBSET Held :
              IF sold = {} THEN UNCHANGED <<orders, calls>>
              ELSE PlaceOrders({NewOrder(s, "SELL", net[s], 0, "flatten") : s \in sold})
      BY <1>6 DEF OperatorPanic, FlattenAll
    <2>2. \A o \in {NewOrder(s, "SELL", net[s], 0, "flatten") : s \in sold} : o.call = calls + 1
      BY DEF NewOrder
    <2> QED
      BY <1>2, <1>3, <2>1, <2>2
  <1>7. CASE BracketFires
    <2>1. PICK g \in gtts : PlaceOrders({NewOrder(g.symbol, "SELL", g.quantity, 0, "bracket")})
      BY <1>7 DEF BracketFires, TriggerGtt
    <2> QED
      BY <1>2, <2>1 DEF NewOrder
  <1>8. CASE ExchangeFills \/ ExchangeRejects
    BY <1>4, <1>8 DEF ExchangeFills, ExchangeRejects
  <1>9. CASE \/ OperatorHalt
             \/ OperatorResume
             \/ \E value \in EquityLevel : MarkEquity(value)
             \/ MidnightPasses
             \/ Restart
             \/ UNCHANGED vars
    BY <1>3, <1>9
    DEF OperatorHalt, OperatorResume, MarkEquity, MidnightPasses, Restart, vars, exchangeVars
  <1> QED
    BY <1>5, <1>6, <1>7, <1>8, <1>9 DEF Next

\* The open positions can be counted.
LEMMA OpenSymbolsCount == Cardinality(OpenSymbols) \in Nat
  <1>1. IsFiniteSet(OpenSymbols)
    BY KiteBrokerConfig, FS_Subset DEF OpenSymbols
  <1> QED
    BY <1>1, FS_CardinalityType

\* A new entry comes from execute_plan, after a check that found no reason.
LEMMA NewEntryChecked ==
    ASSUME TypeOK, OrdersNumbered, [Next]_vars, NewEntries # {}
    PROVE  \E plan : /\ CheckPlan(plan, Cardinality(OpenSymbols))
                     /\ ~Halted(haltReasons')
  <1>1. ASSUME UNCHANGED orders PROVE FALSE
    <2>1. PICK o \in orders : o.call > calls
      BY <1>1 DEF NewEntries
    <2> QED
      BY <2>1 DEF OrdersNumbered, TypeOK, KiteBrokerTypeOK, Order
  <1>2. ASSUME NEW new, PlaceOrders(new), \A o \in new : o.tag # "entry" PROVE FALSE
    <2>1. PICK o \in orders : o.call > calls
      BY <1>2 DEF NewEntries, PlaceOrders
    <2> QED
      BY <2>1 DEF OrdersNumbered, TypeOK, KiteBrokerTypeOK, Order
  <1>3. ASSUME NEW o \in orders, FillOrder(o) \/ RejectOrder(o) PROVE FALSE
    <2>1. PICK n \in orders' : n.call > calls
      BY DEF NewEntries
    <2>2. /\ [o EXCEPT !.status = "COMPLETE"].call = o.call
          /\ [o EXCEPT !.status = "REJECTED"].call = o.call
      BY DEF TypeOK, KiteBrokerTypeOK, Order
    <2>3. \/ n \in orders
          \/ n = [o EXCEPT !.status = "COMPLETE"]
          \/ n = [o EXCEPT !.status = "REJECTED"]
      BY <1>3, <2>1 DEF FillOrder, RejectOrder
    <2>4. n \in orders \/ n.call = o.call
      BY Zenon, <2>2, <2>3
    <2> QED
      BY <2>1, <2>4 DEF OrdersNumbered, TypeOK, KiteBrokerTypeOK, Order
  <1>4. ~OperatorPanic
    <2> SUFFICES ASSUME OperatorPanic PROVE FALSE
      OBVIOUS
    <2>1. PICK sold \in SUBSET Held :
              IF sold = {} THEN UNCHANGED <<orders, calls>>
              ELSE PlaceOrders({NewOrder(s, "SELL", net[s], 0, "flatten") : s \in sold})
      BY DEF OperatorPanic, FlattenAll
    <2>2. \A o \in {NewOrder(s, "SELL", net[s], 0, "flatten") : s \in sold} : o.tag # "entry"
      BY DEF NewOrder
    <2> QED
      BY <1>1, <1>2, <2>1, <2>2
  <1>5. ~BracketFires
    <2> SUFFICES ASSUME BracketFires PROVE FALSE
      OBVIOUS
    <2>1. PICK g \in gtts : PlaceOrders({NewOrder(g.symbol, "SELL", g.quantity, 0, "bracket")})
      BY DEF BracketFires, TriggerGtt
    <2> QED
      BY <1>2, <2>1 DEF NewOrder
  <1>6. ~ExchangeFills /\ ~ExchangeRejects
    BY <1>3 DEF ExchangeFills, ExchangeRejects
  <1>7. PICK signal \in Signal : ExecuteSignal(signal)
    BY <1>1, <1>4, <1>5, <1>6
    DEF Next, OperatorHalt, OperatorResume, MarkEquity, MidnightPasses, Restart, vars,
        exchangeVars
  <1> QED
    BY <1>1, <1>7
    DEF ExecuteSignal, PositionsUnavailable, BlockPlan, LosePlan, PlacePlan, exchangeVars

\* No entry order leaves the engine while it is disarmed or manually halted,
\* nor with the position count or the loss at its limit: execute_plan (oms.py)
\* places nothing that check() of kill_switch.py has not let through.
THEOREM EntriesAreGated == Spec => EntriesPassTheGate
  <1> DEFINE Inv == TypeOK /\ OrdersNumbered
             Gate == NewEntries # {} =>
                        /\ enabled
                        /\ ~manuallyHalted
                        /\ Cardinality(OpenSymbols) < MaxPositions
                        /\ LossFromPeakPct < DailyLossLimit
  <1>1. Init => OrdersNumbered
    BY DEF Init, KiteBrokerInit, OrdersNumbered
  <1>2. Inv /\ [Next]_vars => Gate
    <2> SUFFICES ASSUME Inv, [Next]_vars, NewEntries # {}
                 PROVE  /\ enabled
                        /\ ~manuallyHalted
                        /\ Cardinality(OpenSymbols) < MaxPositions
                        /\ LossFromPeakPct < DailyLossLimit
      OBVIOUS
    <2>1. PICK plan : /\ CheckPlan(plan, Cardinality(OpenSymbols))
                      /\ ~Halted(haltReasons')
      BY NewEntryChecked
    <2>2. /\ enabled /\ ~manuallyHalted
          /\ ~(Cardinality(OpenSymbols) >= MaxPositions)
          /\ ~(-LossFromPeakPct <= -DailyLossLimit)
      BY <2>1, PassedCheck
    <2>3. LossFromPeakPct \in Int
      BY LossIsInt DEF TypeOK
    <2>4. Cardinality(OpenSymbols) < MaxPositions
      BY <2>2, OpenSymbolsCount, KillSwitchConfig
    <2>5. LossFromPeakPct < DailyLossLimit
      BY <2>2, <2>3, KillSwitchConfig
    <2> QED
      BY <2>2, <2>4, <2>5
  <1>3. Inv /\ [Next]_vars => [Gate]_vars
    BY <1>2
  <1> QED
    BY <1>1, <1>3, NextNumbered, TypeCorrect, PTL DEF Spec, EntriesPassTheGate
=============================================================================
