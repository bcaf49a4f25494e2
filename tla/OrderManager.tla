---------------------------- MODULE OrderManager ----------------------------
(***************************************************************************)
(* The order management system of execution/oms.py without its broker:     *)
(* the sizing of a plan, the equity bookkeeping, and the daily state that  *)
(* execute_plan hands to the kill switch.  ShadowExecution and             *)
(* LiveExecution join it with a broker.  The list daily_orders is read     *)
(* only through the sum of its position percentages, which dailyExposure   *)
(* keeps.                                                                  *)
(***************************************************************************)
EXTENDS KillSwitch

CONSTANTS
    InitialEquity,   \* the equity argument of OrderManager
    MaxPositionPct,  \* _MAX_POSITION_PCT
    MaxDay           \* bound: the last day of the model

ASSUME OrderManagerConfig ==
    /\ InitialEquity \in Nat \ {0}
    /\ MaxPositionPct \in Nat \ {0}
    /\ MaxDay \in Nat \ {0}

VARIABLES
    equity,         \* _equity
    peakEquity,     \* _peak_equity
    today,          \* date.today()
    currentDate,    \* OmsState.current_date, 0 before the first plan
    dailyExposure   \* sum of position_pct over OmsState.daily_orders

omsVars == <<equity, peakEquity, today, currentDate, dailyExposure>>

OrderManagerTypeOK ==
    /\ equity \in Nat \ {0}
    /\ peakEquity \in Nat \ {0}
    /\ equity <= peakEquity
    /\ today \in 1..MaxDay
    /\ currentDate \in 0..today
    /\ dailyExposure \in Nat

OrderManagerInit ==
    /\ equity = InitialEquity
    /\ peakEquity = InitialEquity
    /\ today = 1
    /\ currentDate = 0
    /\ dailyExposure = 0

Side == {"BUY", "SELL"}

NoPlan == [symbol |-> "none"]

\* compute_plan: the size is capped, but at least one share is bought, and
\* the value and percentage of the plan are those before that rounding.
ComputePlan(signal) ==
    LET pct   == IF signal.sizePct <= MaxPositionPct THEN signal.sizePct ELSE MaxPositionPct
        value == (equity * pct) \div 100
        lots  == value \div signal.price
    IN  IF signal.price <= 0 \/ signal.sizePct <= 0
        THEN NoPlan
        ELSE [symbol    |-> signal.symbol,
              side      |-> IF signal.direction >= 0 THEN "BUY" ELSE "SELL",
              quantity  |-> IF lots >= 1 THEN lots ELSE 1,
              price     |-> signal.price,
              value     |-> value,
              pct       |-> pct,
              bracketed |-> signal.bracketed]

\* A faulty variant: the peak does not follow the equity.
SetEquity_PeakStuck(value) ==
    /\ equity' = value
    /\ UNCHANGED <<peakEquity, today, currentDate, dailyExposure>>

\* The equity setter.
SetEquity(value) ==
    /\ equity' = value
    /\ peakEquity' = IF value > peakEquity THEN value ELSE peakEquity
    /\ UNCHANGED <<today, currentDate, dailyExposure>>

\* A faulty variant: the daily reset is missing.
ExposureToday_NoReset == dailyExposure

\* The exposure of today's orders once _reset_daily_if_needed has run.
ExposureToday == IF currentDate = today THEN dailyExposure ELSE 0

\* A faulty variant: only the last order is remembered.
RecordDaily_LastOnly(pct) ==
    /\ currentDate' = today
    /\ dailyExposure' = pct
    /\ UNCHANGED <<equity, peakEquity, today>>

\* The state OmsState is left in by a plan that adds pct to today's orders.
RecordDaily(pct) ==
    /\ currentDate' = today
    /\ dailyExposure' = ExposureToday + pct
    /\ UNCHANGED <<equity, peakEquity, today>>

\* Percent of the peak that has been lost, rounded down.  execute_plan uses
\* it twice: as drawdown, and with its sign changed as the daily P&L.
LossFromPeakPct == IF peakEquity > 0 THEN ((peakEquity - equity) * 100) \div peakEquity ELSE 0

\* The reasons the kill switch reports for this plan.
ReasonsFor(plan, openPositions) ==
    Tripped(openPositions, ExposureToday + plan.pct, -LossFromPeakPct, LossFromPeakPct)

CheckPlan(plan, openPositions) ==
    Check(openPositions, ExposureToday + plan.pct, -LossFromPeakPct, LossFromPeakPct)

\* The calendar: date.today() moves to the next day.
NextDay ==
    /\ today < MaxDay
    /\ today' = today + 1
    /\ UNCHANGED <<equity, peakEquity, currentDate, dailyExposure>>
=============================================================================
