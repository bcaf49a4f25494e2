----------------------------- MODULE KillSwitch -----------------------------
(***************************************************************************)
(* The kill switch of the execution engine: execution/kill_switch.py.      *)
(* It holds a manual-halt flag and the list of halt reasons of the last    *)
(* check; every check() rebuilds that list from its arguments.  The        *)
(* percentages are floors: the limits are whole percents, so comparing the *)
(* floor with a limit is the comparison the code makes.                    *)
(***************************************************************************)
EXTENDS Integers

CONSTANTS
    MaxPositions,      \* max_positions
    MaxDailyExposure,  \* max_daily_exposure_pct
    DailyLossLimit,    \* daily_loss_limit_pct
    DrawdownHalt       \* drawdown_halt_pct

\* The fields of KillSwitchConfig are positive, and the daily loss limit is
\* the tighter of the two loss limits, as in the defaults (2% and 6%).
ASSUME KillSwitchConfig ==
    /\ MaxPositions \in Nat \ {0}
    /\ MaxDailyExposure \in Nat \ {0}
    /\ DailyLossLimit \in Nat \ {0}
    /\ DrawdownHalt \in Nat
    /\ DailyLossLimit <= DrawdownHalt

VARIABLES
    enabled,         \* is_enabled: EXECUTION_ENABLED = "1", or ghost_mode
    manuallyHalted,  \* _manually_halted
    haltReasons      \* state.halt_reasons

killSwitchVars == <<enabled, manuallyHalted, haltReasons>>

HaltReason == {"MASTER_DISABLED", "MAX_POSITIONS", "DAILY_EXPOSURE",
               "DAILY_LOSS", "DRAWDOWN", "MANUAL_HALT"}

KillSwitchTypeOK ==
    /\ enabled \in BOOLEAN
    /\ manuallyHalted \in BOOLEAN
    /\ haltReasons \subseteq HaltReason

\* A fresh KillSwitch; the environment flag is whatever the process was given.
KillSwitchInit ==
    /\ enabled \in BOOLEAN
    /\ manuallyHalted = FALSE
    /\ haltReasons = {}

\* Faulty variants of the check: the manual flag forgotten, one position too
\* many, and the sign of the daily P&L turned around.
Tripped_NoManualFlag(openPositions, exposurePct, dailyPnlPct, drawdownPct) ==
    {r \in HaltReason :
        \/ r = "MASTER_DISABLED" /\ ~enabled
        \/ r = "MAX_POSITIONS"   /\ openPositions >= MaxPositions
        \/ r = "DAILY_EXPOSURE"  /\ exposurePct >= MaxDailyExposure
        \/ r = "DAILY_LOSS"      /\ dailyPnlPct <= -DailyLossLimit
        \/ r = "DRAWDOWN"        /\ drawdownPct >= DrawdownHalt}

Tripped_OnePositionMore(openPositions, exposurePct, dailyPnlPct, drawdownPct) ==
    {r \in HaltReason :
        \/ r = "MASTER_DISABLED" /\ ~enabled
        \/ r = "MANUAL_HALT"     /\ manuallyHalted
        \/ r = "MAX_POSITIONS"   /\ openPositions > MaxPositions
        \/ r = "DAILY_EXPOSURE"  /\ exposurePct >= MaxDailyExposure
        \/ r = "DAILY_LOSS"      /\ dailyPnlPct <= -DailyLossLimit
        \/ r = "DRAWDOWN"        /\ drawdownPct >= DrawdownHalt}

\* The reasons check() collects.  The master flag and the manual flag are
\* read from the switch, everything else comes from the caller.
Tripped(openPositions, exposurePct, dailyPnlPct, drawdownPct) ==
    {r \in HaltReason :
        \/ r = "MASTER_DISABLED" /\ ~enabled
        \/ r = "MANUAL_HALT"     /\ manuallyHalted
        \/ r = "MAX_POSITIONS"   /\ openPositions >= MaxPositions
        \/ r = "DAILY_EXPOSURE"  /\ exposurePct >= MaxDailyExposure
        \/ r = "DAILY_LOSS"      /\ dailyPnlPct <= -DailyLossLimit
        \/ r = "DRAWDOWN"        /\ drawdownPct >= DrawdownHalt}

Check(openPositions, exposurePct, dailyPnlPct, drawdownPct) ==
    /\ haltReasons' = Tripped(openPositions, exposurePct, dailyPnlPct, drawdownPct)
    /\ UNCHANGED <<enabled, manuallyHalted>>

\* state.halted is set together with halt_reasons in every method that
\* writes either, so it is the test that the list is not empty.
Halted(reasons) == reasons # {}

Halt ==
    /\ manuallyHalted' = TRUE
    /\ haltReasons' = haltReasons \union {"MANUAL_HALT"}
    /\ UNCHANGED enabled

Resume ==
    /\ manuallyHalted' = FALSE
    /\ UNCHANGED <<enabled, haltReasons>>

ShouldFlatten == haltReasons \intersect {"DAILY_LOSS", "DRAWDOWN"} # {}
=============================================================================
