------------------------------- MODULE OpsHealth -------------------------------
(****************************************************************************)
(* The health check of the operations API (api/routes/ops.py): the newest   *)
(* row of a table that an evening job fills on weekdays, and whether it is  *)
(* reported as stale.  A table stamps its rows with the date, or with the   *)
(* time of the filing.  Times are hours, 0 a Monday's midnight.             *)
(****************************************************************************)
EXTENDS Integers, FiniteSetsExt

CONSTANTS JobHour,        \* when the job runs
          LastHealthDay   \* bound

ASSUME HealthAssumption == JobHour \in 0..23 /\ LastHealthDay \in Nat

VARIABLES healthHour,   \* the clock
          rowDate,      \* newest date of the table that stamps dates, a day
          rowTime,      \* newest time of the one that stamps times, an hour
          filledOn      \* history: the days whose job stored rows

healthVars == <<healthHour, rowDate, rowTime, filledOn>>

HealthDay == healthHour \div 24
WeekendDay(d) == d % 7 >= 5

PreviousTradingDay(d) == Max({e \in (d - 3)..(d - 1) : ~WeekendDay(e)})

DateIsStale(latest) == latest < PreviousTradingDay(HealthDay)
TimeIsStale(latest) == healthHour - latest > 26

\* What GET /health lists under problems; nothing on a weekend.
StaleTables ==
    IF WeekendDay(HealthDay) THEN {}
    ELSE (IF DateIsStale(rowDate) THEN {"dates"} ELSE {})
           \union (IF TimeIsStale(rowTime) THEN {"times"} ELSE {})

\* The hours pass; at its hour the job of a weekday stores rows, or fails.
HealthHourPasses ==
    /\ HealthDay <= LastHealthDay
    /\ healthHour' = healthHour + 1
    /\ \/ /\ healthHour % 24 = JobHour /\ ~WeekendDay(HealthDay)
          /\ rowDate' = HealthDay /\ rowTime' = healthHour
          /\ filledOn' = filledOn \union {HealthDay}
       \/ UNCHANGED <<rowDate, rowTime, filledOn>>

\* The Monday after a Friday with rows.
HealthInit ==
    healthHour = 0 /\ rowDate = -3 /\ rowTime = -72 + JobHour /\ filledOn = {-3}

--------------------------------------------------------------------------------
(* Properties. *)

\* A table of dates is reported on a weekday exactly if the job of the weekday before
\* stored nothing and today's has not yet: no false alarm on a Monday, and none missed
\* the morning after a job failed.  One of times cries early on Mondays, before the job's
\* hour, and on Mondays only (_is_stale, ops_health).
AlarmIsAboutAJob ==
    ~WeekendDay(HealthDay) =>
        LET before == IF HealthDay % 7 = 0 THEN HealthDay - 3 ELSE HealthDay - 1
            filled == filledOn \intersect {before, HealthDay} # {}
        IN  /\ "dates" \in StaleTables <=> ~filled
            /\ "times" \in StaleTables /\ filled =>
                 /\ HealthDay \notin filledOn
                 /\ HealthDay % 7 = 0 \/ healthHour % 24 > JobHour

================================================================================
