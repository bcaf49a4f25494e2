------------------------------ MODULE JobSchedule ------------------------------
(****************************************************************************)
(* The daily scheduler (scheduler.py) as a schedule: one thread runs what   *)
(* is due in the order of the times it was due, a job that takes long       *)
(* delays the others, and a process that dies comes back without the runs   *)
(* it missed.  What the jobs do is the subject of other modules; here a job *)
(* is when it is due, when it declines to work, and what it reports.        *)
(* Times are minutes since midnight of day 0; days of the week count from   *)
(* Monday, 0.                                                               *)
(****************************************************************************)
EXTENDS Integers, FiniteSets, FiniteSetsExt, SequencesExt

CONSTANTS FirstWeekday,   \* of day 0
          FirstMonthday,  \* of day 0
          LastDay,        \* bound: the days that are looked at
          Durations,      \* minutes a job may take
          MaxTroubles,    \* bound: runs that raise or take more than a minute, and deaths
          HistoryCap, HistoryKeep, LastN

ASSUME ScheduleAssumption ==
    /\ FirstWeekday \in 0..6 /\ FirstMonthday \in Nat \ {0} /\ LastDay \in Nat
    /\ 1 \in Durations /\ Durations \subseteq Nat \ {0}
    /\ {LastN, HistoryKeep, HistoryCap, MaxTroubles} \subseteq Nat
    /\ LastN <= HistoryKeep /\ HistoryKeep <= HistoryCap

VARIABLES now,        \* the clock
          due,        \* job -> next_run
          history,    \* job_history: [job, ok]
          beat,       \* time of the last heartbeat
          alive,      \* the process is there
          bootedAt,   \* when the process was started last
          lastRun,    \* history: the job that ran last, its due time, start and report
          done,       \* history: job -> due time of its last run
          recent,     \* history: the last LastN reports since the start
          batch,      \* what the current run_pending has still to run
          troubles    \* history: how many there were

scheduleVars == <<now, due, history, beat, alive, bootedAt, lastRun, done, recent, batch, troubles>>

Minutes(h, m) == 60 * h + m
Midnight == 1440
DayOf(t) == t \div Midnight
Weekday(t) == (FirstWeekday + DayOf(t)) % 7
Monthday(t) == FirstMonthday + DayOf(t)
IsWeekend(t) == Weekday(t) >= 5
Daily == 0..6

--------------------------------------------------------------------------------
(* The jobs: when they are due, and the condition on the time of the start  *)
(* under which they work.  Without it a weekend job reports a success and   *)
(* its reason; the two gated ones report nothing.                           *)

RunDailyPredictions == [at |-> Minutes(6, 0), days |-> Daily, guard |-> "weekday"]
RunSignalStrategies == [at |-> Minutes(6, 5), days |-> Daily, guard |-> "weekday"]
RunPredictionHash == [at |-> Minutes(6, 10), days |-> Daily, guard |-> "weekday"]
MaybeQuarterlyRebalance == [at |-> Minutes(7, 0), days |-> {0}, guard |-> "none"]
RunShadowExecution == [at |-> Minutes(9, 20), days |-> Daily, guard |-> "weekday"]
RunDailyEvaluation == [at |-> Minutes(15, 45), days |-> Daily, guard |-> "none"]
RunQualityCheck == [at |-> Minutes(15, 50), days |-> Daily, guard |-> "none"]
RunProofReveal == [at |-> Minutes(16, 0), days |-> Daily, guard |-> "none"]
RunDataRefresh == [at |-> Minutes(17, 0), days |-> Daily, guard |-> "none"]

RunStopLossCheck == [at |-> Minutes(17, 30), days |-> Daily, guard |-> "weekday"]
RunFiiDii == [at |-> Minutes(18, 30), days |-> Daily, guard |-> "none"]
RunBhavcopy == [at |-> Minutes(18, 45), days |-> Daily, guard |-> "weekday"]
RunBseAnn == [at |-> Minutes(19, 0), days |-> Daily, guard |-> "weekday"]
RunNseAnn == [at |-> Minutes(19, 15), days |-> Daily, guard |-> "weekday"]
RunInsiderTrades == [at |-> Minutes(19, 20), days |-> Daily, guard |-> "weekday"]
RunSurveillance == [at |-> Minutes(19, 30), days |-> Daily, guard |-> "weekday"]
RunDeals == [at |-> Minutes(19, 45), days |-> Daily, guard |-> "weekday"]
RunCreditRatings == [at |-> Minutes(19, 50), days |-> Daily, guard |-> "weekday"]
RunIntelExtraction == [at |-> Minutes(20, 0), days |-> Daily, guard |-> "weekday"]
RunDriftCheck == [at |-> Minutes(20, 0), days |-> {5}, guard |-> "none"]
RunTranscripts == [at |-> Minutes(20, 15), days |-> Daily, guard |-> "weekday"]
RunIntelQuality == [at |-> Minutes(20, 30), days |-> Daily, guard |-> "none"]
RunBseWeekly == [at |-> Minutes(21, 0), days |-> {6}, guard |-> "none"]
RunTrends == [at |-> Minutes(21, 30), days |-> {6}, guard |-> "none"]
MaybeMonthlyRetrain == [at |-> Minutes(22, 0), days |-> {5}, guard |-> "first week"]
RunWeeklyRetrain == [at |-> Minutes(22, 30), days |-> {5}, guard |-> "none"]
RunXgboostRetrain == [at |-> Minutes(23, 30), days |-> Daily, guard |-> "none"]

\* setup_schedule; the weekly retrain of the deep models only on a box that is large enough.
JobTable ==
    [predictions |-> RunDailyPredictions, signals |-> RunSignalStrategies,
     hash |-> RunPredictionHash, rebalance |-> MaybeQuarterlyRebalance,
     shadow |-> RunShadowExecution, evaluation |-> RunDailyEvaluation,
     quality |-> RunQualityCheck, reveal |-> RunProofReveal, refresh |-> RunDataRefresh,
     stops |-> RunStopLossCheck, fiidii |-> RunFiiDii, bhavcopy |-> RunBhavcopy,
     bse |-> RunBseAnn, nse |-> RunNseAnn, insider |-> RunInsiderTrades,
     surveillance |-> RunSurveillance, deals |-> RunDeals, ratings |-> RunCreditRatings,
     extraction |-> RunIntelExtraction, drift |-> RunDriftCheck,
     transcripts |-> RunTranscripts, intel |-> RunIntelQuality, bse_weekly |-> RunBseWeekly,
     trends |-> RunTrends, monthly |-> MaybeMonthlyRetrain, weekly |-> RunWeeklyRetrain,
     xgboost |-> RunXgboostRetrain]

Jobs == DOMAIN JobTable

\* The first time after t that j is due.
NextDue(j, t) ==
    Min({x \in {d * Midnight + JobTable[j].at : d \in DayOf(t)..(DayOf(t) + 7)} :
           x > t /\ Weekday(x) \in JobTable[j].days})

Works(j, t) ==
    CASE JobTable[j].guard = "weekday"    -> ~IsWeekend(t)
      [] JobTable[j].guard = "first week" -> Monthday(t) <= 7
      [] OTHER                            -> TRUE

RecordJob(h, report) ==
    LET longer == Append(h, report)
    IN IF Len(longer) > HistoryCap
       THEN SubSeq(longer, Len(longer) - HistoryKeep + 1, Len(longer)) ELSE longer

NewestReports(h, n) == SubSeq(h, Max({1, Len(h) - n + 1}), Len(h))

\* The last report of every job among the newest LastN.
JobHealthSummary(h) ==
    LET newest == NewestReports(h, LastN)
    IN [j \in {newest[i].job : i \in DOMAIN newest} |->
          newest[Max({i \in DOMAIN newest : newest[i].job = j})].ok]

--------------------------------------------------------------------------------
(* The loop. *)

\* run_pending takes what is due now, once.
RunPending ==
    /\ alive /\ batch = {} /\ \E j \in Jobs : due[j] <= now
    /\ batch' = {j \in Jobs : due[j] <= now}
    /\ UNCHANGED <<now, due, history, beat, alive, bootedAt, lastRun, done, recent, troubles>>

\* Nothing is due: heartbeats until something is.  In the market's hours the polls of
\* prices and news report in between.
Sleep ==
    /\ alive /\ batch = {} /\ \A j \in Jobs : due[j] > now
    /\ now' = Min({due[j] : j \in Jobs}) /\ DayOf(now') <= LastDay
    /\ beat' = now'
    /\ LET polled == now % Midnight < Minutes(15, 30) /\ now' % Midnight > Minutes(9, 20)
                       /\ ~IsWeekend(now)
           report == [job |-> "intraday_poll", ok |-> TRUE]
       IN /\ history' = IF polled THEN RecordJob(RecordJob(history, report), report) ELSE history
          /\ recent' = IF polled THEN NewestReports(recent \o <<report, report>>, LastN) ELSE recent
    /\ UNCHANGED <<due, alive, bootedAt, lastRun, done, batch, troubles>>

Reschedule(j, end) == [due EXCEPT ![j] = NextDue(j, end)]

\* The earliest of the batch runs; a raise is caught and reported; the gated ones report
\* nothing when their gate is closed.
RunJob(j, minutes, raises) ==
    /\ alive /\ j \in batch /\ \A i \in batch : due[j] <= due[i]
    /\ minutes > 1 \/ raises => Works(j, now)
    /\ troubles' = IF minutes > 1 \/ raises THEN troubles + 1 ELSE troubles
    /\ troubles' <= MaxTroubles
    /\ now' = now + minutes
    /\ due' = Reschedule(j, now')
    /\ batch' = batch \ {j}
    /\ beat' = IF batch' = {} THEN now' ELSE beat
    /\ done' = [done EXCEPT ![j] = due[j]]
    /\ lastRun' = [job |-> j, due |-> due[j], start |-> now]
    /\ IF JobTable[j].guard = "first week" /\ ~Works(j, now) THEN UNCHANGED <<history, recent>>
       ELSE LET report == [job |-> j, ok |-> ~raises]
            IN /\ history' = RecordJob(history, report)
               /\ recent' = NewestReports(Append(recent, report), LastN)
    /\ UNCHANGED <<alive, bootedAt>>

Dies ==
    /\ alive /\ troubles < MaxTroubles
    /\ alive' = FALSE /\ batch' = {}
    /\ troubles' = troubles + 1
    /\ UNCHANGED <<now, due, history, beat, bootedAt, lastRun, done, recent>>

\* The container starts the process again: nothing that became due meanwhile is run.
Boots(minutes) ==
    /\ ~alive /\ alive' = TRUE
    /\ now' = now + minutes /\ bootedAt' = now'
    /\ due' = [j \in Jobs |-> NextDue(j, now')]
    /\ history' = <<>> /\ recent' = <<>>
    /\ UNCHANGED <<beat, lastRun, done, batch, troubles>>

\* The process is started at five in the morning of day 0.
ScheduleInit ==
    /\ now = Minutes(5, 0) /\ bootedAt = now /\ beat = now
    /\ due = [j \in Jobs |-> NextDue(j, now)] /\ batch = {}
    /\ history = <<>> /\ recent = <<>> /\ alive = TRUE
    /\ lastRun = [job |-> "none", due |-> 0, start |-> 0]
    /\ done = [j \in Jobs |-> 0]
    /\ troubles = 0

ScheduleNext ==
    \/ RunPending \/ Sleep \/ Dies
    \/ \E j \in Jobs, minutes \in Durations, raises \in BOOLEAN : RunJob(j, minutes, raises)
    \/ \E minutes \in Durations : Boots(minutes)

--------------------------------------------------------------------------------
(* Properties. *)

\* What the comments on the times promise: signals after the ensemble and before the
\* hash, stops after the refresh, the intel checks after the collectors, the model
\* after the day's prices.
Needs ==
    {<<"predictions", "signals">>, <<"predictions", "hash">>, <<"signals", "hash">>,
     <<"refresh", "stops">>, <<"refresh", "xgboost">>, <<"bse", "extraction">>,
     <<"nse", "extraction">>, <<"ratings", "extraction">>}
    \union ({"bse", "nse", "insider", "surveillance", "deals", "ratings", "transcripts"} \X {"intel"})

\* However long the jobs before it took, a job has the work of its day before it that it
\* needs, unless the process was started after that was due (setup_schedule, run_forever).
WhatItNeedsIsDone ==
    \A n \in Needs :
      lastRun.job = n[2] =>
        LET t == DayOf(lastRun.due) * Midnight + JobTable[n[1]].at
        IN done[n[1]] >= t \/ bootedAt >= t

\* A run is late, but never dropped: what was due since the process was started has
\* run or is the next to run (schedule.run_pending under jobs of hours).
LateNeverDropped ==
    lastRun.job # "none" =>
    \A j \in Jobs, d \in 0..LastDay :
      LET t == d * Midnight + JobTable[j].at
      IN Weekday(t) \in JobTable[j].days /\ bootedAt < t /\ t < now /\ alive
           => done[j] >= t \/ due[j] = t

\* The summary is of the LastN newest reports however often the history was cut in
\* between (_record_job, job_health_summary).
SummaryIsOfTheNewest ==
    history # recent => JobHealthSummary(history) = JobHealthSummary(recent)
================================================================================
