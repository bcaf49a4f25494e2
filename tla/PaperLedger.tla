---------------------------- MODULE PaperLedger -----------------------------
(***************************************************************************)
(* The paper trades and their outcomes: the jobs of scheduler.py that      *)
(* store predictions, evaluate matured trades, refresh the prices and      *)
(* check the stops, in one process and in the order of their times of day, *)
(* and the manual endpoints of api/routes/paper_trading.py in another, on  *)
(* the table that data/store.py keeps.  Every job loads a snapshot of the  *)
(* table and then writes one trade per transaction, so the other process   *)
(* can write between two of its steps.                                     *)
(*                                                                         *)
(* A price bar is what it does to a trade that was entered at its middle:  *)
(* it stays inside the stop and the target, it falls or rises through one  *)
(* of them and closes there, or it goes through both and closes where it   *)
(* began.  Every day is a trading day.                                     *)
(***************************************************************************)
EXTENDS Integers, FiniteSets

CONSTANTS
    Symbol,
    MaxDay,           \* bound: the last day of the model
    Horizon,          \* EVALUATION_HORIZON_TRADING_DAYS
    MinCalendarDays,  \* EVALUATION_MIN_CALENDAR_DAYS
    Lookback,         \* lookback_days of the data refresh
    MaxManual,        \* bound: requests to the manual endpoints
    MaxPredictions,   \* bound: predictions stored
    PriceBar,         \* bound: the kinds of bars there are
    MaxCorrections,   \* bound: bars rewritten after their stop check
    MaxMisses         \* bound: jobs missed or broken off, writes and bars lost

ASSUME LedgerConfig ==
    /\ IsFiniteSet(Symbol)
    /\ MaxDay \in Nat \ {0}
    /\ Horizon \in Nat \ {0} /\ MinCalendarDays \in Nat \ {0}
    /\ Lookback \in Nat
    /\ PriceBar \subseteq {"inside", "fell", "rose", "both"}
    /\ MaxManual \in Nat /\ MaxPredictions \in Nat
    /\ MaxCorrections \in Nat /\ MaxMisses \in Nat

VARIABLES
    today,
    slot,         \* the part of the day: the scheduler's job that is due
    ran,          \* whether that job has been started, or missed
    bars,         \* the daily OHLCV table
    checked,      \* history: each day's bars as its stop check read them
    trade,        \* the paper_trades table
    sched, api,   \* the job of each process: its stage, snapshot and rest
    pnl,          \* daily_pnl: the trades each day's row was made of
    requests, predictions, misses

priceVars == <<bars, checked>>
tableVars == <<priceVars, trade, pnl>>
clockVars == <<today, slot, ran>>
vars == <<clockVars, tableVars, sched, api, requests, predictions, misses>>

Day == 1..MaxDay
Key == Symbol \X Day     \* (symbol, prediction_date); one strategy
Slot == {"predict", "evaluate", "refresh", "stops", "bhavcopy"}
Bar == {"none"} \union PriceBar
Levels == {"none", "entry", "stops"}   \* no prices, an entry price, stops too

NoTrade == [stored |-> FALSE, dir |-> 0, levels |-> "none", exit |-> "open", exitDay |-> 0,
            reason |-> "none", ret |-> 0, correct |-> FALSE]
Trade == [stored: BOOLEAN, dir: {-1, 0, 1}, levels: Levels,
          exit: {"open", "stop", "target", "close", "manual"}, exitDay: 0..MaxDay,
          reason: {"none", "stop_loss", "take_profit", "manual"},
          ret: {-1, 0, 1}, correct: BOOLEAN]
NoJob == [at |-> "idle", day |-> 1, snapshot |-> [k \in Key |-> NoTrade], todo |-> {},
          done |-> {}]
NoPnl == {<<>>}   \* no row for the day

TypeOK ==
    /\ today \in Day /\ slot \in Slot /\ ran \in BOOLEAN
    /\ bars \in [Symbol -> [Day -> Bar]] /\ checked \in [Symbol -> [Day -> Bar]]
    /\ \A s \in Symbol, d \in Day : d > today => bars[s][d] = "none"
    /\ trade \in [Key -> Trade]
    /\ \A k \in Key : (trade[k].exit = "open") = (trade[k].exitDay = 0)
    /\ \A k \in Key : trade[k].exitDay <= today
    /\ \A job \in {sched, api} :
            /\ job.at \in {"idle", "evaluating", "storing", "stopping"}
            /\ job.day \in 1..today
            /\ job.todo \subseteq Key /\ job.done \subseteq Key
    /\ \A d \in Day : pnl[d] # NoPnl => pnl[d] \subseteq Key /\ pnl[d] # {}
    /\ requests \in 0..MaxManual /\ predictions \in 0..MaxPredictions /\ misses \in 0..MaxMisses

Init ==
    /\ today = 1 /\ slot = "predict" /\ ran = FALSE
    /\ bars = [s \in Symbol |-> [d \in Day |-> "none"]] /\ checked = bars
    /\ trade = [k \in Key |-> NoTrade]
    /\ sched = NoJob /\ api = NoJob
    /\ pnl = [d \in Day |-> NoPnl]
    /\ requests = 0 /\ predictions = 0 /\ misses = 0

IsOpen(t) == t.stored /\ t.exit = "open"

\* A job works on the rows that its query returned.
JobOn(at, day, rows) ==
    [at |-> at, day |-> day, todo |-> rows, done |-> {},
     snapshot |-> [k \in Key |-> IF k \in rows THEN trade[k] ELSE NoTrade]]

\* Something goes wrong, within the bound.
Missed == misses < MaxMisses /\ misses' = misses + 1

\* The user calls a manual endpoint, within the bound.
ByHand == requests < MaxManual /\ requests' = requests + 1

-----------------------------------------------------------------------------
(* store_paper_trade and update_paper_trade_outcome *)

\* A faulty variant: storing a prediction again reopens the trade.
StorePrediction_Reopens(k, dir, levels) ==
    trade' = [trade EXCEPT ![k] = [NoTrade EXCEPT !.stored = TRUE, !.dir = dir,
                                                  !.levels = levels]]

\* The upsert: a prediction stored again replaces what was predicted, and
\* leaves the outcome.
StorePrediction(k, dir, levels) ==
    trade' = [trade EXCEPT ![k].stored = TRUE, ![k].dir = dir, ![k].levels = levels]

\* A faulty variant: is_correct is written only when it is true.
WriteOutcome_OnlyTrue(k, exit, exitDay, reason, ret, correct) ==
    trade' = [trade EXCEPT
                ![k].exit = exit, ![k].exitDay = exitDay,
                ![k].reason = IF reason = "none" THEN @ ELSE reason,
                ![k].ret = ret, ![k].correct = @ \/ correct]

\* The outcome is written whether or not the trade has one; the reason only
\* if there is one to write.
WriteOutcome(k, exit, exitDay, reason, ret, correct) ==
    trade' = [trade EXCEPT
                ![k].exit = exit, ![k].exitDay = exitDay,
                ![k].reason = IF reason = "none" THEN @ ELSE reason,
                ![k].ret = ret, ![k].correct = correct]

\* The 06:00 and 06:05 jobs, or POST /paper/predict, for a trade of today.
Predict ==
    /\ (slot = "predict" /\ UNCHANGED requests) \/ ByHand
    /\ predictions < MaxPredictions
    /\ predictions' = predictions + 1
    /\ \E s \in Symbol, dir \in {-1, 0, 1}, levels \in Levels :
            StorePrediction(<<s, today>>, dir, levels)
    /\ UNCHANGED <<clockVars, priceVars, pnl, sched, api, misses>>

-----------------------------------------------------------------------------
(* The evaluation of matured trades, 15:45 *)

\* The bars of the trade's hold that the table has.
Future(k) == {d \in Day : d > k[2] /\ d <= today /\ bars[k[1]][d] # "none"}

\* The bar of the horizon, or the last one there is.
HorizonDay(k) ==
    LET n == IF Cardinality(Future(k)) >= Horizon THEN Horizon ELSE Cardinality(Future(k))
    IN  CHOOSE d \in Future(k) : Cardinality({e \in Future(k) : e <= d}) = n

CloseReturn(bar) == CASE bar = "fell" -> -1 [] bar = "rose" -> 1 [] OTHER -> 0

\* A faulty variant: the trades that have an outcome are evaluated again.
BeginEvaluate_AllMatured ==
    /\ slot = "evaluate" /\ ~ran
    /\ ran' = TRUE
    /\ sched' = JobOn("evaluating", today,
                      {k \in Key : trade[k].stored /\ k[2] <= today - MinCalendarDays})
    /\ UNCHANGED <<today, slot, tableVars, api, requests, predictions, misses>>

\* A faulty variant: only the trades of one day are due.
BeginEvaluate_OnTheDay ==
    /\ slot = "evaluate" /\ ~ran
    /\ ran' = TRUE
    /\ sched' = JobOn("evaluating", today,
                      {k \in Key : IsOpen(trade[k]) /\ k[2] = today - MinCalendarDays})
    /\ UNCHANGED <<today, slot, tableVars, api, requests, predictions, misses>>

BeginEvaluate ==
    /\ slot = "evaluate" /\ ~ran
    /\ ran' = TRUE
    /\ sched' = JobOn("evaluating", today,
                      {k \in Key : IsOpen(trade[k]) /\ k[2] <= today - MinCalendarDays})
    /\ UNCHANGED <<today, slot, tableVars, api, requests, predictions, misses>>

\* A faulty variant: a trade is counted before its outcome is written.
EvaluateTrade_CountsFirst(k) ==
    /\ sched.at = "evaluating"
    /\ k \in sched.todo
    /\ sched' = [sched EXCEPT !.todo = @ \ {k}, !.done = @ \union {k}]
    /\ \/ Missed /\ UNCHANGED trade
       \/ /\ sched.snapshot[k].levels # "none" /\ Future(k) # {}
          /\ LET ret == CloseReturn(bars[k[1]][HorizonDay(k)])
             IN  WriteOutcome(k, "close", HorizonDay(k), "none", ret,
                              sched.snapshot[k].dir = ret)
          /\ UNCHANGED misses
    /\ UNCHANGED <<clockVars, priceVars, pnl, api, requests, predictions>>

\* One trade of _evaluate_open_paper_trades.  Without an entry price or a bar
\* it is passed over, and so it is when its write fails.
EvaluateTrade(k) ==
    /\ sched.at = "evaluating"
    /\ k \in sched.todo
    /\ IF sched.snapshot[k].levels = "none" \/ Future(k) = {}
       THEN /\ sched' = [sched EXCEPT !.todo = @ \ {k}]
            /\ UNCHANGED <<trade, misses>>
       ELSE LET day == HorizonDay(k)
                ret == CloseReturn(bars[k[1]][day])
            IN  \/ /\ WriteOutcome(k, "close", day, "none", ret, sched.snapshot[k].dir = ret)
                   /\ sched' = [sched EXCEPT !.todo = @ \ {k}, !.done = @ \union {k}]
                   /\ UNCHANGED misses
                \/ /\ Missed
                   /\ sched' = [sched EXCEPT !.todo = @ \ {k}]
                   /\ UNCHANGED trade
    /\ UNCHANGED <<clockVars, priceVars, pnl, api, requests, predictions>>

\* A faulty variant: a day without evaluated trades has a row too.
EndEvaluating_Always ==
    /\ sched.at = "evaluating"
    /\ sched.todo = {}
    /\ sched' = [sched EXCEPT !.at = "storing"]
    /\ UNCHANGED <<clockVars, tableVars, api, requests, predictions, misses>>

EndEvaluating ==
    /\ sched.at = "evaluating"
    /\ sched.todo = {}
    /\ sched' = IF sched.done = {} THEN NoJob ELSE [sched EXCEPT !.at = "storing"]
    /\ UNCHANGED <<clockVars, tableVars, api, requests, predictions, misses>>

\* _store_pnl_summary: one row per day, of the trades evaluated just now; when
\* the write fails they are in no row.
StorePnl ==
    /\ sched.at = "storing"
    /\ \/ /\ pnl' = [pnl EXCEPT ![today] = IF @ = NoPnl THEN sched.done ELSE @]
          /\ UNCHANGED misses
       \/ Missed /\ UNCHANGED pnl
    /\ sched' = NoJob
    /\ UNCHANGED <<clockVars, priceVars, trade, api, requests, predictions>>

-----------------------------------------------------------------------------
(* The data refresh, 17:00, and the bhavcopy, 18:45 *)

\* The bars that are no longer what the stop check read, within the bound.
Corrected == {sd \in Symbol \X Day : checked[sd[1]][sd[2]] \notin {"none", bars[sd[1]][sd[2]]}}

\* store_ohlcv for some days of some symbols: the upsert writes what the provider
\* says now over what is there.
Upsert(symbols, days) ==
    /\ \E new \in [symbols \X days -> PriceBar] :
          bars' = [s \in Symbol |-> [d \in Day |->
                        IF <<s, d>> \in symbols \X days THEN new[<<s, d>>] ELSE bars[s][d]]]
    /\ UNCHANGED checked
    /\ Cardinality(Corrected') <= MaxCorrections

\* Each symbol gets the bars of the last days, today's with them, or fails.
Refresh ==
    /\ slot = "refresh" /\ ~ran
    /\ ran' = TRUE
    /\ \E failed \in SUBSET Symbol :
        /\ IF failed = {} THEN UNCHANGED misses ELSE Missed
        /\ Upsert(Symbol \ failed, Day \intersect (today - Lookback)..today)
    /\ UNCHANGED <<today, slot, trade, pnl, sched, api, requests, predictions>>

\* The exchange's own file for the whole market, today's bars alone.  A fetch
\* that fails stores nothing, and a store that fails leaves out the rest.
Bhavcopy ==
    /\ slot = "bhavcopy" /\ ~ran
    /\ ran' = TRUE
    /\ \E stored \in SUBSET Symbol : Upsert(stored, {today})
    /\ UNCHANGED <<today, slot, trade, pnl, sched, api, requests, predictions, misses>>

-----------------------------------------------------------------------------
(* The stop check, 17:30, and POST /paper/evaluate-stops *)

StopJob(day) == JobOn("stopping", day, {k \in Key : IsOpen(trade[k])})

BeginStops ==
    /\ slot = "stops" /\ ~ran
    /\ ran' = TRUE
    /\ sched' = StopJob(today)
    /\ checked' = [s \in Symbol |-> [checked[s] EXCEPT ![today] = bars[s][today]]]
    /\ UNCHANGED <<today, slot, bars, trade, pnl, api, requests, predictions, misses>>

\* The endpoint takes any date.
BeginManualStops ==
    /\ ByHand
    /\ api.at = "idle"
    /\ \E day \in 1..today : api' = StopJob(day)
    /\ UNCHANGED <<clockVars, tableVars, sched, predictions, misses>>

\* A faulty variant: the mirrored levels of a short are left out.
LevelHit_LongOnly(dir, bar) ==
    IF dir # 1 \/ bar \in {"none", "inside"} THEN "open"
    ELSE IF bar \in {"both", "fell"} THEN "stop" ELSE "target"

\* The level the bar goes through, the stop before the target.
LevelHit(dir, bar) ==
    IF dir = 0 \/ bar \in {"none", "inside"} THEN "open"
    ELSE IF bar = "both" \/ bar = (IF dir = 1 THEN "fell" ELSE "rose") THEN "stop"
    ELSE "target"

\* One trade of evaluate_stop_hits, against the bar of the job's day alone.
\* A stop is a loss and a target a gain.  When the write fails, the loop goes
\* on with the next trade.
CheckStop(job, k) ==
    LET t   == job.snapshot[k]
        hit == LevelHit(t.dir, bars[k[1]][job.day])
        ret == IF hit = "stop" THEN -t.dir ELSE t.dir
    IN  IF t.levels # "stops" \/ hit = "open"
        THEN UNCHANGED <<trade, misses>>
        ELSE \/ /\ WriteOutcome(k, hit, job.day,
                                IF hit = "stop" THEN "stop_loss" ELSE "take_profit", ret,
                                hit = "target")
                /\ UNCHANGED misses
             \/ Missed /\ UNCHANGED trade

SchedulerChecksStop(k) ==
    /\ sched.at = "stopping" /\ k \in sched.todo
    /\ CheckStop(sched, k)
    /\ sched' = [sched EXCEPT !.todo = @ \ {k}]
    /\ UNCHANGED <<clockVars, priceVars, pnl, api, requests, predictions>>

ApiChecksStop(k) ==
    /\ api.at = "stopping" /\ k \in api.todo
    /\ CheckStop(api, k)
    /\ api' = [api EXCEPT !.todo = @ \ {k}]
    /\ UNCHANGED <<clockVars, priceVars, pnl, sched, requests, predictions>>

EndStops ==
    /\ \/ sched.at = "stopping" /\ sched.todo = {} /\ sched' = NoJob /\ UNCHANGED api
       \/ api.at = "stopping" /\ api.todo = {} /\ api' = NoJob /\ UNCHANGED sched
    /\ UNCHANGED <<clockVars, tableVars, requests, predictions, misses>>

\* POST /paper/outcome: any trade, open or not, with what the user says; the
\* user's figures stand as one value, for no property looks at them.
ManualOutcome ==
    /\ ByHand
    /\ \E k \in Key, reason \in {"none", "manual"} :
            /\ trade[k].stored
            /\ WriteOutcome(k, "manual", today, reason, 0, FALSE)
    /\ UNCHANGED <<clockVars, priceVars, pnl, sched, api, predictions, misses>>

-----------------------------------------------------------------------------
(* The clock, and the process going down *)

NextSlot == CASE slot = "predict"  -> "evaluate"
              [] slot = "evaluate" -> "refresh"
              [] slot = "refresh"  -> "stops"
              [] slot = "stops"    -> "bhavcopy"
              [] slot = "bhavcopy" -> "predict"

\* The scheduler has one thread: a job ends before the next one is due.
ClockPasses ==
    /\ sched.at = "idle"
    /\ ran \/ slot = "predict"
    /\ slot = "bhavcopy" => today < MaxDay
    /\ slot' = NextSlot
    /\ ran' = FALSE
    /\ today' = IF slot = "bhavcopy" THEN today + 1 ELSE today
    /\ UNCHANGED <<tableVars, sched, api, requests, predictions, misses>>

\* A job that is due while the process is down is not caught up.  (A missed
\* bhavcopy is one that stores nothing.)
JobMissed ==
    /\ slot \in {"evaluate", "refresh", "stops"} /\ ~ran
    /\ Missed
    /\ ran' = TRUE
    /\ UNCHANGED <<today, slot, tableVars, sched, api, requests, predictions>>

\* The scheduler's process goes down in a job.
Crash ==
    /\ sched.at # "idle"
    /\ Missed
    /\ sched' = NoJob
    /\ UNCHANGED <<clockVars, tableVars, api, requests, predictions>>

SchedulerStep ==
    \/ BeginEvaluate \/ EndEvaluating \/ StorePnl \/ Refresh \/ Bhavcopy \/ BeginStops
    \/ \E k \in Key : EvaluateTrade(k) \/ SchedulerChecksStop(k)
    \/ EndStops \/ ClockPasses

ApiStep ==
    \/ BeginManualStops \/ ManualOutcome
    \/ \E k \in Key : ApiChecksStop(k)

Next == SchedulerStep \/ ApiStep \/ Predict \/ JobMissed \/ Crash

Spec == Init /\ [][Next]_vars

\* The scheduler's loop goes on, and with it the clock.
FairSpec == Spec /\ WF_vars(SchedulerStep)

-----------------------------------------------------------------------------
(* Properties *)

\* The outcome of a trade is written once.  Between them the 15:45 and the
\* 17:30 jobs, missed, late or broken off, never close a trade again.
ClosedOnce ==
    [][\A k \in Key : trade[k].exit # "open" =>
            LET Outcome(t) == <<t.exit, t.exitDay, t.reason, t.ret, t.correct>>
            IN  Outcome(trade[k]') = Outcome(trade[k])]_vars

\* A trade that has an outcome keeps one: storing its prediction again, in the
\* job or by hand, does not put it among the open trades.
StaysClosed == [][\A k \in Key : trade[k].exit # "open" => trade'[k].exit # "open"]_vars

\* A trade exits within its hold: at a level on a day from its prediction on
\* and before the evaluation was due, or at the close of one of the horizon's
\* days.  What goes wrong makes it later by no more than a day for every job
\* missed or broken off, every write lost and every refresh that failed.
ExitInHold ==
    \A k \in Key :
        /\ trade[k].exit \in {"stop", "target"} =>
                trade[k].exitDay \in k[2]..(k[2] + MinCalendarDays - 1 + misses)
        /\ trade[k].exit = "close" =>
                trade[k].exitDay \in (k[2] + 1)..(k[2] + Horizon + misses)

\* What was predicted and what came of it fit: a trade the program closed is
\* marked correct just when the return that is stored with it has the sign of
\* its direction.  No write replaces one side of an outcome alone, even when
\* manual stop checks, manual outcomes and the jobs close the same trade, as
\* long as no prediction is stored a second time with another direction.
NoneStoredAgain == predictions = Cardinality({k \in Key : trade[k].stored})
OutcomeFitsPrediction ==
    NoneStoredAgain => \A k \in Key : trade[k].exit \in {"stop", "target", "close"} =>
        trade[k].correct = (trade[k].dir = trade[k].ret)

\* No trade counts in the P&L of two days, and none that is still open counts,
\* whatever write fails and wherever the evaluation is broken off.
PnlCountsOnce ==
    \A d \in Day, k \in Key :
        pnl[d] # NoPnl /\ k \in pnl[d] =>
            /\ trade[k].exit # "open"
            /\ \A e \in Day \ {d} : pnl[e] # NoPnl => k \notin pnl[e]

\* As long as no job is missed and no bar or write lost, each day's check had a
\* bar for every trade with levels, and the bar stayed inside them, on every day
\* from the prediction to the exit, or to the last check if the trade is open.
\* It is the bar as the check read it: what a later refresh or the bhavcopy
\* writes over it, no check reads again.
StopsAreEnforced ==
    misses = 0 => \A k \in Key : trade[k].stored /\ trade[k].levels = "stops" =>
        \A d \in k[2]..((IF IsOpen(trade[k]) THEN today ELSE trade[k].exitDay) - 1) :
            trade[k].dir = 0 \/ checked[k[1]][d] = "inside"

\* A trade with an entry price is closed in the end, also when a job was
\* missed or broken off, or a write lost, on the way.
EveryTradeCloses ==
    \A k \in Key :
        (IsOpen(trade[k]) /\ trade[k].levels # "none"
            /\ k[2] + MinCalendarDays + MaxMisses <= MaxDay)
            ~> (trade[k].exit # "open")
=============================================================================
