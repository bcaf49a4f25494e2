------------------------ MODULE PaperLedger_proofs -------------------------
(***************************************************************************)
(* Proofs about PaperLedger, for any symbols and any numbers of days,      *)
(* horizons, predictions, requests and misses.                             *)
(***************************************************************************)
EXTENDS PaperLedger, FiniteSetTheorems, WellFoundedInduction, TLAPS

-----------------------------------------------------------------------------
(* The inductive invariants *)

\* A job record: the range of the variables sched and api on a day.
JobType(day) ==
    [at: {"idle", "evaluating", "storing", "stopping"}, day: 1..day,
     snapshot: [Key -> Trade], todo: SUBSET Key, done: SUBSET Key]

\* The types of the clock, the tables and the counters.
TablesTyped ==
    /\ today \in Day /\ slot \in Slot /\ ran \in BOOLEAN
    /\ bars \in [Symbol -> [Day -> Bar]] /\ checked \in [Symbol -> [Day -> Bar]]
    /\ \A s \in Symbol, d \in Day : d > today => bars[s][d] = "none"
    /\ trade \in [Key -> Trade]
    /\ \A k \in Key : (trade[k].exit = "open") = (trade[k].exitDay = 0)
    /\ \A k \in Key : trade[k].exitDay <= today
    /\ pnl \in [Day -> (SUBSET Key) \union {NoPnl}]
    /\ \A d \in Day : pnl[d] # {}
    /\ requests \in 0..MaxManual /\ predictions \in 0..MaxPredictions /\ misses \in 0..MaxMisses

\* The jobs keep to their part of the day, work on the date they began on, and
\* have only stored trades to do.
JobsInOrder ==
    /\ sched \in JobType(today) /\ api \in JobType(today)
    /\ sched.at \in {"evaluating", "storing"} => slot = "evaluate" /\ ran
    /\ sched.at = "stopping" => slot = "stops" /\ ran
    /\ sched.at # "idle" => sched.day = today
    /\ sched.at = "idle" => sched.todo = {}
    /\ sched.at = "storing" => sched.done # {}
    /\ api.at \in {"idle", "stopping"}
    /\ \A k \in Key : /\ k \in sched.todo \union api.todo => trade[k].stored
                      /\ trade[k].exit # "open" => trade[k].stored
                      /\ trade[k].stored => k[2] <= today

\* As long as no manual endpoint was called, what the scheduler's job has still
\* to do is open and is as its query returned it.
SnapshotHolds ==
    requests = 0 =>
        /\ api.at = "idle"
        /\ \A k \in sched.todo : IsOpen(trade[k]) /\ trade[k] = sched.snapshot[k]

\* The trades an evaluation is at are in no row of the P&L yet, and those it
\* has done are closed.
NotYetCounted ==
    sched.at \in {"evaluating", "storing"} =>
        /\ \A k \in sched.done : trade[k].exit # "open"
        /\ \A k \in sched.todo \union sched.done, d \in Day : pnl[d] # NoPnl => k \notin pnl[d]

\* There are at least as many predictions as trades; when there are no more, a
\* snapshot has the direction the trade was stored with.
StoredOnce ==
    /\ Cardinality({k \in Key : trade[k].stored}) <= predictions
    /\ NoneStoredAgain =>
          /\ \A k \in sched.todo : sched.snapshot[k].dir = trade[k].dir
          /\ \A k \in api.todo : api.snapshot[k].dir = trade[k].dir

\* The days whose bars the refresh has been to see to.
Refreshed(d) ==
    \/ d < today
    \/ d = today /\ (slot \in {"stops", "bhavcopy"} \/ (slot = "refresh" /\ ran))

\* The days a symbol has no bar of although its refresh was due are no more than
\* the jobs missed and the bars lost.
Gaps(s) == {d \in Day : Refreshed(d) /\ bars[s][d] = "none"}
GapsAreMisses == \A s \in Symbol : Cardinality(Gaps(s)) <= misses

\* The evaluation of the day is still to come for the trade.
Pending(k) ==
    \/ slot = "predict"
    \/ slot = "evaluate" /\ (~ran \/ (sched.at = "evaluating" /\ k \in sched.todo))

\* A trade with an entry price is open after its evaluation was due only for as
\* many days as something went wrong.
OpenOnTime ==
    requests = 0 => \A k \in Key : IsOpen(trade[k]) /\ trade[k].levels # "none" =>
        \/ today < k[2] + MinCalendarDays + misses
        \/ today = k[2] + MinCalendarDays + misses /\ Pending(k)

\* The stop check that is on reads the bars that it noted.
NotedBars ==
    sched.at = "stopping" => \A s \in Symbol : checked[s][today] = bars[s][today]

\* The day's check found a bar for the trade, and inside its levels.
Quiet(k, d) == trade[k].dir = 0 \/ checked[k[1]][d] = "inside"

\* The days of which an open trade's bar has been looked at.
Checked(k, d) ==
    \/ d < today
    \/ d = today /\ (slot = "bhavcopy" \/ (slot = "stops" /\ ran /\ k \notin sched.todo))

\* As long as no job is missed and no manual endpoint called, every bar a trade
\* with levels was checked against before its exit was quiet.
LevelsChecked ==
    misses = 0 /\ requests = 0 =>
        \A k \in Key, d \in Day : trade[k].stored /\ trade[k].levels = "stops" /\ k[2] <= d =>
            /\ IsOpen(trade[k]) /\ Checked(k, d) => Quiet(k, d)
            /\ ~IsOpen(trade[k]) /\ d < trade[k].exitDay => Quiet(k, d)

-----------------------------------------------------------------------------
(* The operators the actions are built from *)

\* Every set of natural numbers that is not empty has a least element.
LEMMA LeastNatural ==
    ASSUME NEW T \in SUBSET Nat, T # {}
    PROVE  \E x \in T : \A y \in T : x <= y
  <1> DEFINE Less == {pair \in Nat \X Nat : pair[1] < pair[2]}
  <1>1. IsWellFoundedOn(Less, Nat)
    BY NatLessThanWellFounded DEF OpToRel
  <1>2. \E x \in T : \A y \in T : <<y, x>> \notin Less
    <2> HIDE DEF Less
    <2> QED
      BY <1>1, WFMin
  <1>3. ASSUME NEW x \in T, NEW y \in T, <<y, x>> \notin Less
        PROVE  x <= y
    <2>1. x \in Nat /\ y \in Nat /\ ~(y < x)
      BY <1>3
    <2> QED
      BY <2>1
  <1> QED
    BY <1>2, <1>3

LEMMA KeyParts == ASSUME NEW k \in Key PROVE k[1] \in Symbol /\ k[2] \in Day /\ k[2] \in Nat
  <1>1. k[1] \in Symbol /\ k[2] \in Day
    BY DEF Key
  <1> QED
    BY <1>1, LedgerConfig DEF Day

\* A set of days holds, for every number up to its size, a day that is the
\* last of that many.
LEMMA CountReaches ==
    ASSUME NEW m \in Nat, NEW F \in SUBSET (1..m), NEW n \in 1..Cardinality(F)
    PROVE  \E d \in F : Cardinality({e \in F : e <= d}) = n
  <1> DEFINE Upto(d) == {e \in F : e <= d}
             Enough == {d \in 0..m : Cardinality(Upto(d)) >= n}
  <1>0. \A e \in F : e \in Nat /\ 1 <= e /\ e <= m
    OBVIOUS
  <1>1. IsFiniteSet(F) /\ Cardinality(F) \in Nat
    <2>1. IsFiniteSet(1..m)
      BY FS_Interval
    <2> QED
      BY <2>1, FS_Subset, FS_CardinalityType
  <1>2. \A d \in 0..m : IsFiniteSet(Upto(d)) /\ Cardinality(Upto(d)) \in Nat
    BY <1>1, FS_Subset, FS_CardinalityType
  <1>3. Upto(m) = F /\ Upto(0) = {}
    <2>1. \A e \in F : e <= m /\ ~(e <= 0)
      BY <1>0
    <2> QED
      BY <2>1
  <1>4. n \in Nat /\ 1 <= n /\ n <= Cardinality(F)
    BY <1>1
  <1>5. m \in Enough /\ 0 \notin Enough
    <2>1. Cardinality(Upto(m)) >= n
      BY <1>1, <1>3, <1>4
    <2>2. Cardinality(Upto(0)) = 0
      BY <1>3, FS_EmptySet
    <2> HIDE DEF Upto
    <2> QED
      BY <1>4, <2>1, <2>2
  <1>6. PICK d \in Enough : \A x \in Enough : d <= x
    <2>1. Enough \in SUBSET Nat
      OBVIOUS
    <2> HIDE DEF Enough
    <2> QED
      BY <1>5, <2>1, LeastNatural
  <1>7. d \in 1..m /\ d - 1 \in 0..m /\ d - 1 \notin Enough
    <2>1. d \in 0..m /\ d # 0
      BY <1>5, <1>6
    <2>2. d - 1 \notin Enough
      <3>1. ~(d <= d - 1)
        BY <2>1
      <3> HIDE DEF Enough
      <3> QED
        BY <1>6, <3>1
    <2> QED
      BY <2>1, <2>2
  <1>8. Cardinality(Upto(d - 1)) < n /\ Cardinality(Upto(d)) >= n
    <2> HIDE DEF Upto
    <2> QED
      BY <1>2, <1>4, <1>6, <1>7
  <1>9. d \in F
    <2> SUFFICES ASSUME d \notin F PROVE FALSE
      OBVIOUS
    <2>1. Upto(d) = Upto(d - 1)
      <3>1. \A e \in F : e <= d <=> e <= d - 1
        BY <1>0, <1>7
      <3> QED
        BY <3>1
    <2> HIDE DEF Upto
    <2> QED
      BY <1>2, <1>4, <1>7, <1>8, <2>1
  <1>10. Cardinality(Upto(d)) = Cardinality(Upto(d - 1)) + 1
    <2>1. Upto(d) = Upto(d - 1) \union {d} /\ d \notin Upto(d - 1)
      <3>1. \A e \in F : e <= d <=> (e <= d - 1 \/ e = d)
        BY <1>0, <1>7
      <3>2. ~(d <= d - 1) /\ d <= d
        BY <1>7
      <3> QED
        BY <1>9, <3>1, <3>2
    <2> HIDE DEF Upto
    <2> QED
      BY <1>2, <1>7, <2>1, FS_AddElement
  <1>11. Cardinality(Upto(d)) = n
    <2> HIDE DEF Upto, Enough
    <2>1. Cardinality(Upto(d - 1)) \in Nat /\ n \in Nat
      BY <1>2, <1>4, <1>7
    <2> QED
      BY <1>8, <1>10, <2>1
  <1> QED
    BY <1>9, <1>11

\* The evaluation closes a trade on one of the bars of its hold, the last of
\* at most a horizon's.
LEMMA HorizonDayInHold ==
    ASSUME NEW k \in Key, Future(k) # {}
    PROVE  /\ HorizonDay(k) \in Future(k)
           /\ Cardinality({d \in Future(k) : d <= HorizonDay(k)}) \in 1..Horizon
  <1> DEFINE F == Future(k)
             n == IF Cardinality(F) >= Horizon THEN Horizon ELSE Cardinality(F)
  <1>1. MaxDay \in Nat /\ F \in SUBSET (1..MaxDay)
    BY LedgerConfig DEF Future, Day
  <1>2. IsFiniteSet(F) /\ Cardinality(F) \in Nat /\ Cardinality(F) # 0
    <2>1. IsFiniteSet(1..MaxDay)
      BY <1>1, FS_Interval
    <2>2. F # {}
      OBVIOUS
    <2> HIDE DEF F
    <2> QED
      BY <1>1, <2>1, <2>2, FS_Subset, FS_CardinalityType, FS_EmptySet
  <1>3. n \in 1..Cardinality(F) /\ n \in 1..Horizon
    <2> HIDE DEF F
    <2> QED
      BY <1>2, LedgerConfig
  <1>4. \E d \in F : Cardinality({e \in F : e <= d}) = n
    <2> HIDE DEF F, n
    <2> QED
      BY <1>1, <1>3, CountReaches
  <1>5. HorizonDay(k) = CHOOSE d \in F : Cardinality({e \in F : e <= d}) = n
    BY DEF HorizonDay
  <1> HIDE DEF F, n
  <1>6. HorizonDay(k) \in F /\ Cardinality({e \in F : e <= HorizonDay(k)}) = n
    BY <1>4, <1>5
  <1> QED
    BY <1>3, <1>6 DEF F

-----------------------------------------------------------------------------
(* The writes, field by field *)

Exit == {"stop", "target", "close", "manual"}
Reason == {"none", "stop_loss", "take_profit", "manual"}
Sign == {-1, 0, 1}

\* The other trades stay as they are.
OnlyTrade(k) ==
    /\ trade' \in [Key -> Trade]
    /\ \A j \in Key \ {k} : trade'[j] = trade[j]

\* Trade k gets an outcome and keeps its prediction.
Closes(k, exit, day, ret, correct) ==
    /\ OnlyTrade(k)
    /\ trade'[k].exit = exit /\ trade'[k].exitDay = day
    /\ trade'[k].ret = ret /\ trade'[k].correct = correct
    /\ trade'[k].stored = trade[k].stored /\ trade'[k].dir = trade[k].dir
    /\ trade'[k].levels = trade[k].levels

\* Trade k gets a prediction and keeps its outcome.
Predicts(k, dir, levels) ==
    /\ OnlyTrade(k)
    /\ trade'[k].stored /\ trade'[k].dir = dir /\ trade'[k].levels = levels
    /\ trade'[k].exit = trade[k].exit /\ trade'[k].exitDay = trade[k].exitDay
    /\ trade'[k].reason = trade[k].reason /\ trade'[k].ret = trade[k].ret
    /\ trade'[k].correct = trade[k].correct

LEMMA StorePredictionEffect ==
    ASSUME trade \in [Key -> Trade],
           NEW k \in Key, NEW dir \in Sign, NEW levels \in Levels,
           StorePrediction(k, dir, levels)
    PROVE  Predicts(k, dir, levels)
  <1> DEFINE t == [trade[k] EXCEPT !.stored = TRUE, !.dir = dir, !.levels = levels]
  <1>1. trade' = [trade EXCEPT ![k] = t]
    BY DEF StorePrediction
  <1>2. /\ t \in Trade /\ t.stored /\ t.dir = dir /\ t.levels = levels
        /\ t.exit = trade[k].exit /\ t.exitDay = trade[k].exitDay /\ t.reason = trade[k].reason
        /\ t.ret = trade[k].ret /\ t.correct = trade[k].correct
    BY DEF Trade, Sign
  <1> HIDE DEF t
  <1>3. trade' \in [Key -> Trade] /\ trade'[k] = t /\ \A j \in Key \ {k} : trade'[j] = trade[j]
    BY <1>1, <1>2
  <1> QED
    BY <1>2, <1>3 DEF Predicts, OnlyTrade

LEMMA WriteOutcomeEffect ==
    ASSUME trade \in [Key -> Trade],
           NEW k \in Key, NEW exit \in Exit, NEW day \in 0..MaxDay, NEW reason \in Reason,
           NEW ret \in Sign, NEW correct \in BOOLEAN,
           WriteOutcome(k, exit, day, reason, ret, correct)
    PROVE  Closes(k, exit, day, ret, correct)
  <1> DEFINE t == [trade[k] EXCEPT !.exit = exit, !.exitDay = day,
                                   !.reason = IF reason = "none" THEN @ ELSE reason,
                                   !.ret = ret, !.correct = correct]
  <1>1. trade' = [trade EXCEPT ![k] = t]
    BY DEF WriteOutcome
  <1>2. trade[k] \in Trade
    OBVIOUS
  <1>3. /\ t \in Trade /\ t.exit = exit /\ t.exitDay = day /\ t.ret = ret /\ t.correct = correct
        /\ t.stored = trade[k].stored /\ t.dir = trade[k].dir /\ t.levels = trade[k].levels
    BY <1>2 DEF Trade, Exit, Reason, Sign
  <1> HIDE DEF t
  <1>4. trade' \in [Key -> Trade] /\ trade'[k] = t /\ \A j \in Key \ {k} : trade'[j] = trade[j]
    BY <1>1, <1>3
  <1> QED
    BY <1>3, <1>4 DEF Closes, OnlyTrade

-----------------------------------------------------------------------------
(* The jobs, field by field *)

LEMMA NoJobFacts ==
    /\ NoTrade \in Trade
    /\ NoJob.at = "idle" /\ NoJob.todo = {} /\ NoJob.done = {}
    /\ \A day \in Day : NoJob \in JobType(day)
  <1>1. NoTrade \in Trade
    BY LedgerConfig DEF NoTrade, Trade, Levels
  <1>2. NoJob.at = "idle" /\ NoJob.todo = {} /\ NoJob.done = {}
    BY DEF NoJob
  <1>3. [k \in Key |-> NoTrade] \in [Key -> Trade]
    BY <1>1
  <1>4. ASSUME NEW day \in Day PROVE NoJob \in JobType(day)
    <2>1. 1 \in 1..day
      BY LedgerConfig DEF Day
    <2> QED
      BY <1>3, <2>1 DEF NoJob, JobType
  <1> QED
    BY <1>1, <1>2, <1>4

LEMMA JobOnFacts ==
    ASSUME TablesTyped, NEW at \in {"evaluating", "stopping"}, NEW day \in 1..today,
           NEW rows \in SUBSET Key
    PROVE  LET job == JobOn(at, day, rows)
           IN  /\ job \in JobType(today)
               /\ job.at = at /\ job.day = day /\ job.todo = rows /\ job.done = {}
               /\ \A k \in rows : job.snapshot[k] = trade[k]
  <1> DEFINE snapshot == [k \in Key |-> IF k \in rows THEN trade[k] ELSE NoTrade]
  <1>1. snapshot \in [Key -> Trade] /\ \A k \in rows : snapshot[k] = trade[k]
    BY NoJobFacts DEF TablesTyped
  <1>2. JobOn(at, day, rows) = [at |-> at, day |-> day, todo |-> rows, done |-> {},
                                snapshot |-> snapshot]
    BY DEF JobOn
  <1> HIDE DEF snapshot
  <1> QED
    BY <1>1, <1>2 DEF JobType

LEMMA LevelHitFacts ==
    ASSUME NEW dir \in Sign, NEW bar \in Bar
    PROVE  /\ LevelHit(dir, bar) \in {"open", "stop", "target"}
           /\ LevelHit(dir, bar) = "open" <=> (dir = 0 \/ bar \in {"none", "inside"})
  BY DEF LevelHit, Sign, Bar

\* One trade of a stop check is left alone, closed at a level, or lost.
StopChecked(job, k) ==
    \/ /\ trade' = trade /\ misses' = misses
       /\ \/ job.snapshot[k].levels # "stops" \/ job.snapshot[k].dir = 0
          \/ bars[k[1]][job.day] \in {"none", "inside"}
    \/ /\ \E exit \in {"stop", "target"}, ret \in Sign, correct \in BOOLEAN :
             /\ Closes(k, exit, job.day, ret, correct)
             /\ correct = (job.snapshot[k].dir = ret)
       /\ misses' = misses
    \/ trade' = trade /\ Missed

LEMMA CheckStopEffect ==
    ASSUME TablesTyped, NEW job \in JobType(today), NEW k \in Key, CheckStop(job, k)
    PROVE  StopChecked(job, k)
  <1> DEFINE t == job.snapshot[k]
             hit == LevelHit(t.dir, bars[k[1]][job.day])
             ret == IF hit = "stop" THEN -t.dir ELSE t.dir
             reason == IF hit = "stop" THEN "stop_loss" ELSE "take_profit"
             correct == hit = "target"
  <1>1. /\ t \in Trade /\ t.dir \in Sign
        /\ job.day \in Day /\ job.day \in 0..MaxDay /\ bars[k[1]][job.day] \in Bar
    BY KeyParts, LedgerConfig DEF JobType, TablesTyped, Trade, Sign, Day
  <1>2. /\ hit \in {"open", "stop", "target"}
        /\ hit = "open" <=> (t.dir = 0 \/ bars[k[1]][job.day] \in {"none", "inside"})
    BY <1>1, LevelHitFacts
  <1>3. IF t.levels # "stops" \/ hit = "open"
        THEN UNCHANGED <<trade, misses>>
        ELSE \/ WriteOutcome(k, hit, job.day, reason, ret, correct) /\ UNCHANGED misses
             \/ Missed /\ UNCHANGED trade
    BY DEF CheckStop
  <1>4. ret \in Sign /\ reason \in Reason /\ correct \in BOOLEAN
    <2> HIDE DEF t, hit
    <2> QED
      BY <1>1, <1>2 DEF Sign, Reason
  <1>5. hit # "open" => correct = (t.dir = ret)
    <2> HIDE DEF t, hit
    <2>1. CASE hit = "stop"
      BY <1>1, <1>2, <2>1 DEF Sign
    <2>2. CASE hit = "target"
      BY <1>1, <1>2, <2>2 DEF Sign
    <2> QED
      BY <1>2, <2>1, <2>2
  <1> HIDE DEF hit, ret, reason, correct
  <1>6. CASE t.levels # "stops" \/ hit = "open"
    BY <1>2, <1>3, <1>6 DEF StopChecked
  <1>7. CASE ~(t.levels # "stops" \/ hit = "open")
    <2>1. hit \in Exit /\ hit \in {"stop", "target"}
      BY <1>2, <1>7 DEF Exit
    <2>2. trade \in [Key -> Trade]
      BY DEF TablesTyped
    <2>3. CASE WriteOutcome(k, hit, job.day, reason, ret, correct) /\ UNCHANGED misses
      <3>1. Closes(k, hit, job.day, ret, correct)
        BY <1>1, <1>4, <2>1, <2>2, <2>3, WriteOutcomeEffect
      <3> QED
        BY <1>4, <1>5, <1>7, <2>1, <2>3, <3>1 DEF StopChecked
    <2> QED
      BY <1>3, <1>7, <2>3 DEF StopChecked
  <1> QED
    BY <1>6, <1>7

-----------------------------------------------------------------------------
(* The steps, field by field *)

\* The parts of a job that a step leaves alone.
SameJob(new, old) == new.at = old.at /\ new.day = old.day /\ new.snapshot = old.snapshot

LEMMA PredictEffect ==
    ASSUME TablesTyped, Predict
    PROVE  /\ \E k \in Key, dir \in Sign, levels \in Levels :
                  k[2] = today /\ Predicts(k, dir, levels)
           /\ (slot = "predict" /\ requests' = requests) \/ requests' = requests + 1
           /\ requests' \in 0..MaxManual /\ predictions' \in 0..MaxPredictions
           /\ predictions' = predictions + 1
           /\ UNCHANGED <<clockVars, priceVars, pnl, sched, api, misses>>
  <1>1. PICK s \in Symbol, dir \in Sign, levels \in Levels : StorePrediction(<<s, today>>, dir, levels)
    BY DEF Predict, Sign
  <1>2. <<s, today>> \in Key /\ <<s, today>>[2] = today /\ trade \in [Key -> Trade]
    BY DEF TablesTyped, Key
  <1>3. Predicts(<<s, today>>, dir, levels)
    BY <1>1, <1>2, StorePredictionEffect
  <1>4. /\ (slot = "predict" /\ requests' = requests) \/ requests' = requests + 1
        /\ requests' \in 0..MaxManual /\ predictions' \in 0..MaxPredictions
        /\ predictions' = predictions + 1
    BY LedgerConfig DEF Predict, ByHand, TablesTyped
  <1>5. UNCHANGED <<clockVars, priceVars, pnl, sched, api, misses>>
    BY DEF Predict
  <1> QED
    BY <1>2, <1>3, <1>4, <1>5

LEMMA BeginEvaluateEffect ==
    ASSUME TablesTyped, BeginEvaluate
    PROVE  /\ slot = "evaluate" /\ ~ran /\ ran'
           /\ sched' \in JobType(today) /\ sched'.at = "evaluating" /\ sched'.day = today
           /\ sched'.done = {}
           /\ \A k \in sched'.todo : IsOpen(trade[k]) /\ sched'.snapshot[k] = trade[k]
           /\ UNCHANGED <<today, slot, tableVars, api, requests, predictions, misses>>
  <1> DEFINE due == {k \in Key : IsOpen(trade[k]) /\ k[2] <= today - MinCalendarDays}
  <1>1. /\ slot = "evaluate" /\ ~ran /\ ran' /\ sched' = JobOn("evaluating", today, due)
        /\ UNCHANGED <<today, slot, tableVars, api, requests, predictions, misses>>
    BY DEF BeginEvaluate
  <1>2. today \in 1..today
    BY LedgerConfig DEF TablesTyped, Day
  <1>3. /\ due \in SUBSET Key
        /\ \A k \in due : IsOpen(trade[k])
    OBVIOUS
  <1> HIDE DEF due
  <1> QED
    BY <1>1, <1>2, <1>3, JobOnFacts

LEMMA BeginStopsEffect ==
    ASSUME TablesTyped, BeginStops
    PROVE  /\ slot = "stops" /\ ~ran /\ ran'
           /\ sched' \in JobType(today) /\ sched'.at = "stopping" /\ sched'.day = today
           /\ \A k \in Key : k \in sched'.todo <=> IsOpen(trade[k])
           /\ \A k \in sched'.todo : sched'.snapshot[k] = trade[k]
           /\ checked' \in [Symbol -> [Day -> Bar]]
           /\ \A s \in Symbol : /\ checked'[s][today] = bars[s][today]
                               /\ \A d \in Day \ {today} : checked'[s][d] = checked[s][d]
           /\ UNCHANGED <<today, slot, bars, trade, pnl, api, requests, predictions, misses>>
  <1> DEFINE due == {k \in Key : IsOpen(trade[k])}
  <1>1. /\ slot = "stops" /\ ~ran /\ ran' /\ sched' = JobOn("stopping", today, due)
        /\ UNCHANGED <<today, slot, bars, trade, pnl, api, requests, predictions, misses>>
    BY DEF BeginStops, StopJob
  <1>4. /\ checked' \in [Symbol -> [Day -> Bar]]
        /\ \A s \in Symbol : /\ checked'[s][today] = bars[s][today]
                            /\ \A d \in Day \ {today} : checked'[s][d] = checked[s][d]
    <2>1. checked' = [s \in Symbol |-> [checked[s] EXCEPT ![today] = bars[s][today]]]
      BY DEF BeginStops
    <2>2. /\ today \in Day /\ checked \in [Symbol -> [Day -> Bar]]
          /\ \A s \in Symbol : bars[s][today] \in Bar
      BY DEF TablesTyped
    <2> QED
      BY <2>1, <2>2
  <1>2. today \in 1..today
    BY LedgerConfig DEF TablesTyped, Day
  <1>3. /\ due \in SUBSET Key
        /\ \A k \in Key : k \in due <=> IsOpen(trade[k])
    OBVIOUS
  <1> HIDE DEF due
  <1> QED
    BY <1>1, <1>2, <1>3, <1>4, JobOnFacts

LEMMA BeginManualStopsEffect ==
    ASSUME TablesTyped, BeginManualStops
    PROVE  /\ requests' = requests + 1 /\ requests' \in 0..MaxManual
           /\ api' \in JobType(today) /\ api'.at = "stopping"
           /\ \A k \in api'.todo : IsOpen(trade[k]) /\ api'.snapshot[k] = trade[k]
           /\ UNCHANGED <<clockVars, tableVars, sched, predictions, misses>>
  <1> DEFINE due == {k \in Key : IsOpen(trade[k])}
  <1>1. PICK day \in 1..today : api' = JobOn("stopping", day, due)
    BY DEF BeginManualStops, StopJob
  <1>2. due \in SUBSET Key /\ \A k \in due : IsOpen(trade[k])
    OBVIOUS
  <1>3. requests' = requests + 1 /\ requests' \in 0..MaxManual
    BY LedgerConfig DEF BeginManualStops, ByHand, TablesTyped
  <1>4. UNCHANGED <<clockVars, tableVars, sched, predictions, misses>>
    BY DEF BeginManualStops
  <1> HIDE DEF due
  <1> QED
    BY <1>1, <1>2, <1>3, <1>4, JobOnFacts

\* Something went wrong, within the bound.
LEMMA MissedEffect ==
    ASSUME TablesTyped, Missed
    PROVE  misses' = misses + 1 /\ misses' \in 0..MaxMisses /\ misses' # 0
  BY LedgerConfig DEF TablesTyped, Missed

LEMMA EvaluateTradeEffect ==
    ASSUME TablesTyped, sched \in JobType(today), NEW k \in Key, EvaluateTrade(k)
    PROVE  /\ sched.at = "evaluating" /\ k \in sched.todo
           /\ sched' \in JobType(today) /\ SameJob(sched', sched)
           /\ sched'.todo = sched.todo \ {k}
           /\ \/ /\ trade' = trade /\ sched'.done = sched.done
                 /\ \/ misses' = misses /\ (sched.snapshot[k].levels = "none" \/ Future(k) = {})
                    \/ Missed
              \/ /\ Future(k) # {} /\ misses' = misses
                 /\ sched'.done = sched.done \union {k}
                 /\ \E ret \in Sign, correct \in BOOLEAN :
                        /\ Closes(k, "close", HorizonDay(k), ret, correct)
                        /\ correct = (sched.snapshot[k].dir = ret)
           /\ UNCHANGED <<clockVars, priceVars, pnl, api, requests, predictions>>
  <1> DEFINE day == HorizonDay(k)
             ret == CloseReturn(bars[k[1]][day])
             correct == sched.snapshot[k].dir = ret
  <1>1. /\ sched.at = "evaluating" /\ k \in sched.todo
        /\ UNCHANGED <<clockVars, priceVars, pnl, api, requests, predictions>>
    BY DEF EvaluateTrade
  <1>2. \/ /\ sched' = [sched EXCEPT !.todo = @ \ {k}] /\ trade' = trade /\ misses' = misses
           /\ sched.snapshot[k].levels = "none" \/ Future(k) = {}
        \/ sched' = [sched EXCEPT !.todo = @ \ {k}] /\ trade' = trade /\ Missed
        \/ /\ Future(k) # {}
           /\ WriteOutcome(k, "close", day, "none", ret, correct)
           /\ sched' = [sched EXCEPT !.todo = @ \ {k}, !.done = @ \union {k}]
           /\ misses' = misses
    BY DEF EvaluateTrade
  <1>3. ret \in Sign /\ correct \in BOOLEAN
    BY DEF CloseReturn, Sign
  <1> HIDE DEF day, ret, correct
  <1>4. CASE /\ sched' = [sched EXCEPT !.todo = @ \ {k}] /\ trade' = trade
             /\ \/ misses' = misses /\ (sched.snapshot[k].levels = "none" \/ Future(k) = {})
                \/ Missed
    <2>1. /\ sched' \in JobType(today) /\ SameJob(sched', sched)
          /\ sched'.todo = sched.todo \ {k} /\ sched'.done = sched.done
      BY <1>4 DEF JobType, SameJob
    <2> QED
      BY <1>1, <1>2, <1>4, <2>1
  <1>5. CASE /\ Future(k) # {}
             /\ WriteOutcome(k, "close", day, "none", ret, correct)
             /\ sched' = [sched EXCEPT !.todo = @ \ {k}, !.done = @ \union {k}]
             /\ misses' = misses
    <2>1. /\ sched' \in JobType(today) /\ SameJob(sched', sched)
          /\ sched'.todo = sched.todo \ {k} /\ sched'.done = sched.done \union {k}
      BY <1>5 DEF JobType, SameJob
    <2>2. day \in 0..MaxDay
      <3>1. HorizonDay(k) \in Future(k)
        BY <1>5, HorizonDayInHold
      <3>2. HorizonDay(k) \in Day
        BY <3>1 DEF Future
      <3> QED
        BY <3>2, LedgerConfig DEF day, Day
    <2>3. trade \in [Key -> Trade] /\ "close" \in Exit /\ "none" \in Reason
      BY DEF TablesTyped, Exit, Reason
    <2>4. Closes(k, "close", day, ret, correct)
      BY <1>3, <1>5, <2>2, <2>3, WriteOutcomeEffect
    <2>5. correct = (sched.snapshot[k].dir = ret)
      BY DEF correct
    <2> QED
      BY <1>1, <1>3, <1>5, <2>1, <2>4, <2>5 DEF day
  <1> QED
    BY <1>2, <1>4, <1>5

LEMMA SchedulerChecksStopEffect ==
    ASSUME TablesTyped, sched \in JobType(today), NEW k \in Key, SchedulerChecksStop(k)
    PROVE  /\ sched.at = "stopping" /\ k \in sched.todo /\ StopChecked(sched, k)
           /\ sched' \in JobType(today) /\ SameJob(sched', sched)
           /\ sched'.todo = sched.todo \ {k} /\ sched'.done = sched.done
           /\ UNCHANGED <<clockVars, priceVars, pnl, api, requests, predictions>>
  <1>1. /\ sched.at = "stopping" /\ k \in sched.todo /\ CheckStop(sched, k)
        /\ sched' = [sched EXCEPT !.todo = @ \ {k}]
        /\ UNCHANGED <<clockVars, priceVars, pnl, api, requests, predictions>>
    BY DEF SchedulerChecksStop
  <1>2. StopChecked(sched, k)
    BY <1>1, CheckStopEffect
  <1>3. /\ sched' \in JobType(today) /\ SameJob(sched', sched)
        /\ sched'.todo = sched.todo \ {k} /\ sched'.done = sched.done
    BY <1>1 DEF JobType, SameJob
  <1> QED
    BY <1>1, <1>2, <1>3

LEMMA ApiChecksStopEffect ==
    ASSUME TablesTyped, api \in JobType(today), NEW k \in Key, ApiChecksStop(k)
    PROVE  /\ api.at = "stopping" /\ k \in api.todo /\ StopChecked(api, k)
           /\ api' \in JobType(today) /\ SameJob(api', api)
           /\ api'.todo = api.todo \ {k}
           /\ UNCHANGED <<clockVars, priceVars, pnl, sched, requests, predictions>>
  <1>1. /\ api.at = "stopping" /\ k \in api.todo /\ CheckStop(api, k)
        /\ api' = [api EXCEPT !.todo = @ \ {k}]
        /\ UNCHANGED <<clockVars, priceVars, pnl, sched, requests, predictions>>
    BY DEF ApiChecksStop
  <1>2. StopChecked(api, k)
    BY <1>1, CheckStopEffect
  <1>3. /\ api' \in JobType(today) /\ SameJob(api', api)
        /\ api'.todo = api.todo \ {k}
    BY <1>1 DEF JobType, SameJob
  <1> QED
    BY <1>1, <1>2, <1>3

LEMMA EndEvaluatingEffect ==
    ASSUME TablesTyped, sched \in JobType(today), EndEvaluating
    PROVE  /\ sched.at = "evaluating" /\ sched.todo = {}
           /\ \/ sched' = NoJob
              \/ /\ sched.done # {} /\ sched' \in JobType(today) /\ sched'.at = "storing"
                 /\ sched'.day = sched.day /\ sched'.snapshot = sched.snapshot
                 /\ sched'.todo = {} /\ sched'.done = sched.done
           /\ UNCHANGED <<clockVars, tableVars, api, requests, predictions, misses>>
  BY DEF EndEvaluating, JobType

LEMMA StorePnlEffect ==
    ASSUME TablesTyped, sched \in JobType(today), StorePnl
    PROVE  /\ sched.at = "storing" /\ sched' = NoJob
           /\ \/ pnl' = pnl
              \/ /\ pnl' \in [Day -> (SUBSET Key) \union {NoPnl}]
                 /\ \A d \in Day \ {today} : pnl'[d] = pnl[d]
                 /\ pnl'[today] = IF pnl[today] = NoPnl THEN sched.done ELSE pnl[today]
           /\ misses' = misses \/ Missed
           /\ UNCHANGED <<clockVars, priceVars, trade, api, requests, predictions>>
  <1> DEFINE row == IF pnl[today] = NoPnl THEN sched.done ELSE pnl[today]
  <1>1. /\ sched.at = "storing" /\ sched' = NoJob
        /\ pnl' = pnl \/ pnl' = [pnl EXCEPT ![today] = row]
        /\ misses' = misses \/ Missed
        /\ UNCHANGED <<clockVars, priceVars, trade, api, requests, predictions>>
    BY DEF StorePnl
  <1>2. pnl \in [Day -> (SUBSET Key) \union {NoPnl}] /\ today \in Day
    BY DEF TablesTyped
  <1>3. row \in (SUBSET Key) \union {NoPnl}
    BY <1>2 DEF JobType
  <1>4. CASE pnl' = [pnl EXCEPT ![today] = row]
    <2> HIDE DEF row
    <2>1. /\ pnl' \in [Day -> (SUBSET Key) \union {NoPnl}]
          /\ \A d \in Day \ {today} : pnl'[d] = pnl[d]
          /\ pnl'[today] = row
      BY <1>2, <1>3, <1>4
    <2> QED
      BY <1>1, <2>1 DEF row
  <1> QED
    BY <1>1, <1>4

\* What the upsert leaves in the table.
LEMMA UpsertEffect ==
    ASSUME TablesTyped, NEW symbols \in SUBSET Symbol, NEW days \in SUBSET Day,
           Upsert(symbols, days)
    PROVE  /\ checked' = checked /\ bars' \in [Symbol -> [Day -> Bar]]
           /\ \A s \in Symbol, d \in Day :
                 IF s \in symbols /\ d \in days
                 THEN bars'[s][d] # "none"
                 ELSE bars'[s][d] = bars[s][d]
  <1>1. PICK new \in [symbols \X days -> PriceBar] :
           bars' = [s \in Symbol |-> [d \in Day |->
                       IF <<s, d>> \in symbols \X days THEN new[<<s, d>>] ELSE bars[s][d]]]
    BY DEF Upsert
  <1>2. ASSUME NEW s \in symbols, NEW d \in days
        PROVE  new[<<s, d>>] \in Bar /\ new[<<s, d>>] # "none"
    <2>1. new[<<s, d>>] \in PriceBar
      BY <1>2
    <2> QED
      BY <2>1, LedgerConfig DEF Bar
  <1>3. \A s \in Symbol, d \in Day : bars[s][d] \in Bar
    BY DEF TablesTyped
  <1>4. ASSUME NEW s \in Symbol, NEW d \in Day
        PROVE  /\ bars'[s][d] = IF s \in symbols /\ d \in days THEN new[<<s, d>>] ELSE bars[s][d]
               /\ bars'[s][d] \in Bar
    <2>1. <<s, d>> \in symbols \X days <=> s \in symbols /\ d \in days
      OBVIOUS
    <2>2. bars'[s][d] = IF s \in symbols /\ d \in days THEN new[<<s, d>>] ELSE bars[s][d]
      BY <1>1, <2>1
    <2> QED
      BY <1>2, <1>3, <2>2
  <1>5. checked' = checked
    BY DEF Upsert
  <1>7. ASSUME NEW s \in Symbol, NEW d \in Day
        PROVE  IF s \in symbols /\ d \in days
               THEN bars'[s][d] # "none" ELSE bars'[s][d] = bars[s][d]
    <2>1. CASE s \in symbols /\ d \in days
      BY <1>2, <1>4, <2>1
    <2>2. CASE ~(s \in symbols /\ d \in days)
      BY <1>4, <2>2
    <2> QED
      BY <2>1, <2>2
  <1>6. bars' \in [Symbol -> [Day -> Bar]]
    <2>1. \A s \in Symbol : bars'[s] = [d \in Day |-> bars'[s][d]]
      BY <1>1
    <2>2. bars' = [s \in Symbol |-> bars'[s]]
      BY <1>1
    <2> QED
      BY <1>4, <2>1, <2>2
  <1> QED
    BY <1>5, <1>6, <1>7

\* A bar that is written is there, and none is of a day to come.
BarsGrow ==
    /\ checked' = checked /\ bars' \in [Symbol -> [Day -> Bar]]
    /\ \A s \in Symbol, d \in Day :
          \/ bars'[s][d] = bars[s][d]
          \/ bars'[s][d] # "none" /\ d <= today

LEMMA RefreshEffect ==
    ASSUME TablesTyped, Refresh
    PROVE  /\ slot = "refresh" /\ ~ran /\ ran' /\ BarsGrow
           /\ \/ Missed
              \/ misses' = misses /\ \A s \in Symbol : bars'[s][today] # "none"
           /\ UNCHANGED <<today, slot, trade, pnl, sched, api, requests, predictions>>
  <1> DEFINE days == Day \intersect (today - Lookback)..today
  <1>1. /\ slot = "refresh" /\ ~ran /\ ran'
        /\ UNCHANGED <<today, slot, trade, pnl, sched, api, requests, predictions>>
    BY DEF Refresh
  <1>2. PICK failed \in SUBSET Symbol :
           /\ IF failed = {} THEN UNCHANGED misses ELSE Missed
           /\ Upsert(Symbol \ failed, days)
    BY DEF Refresh
  <1>3. today \in days /\ \A d \in days : d <= today
    BY LedgerConfig DEF TablesTyped, Day
  <1>4. days \in SUBSET Day
    OBVIOUS
  <1> HIDE DEF days
  <1>5. /\ checked' = checked /\ bars' \in [Symbol -> [Day -> Bar]]
        /\ \A s \in Symbol, d \in Day :
              IF s \in Symbol \ failed /\ d \in days
              THEN bars'[s][d] # "none"
              ELSE bars'[s][d] = bars[s][d]
    BY <1>2, <1>4, UpsertEffect
  <1>6. BarsGrow
    BY <1>3, <1>5 DEF BarsGrow
  <1>7. failed = {} => \A s \in Symbol : bars'[s][today] # "none"
    BY <1>3, <1>4, <1>5
  <1> QED
    BY <1>1, <1>2, <1>6, <1>7

LEMMA BhavcopyEffect ==
    ASSUME TablesTyped, Bhavcopy
    PROVE  /\ slot = "bhavcopy" /\ ~ran /\ ran' /\ BarsGrow
           /\ UNCHANGED <<today, slot, trade, pnl, sched, api, requests, predictions, misses>>
  <1>1. /\ slot = "bhavcopy" /\ ~ran /\ ran'
        /\ UNCHANGED <<today, slot, trade, pnl, sched, api, requests, predictions, misses>>
    BY DEF Bhavcopy
  <1>2. PICK stored \in SUBSET Symbol : Upsert(stored, {today})
    BY DEF Bhavcopy
  <1>3. {today} \in SUBSET Day /\ today <= today
    BY LedgerConfig DEF TablesTyped, Day
  <1>4. /\ checked' = checked /\ bars' \in [Symbol -> [Day -> Bar]]
        /\ \A s \in Symbol, d \in Day :
              IF s \in stored /\ d \in {today}
              THEN bars'[s][d] # "none"
              ELSE bars'[s][d] = bars[s][d]
    BY <1>2, <1>3, UpsertEffect
  <1> QED
    BY <1>1, <1>3, <1>4 DEF BarsGrow

LEMMA ManualOutcomeEffect ==
    ASSUME TablesTyped, ManualOutcome
    PROVE  /\ requests' = requests + 1 /\ requests' \in 0..MaxManual
           /\ \E k \in Key : trade[k].stored /\ Closes(k, "manual", today, 0, FALSE)
           /\ UNCHANGED <<clockVars, priceVars, pnl, sched, api, predictions, misses>>
  <1>1. PICK k \in Key, reason \in {"none", "manual"} :
           trade[k].stored /\ WriteOutcome(k, "manual", today, reason, 0, FALSE)
    BY DEF ManualOutcome
  <1>2. /\ trade \in [Key -> Trade] /\ "manual" \in Exit /\ reason \in Reason
        /\ today \in 0..MaxDay /\ 0 \in Sign /\ FALSE \in BOOLEAN
    BY LedgerConfig DEF TablesTyped, Exit, Reason, Sign, Day
  <1>3. Closes(k, "manual", today, 0, FALSE)
    BY <1>1, <1>2, WriteOutcomeEffect
  <1>4. /\ requests' = requests + 1 /\ requests' \in 0..MaxManual
        /\ UNCHANGED <<clockVars, priceVars, pnl, sched, api, predictions, misses>>
    BY LedgerConfig DEF ManualOutcome, ByHand, TablesTyped
  <1> QED
    BY <1>1, <1>3, <1>4

LEMMA ClockPassesEffect ==
    ASSUME TablesTyped, ClockPasses
    PROVE  /\ sched.at = "idle" /\ ~ran' /\ today' \in Day
           /\ \/ slot = "predict" /\ slot' = "evaluate" /\ today' = today
              \/ slot = "evaluate" /\ ran /\ slot' = "refresh" /\ today' = today
              \/ slot = "refresh" /\ ran /\ slot' = "stops" /\ today' = today
              \/ slot = "stops" /\ ran /\ slot' = "bhavcopy" /\ today' = today
              \/ slot = "bhavcopy" /\ ran /\ slot' = "predict" /\ today' = today + 1
           /\ UNCHANGED <<tableVars, sched, api, requests, predictions, misses>>
  BY LedgerConfig DEF ClockPasses, NextSlot, TablesTyped, Slot, Day

-----------------------------------------------------------------------------
(* The types are an invariant *)

\* No step takes a trade out of the table, reopens one, or gives one an exit
\* that is not of a day up to today.
TradesGrow ==
    /\ trade' \in [Key -> Trade]
    /\ \A k \in Key : /\ trade[k].stored => trade'[k].stored
                      /\ trade[k].exit # "open" => trade'[k].exit # "open"
                      /\ (trade'[k].exit = "open") = (trade'[k].exitDay = 0)
                      /\ trade'[k].exitDay <= today
                      /\ trade'[k].exit # "open" => trade'[k].stored
                      /\ trade'[k].stored => k[2] <= today

LEMMA SameGrows ==
    ASSUME TablesTyped, JobsInOrder, trade' = trade
    PROVE  TradesGrow
  BY DEF TablesTyped, JobsInOrder, TradesGrow

LEMMA ClosesGrows ==
    ASSUME TablesTyped, JobsInOrder, NEW k \in Key, trade[k].stored,
           NEW exit \in Exit, NEW day \in 1..today, NEW ret, NEW correct,
           Closes(k, exit, day, ret, correct)
    PROVE  TradesGrow
  <1>1. trade' \in [Key -> Trade]
    BY DEF Closes, OnlyTrade
  <1>2. today \in Nat /\ day # 0 /\ day <= today /\ exit # "open"
    BY LedgerConfig DEF TablesTyped, Day, Exit
  <1>3. ASSUME NEW j \in Key, j # k
        PROVE  /\ trade'[j] = trade[j]
               /\ (trade[j].exit = "open") = (trade[j].exitDay = 0) /\ trade[j].exitDay <= today
               /\ trade[j].exit # "open" => trade[j].stored
               /\ trade[j].stored => j[2] <= today
    BY <1>3 DEF Closes, OnlyTrade, TablesTyped, JobsInOrder
  <1>4. /\ trade'[k].stored = trade[k].stored /\ trade'[k].exit = exit /\ trade'[k].exitDay = day
        /\ k[2] <= today
    BY DEF Closes, JobsInOrder
  <1>5. trade'[k].exit # "open" /\ trade'[k].exitDay # 0 /\ trade'[k].exitDay <= today
    BY <1>2, <1>4
  <1> QED
    BY <1>1, <1>3, <1>4, <1>5 DEF TradesGrow

LEMMA PredictsGrows ==
    ASSUME TablesTyped, JobsInOrder, NEW k \in Key, k[2] = today, NEW dir, NEW levels,
           Predicts(k, dir, levels)
    PROVE  TradesGrow
  <1>1. trade' \in [Key -> Trade]
    BY DEF Predicts, OnlyTrade
  <1>2. ASSUME NEW j \in Key
        PROVE  /\ (trade[j].exit = "open") = (trade[j].exitDay = 0) /\ trade[j].exitDay <= today
               /\ trade[j].exit # "open" => trade[j].stored
               /\ trade[j].stored => j[2] <= today
    BY DEF TablesTyped, JobsInOrder
  <1>3. \A j \in Key : j # k => trade'[j] = trade[j]
    BY DEF Predicts, OnlyTrade
  <1>4. trade'[k].stored /\ trade'[k].exit = trade[k].exit /\ trade'[k].exitDay = trade[k].exitDay
    BY DEF Predicts
  <1>5. k[2] <= today
    BY KeyParts
  <1> QED
    BY <1>1, <1>2, <1>3, <1>4, <1>5 DEF TradesGrow

\* A stop check closes the trade on the day of its job.
LEMMA StopCheckedGrows ==
    ASSUME TablesTyped, JobsInOrder, NEW job \in JobType(today), NEW k \in job.todo,
           trade[k].stored, StopChecked(job, k)
    PROVE  TradesGrow
  <1>1. k \in Key /\ job.day \in 1..today /\ "stop" \in Exit /\ "target" \in Exit
    BY DEF JobType, Exit
  <1>2. CASE trade' = trade
    BY <1>2, SameGrows
  <1>3. CASE \E exit \in {"stop", "target"}, ret \in Sign, correct \in BOOLEAN :
                Closes(k, exit, job.day, ret, correct)
    BY <1>1, <1>3, ClosesGrows
  <1> QED
    BY <1>2, <1>3 DEF StopChecked

\* The day the evaluation closes a trade at is one of the trade's hold.
LEMMA HorizonDayType ==
    ASSUME TablesTyped, NEW k \in Key, Future(k) # {}
    PROVE  HorizonDay(k) \in 1..today /\ HorizonDay(k) \in Day /\ k[2] < HorizonDay(k)
  <1>1. HorizonDay(k) \in Future(k)
    BY HorizonDayInHold
  <1>2. HorizonDay(k) \in Day /\ HorizonDay(k) > k[2] /\ HorizonDay(k) <= today
    BY <1>1 DEF Future
  <1> QED
    BY <1>2, KeyParts, LedgerConfig DEF TablesTyped, Day

LEMMA StepGrows ==
    ASSUME TablesTyped, JobsInOrder, [Next]_vars
    PROVE  TradesGrow
  <1>1. /\ sched \in JobType(today) /\ api \in JobType(today)
        /\ \A k \in sched.todo \union api.todo : k \in Key /\ trade[k].stored
    BY DEF JobsInOrder, JobType
  <1>2. ASSUME NEW k \in Key, EvaluateTrade(k)
        PROVE  TradesGrow
    <2>1. EvaluateTrade(k) /\ k \in sched.todo
      BY <1>1, <1>2, EvaluateTradeEffect
    <2>2. CASE trade' = trade
      BY <2>2, SameGrows
    <2>3. CASE /\ Future(k) # {}
               /\ \E ret \in Sign, correct \in BOOLEAN :
                     Closes(k, "close", HorizonDay(k), ret, correct)
      <3>1. HorizonDay(k) \in 1..today /\ "close" \in Exit
        BY <2>3, HorizonDayType DEF Exit
      <3> QED
        BY <1>1, <2>1, <2>3, <3>1, ClosesGrows
    <2> QED
      BY <1>1, <1>2, <2>2, <2>3, EvaluateTradeEffect
  <1>3. ASSUME NEW k \in Key, SchedulerChecksStop(k)
        PROVE  TradesGrow
    <2>1. k \in sched.todo /\ StopChecked(sched, k)
      BY <1>1, <1>3, SchedulerChecksStopEffect
    <2> QED
      BY <1>1, <2>1, StopCheckedGrows
  <1>4. ASSUME NEW k \in Key, ApiChecksStop(k)
        PROVE  TradesGrow
    <2>1. k \in api.todo /\ StopChecked(api, k)
      BY <1>1, <1>4, ApiChecksStopEffect
    <2> QED
      BY <1>1, <2>1, StopCheckedGrows
  <1>5. CASE Predict
    BY <1>5, PredictEffect, PredictsGrows
  <1>6. CASE ManualOutcome
    <2>1. today \in 1..today /\ "manual" \in Exit
      BY LedgerConfig DEF TablesTyped, Day, Exit
    <2> QED
      BY <1>6, <2>1, ManualOutcomeEffect, ClosesGrows
  <1>7. ASSUME \/ BeginEvaluate \/ EndEvaluating \/ StorePnl \/ Refresh \/ Bhavcopy \/ BeginStops
               \/ EndStops \/ ClockPasses \/ BeginManualStops \/ JobMissed \/ Crash
               \/ UNCHANGED vars
        PROVE  TradesGrow
    <2>1. trade' = trade
      BY <1>7 DEF BeginEvaluate, EndEvaluating, StorePnl, Refresh, Bhavcopy, BeginStops, EndStops,
                  ClockPasses, BeginManualStops, JobMissed, Crash, vars, tableVars
    <2> QED
      BY <2>1, SameGrows
  <1> QED
    BY <1>2, <1>3, <1>4, <1>5, <1>6, <1>7 DEF Next, SchedulerStep, ApiStep

LEMMA ClockTyped ==
    ASSUME TablesTyped, [Next]_vars
    PROVE  today' \in Day /\ today <= today' /\ slot' \in Slot /\ ran' \in BOOLEAN
  <1>1. CASE ClockPasses
    <2>1. ran' \in BOOLEAN
      BY <1>1 DEF ClockPasses
    <2>2. today' \in Day /\ slot' \in Slot /\ (today' = today \/ today' = today + 1)
      BY <1>1, ClockPassesEffect DEF Slot, TablesTyped
    <2> QED
      BY <2>1, <2>2, LedgerConfig DEF TablesTyped, Day
  <1>2. CASE BeginEvaluate \/ Refresh \/ Bhavcopy \/ BeginStops \/ JobMissed
    <2>1. today' = today /\ slot' = slot /\ ran' = TRUE
      BY <1>2 DEF BeginEvaluate, Refresh, Bhavcopy, BeginStops, JobMissed
    <2> QED
      BY <2>1, LedgerConfig DEF TablesTyped, Day
  <1>3. ASSUME \/ EndEvaluating \/ StorePnl \/ (\E k \in Key : EvaluateTrade(k) \/ SchedulerChecksStop(k))
               \/ EndStops \/ BeginManualStops \/ ManualOutcome \/ (\E k \in Key : ApiChecksStop(k))
               \/ Predict \/ Crash \/ UNCHANGED vars
        PROVE  today' \in Day /\ today <= today' /\ slot' \in Slot /\ ran' \in BOOLEAN
    <2>1. today' = today /\ slot' = slot /\ ran' = ran
      BY <1>3 DEF EndEvaluating, StorePnl, EvaluateTrade, SchedulerChecksStop, EndStops,
                  BeginManualStops, ManualOutcome, ApiChecksStop, Predict, Crash, vars, clockVars
    <2> QED
      BY <2>1, LedgerConfig DEF TablesTyped, Day
  <1> QED
    BY <1>1, <1>2, <1>3 DEF Next, SchedulerStep, ApiStep

LEMMA ClockOnward ==
    ASSUME TablesTyped, [Next]_vars
    PROVE  today \in Nat /\ today' \in Nat /\ today <= today'
  <1>1. today' \in Day /\ today <= today'
    BY ClockTyped
  <1>2. today \in Day
    BY DEF TablesTyped
  <1> QED
    BY <1>1, <1>2, LedgerConfig DEF Day

\* Only the data refresh and the bhavcopy write bars, and none of a day to come;
\* a bar that is there may be rewritten and does not go.
LEMMA BarsTyped ==
    ASSUME TablesTyped, [Next]_vars
    PROVE  /\ bars' = bars \/ Refresh \/ Bhavcopy
           /\ bars' \in [Symbol -> [Day -> Bar]]
           /\ \A s \in Symbol, d \in Day : d > today' => bars'[s][d] = "none"
           /\ \A s \in Symbol, d \in Day : bars[s][d] # "none" => bars'[s][d] # "none"
  <1>0. /\ bars \in [Symbol -> [Day -> Bar]]
        /\ \A s \in Symbol, d \in Day : d > today => bars[s][d] = "none"
        /\ today \in Nat /\ today' \in Nat /\ today <= today'
    BY ClockOnward DEF TablesTyped
  <1>1. bars' = bars \/ Refresh \/ Bhavcopy
    BY DEF BeginEvaluate, BeginStops, JobMissed, EndEvaluating, StorePnl, EvaluateTrade,
           SchedulerChecksStop, EndStops, BeginManualStops, ManualOutcome, ApiChecksStop, Predict,
           Crash, ClockPasses, vars, tableVars, priceVars, Next, SchedulerStep, ApiStep
  <1>2. CASE bars' = bars
    <2>1. ASSUME NEW s \in Symbol, NEW d \in Day, d > today' PROVE bars'[s][d] = "none"
      <3>1. d > today
        BY <1>0, <2>1, LedgerConfig DEF Day
      <3> QED
        BY <1>0, <1>2, <3>1
    <2> QED
      BY <1>0, <1>2, <2>1
  <1>3. CASE Refresh \/ Bhavcopy
    <2>1. BarsGrow /\ today' = today
      BY <1>3, RefreshEffect, BhavcopyEffect
    <2>2. ASSUME NEW s \in Symbol, NEW d \in Day, d > today' PROVE bars'[s][d] = "none"
      <3>1. d > today /\ ~(d <= today)
        BY <1>0, <2>1, <2>2, LedgerConfig DEF Day
      <3> QED
        BY <1>0, <2>1, <3>1 DEF BarsGrow
    <2> QED
      BY <1>3, <2>1, <2>2 DEF BarsGrow
  <1> QED
    BY <1>1, <1>2, <1>3

\* Only the stop check of the day notes bars.
LEMMA CheckedTyped ==
    ASSUME TablesTyped, [Next]_vars
    PROVE  (checked' = checked \/ BeginStops) /\ checked' \in [Symbol -> [Day -> Bar]]
  <1>1. CASE Refresh \/ Bhavcopy
    BY <1>1, RefreshEffect, BhavcopyEffect DEF BarsGrow, TablesTyped
  <1>2. CASE BeginStops
    BY <1>2, BeginStopsEffect
  <1>3. ASSUME ~(Refresh \/ Bhavcopy \/ BeginStops) PROVE checked' = checked
    BY <1>3 DEF BeginEvaluate, JobMissed, EndEvaluating, StorePnl, EvaluateTrade,
           SchedulerChecksStop, EndStops, BeginManualStops, ManualOutcome, ApiChecksStop, Predict,
           Crash, ClockPasses, vars, tableVars, priceVars, Next, SchedulerStep, ApiStep
  <1> QED
    BY <1>1, <1>2, <1>3 DEF TablesTyped

LEMMA CountersTyped ==
    ASSUME TablesTyped, JobsInOrder, [Next]_vars
    PROVE  /\ requests' \in 0..MaxManual /\ predictions' \in 0..MaxPredictions
           /\ misses' \in 0..MaxMisses
           /\ requests <= requests' /\ misses <= misses' /\ predictions <= predictions'
  <1>1. misses' = misses \/ Missed
    BY DEF BeginEvaluate, Refresh, Bhavcopy, BeginStops, JobMissed, EndEvaluating, StorePnl, EvaluateTrade,
           SchedulerChecksStop, CheckStop, EndStops, BeginManualStops, ManualOutcome, ApiChecksStop,
           Predict, Crash, ClockPasses, vars, Next, SchedulerStep, ApiStep
  <1>2. predictions' = predictions \/ Predict
    BY DEF BeginEvaluate, Refresh, Bhavcopy, BeginStops, JobMissed, EndEvaluating, StorePnl, EvaluateTrade,
           SchedulerChecksStop, EndStops, BeginManualStops, ManualOutcome, ApiChecksStop,
           Crash, ClockPasses, vars, Next, SchedulerStep, ApiStep
  <1>3. requests' = requests \/ ByHand
    BY DEF BeginEvaluate, Refresh, Bhavcopy, BeginStops, JobMissed, EndEvaluating, StorePnl, EvaluateTrade,
           SchedulerChecksStop, EndStops, BeginManualStops, ManualOutcome, ApiChecksStop, Predict,
           Crash, ClockPasses, vars, Next, SchedulerStep, ApiStep
  <1>4. requests \in 0..MaxManual /\ predictions \in 0..MaxPredictions /\ misses \in 0..MaxMisses
    BY DEF TablesTyped
  <1>5. misses' \in 0..MaxMisses /\ misses <= misses'
    BY <1>1, <1>4, LedgerConfig DEF Missed
  <1>6. requests' \in 0..MaxManual /\ requests <= requests'
    BY <1>3, <1>4, LedgerConfig DEF ByHand
  <1>7. predictions' \in 0..MaxPredictions /\ predictions <= predictions'
    BY <1>2, <1>4, LedgerConfig DEF Predict
  <1> QED
    BY <1>5, <1>6, <1>7

LEMMA TablesStay ==
    ASSUME TablesTyped, JobsInOrder, [Next]_vars
    PROVE  TablesTyped'
  <1>1. /\ trade' \in [Key -> Trade]
        /\ \A k \in Key : (trade'[k].exit = "open") = (trade'[k].exitDay = 0)
    BY StepGrows DEF TradesGrow
  <1>2. ASSUME NEW k \in Key PROVE trade'[k].exitDay <= today'
    <2>1. trade'[k].exitDay <= today /\ trade'[k].exitDay \in 0..MaxDay
      BY <1>1, StepGrows DEF TradesGrow, Trade
    <2>2. today \in Nat /\ today' \in Nat /\ today <= today'
      BY ClockOnward
    <2> QED
      BY <2>1, <2>2, LedgerConfig
  <1>3. pnl' \in [Day -> (SUBSET Key) \union {NoPnl}] /\ \A d \in Day : pnl'[d] # {}
    <2>1. pnl' = pnl \/ StorePnl
      BY DEF BeginEvaluate, Refresh, Bhavcopy, BeginStops, JobMissed, EndEvaluating, StorePnl, EvaluateTrade,
             SchedulerChecksStop, EndStops, BeginManualStops, ManualOutcome, ApiChecksStop, Predict,
             Crash, ClockPasses, vars, tableVars, Next, SchedulerStep, ApiStep
    <2>2. CASE StorePnl
      <3>1. sched \in JobType(today) /\ (sched.at = "storing" => sched.done # {})
        BY DEF JobsInOrder
      <3>2. sched.done # {}
        BY <2>2, <3>1, StorePnlEffect
      <3>3. pnl \in [Day -> (SUBSET Key) \union {NoPnl}] /\ \A d \in Day : pnl[d] # {}
        BY DEF TablesTyped
      <3>4. CASE pnl' = pnl
        BY <3>3, <3>4
      <3>5. CASE /\ pnl' \in [Day -> (SUBSET Key) \union {NoPnl}]
                 /\ \A d \in Day \ {today} : pnl'[d] = pnl[d]
                 /\ pnl'[today] = IF pnl[today] = NoPnl THEN sched.done ELSE pnl[today]
        <4>1. today \in Day
          BY DEF TablesTyped
        <4>2. pnl'[today] # {}
          BY <3>2, <3>3, <3>5, <4>1
        <4> QED
          BY <3>3, <3>5, <4>2
      <3> QED
        BY <2>2, <3>1, <3>4, <3>5, StorePnlEffect
    <2> QED
      BY <2>1, <2>2 DEF TablesTyped
  <1> QED
    BY <1>1, <1>2, <1>3, ClockTyped, BarsTyped, CheckedTyped, CountersTyped DEF TablesTyped

LEMMA JobTypeGrows ==
    ASSUME NEW d \in Nat, NEW e \in Nat, d <= e, NEW job \in JobType(d)
    PROVE  job \in JobType(e)
  BY DEF JobType

\* The scheduler's job after a step.
LEMMA SchedStays ==
    ASSUME TablesTyped, JobsInOrder, [Next]_vars
    PROVE  /\ sched' \in JobType(today')
           /\ sched'.at \in {"evaluating", "storing"} => slot' = "evaluate" /\ ran'
           /\ sched'.at = "stopping" => slot' = "stops" /\ ran'
           /\ sched'.at # "idle" => sched'.day = today'
           /\ sched'.at = "idle" => sched'.todo = {}
           /\ sched'.at = "storing" => sched'.done # {}
           /\ \A k \in sched'.todo : trade'[k].stored
  <1> DEFINE Goal == /\ sched' \in JobType(today')
                     /\ sched'.at \in {"evaluating", "storing"} => slot' = "evaluate" /\ ran'
                     /\ sched'.at = "stopping" => slot' = "stops" /\ ran'
                     /\ sched'.at # "idle" => sched'.day = today'
                     /\ sched'.at = "idle" => sched'.todo = {}
                     /\ sched'.at = "storing" => sched'.done # {}
                     /\ \A k \in sched'.todo : trade'[k].stored
  <1>1. /\ sched \in JobType(today)
        /\ sched.at \in {"evaluating", "storing"} => slot = "evaluate" /\ ran
        /\ sched.at = "stopping" => slot = "stops" /\ ran
        /\ sched.at # "idle" => sched.day = today
        /\ sched.at = "idle" => sched.todo = {}
        /\ sched.at = "storing" => sched.done # {}
        /\ \A k \in sched.todo : trade[k].stored
        /\ sched.todo \in SUBSET Key
    BY DEF JobsInOrder, JobType
  <1>2. \A k \in Key : trade[k].stored => trade'[k].stored
    BY StepGrows DEF TradesGrow
  <1>3. today \in Nat /\ today' \in Nat /\ today <= today' /\ today' \in Day
    BY ClockOnward, ClockTyped
  <1>4. CASE sched' = NoJob
    BY <1>3, <1>4, NoJobFacts
  <1>5. CASE sched' = sched
    <2>1. sched' \in JobType(today')
      BY <1>1, <1>3, <1>5, JobTypeGrows
    <2>2. ASSUME slot' = slot, ran => ran', today' = today PROVE Goal
      BY <1>1, <1>2, <1>5, <2>1, <2>2
    <2>3. ASSUME sched.at = "idle" PROVE Goal
      BY <1>1, <1>2, <1>5, <2>1, <2>3
    <2>4. CASE ClockPasses
      BY <2>3, <2>4, ClockPassesEffect
    <2>5. CASE JobMissed \/ Refresh \/ Bhavcopy
      BY <2>2, <2>5 DEF JobMissed, Refresh, Bhavcopy
    <2>6. CASE BeginEvaluate
      BY <1>1, <1>2, <1>5, <2>1, <2>6, BeginEvaluateEffect
    <2>7. CASE BeginStops
      BY <1>1, <1>2, <1>5, <2>1, <2>7, BeginStopsEffect
    <2>8. ASSUME \/ EndEvaluating \/ StorePnl \/ EndStops \/ BeginManualStops \/ ManualOutcome
                 \/ (\E k \in Key : ApiChecksStop(k) \/ EvaluateTrade(k) \/ SchedulerChecksStop(k))
                 \/ Predict \/ Crash \/ UNCHANGED vars
          PROVE  Goal
      <3>1. today' = today /\ slot' = slot /\ ran' = ran
        BY <2>8 DEF EndEvaluating, StorePnl, EvaluateTrade, SchedulerChecksStop, EndStops,
                    BeginManualStops, ManualOutcome, ApiChecksStop, Predict, Crash, vars, clockVars
      <3> QED
        BY <2>2, <3>1
    <2> QED
      BY <2>4, <2>5, <2>6, <2>7, <2>8 DEF Next, SchedulerStep, ApiStep
  <1>6. CASE BeginEvaluate
    <2>1. \A k \in sched'.todo : trade'[k].stored
      <3>1. \A k \in sched'.todo : IsOpen(trade[k]) /\ trade' = trade
        BY <1>6, BeginEvaluateEffect DEF tableVars
      <3> QED
        BY <3>1 DEF IsOpen
    <2> QED
      BY <1>6, <2>1, BeginEvaluateEffect
  <1>7. CASE BeginStops
    <2>1. \A k \in sched'.todo : trade'[k].stored
      <3>1. /\ sched' \in JobType(today) /\ trade' = trade
            /\ \A k \in Key : k \in sched'.todo <=> IsOpen(trade[k])
        BY <1>7, BeginStopsEffect DEF tableVars
      <3> QED
        BY <3>1 DEF IsOpen, JobType
    <2> QED
      BY <1>7, <2>1, BeginStopsEffect
  <1>8. CASE EndEvaluating
    <2>1. /\ sched.at = "evaluating" /\ UNCHANGED clockVars
          /\ \/ sched' = NoJob
             \/ /\ sched.done # {} /\ sched' \in JobType(today) /\ sched'.at = "storing"
                /\ sched'.day = sched.day /\ sched'.todo = {} /\ sched'.done = sched.done
      BY <1>1, <1>8, EndEvaluatingEffect
    <2> QED
      BY <1>1, <1>4, <2>1 DEF clockVars
  <1>9. ASSUME NEW k \in Key, EvaluateTrade(k) \/ SchedulerChecksStop(k) PROVE Goal
    <2>1. /\ sched.at \in {"evaluating", "stopping"}
          /\ sched' \in JobType(today) /\ SameJob(sched', sched) /\ sched'.todo = sched.todo \ {k}
          /\ today' = today /\ slot' = slot /\ ran' = ran
      BY <1>1, <1>9, EvaluateTradeEffect, SchedulerChecksStopEffect DEF clockVars
    <2>2. \A j \in sched'.todo : trade'[j].stored
      BY <1>1, <1>2, <2>1
    <2> QED
      BY <1>1, <2>1, <2>2 DEF SameJob
  <1>10. \/ sched' = NoJob \/ sched' = sched \/ BeginEvaluate \/ BeginStops \/ EndEvaluating
         \/ \E k \in Key : EvaluateTrade(k) \/ SchedulerChecksStop(k)
    BY DEF Refresh, Bhavcopy, JobMissed, StorePnl, EndStops, BeginManualStops, ManualOutcome, ApiChecksStop,
           Predict, Crash, ClockPasses, vars, Next, SchedulerStep, ApiStep
  <1> QED
    BY <1>4, <1>5, <1>6, <1>7, <1>8, <1>9, <1>10

\* The endpoint's job after a step.
LEMMA ApiStays ==
    ASSUME TablesTyped, JobsInOrder, [Next]_vars
    PROVE  /\ api' \in JobType(today') /\ api'.at \in {"idle", "stopping"}
           /\ \A k \in api'.todo : trade'[k].stored
  <1>1. /\ api \in JobType(today) /\ api.at \in {"idle", "stopping"}
        /\ \A k \in api.todo : trade[k].stored
        /\ api.todo \in SUBSET Key
    BY DEF JobsInOrder, JobType
  <1>2. \A k \in Key : trade[k].stored => trade'[k].stored
    BY StepGrows DEF TradesGrow
  <1>3. today \in Nat /\ today' \in Nat /\ today <= today' /\ today' \in Day
    BY ClockOnward, ClockTyped
  <1>4. CASE api' = NoJob
    BY <1>3, <1>4, NoJobFacts
  <1>5. CASE api' = api
    <2>1. api' \in JobType(today')
      BY <1>1, <1>3, <1>5, JobTypeGrows
    <2> QED
      BY <1>1, <1>2, <1>5, <2>1
  <1>6. CASE BeginManualStops
    <2>1. /\ today' = today /\ trade' = trade /\ api' \in JobType(today) /\ api'.at = "stopping"
          /\ \A k \in api'.todo : IsOpen(trade[k])
      BY <1>6, BeginManualStopsEffect DEF clockVars, tableVars
    <2> QED
      BY <2>1 DEF IsOpen
  <1>7. ASSUME NEW k \in Key, ApiChecksStop(k)
        PROVE  /\ api' \in JobType(today') /\ api'.at \in {"idle", "stopping"}
               /\ \A j \in api'.todo : trade'[j].stored
    <2>1. /\ api' \in JobType(today) /\ SameJob(api', api) /\ api'.todo = api.todo \ {k}
          /\ today' = today
      BY <1>1, <1>7, ApiChecksStopEffect DEF clockVars
    <2> QED
      BY <1>1, <1>2, <2>1 DEF SameJob
  <1>8. \/ api' = NoJob \/ api' = api \/ BeginManualStops \/ \E k \in Key : ApiChecksStop(k)
    BY DEF BeginEvaluate, BeginStops, EndEvaluating, EvaluateTrade, SchedulerChecksStop, Refresh, Bhavcopy,
           JobMissed, StorePnl, EndStops, ManualOutcome, Predict, Crash, ClockPasses, vars, Next,
           SchedulerStep, ApiStep
  <1> QED
    BY <1>4, <1>5, <1>6, <1>7, <1>8

LEMMA JobsStay ==
    ASSUME TablesTyped, JobsInOrder, [Next]_vars
    PROVE  JobsInOrder'
  <1>1. ASSUME NEW k \in Key
        PROVE  /\ trade'[k].exit # "open" => trade'[k].stored
               /\ trade'[k].stored => k[2] <= today'
    <2>1. /\ trade'[k].exit # "open" => trade'[k].stored
          /\ trade'[k].stored => k[2] <= today
      BY StepGrows DEF TradesGrow
    <2>2. k[2] \in Nat /\ today \in Nat /\ today' \in Nat /\ today <= today'
      BY KeyParts, ClockOnward
    <2> QED
      BY <2>1, <2>2
  <1> QED
    BY <1>1, SchedStays, ApiStays DEF JobsInOrder

\* What holds whatever goes wrong and whatever is asked for by hand.
Typed == TablesTyped /\ JobsInOrder

LEMMA Started ==
    ASSUME Init
    PROVE  Typed /\ trade = [k \in Key |-> NoTrade] /\ sched = NoJob /\ api = NoJob
  <1>1. 1 \in Day /\ 0 \in 0..MaxManual /\ 0 \in 0..MaxPredictions /\ 0 \in 0..MaxMisses
    BY LedgerConfig DEF Day
  <1>2. /\ bars \in [Symbol -> [Day -> Bar]] /\ checked \in [Symbol -> [Day -> Bar]]
        /\ \A s \in Symbol, d \in Day : bars[s][d] = "none"
    BY DEF Init, Bar
  <1>3. /\ trade \in [Key -> Trade]
        /\ \A k \in Key : trade[k].exit = "open" /\ trade[k].exitDay = 0 /\ ~trade[k].stored
    <2>1. NoTrade \in Trade /\ NoTrade.exit = "open" /\ NoTrade.exitDay = 0 /\ ~NoTrade.stored
      BY NoJobFacts DEF NoTrade
    <2> QED
      BY <2>1 DEF Init
  <1>4. pnl \in [Day -> (SUBSET Key) \union {NoPnl}] /\ \A d \in Day : pnl[d] # {}
    <2>1. NoPnl # {}
      BY DEF NoPnl
    <2>2. pnl = [d \in Day |-> NoPnl] /\ NoPnl \in (SUBSET Key) \union {NoPnl}
      BY DEF Init
    <2>3. pnl \in [Day -> (SUBSET Key) \union {NoPnl}]
      BY <2>2
    <2>4. \A d \in Day : pnl[d] = NoPnl
      BY <2>2
    <2> QED
      BY <2>1, <2>3, <2>4
  <1>5. NoJob \in JobType(1) /\ NoJob.at = "idle" /\ NoJob.todo = {}
    BY <1>1, NoJobFacts
  <1>6. today = 1 /\ slot = "predict" /\ ran = FALSE /\ sched = NoJob /\ api = NoJob
    BY DEF Init
  <1>7. TablesTyped
    <2>1. requests = 0 /\ predictions = 0 /\ misses = 0
      BY DEF Init
    <2>2. \A k \in Key : /\ (trade[k].exit = "open") = (trade[k].exitDay = 0)
                         /\ trade[k].exitDay <= today
      BY <1>3, <1>6
    <2>3. slot \in Slot /\ ran \in BOOLEAN /\ today \in Day
      BY <1>1, <1>6 DEF Slot
    <2> QED
      BY <1>1, <1>2, <1>3, <1>4, <2>1, <2>2, <2>3 DEF TablesTyped
  <1>8. JobsInOrder
    BY <1>3, <1>5, <1>6 DEF JobsInOrder
  <1> QED
    BY <1>6, <1>7, <1>8 DEF Typed, Init

\* The tables and the jobs keep their types together: a job's day, step and queue
\* fit each other, and its queue holds predictions of earlier days only.
THEOREM TypesHold == Spec => []Typed
  <1>1. Init => Typed
    BY Started
  <1>2. Typed /\ [Next]_vars => Typed'
    BY TablesStay, JobsStay DEF Typed
  <1> QED
    BY <1>1, <1>2, PTL DEF Spec

\* Every variable stays in its range, a job keeps to its part of the day and to
\* the date it began on, and a trade has an exit day just when it has an exit.
THEOREM TypeCorrect == Spec => []TypeOK
  <1>1. Typed => TypeOK
    <2> SUFFICES ASSUME Typed PROVE TypeOK
      OBVIOUS
    <2>1. ASSUME NEW job \in JobType(today)
          PROVE  /\ job.at \in {"idle", "evaluating", "storing", "stopping"}
                 /\ job.day \in 1..today /\ job.todo \subseteq Key /\ job.done \subseteq Key
      BY DEF JobType
    <2>2. sched \in JobType(today) /\ api \in JobType(today)
      BY DEF Typed, JobsInOrder
    <2>3. ASSUME NEW d \in Day, pnl[d] # NoPnl PROVE pnl[d] \subseteq Key /\ pnl[d] # {}
      BY <2>3 DEF Typed, TablesTyped
    <2> QED
      BY <2>1, <2>2, <2>3 DEF Typed, TablesTyped, TypeOK
  <1> QED
    BY <1>1, TypesHold, PTL

\* A trade that has an outcome keeps one, whatever the jobs and the endpoints
\* do in between (the DO UPDATE of store_paper_trade leaves the outcome alone).
THEOREM ClosedStaysClosed == Spec => StaysClosed
  <1>1. Typed /\ [Next]_vars =>
           [\A k \in Key : trade[k].exit # "open" => trade'[k].exit # "open"]_vars
    BY StepGrows DEF Typed, TradesGrow
  <1> QED
    BY <1>1, TypesHold, PTL DEF Spec, StaysClosed

-----------------------------------------------------------------------------
(* The P&L of the days *)

\* The rows of the P&L: their trades are closed and in no other row.
PnlInv == PnlCountsOnce /\ NotYetCounted

LEMMA PnlKept ==
    ASSUME Typed, Typed', PnlInv, [Next]_vars
    PROVE  PnlInv'
  <1>1. /\ sched \in JobType(today) /\ sched.todo \in SUBSET Key /\ sched.done \in SUBSET Key
        /\ \A k \in Key : trade[k].exit # "open" => trade'[k].exit # "open"
        /\ TablesTyped /\ today \in Day
    BY StepGrows DEF Typed, JobsInOrder, TablesTyped, JobType, TradesGrow
  <1>2. /\ \A d \in Day, k \in Key : pnl[d] # NoPnl /\ k \in pnl[d] =>
              /\ trade[k].exit # "open"
              /\ \A e \in Day \ {d} : pnl[e] # NoPnl => k \notin pnl[e]
        /\ sched.at \in {"evaluating", "storing"} =>
              /\ \A k \in sched.done : trade[k].exit # "open"
              /\ \A k \in sched.todo \union sched.done, d \in Day : pnl[d] # NoPnl => k \notin pnl[d]
    BY DEF PnlInv, PnlCountsOnce, NotYetCounted
  <1>3. CASE pnl' = pnl /\ (sched' = NoJob \/ sched' = sched \/ sched'.at = "stopping")
    <2>1. NoJob.at = "idle"
      BY NoJobFacts
    <2>2. PnlCountsOnce'
      BY <1>1, <1>2, <1>3 DEF PnlCountsOnce
    <2>3. NotYetCounted'
      BY <1>1, <1>2, <1>3, <2>1 DEF NotYetCounted
    <2> QED
      BY <2>2, <2>3 DEF PnlInv
  <1>4. CASE BeginEvaluate
    <2>1. /\ sched'.done = {} /\ sched' \in JobType(today) /\ trade' = trade /\ pnl' = pnl
          /\ \A k \in sched'.todo : IsOpen(trade[k])
      BY <1>1, <1>4, BeginEvaluateEffect DEF tableVars
    <2>2. \A k \in sched'.todo : k \in Key /\ trade[k].exit = "open"
      BY <2>1 DEF IsOpen, JobType
    <2>3. \A k \in sched'.todo \union sched'.done, d \in Day : pnl'[d] # NoPnl => k \notin pnl'[d]
      BY <1>2, <2>1, <2>2
    <2>4. PnlCountsOnce'
      BY <1>2, <2>1 DEF PnlCountsOnce
    <2>5. NotYetCounted'
      BY <2>1, <2>3 DEF NotYetCounted
    <2> QED
      BY <2>4, <2>5 DEF PnlInv
  <1>5. CASE EndEvaluating
    <2>1. /\ sched.at = "evaluating" /\ sched.todo = {} /\ trade' = trade /\ pnl' = pnl
          /\ sched' = NoJob \/ (sched'.todo = {} /\ sched'.done = sched.done)
      BY <1>1, <1>5, EndEvaluatingEffect DEF tableVars
    <2>2. PnlCountsOnce'
      BY <1>2, <2>1 DEF PnlCountsOnce
    <2>3. NotYetCounted'
      BY <1>2, <2>1, NoJobFacts DEF NotYetCounted
    <2> QED
      BY <2>2, <2>3 DEF PnlInv
  <1>6. ASSUME NEW k \in Key, EvaluateTrade(k) PROVE PnlInv'
    <2>1. /\ sched.at = "evaluating" /\ k \in sched.todo /\ pnl' = pnl
          /\ sched'.todo = sched.todo \ {k}
          /\ \/ sched'.done = sched.done
             \/ sched'.done = sched.done \union {k} /\ trade'[k].exit # "open"
      BY <1>1, <1>6, EvaluateTradeEffect DEF Closes
    <2>2. PnlCountsOnce'
      BY <1>1, <1>2, <2>1 DEF PnlCountsOnce
    <2>3. NotYetCounted'
      BY <1>1, <1>2, <2>1 DEF NotYetCounted
    <2> QED
      BY <2>2, <2>3 DEF PnlInv
  <1>7. CASE StorePnl
    <2>1. sched.at = "storing" /\ sched'.at = "idle" /\ trade' = trade
      BY <1>1, <1>7, StorePnlEffect, NoJobFacts
    <2>2. CASE pnl' = pnl
      BY <1>2, <2>1, <2>2 DEF PnlInv, PnlCountsOnce, NotYetCounted
    <2>3. CASE /\ \A d \in Day \ {today} : pnl'[d] = pnl[d]
               /\ pnl'[today] = IF pnl[today] = NoPnl THEN sched.done ELSE pnl[today]
      <3>1. ASSUME NEW d \in Day, NEW k \in Key, pnl'[d] # NoPnl, k \in pnl'[d]
            PROVE  \/ pnl[d] # NoPnl /\ k \in pnl[d]
                   \/ d = today /\ k \in sched.done
        BY <2>3, <3>1
      <3>2. ASSUME NEW d \in Day, NEW k \in Key, pnl'[d] # NoPnl, k \in pnl'[d],
                   NEW e \in Day, pnl'[e] # NoPnl, k \in pnl'[e]
            PROVE  d = e
        BY <1>2, <2>1, <3>1, <3>2
      <3>3. PnlCountsOnce'
        BY <1>2, <2>1, <3>1, <3>2 DEF PnlCountsOnce
      <3> QED
        BY <2>1, <3>3 DEF PnlInv, NotYetCounted
    <2> QED
      BY <1>1, <1>7, <2>2, <2>3, StorePnlEffect
  <1>8. \/ pnl' = pnl /\ (sched' = NoJob \/ sched' = sched \/ sched'.at = "stopping")
        \/ BeginEvaluate \/ EndEvaluating \/ StorePnl \/ \E k \in Key : EvaluateTrade(k)
    <2>1. ASSUME NEW k \in Key, SchedulerChecksStop(k)
          PROVE  pnl' = pnl /\ sched'.at = "stopping"
      BY <1>1, <2>1, SchedulerChecksStopEffect DEF SameJob
    <2>2. CASE BeginStops
      BY <1>1, <2>2, BeginStopsEffect DEF tableVars
    <2>3. ASSUME \/ Refresh \/ Bhavcopy \/ JobMissed \/ EndStops \/ BeginManualStops \/ ManualOutcome
                 \/ (\E k \in Key : ApiChecksStop(k))
                 \/ Predict \/ Crash \/ ClockPasses \/ UNCHANGED vars
          PROVE  pnl' = pnl /\ (sched' = NoJob \/ sched' = sched)
      BY <2>3 DEF Refresh, Bhavcopy, JobMissed, EndStops, BeginManualStops, ManualOutcome, ApiChecksStop,
                  Predict, Crash, ClockPasses, vars, tableVars
    <2> QED
      BY <2>1, <2>2, <2>3 DEF Next, SchedulerStep, ApiStep
  <1> QED
    BY <1>3, <1>4, <1>5, <1>6, <1>7, <1>8

\* No trade counts in the P&L of two days and no open trade in any, whatever
\* write fails, wherever the evaluation is broken off, and whatever the
\* endpoints close in between.
THEOREM CountedOnce == Spec => []PnlCountsOnce
  <1>1. Init => PnlInv
    <2> SUFFICES ASSUME Init PROVE PnlInv
      OBVIOUS
    <2>1. sched.at = "idle"
      BY Started, NoJobFacts
    <2>2. \A d \in Day : pnl[d] = NoPnl
      BY DEF Init
    <2> QED
      BY <2>1, <2>2 DEF PnlInv, PnlCountsOnce, NotYetCounted
  <1>2. Typed /\ Typed' /\ PnlInv /\ [Next]_vars => PnlInv'
    BY PnlKept
  <1>3. PnlInv => PnlCountsOnce
    BY DEF PnlInv
  <1> QED
    BY <1>1, <1>2, <1>3, TypesHold, PTL DEF Spec

-----------------------------------------------------------------------------
(* The snapshot of the scheduler's job *)

\* Only Predict changes what was predicted.
PredictionsSame ==
    \A k \in Key : /\ trade'[k].stored = trade[k].stored /\ trade'[k].dir = trade[k].dir
                   /\ trade'[k].levels = trade[k].levels

LEMMA ClosesSamePredictions ==
    ASSUME NEW k \in Key, NEW exit, NEW day, NEW ret, NEW correct,
           Closes(k, exit, day, ret, correct)
    PROVE  PredictionsSame
  BY DEF Closes, OnlyTrade, PredictionsSame

LEMMA PredictionsStay ==
    ASSUME Typed, [Next]_vars, ~Predict
    PROVE  PredictionsSame
  <1>1. sched \in JobType(today) /\ api \in JobType(today) /\ TablesTyped
    BY DEF Typed, JobsInOrder
  <1>2. CASE trade' = trade
    BY <1>2 DEF PredictionsSame
  <1>3. ASSUME NEW k \in Key, EvaluateTrade(k) PROVE PredictionsSame
    BY <1>1, <1>2, <1>3, EvaluateTradeEffect, ClosesSamePredictions
  <1>4. ASSUME NEW k \in Key, NEW job, StopChecked(job, k) PROVE PredictionsSame
    BY <1>2, <1>4, ClosesSamePredictions DEF StopChecked
  <1>5. ASSUME NEW k \in Key, SchedulerChecksStop(k) \/ ApiChecksStop(k) PROVE PredictionsSame
    BY <1>1, <1>4, <1>5, SchedulerChecksStopEffect, ApiChecksStopEffect
  <1>6. CASE ManualOutcome
    BY <1>1, <1>6, ManualOutcomeEffect, ClosesSamePredictions
  <1>7. \/ trade' = trade \/ ManualOutcome
        \/ \E k \in Key : EvaluateTrade(k) \/ SchedulerChecksStop(k) \/ ApiChecksStop(k)
    BY DEF BeginEvaluate, EndEvaluating, StorePnl, Refresh, Bhavcopy, BeginStops, EndStops,
           ClockPasses, BeginManualStops, JobMissed, Crash, vars, tableVars,
           Next, SchedulerStep, ApiStep
  <1> QED
    BY <1>2, <1>3, <1>5, <1>6, <1>7

\* A step of the day without a manual endpoint: nothing but its job writes a
\* trade, one that the job has to do, and no job is on while trades are stored.
LEMMA JobsStep ==
    ASSUME Typed, SnapshotHolds, [Next]_vars, requests' = 0
    PROVE  /\ requests = 0 /\ api.at = "idle" /\ api' \in {api, NoJob}
           /\ \/ trade' = trade
              \/ Predict /\ slot = "predict" /\ sched.at = "idle" /\ sched' = sched
              \/ \E k \in sched.todo : EvaluateTrade(k)
              \/ \E k \in sched.todo : SchedulerChecksStop(k)
  <1>1. /\ sched \in JobType(today) /\ TablesTyped
        /\ requests \in Nat /\ requests <= requests'
        /\ sched.at = "evaluating" \/ sched.at = "storing" => slot = "evaluate"
        /\ sched.at = "stopping" => slot = "stops"
    BY CountersTyped DEF Typed, JobsInOrder, TablesTyped
  <1>2. requests = 0
    BY <1>1
  <1>3. api.at = "idle"
    BY <1>2 DEF SnapshotHolds
  <1>4. ~BeginManualStops /\ ~ManualOutcome
    BY <1>1, <1>2, BeginManualStopsEffect, ManualOutcomeEffect
  <1>5. \A k \in Key : ~ApiChecksStop(k)
    BY <1>3 DEF ApiChecksStop
  <1>6. CASE Predict
    <2>1. slot = "predict" /\ sched' = sched /\ api' = api
      BY <1>1, <1>2, <1>6, PredictEffect
    <2>2. sched.at = "idle"
      BY <1>1, <2>1 DEF JobType
    <2> QED
      BY <1>2, <1>3, <1>6, <2>1, <2>2
  <1>7. ASSUME NEW k \in Key, EvaluateTrade(k) \/ SchedulerChecksStop(k)
        PROVE  k \in sched.todo /\ api' = api
    BY <1>7 DEF EvaluateTrade, SchedulerChecksStop
  <1>8. ASSUME \/ BeginEvaluate \/ EndEvaluating \/ StorePnl \/ Refresh \/ Bhavcopy \/ BeginStops \/ EndStops
               \/ ClockPasses \/ JobMissed \/ Crash \/ UNCHANGED vars
        PROVE  trade' = trade /\ api' \in {api, NoJob}
    BY <1>8 DEF BeginEvaluate, EndEvaluating, StorePnl, Refresh, Bhavcopy, BeginStops, EndStops,
                ClockPasses, JobMissed, Crash, vars, tableVars
  <1> QED
    BY <1>2, <1>3, <1>4, <1>5, <1>6, <1>7, <1>8 DEF Next, SchedulerStep, ApiStep

LEMMA SnapshotKept ==
    ASSUME Typed, SnapshotHolds, [Next]_vars
    PROVE  SnapshotHolds'
  <1> SUFFICES ASSUME requests' = 0
               PROVE  /\ api'.at = "idle"
                      /\ \A k \in sched'.todo : IsOpen(trade'[k]) /\ trade'[k] = sched'.snapshot[k]
    BY DEF SnapshotHolds, IsOpen
  <1>1. /\ sched \in JobType(today) /\ TablesTyped
        /\ sched.at = "idle" => sched.todo = {}
    BY DEF Typed, JobsInOrder
  <1>2. \A k \in sched.todo : k \in Key /\ IsOpen(trade[k]) /\ trade[k] = sched.snapshot[k]
    BY JobsStep, <1>1 DEF SnapshotHolds, JobType
  <1>3. api'.at = "idle"
    BY JobsStep, NoJobFacts
  <1>4. ASSUME NEW k \in sched.todo, OnlyTrade(k) \/ trade' = trade,
               sched'.todo = sched.todo \ {k}, SameJob(sched', sched)
        PROVE  \A j \in sched'.todo : IsOpen(trade'[j]) /\ trade'[j] = sched'.snapshot[j]
    <2>1. \A j \in sched'.todo : j \in sched.todo /\ trade'[j] = trade[j]
      BY <1>2, <1>4 DEF OnlyTrade
    <2> QED
      BY <1>2, <1>4, <2>1 DEF SameJob
  <1>5. ASSUME NEW k \in sched.todo, EvaluateTrade(k)
        PROVE  \A j \in sched'.todo : IsOpen(trade'[j]) /\ trade'[j] = sched'.snapshot[j]
    <2>1. /\ sched'.todo = sched.todo \ {k} /\ SameJob(sched', sched)
          /\ OnlyTrade(k) \/ trade' = trade
      BY <1>1, <1>2, <1>5, EvaluateTradeEffect DEF Closes
    <2> QED
      BY <1>4, <2>1
  <1>6. ASSUME NEW k \in sched.todo, SchedulerChecksStop(k)
        PROVE  \A j \in sched'.todo : IsOpen(trade'[j]) /\ trade'[j] = sched'.snapshot[j]
    <2>1. /\ sched'.todo = sched.todo \ {k} /\ SameJob(sched', sched)
          /\ OnlyTrade(k) \/ trade' = trade
      BY <1>1, <1>2, <1>6, SchedulerChecksStopEffect DEF Closes, StopChecked
    <2> QED
      BY <1>4, <2>1
  <1>7. CASE sched.at = "idle" /\ sched' = sched
    BY <1>1, <1>3, <1>7
  <1>8. CASE trade' = trade
    <2>1. CASE sched'.todo = {} \/ sched' = sched
      BY <1>2, <1>3, <1>8, <2>1
    <2>2. CASE BeginEvaluate
      BY <1>1, <1>3, <1>8, <2>2, BeginEvaluateEffect
    <2>3. CASE BeginStops
      <3>1. sched' \in JobType(today) /\ \A k \in Key : k \in sched'.todo => IsOpen(trade[k])
        BY <1>1, <2>3, BeginStopsEffect
      <3>2. \A k \in sched'.todo : k \in Key
        BY <3>1 DEF JobType
      <3> QED
        BY <1>1, <1>3, <1>8, <2>3, <3>1, <3>2, BeginStopsEffect
    <2>4. CASE EndEvaluating
      BY <1>1, <2>1, <2>4, EndEvaluatingEffect, NoJobFacts
    <2>5. ASSUME NEW k \in Key, EvaluateTrade(k) \/ SchedulerChecksStop(k)
          PROVE  \A j \in sched'.todo : IsOpen(trade'[j]) /\ trade'[j] = sched'.snapshot[j]
      BY <1>5, <1>6, <2>5 DEF EvaluateTrade, SchedulerChecksStop
    <2>6. \/ sched' = NoJob \/ sched' = sched \/ BeginEvaluate \/ BeginStops \/ EndEvaluating
          \/ \E k \in Key : EvaluateTrade(k) \/ SchedulerChecksStop(k)
      BY DEF Refresh, Bhavcopy, JobMissed, StorePnl, EndStops, BeginManualStops, ManualOutcome, ApiChecksStop,
             Predict, Crash, ClockPasses, vars, Next, SchedulerStep, ApiStep
    <2> QED
      BY <1>3, <2>1, <2>2, <2>3, <2>4, <2>5, <2>6, NoJobFacts
  <1> QED
    BY <1>3, <1>5, <1>6, <1>7, <1>8, JobsStep

LEMMA SnapshotStarts == Init => SnapshotHolds
  BY Started, NoJobFacts DEF SnapshotHolds

\* Without the manual endpoints the 15:45 and the 17:30 jobs never close a
\* trade again, for any number of missed, late or broken off jobs.
THEOREM JobsCloseOnce == ASSUME MaxManual = 0 PROVE Spec => ClosedOnce
  <1>1. Typed /\ Typed' /\ SnapshotHolds /\ [Next]_vars =>
           [\A k \in Key : trade[k].exit # "open" =>
               LET Outcome(t) == <<t.exit, t.exitDay, t.reason, t.ret, t.correct>>
               IN  Outcome(trade[k]') = Outcome(trade[k])]_vars
    <2> SUFFICES ASSUME Typed, Typed', SnapshotHolds, [Next]_vars,
                        NEW k \in Key, trade[k].exit # "open"
                 PROVE  /\ trade'[k].exit = trade[k].exit /\ trade'[k].exitDay = trade[k].exitDay
                        /\ trade'[k].reason = trade[k].reason /\ trade'[k].ret = trade[k].ret
                        /\ trade'[k].correct = trade[k].correct
      OBVIOUS
    <2>1. requests' = 0
      BY DEF Typed, TablesTyped
    <2>2. sched \in JobType(today) /\ TablesTyped
      BY DEF Typed, JobsInOrder
    <2>3. k \notin sched.todo
      BY <2>1, JobsStep DEF SnapshotHolds, IsOpen
    <2>4. CASE trade' = trade
      BY <2>4
    <2>5. CASE Predict
      BY <2>2, <2>5, PredictEffect DEF Predicts, OnlyTrade
    <2>6. ASSUME NEW j \in sched.todo, EvaluateTrade(j) PROVE trade'[k] = trade[k]
      BY <2>2, <2>3, <2>6, EvaluateTradeEffect DEF Closes, OnlyTrade, JobType
    <2>7. ASSUME NEW j \in sched.todo, SchedulerChecksStop(j) PROVE trade'[k] = trade[k]
      BY <2>2, <2>3, <2>7, SchedulerChecksStopEffect DEF StopChecked, Closes, OnlyTrade, JobType
    <2> QED
      BY <2>1, <2>4, <2>5, <2>6, <2>7, JobsStep
  <1>2. Typed /\ SnapshotHolds /\ [Next]_vars => SnapshotHolds'
    BY SnapshotKept
  <1> QED
    BY <1>1, <1>2, SnapshotStarts, TypesHold, PTL DEF Spec, ClosedOnce

-----------------------------------------------------------------------------
(* What was predicted and what came of it *)

Stored == {k \in Key : trade[k].stored}

LEMMA StoredFinite ==
    /\ IsFiniteSet(Key)
    /\ \A T \in SUBSET Key : IsFiniteSet(T) /\ Cardinality(T) \in Nat
  <1>1. IsFiniteSet(Day)
    BY LedgerConfig, FS_Interval DEF Day
  <1>2. IsFiniteSet(Key)
    BY <1>1, LedgerConfig, FS_Product DEF Key
  <1>3. ASSUME NEW T \in SUBSET Key PROVE IsFiniteSet(T) /\ Cardinality(T) \in Nat
    BY <1>2, FS_Subset, FS_CardinalityType
  <1> QED
    BY <1>2, <1>3

\* Storing a prediction adds a trade or uses up the "stored once".
LEMMA StoredStep ==
    ASSUME Typed, Cardinality(Stored) <= predictions, [Next]_vars
    PROVE  /\ (Cardinality(Stored) <= predictions)'
           /\ NoneStoredAgain' =>
                 /\ NoneStoredAgain
                 /\ \A k \in Key : trade[k].stored => trade'[k].dir = trade[k].dir
  <1>1. Cardinality(Stored) \in Nat /\ predictions \in Nat /\ IsFiniteSet(Stored) /\ TablesTyped
    BY StoredFinite DEF Typed, TablesTyped, Stored
  <1>2. NoneStoredAgain = (predictions = Cardinality(Stored))
    BY DEF NoneStoredAgain, Stored
  <1>3. NoneStoredAgain' = (predictions' = Cardinality(Stored'))
    BY DEF NoneStoredAgain, Stored
  <1>4. CASE Predict
    <2>1. PICK k \in Key, dir \in Sign, levels \in Levels :
             Predicts(k, dir, levels) /\ predictions' = predictions + 1
      BY <1>1, <1>4, PredictEffect
    <2>2. /\ trade'[k].stored
          /\ \A j \in Key \ {k} : trade'[j] = trade[j]
      BY <2>1 DEF Predicts, OnlyTrade
    <2>3. Stored' = Stored \union {k}
      BY <2>2 DEF Stored
    <2>4. CASE k \in Stored
      <3>1. Stored' = Stored
        BY <2>3, <2>4
      <3>2. Cardinality(Stored') = Cardinality(Stored)
        BY <3>1
      <3>3. Cardinality(Stored') <= predictions' /\ predictions' # Cardinality(Stored')
        BY <1>1, <2>1, <3>2
      <3> QED
        BY <1>3, <3>3
    <2>5. CASE k \notin Stored
      <3>1. Cardinality(Stored') = Cardinality(Stored) + 1
        BY <1>1, <2>3, <2>5, FS_AddElement
      <3>2. \A j \in Key : trade[j].stored => trade'[j].dir = trade[j].dir
        BY <2>2, <2>5 DEF Stored
      <3> QED
        BY <1>1, <1>2, <1>3, <2>1, <3>1, <3>2
    <2> QED
      BY <2>4, <2>5
  <1>5. CASE ~Predict
    <2>1. PredictionsSame
      BY <1>5, PredictionsStay
    <2>2. Stored' = Stored
      BY <2>1 DEF PredictionsSame, Stored
    <2>3. predictions' = predictions
      BY <1>5 DEF BeginEvaluate, Refresh, Bhavcopy, BeginStops, JobMissed, EndEvaluating, StorePnl,
             EvaluateTrade, SchedulerChecksStop, EndStops, BeginManualStops, ManualOutcome,
             ApiChecksStop, Crash, ClockPasses, vars, Next, SchedulerStep, ApiStep
    <2> QED
      BY <1>2, <1>3, <2>1, <2>2, <2>3 DEF PredictionsSame
  <1> QED
    BY <1>4, <1>5

\* Snapshots and outcomes agree with the direction the trade was stored with.
FitInv == StoredOnce /\ OutcomeFitsPrediction

\* A trade that is closed by the program, as a snapshot with the trade's own
\* direction says, fits.
LEMMA ClosedTradeFits ==
    ASSUME NEW k \in Key, NEW exit, NEW day, NEW ret, NEW correct, NEW dir,
           Closes(k, exit, day, ret, correct), correct = (dir = ret), dir = trade[k].dir,
           OutcomeFitsPrediction, NoneStoredAgain
    PROVE  \A j \in Key : trade'[j].exit \in {"stop", "target", "close"} =>
               trade'[j].correct = (trade'[j].dir = trade'[j].ret)
  BY DEF Closes, OnlyTrade, OutcomeFitsPrediction

LEMMA FitKept ==
    ASSUME Typed, Typed', FitInv, [Next]_vars
    PROVE  FitInv'
  <1>1. /\ sched \in JobType(today) /\ api \in JobType(today) /\ TablesTyped
        /\ sched.todo \in SUBSET Key /\ api.todo \in SUBSET Key
        /\ \A k \in sched.todo \union api.todo : trade[k].stored
        /\ \A k \in Key : trade[k].exit # "open" => trade[k].stored
    BY DEF Typed, JobsInOrder, JobType
  <1>2. Cardinality(Stored) <= predictions
    BY DEF FitInv, StoredOnce, Stored
  <1>3. (Cardinality(Stored) <= predictions)'
    BY <1>2, StoredStep
  <1> SUFFICES ASSUME NoneStoredAgain'
               PROVE  /\ \A k \in sched'.todo : sched'.snapshot[k].dir = trade'[k].dir
                      /\ \A k \in api'.todo : api'.snapshot[k].dir = trade'[k].dir
                      /\ \A k \in Key : trade'[k].exit \in {"stop", "target", "close"} =>
                             trade'[k].correct = (trade'[k].dir = trade'[k].ret)
    BY <1>3 DEF FitInv, StoredOnce, OutcomeFitsPrediction, Stored
  <1>4. /\ NoneStoredAgain
        /\ \A k \in Key : trade[k].stored => trade'[k].dir = trade[k].dir
    BY <1>2, StoredStep
  <1>5. /\ \A k \in sched.todo : sched.snapshot[k].dir = trade[k].dir
        /\ \A k \in api.todo : api.snapshot[k].dir = trade[k].dir
        /\ OutcomeFitsPrediction
    BY <1>4 DEF FitInv, StoredOnce
  <1>6. \A k \in sched'.todo : sched'.snapshot[k].dir = trade'[k].dir
    <2>1. CASE sched' = sched \/ sched'.todo = {}
      BY <1>1, <1>4, <1>5, <2>1
    <2>2. CASE BeginEvaluate
      BY <1>1, <2>2, BeginEvaluateEffect DEF tableVars
    <2>3. CASE BeginStops
      BY <1>1, <2>3, BeginStopsEffect DEF tableVars
    <2>4. ASSUME NEW k \in Key, EvaluateTrade(k) \/ SchedulerChecksStop(k)
          PROVE  \A j \in sched'.todo : sched'.snapshot[j].dir = trade'[j].dir
      <3>1. sched'.todo = sched.todo \ {k} /\ sched'.snapshot = sched.snapshot
        BY <1>1, <2>4, EvaluateTradeEffect, SchedulerChecksStopEffect DEF SameJob
      <3> QED
        BY <1>1, <1>4, <1>5, <3>1
    <2>5. CASE EndEvaluating
      BY <1>1, <2>1, <2>5, EndEvaluatingEffect, NoJobFacts
    <2>6. \/ sched' = NoJob \/ sched' = sched \/ BeginEvaluate \/ BeginStops \/ EndEvaluating
          \/ \E k \in Key : EvaluateTrade(k) \/ SchedulerChecksStop(k)
      BY DEF Refresh, Bhavcopy, JobMissed, StorePnl, EndStops, BeginManualStops, ManualOutcome, ApiChecksStop,
             Predict, Crash, ClockPasses, vars, Next, SchedulerStep, ApiStep
    <2> QED
      BY <2>1, <2>2, <2>3, <2>4, <2>5, <2>6, NoJobFacts
  <1>7. \A k \in api'.todo : api'.snapshot[k].dir = trade'[k].dir
    <2>1. CASE api' = api \/ api'.todo = {}
      BY <1>1, <1>4, <1>5, <2>1
    <2>2. CASE BeginManualStops
      BY <1>1, <2>2, BeginManualStopsEffect DEF tableVars
    <2>3. ASSUME NEW k \in Key, ApiChecksStop(k)
          PROVE  \A j \in api'.todo : api'.snapshot[j].dir = trade'[j].dir
      <3>1. api'.todo = api.todo \ {k} /\ api'.snapshot = api.snapshot
        BY <1>1, <2>3, ApiChecksStopEffect DEF SameJob
      <3> QED
        BY <1>1, <1>4, <1>5, <3>1
    <2>4. \/ api' = NoJob \/ api' = api \/ BeginManualStops \/ \E k \in Key : ApiChecksStop(k)
      BY DEF BeginEvaluate, BeginStops, EndEvaluating, EvaluateTrade, SchedulerChecksStop, Refresh, Bhavcopy,
             JobMissed, StorePnl, EndStops, ManualOutcome, Predict, Crash, ClockPasses, vars, Next,
             SchedulerStep, ApiStep
    <2> QED
      BY <2>1, <2>2, <2>3, <2>4, NoJobFacts
  <1>8. \A k \in Key : trade'[k].exit \in {"stop", "target", "close"} =>
            trade'[k].correct = (trade'[k].dir = trade'[k].ret)
    <2>1. CASE trade' = trade
      BY <1>4, <1>5, <2>1 DEF OutcomeFitsPrediction
    <2>2. CASE Predict
      <3>1. PICK k \in Key, dir \in Sign, levels \in Levels : Predicts(k, dir, levels)
        BY <1>1, <2>2, PredictEffect
      <3>2. trade'[k].exit = trade[k].exit /\ trade'[k].ret = trade[k].ret
            /\ trade'[k].correct = trade[k].correct
            /\ \A j \in Key \ {k} : trade'[j] = trade[j]
        BY <3>1 DEF Predicts, OnlyTrade
      <3>3. trade[k].exit # "open" => trade'[k].dir = trade[k].dir
        BY <1>1, <1>4
      <3> QED
        BY <1>4, <1>5, <3>2, <3>3 DEF OutcomeFitsPrediction
    <2>3. ASSUME NEW k \in Key, EvaluateTrade(k), trade' # trade
          PROVE  \A j \in Key : trade'[j].exit \in {"stop", "target", "close"} =>
                    trade'[j].correct = (trade'[j].dir = trade'[j].ret)
      <3>1. PICK ret \in Sign, correct \in BOOLEAN :
               /\ Closes(k, "close", HorizonDay(k), ret, correct)
               /\ correct = (sched.snapshot[k].dir = ret)
        BY <1>1, <2>3, EvaluateTradeEffect
      <3>2. k \in sched.todo
        BY <1>1, <2>3, EvaluateTradeEffect
      <3> QED
        BY <1>4, <1>5, <3>1, <3>2, ClosedTradeFits
    <2>4. ASSUME NEW job, NEW k \in Key, job.snapshot[k].dir = trade[k].dir,
                 StopChecked(job, k), trade' # trade
          PROVE  \A j \in Key : trade'[j].exit \in {"stop", "target", "close"} =>
                    trade'[j].correct = (trade'[j].dir = trade'[j].ret)
      <3>1. PICK exit \in {"stop", "target"}, ret \in Sign, correct \in BOOLEAN :
               /\ Closes(k, exit, job.day, ret, correct)
               /\ correct = (job.snapshot[k].dir = ret)
        BY <2>4 DEF StopChecked
      <3> QED
        BY <1>4, <1>5, <2>4, <3>1, ClosedTradeFits
    <2>5. ASSUME NEW k \in Key, SchedulerChecksStop(k), trade' # trade
          PROVE  \A j \in Key : trade'[j].exit \in {"stop", "target", "close"} =>
                    trade'[j].correct = (trade'[j].dir = trade'[j].ret)
      <3>1. k \in sched.todo /\ StopChecked(sched, k)
        BY <1>1, <2>5, SchedulerChecksStopEffect
      <3> QED
        BY <1>5, <2>4, <2>5, <3>1
    <2>6. ASSUME NEW k \in Key, ApiChecksStop(k), trade' # trade
          PROVE  \A j \in Key : trade'[j].exit \in {"stop", "target", "close"} =>
                    trade'[j].correct = (trade'[j].dir = trade'[j].ret)
      <3>1. k \in api.todo /\ StopChecked(api, k)
        BY <1>1, <2>6, ApiChecksStopEffect
      <3> QED
        BY <1>5, <2>4, <2>6, <3>1
    <2>7. CASE ManualOutcome
      <3>1. PICK k \in Key : Closes(k, "manual", today, 0, FALSE)
        BY <1>1, <2>7, ManualOutcomeEffect
      <3>2. trade'[k].exit = "manual" /\ \A j \in Key \ {k} : trade'[j] = trade[j]
        BY <3>1 DEF Closes, OnlyTrade
      <3> QED
        BY <1>4, <1>5, <3>2 DEF OutcomeFitsPrediction
    <2>8. \/ trade' = trade \/ Predict \/ ManualOutcome
          \/ \E k \in Key : EvaluateTrade(k) \/ SchedulerChecksStop(k) \/ ApiChecksStop(k)
      BY DEF BeginEvaluate, EndEvaluating, StorePnl, Refresh, Bhavcopy, BeginStops, EndStops,
             ClockPasses, BeginManualStops, JobMissed, Crash, vars, tableVars,
             Next, SchedulerStep, ApiStep
    <2> QED
      BY <2>1, <2>2, <2>3, <2>5, <2>6, <2>7, <2>8
  <1> QED
    BY <1>6, <1>7, <1>8

\* A trade the program closed is marked correct just when its return has the
\* sign of its direction, for any interleaving of the jobs and the endpoints.
THEOREM OutcomesFit == Spec => []OutcomeFitsPrediction
  <1>1. Init => FitInv
    <2> SUFFICES ASSUME Init PROVE FitInv
      OBVIOUS
    <2>1. /\ trade = [k \in Key |-> NoTrade] /\ sched.todo = {} /\ api.todo = {}
          /\ predictions = 0
      BY Started, NoJobFacts DEF Init
    <2>2. \A k \in Key : ~trade[k].stored /\ trade[k].exit = "open"
      BY <2>1 DEF NoTrade
    <2>3. Cardinality({k \in Key : trade[k].stored}) = 0
      <3>1. {k \in Key : trade[k].stored} = {}
        BY <2>2
      <3> QED
        BY <3>1, FS_EmptySet
    <2> QED
      BY <2>1, <2>2, <2>3 DEF FitInv, StoredOnce, OutcomeFitsPrediction
  <1>2. Typed /\ Typed' /\ FitInv /\ [Next]_vars => FitInv'
    BY FitKept
  <1>3. FitInv => OutcomeFitsPrediction
    BY DEF FitInv
  <1> QED
    BY <1>1, <1>2, <1>3, TypesHold, PTL DEF Spec

-----------------------------------------------------------------------------
(* A bar is missing only where something went wrong *)

LEMMA Todays ==
    ASSUME Typed
    PROVE  /\ today \in Nat /\ today \in Day
           /\ \A d \in Day : d \in Nat
           /\ \A k \in Key : /\ trade[k].exitDay \in Nat /\ trade[k].exitDay <= today
                             /\ trade[k].exit # "open" => trade[k].exitDay \in Day
                             /\ k[2] \in Nat /\ k[2] \in Day /\ k[1] \in Symbol
  <1>1. today \in Day /\ \A d \in Day : d \in Nat
    BY LedgerConfig DEF Typed, TablesTyped, Day
  <1>2. ASSUME NEW k \in Key
        PROVE  /\ trade[k].exitDay \in 0..MaxDay /\ trade[k].exitDay <= today
               /\ trade[k].exit # "open" => trade[k].exitDay # 0
    <2>1. trade[k] \in Trade
      BY DEF Typed, TablesTyped
    <2> QED
      BY <2>1 DEF Typed, TablesTyped, Trade
  <1>3. \A k \in Key : /\ trade[k].exitDay \in Nat
                       /\ trade[k].exit # "open" => trade[k].exitDay \in Day
    BY <1>2, LedgerConfig DEF Day
  <1> QED
    BY <1>1, <1>2, <1>3, KeyParts

\* A step without a miss or a lost write.
LEMMA NoMiss ==
    ASSUME Typed, [Next]_vars, misses' = 0
    PROVE  misses = 0 /\ ~Missed /\ ~JobMissed /\ ~Crash
  <1>1. misses \in Nat /\ misses <= misses'
    BY CountersTyped DEF Typed, TablesTyped
  <1>2. misses = 0 /\ ~Missed
    BY <1>1 DEF Missed
  <1> QED
    BY <1>2 DEF JobMissed, Crash

\* The clock of a step: it passes, a job begins, or it stands.
LEMMA ClockStep ==
    ASSUME Typed, [Next]_vars
    PROVE  \/ ClockPasses \/ BeginEvaluate \/ Refresh \/ Bhavcopy \/ BeginStops \/ JobMissed
           \/ today' = today /\ slot' = slot /\ ran' = ran
  BY DEF EndEvaluating, StorePnl, EvaluateTrade, SchedulerChecksStop, EndStops, BeginManualStops,
         ManualOutcome, ApiChecksStop, Predict, Crash, vars, clockVars, Next, SchedulerStep, ApiStep

LEMMA GapsStart == Init => GapsAreMisses
  <1> SUFFICES ASSUME Init PROVE GapsAreMisses
    OBVIOUS
  <1>1. \A s \in Symbol : Gaps(s) = {}
    <2>1. today = 1 /\ slot = "predict" /\ \A d \in Day : ~(d < today)
      BY LedgerConfig DEF Init, Day
    <2> QED
      BY <2>1 DEF Gaps, Refreshed
  <1>2. \A s \in Symbol : Cardinality(Gaps(s)) = 0
    BY <1>1, FS_EmptySet
  <1>3. misses = 0
    BY DEF Init
  <1> QED
    BY <1>2, <1>3 DEF GapsAreMisses

\* No request is made while there were none.
LEMMA NoManual ==
    ASSUME Typed, SnapshotHolds, [Next]_vars, requests' = 0
    PROVE  ~BeginManualStops /\ ~ManualOutcome /\ \A j \in Key : ~ApiChecksStop(j)
  <1>1. requests = 0 /\ api.at = "idle" /\ TablesTyped
    BY JobsStep DEF Typed
  <1>2. \A j \in Key : ~ApiChecksStop(j)
    BY <1>1 DEF ApiChecksStop
  <1> QED
    BY <1>1, <1>2, BeginManualStopsEffect, ManualOutcomeEffect

\* The count of what went wrong goes by one.
LEMMA MissedOrNot == [Next]_vars => misses' = misses \/ Missed
  BY DEF BeginEvaluate, Refresh, Bhavcopy, BeginStops, JobMissed, EndEvaluating, StorePnl,
         EvaluateTrade, SchedulerChecksStop, CheckStop, EndStops, BeginManualStops, ManualOutcome,
         ApiChecksStop, Predict, Crash, ClockPasses, vars, Next, SchedulerStep, ApiStep

LEMMA GapsFinite ==
    \A T \in SUBSET Day : IsFiniteSet(T) /\ Cardinality(T) \in Nat
  <1>1. IsFiniteSet(Day)
    BY LedgerConfig, FS_Interval DEF Day
  <1> QED
    BY <1>1, FS_Subset, FS_CardinalityType

\* The clock that passes asks for no bar that the refresh was not asked for.
LEMMA RefreshedKept ==
    ASSUME Typed, Typed', [Next]_vars, NEW d \in Day, Refreshed(d)'
    PROVE  Refreshed(d) \/ (d = today /\ slot = "refresh" /\ (Refresh \/ Missed))
  <1>1. today \in Nat /\ today \in Day /\ d \in Nat /\ TablesTyped
    BY Todays DEF Typed
  <1>2. CASE ClockPasses
    <2>1. \/ today' = today /\ slot' \in {"evaluate", "refresh"} /\ ~ran'
          \/ today' = today /\ slot = "refresh" /\ ran /\ slot' = "stops"
          \/ today' = today /\ slot = "stops" /\ slot' = "bhavcopy"
          \/ today' = today + 1 /\ slot = "bhavcopy" /\ slot' = "predict"
      BY <1>1, <1>2, ClockPassesEffect
    <2> QED
      BY <1>1, <2>1 DEF Refreshed
  <1>3. CASE Refresh
    <2>1. today' = today /\ slot' = slot /\ slot = "refresh"
      BY <1>1, <1>3, RefreshEffect
    <2> QED
      BY <1>3, <2>1 DEF Refreshed
  <1>4. CASE Bhavcopy
    <2>1. today' = today /\ slot' = slot /\ slot = "bhavcopy"
      BY <1>1, <1>4, BhavcopyEffect
    <2> QED
      BY <2>1 DEF Refreshed
  <1>5. CASE BeginEvaluate \/ BeginStops
    <2>1. today' = today /\ slot' = slot /\ slot # "refresh"
      BY <1>1, <1>5, BeginEvaluateEffect, BeginStopsEffect
    <2> QED
      BY <2>1 DEF Refreshed
  <1>6. CASE JobMissed
    <2>1. today' = today /\ slot' = slot /\ Missed
      BY <1>6 DEF JobMissed
    <2> QED
      BY <2>1 DEF Refreshed
  <1>7. CASE today' = today /\ slot' = slot /\ ran' = ran
    BY <1>7 DEF Refreshed
  <1> QED
    BY <1>2, <1>3, <1>4, <1>5, <1>6, <1>7, ClockStep

\* A gap comes with a miss, and one at a time.
LEMMA GapsKept ==
    ASSUME Typed, Typed', GapsAreMisses, [Next]_vars
    PROVE  GapsAreMisses'
  <1> SUFFICES ASSUME NEW s \in Symbol
               PROVE  Cardinality(Gaps(s)') <= misses'
    BY DEF GapsAreMisses
  <1>1. /\ TablesTyped /\ Cardinality(Gaps(s)) <= misses /\ misses \in Nat /\ misses' \in Nat
        /\ misses <= misses' /\ today \in Day
    BY CountersTyped, Todays DEF Typed, TablesTyped, GapsAreMisses
  <1>2. /\ IsFiniteSet(Gaps(s)) /\ Cardinality(Gaps(s)) \in Nat
        /\ Gaps(s)' \in SUBSET Day /\ Cardinality(Gaps(s)') \in Nat
    BY GapsFinite DEF Gaps
  <1>3. ASSUME NEW d \in Gaps(s)'
        PROVE  d \in Gaps(s) \/ (d = today /\ Missed)
    <2>1. d \in Day /\ Refreshed(d)' /\ bars'[s][d] = "none" /\ bars[s][d] = "none"
      BY <1>1, BarsTyped DEF Gaps
    <2>2. CASE Refreshed(d)
      BY <2>1, <2>2 DEF Gaps
    <2>3. CASE d = today /\ Refresh
      BY <1>1, <2>1, <2>3, RefreshEffect
    <2>4. CASE d = today /\ Missed
      BY <2>4
    <2> QED
      BY <2>1, <2>2, <2>3, <2>4, RefreshedKept
  <1>4. CASE Missed
    <2>1. misses' = misses + 1
      BY <1>4 DEF Missed
    <2>2. Gaps(s)' \in SUBSET (Gaps(s) \union {today})
      BY <1>3
    <2>3. /\ IsFiniteSet(Gaps(s) \union {today})
          /\ Cardinality(Gaps(s) \union {today}) <= Cardinality(Gaps(s)) + 1
          /\ Cardinality(Gaps(s) \union {today}) \in Nat
      BY <1>2, FS_AddElement, FS_CardinalityType
    <2>4. Cardinality(Gaps(s)') <= Cardinality(Gaps(s) \union {today})
      BY <2>2, <2>3, FS_Subset
    <2> QED
      BY <1>1, <1>2, <2>1, <2>3, <2>4
  <1>5. CASE ~Missed
    <2>1. Gaps(s)' \in SUBSET Gaps(s)
      BY <1>3, <1>5
    <2>2. Cardinality(Gaps(s)') <= Cardinality(Gaps(s))
      BY <1>2, <2>1, FS_Subset
    <2> QED
      BY <1>1, <1>2, <2>2
  <1> QED
    BY <1>4, <1>5

\* Days before today without a bar are no more than the misses.
LEMMA EmptyDays ==
    ASSUME Typed, GapsAreMisses, NEW s \in Symbol, NEW T \in SUBSET Day,
           \A d \in T : d < today /\ bars[s][d] = "none"
    PROVE  IsFiniteSet(T) /\ Cardinality(T) \in Nat /\ Cardinality(T) <= misses
  <1>1. T \in SUBSET Gaps(s) /\ Gaps(s) \in SUBSET Day
    BY DEF Gaps, Refreshed
  <1>2. /\ IsFiniteSet(Gaps(s)) /\ Cardinality(Gaps(s)) \in Nat
        /\ IsFiniteSet(T) /\ Cardinality(T) \in Nat
    BY <1>1, GapsFinite
  <1>3. Cardinality(T) <= Cardinality(Gaps(s))
    BY <1>1, <1>2, FS_Subset
  <1>4. Cardinality(Gaps(s)) <= misses /\ misses \in Nat
    BY DEF GapsAreMisses, Typed, TablesTyped
  <1> QED
    BY <1>2, <1>3, <1>4

-----------------------------------------------------------------------------
(* The exit of a trade is in its hold *)

\* The evaluation closes a trade at a day of its horizon, or as many days later
\* as bars are missing.
LEMMA HorizonInTime ==
    ASSUME Typed, GapsAreMisses, NEW k \in Key, Future(k) # {}
    PROVE  HorizonDay(k) \in (k[2] + 1)..(k[2] + Horizon + misses)
  <1> DEFINE x == HorizonDay(k)
             B == {d \in Future(k) : d <= x}
             G == {d \in Day : k[2] < d /\ d < x /\ bars[k[1]][d] = "none"}
  <1>1. /\ k[1] \in Symbol /\ k[2] \in Nat /\ today \in Nat /\ misses \in Nat /\ Horizon \in Nat
        /\ MaxDay \in Nat
    BY Todays, LedgerConfig DEF Typed, TablesTyped
  <1>2. x \in Future(k) /\ Cardinality(B) \in 1..Horizon
    BY HorizonDayInHold
  <1>3. x \in Day /\ x \in Nat /\ k[2] < x /\ x <= today /\ bars[k[1]][x] # "none"
    BY <1>1, <1>2, LedgerConfig DEF Future, Day
  <1> HIDE DEF x
  <1>4. IsFiniteSet(G) /\ Cardinality(G) \in Nat /\ Cardinality(G) <= misses
    <2>1. \A d \in G : d < today /\ bars[k[1]][d] = "none"
      BY <1>1, <1>3, LedgerConfig DEF Day
    <2>2. G \in SUBSET Day
      OBVIOUS
    <2> HIDE DEF G
    <2> QED
      BY <1>1, <2>1, <2>2, EmptyDays
  <1>5. IsFiniteSet(B) /\ Cardinality(B) \in Nat
    <2>1. B \in SUBSET Day
      BY DEF Future
    <2> QED
      BY <2>1, GapsFinite
  <1>6. (k[2] + 1)..x \subseteq B \union G
    <2> SUFFICES ASSUME NEW d \in (k[2] + 1)..x PROVE d \in B \union G
      OBVIOUS
    <2>1. d \in Day /\ k[2] < d /\ d <= x /\ d <= today
      BY <1>1, <1>3, LedgerConfig DEF Day
    <2>2. CASE bars[k[1]][d] = "none"
      <3>1. d # x
        BY <1>3, <2>2
      <3>2. d < x
        BY <1>1, <1>3, <2>1, <3>1
      <3> QED
        BY <2>1, <2>2, <3>2
    <2>3. CASE bars[k[1]][d] # "none"
      BY <2>1, <2>3 DEF Future
    <2> QED
      BY <2>2, <2>3
  <1>7. Cardinality((k[2] + 1)..x) = x - k[2]
    BY <1>1, <1>3, FS_Interval
  <1> HIDE DEF B, G
  <1>8. /\ IsFiniteSet(B \union G) /\ IsFiniteSet(B \intersect G)
        /\ Cardinality(B \union G) = Cardinality(B) + Cardinality(G) - Cardinality(B \intersect G)
        /\ Cardinality(B \intersect G) \in Nat
    BY <1>4, <1>5, FS_Union, FS_Intersection, FS_CardinalityType
  <1>9. Cardinality((k[2] + 1)..x) <= Cardinality(B \union G)
    BY <1>6, <1>8, FS_Subset
  <1>10. x - k[2] <= Horizon + misses
    BY <1>1, <1>2, <1>3, <1>4, <1>5, <1>7, <1>8, <1>9
  <1>11. x \in (k[2] + 1)..(k[2] + Horizon + misses)
    BY <1>1, <1>3, <1>10
  <1> QED
    BY <1>11 DEF x

\* A trade has no bar to close at only while every day since has lost its bar.
LEMMA NoFutureYet ==
    ASSUME Typed, GapsAreMisses, NEW k \in Key, k[2] <= today, Future(k) = {}
    PROVE  today <= k[2] + 1 + misses
  <1> DEFINE T == (k[2] + 1)..(today - 1)
  <1>1. k[1] \in Symbol /\ k[2] \in Nat /\ 1 <= k[2] /\ today \in Nat /\ today <= MaxDay
        /\ misses \in Nat /\ MaxDay \in Nat
    <2>1. k[1] \in Symbol /\ k[2] \in Day /\ today \in Day
      BY Todays
    <2>2. misses \in Nat
      BY LedgerConfig DEF Typed, TablesTyped
    <2> HIDE DEF T
    <2> QED
      BY <2>1, <2>2, LedgerConfig DEF Day
  <1>2. \A d \in T : d \in Day /\ k[2] < d /\ d < today
    BY <1>1 DEF Day
  <1>3. \A d \in T : bars[k[1]][d] = "none"
    <2> SUFFICES ASSUME NEW d \in T PROVE bars[k[1]][d] = "none"
      OBVIOUS
    <2>1. d \in Day /\ d > k[2] /\ d <= today
      BY <1>1, <1>2
    <2>2. d \notin Future(k)
      OBVIOUS
    <2> QED
      BY <2>1, <2>2 DEF Future
  <1>4. Cardinality(T) \in Nat /\ Cardinality(T) <= misses
    BY <1>1, <1>2, <1>3, EmptyDays
  <1>5. k[2] + 1 <= today - 1 => Cardinality(T) = today - 1 - k[2]
    <2>1. k[2] + 1 \in Int /\ today - 1 \in Int
      BY <1>1
    <2>2. Cardinality(T) = IF k[2] + 1 > today - 1 THEN 0 ELSE (today - 1) - (k[2] + 1) + 1
      BY <2>1, FS_Interval
    <2> HIDE DEF T
    <2> QED
      BY <1>1, <2>2
  <1> HIDE DEF T
  <1> QED
    BY <1>1, <1>4, <1>5

\* Every evaluation that leaves a trade open has something that went wrong.
LEMMA OpenKept ==
    ASSUME MinCalendarDays > 1, Typed, Typed', SnapshotHolds, GapsAreMisses, OpenOnTime,
           [Next]_vars
    PROVE  OpenOnTime'
  <1> SUFFICES ASSUME requests' = 0, NEW k \in Key, IsOpen(trade'[k]), trade'[k].levels # "none"
               PROVE  \/ today' < k[2] + MinCalendarDays + misses'
                      \/ today' = k[2] + MinCalendarDays + misses' /\ Pending(k)'
    BY DEF OpenOnTime, IsOpen
  <1>1. /\ requests = 0 /\ sched \in JobType(today) /\ TablesTyped /\ sched.todo \in SUBSET Key
        /\ sched.at \in {"evaluating", "storing"} => slot = "evaluate" /\ ran
        /\ sched.at = "stopping" => slot = "stops" /\ ran
        /\ sched.at = "idle" => sched.todo = {}
    BY JobsStep DEF Typed, JobsInOrder, JobType
  <1>2. /\ today \in Nat /\ today' \in Nat /\ today <= today' /\ k[2] \in Nat
        /\ misses \in Nat /\ misses' \in Nat /\ misses <= misses'
        /\ misses' = misses \/ Missed
        /\ MinCalendarDays \in Nat
    BY CountersTyped, ClockOnward, Todays, MissedOrNot, LedgerConfig DEF Typed, TablesTyped
  <1>3. CASE Predict
    <2>1. PICK j \in Key, dir \in Sign, lv \in Levels : j[2] = today /\ Predicts(j, dir, lv)
      BY <1>1, <1>3, PredictEffect
    <2>2. /\ slot = "predict" /\ today' = today /\ slot' = slot /\ misses' = misses
          /\ \A i \in Key \ {j} : trade'[i] = trade[i]
      BY <1>1, <1>3, <2>1, PredictEffect DEF clockVars, Predicts, OnlyTrade
    <2>3. CASE k = j
      BY <1>2, <2>1, <2>2, <2>3
    <2>4. CASE k # j
      BY <1>1, <2>2, <2>4 DEF OpenOnTime, Pending
    <2> QED
      BY <2>3, <2>4
  <1>4. ASSUME ~Predict
        PROVE  /\ IsOpen(trade[k]) /\ trade[k].levels # "none"
               /\ \/ today < k[2] + MinCalendarDays + misses
                  \/ today = k[2] + MinCalendarDays + misses /\ Pending(k)
    <2>1. PredictionsSame /\ TradesGrow
      BY <1>4, PredictionsStay, StepGrows DEF Typed
    <2>2. IsOpen(trade[k]) /\ trade[k].levels # "none"
      BY <2>1 DEF PredictionsSame, TradesGrow, IsOpen
    <2> QED
      BY <1>1, <2>2 DEF OpenOnTime
  <1>5. ASSUME ~Predict, today' = today, Missed
        PROVE  today' < k[2] + MinCalendarDays + misses'
    <2>1. misses' = misses + 1
      BY <1>5 DEF Missed
    <2> QED
      BY <1>2, <1>4, <1>5, <2>1
  <1>6. ASSUME ~Predict, today' = today, ~Missed, Pending(k) => Pending(k)'
        PROVE  \/ today' < k[2] + MinCalendarDays + misses'
               \/ today' = k[2] + MinCalendarDays + misses' /\ Pending(k)'
    BY <1>2, <1>4, <1>6
  <1>7. CASE ClockPasses
    <2>1. /\ ~Predict /\ sched.todo = {} /\ misses' = misses /\ ~ran'
          /\ \/ slot = "predict" /\ slot' = "evaluate" /\ today' = today
             \/ slot = "evaluate" /\ ran /\ slot' = "refresh" /\ today' = today
             \/ slot = "refresh" /\ ran /\ slot' = "stops" /\ today' = today
             \/ slot = "stops" /\ ran /\ slot' = "bhavcopy" /\ today' = today
             \/ slot = "bhavcopy" /\ ran /\ slot' = "predict" /\ today' = today + 1
      BY <1>1, <1>7, ClockPassesEffect, PredictEffect DEF clockVars, ClockPasses
    <2>2. CASE slot = "predict"
      BY <1>2, <1>4, <2>1, <2>2 DEF Pending
    <2>3. CASE slot # "predict"
      <3>1. ~Pending(k)
        BY <2>1, <2>3 DEF Pending
      <3>2. today < k[2] + MinCalendarDays + misses
        BY <1>4, <2>1, <3>1
      <3> QED
        BY <1>2, <2>1, <2>3, <3>2 DEF Pending
    <2> QED
      BY <2>2, <2>3
  <1>8. CASE BeginEvaluate
    <2>1. /\ ~Predict /\ today' = today /\ misses' = misses /\ slot = "evaluate" /\ slot' = slot
          /\ trade' = trade /\ sched'.at = "evaluating"
          /\ sched'.todo = {j \in Key : IsOpen(trade[j]) /\ j[2] <= today - MinCalendarDays}
      BY <1>8 DEF BeginEvaluate, JobOn, Predict, tableVars, clockVars
    <2>2. CASE today < k[2] + MinCalendarDays + misses
      BY <2>1, <2>2
    <2>3. CASE today = k[2] + MinCalendarDays + misses
      <3>1. k[2] <= today - MinCalendarDays
        BY <1>2, <2>3
      <3>2. k \in sched'.todo
        BY <1>4, <2>1, <3>1
      <3> QED
        BY <2>1, <2>3, <3>2 DEF Pending
    <2> QED
      BY <1>4, <2>1, <2>2, <2>3
  <1>9. ASSUME NEW j \in sched.todo, EvaluateTrade(j)
        PROVE  \/ today' < k[2] + MinCalendarDays + misses'
               \/ today' = k[2] + MinCalendarDays + misses' /\ Pending(k)'
    <2>1. /\ ~Predict /\ today' = today /\ slot' = slot /\ ran' = ran
          /\ sched.at = "evaluating" /\ sched'.todo = sched.todo \ {j}
          /\ sched'.at = sched.at /\ sched.snapshot[j] = trade[j]
      BY <1>1, <1>9, EvaluateTradeEffect, PredictEffect DEF clockVars, SnapshotHolds, SameJob
    <2>2. CASE Missed
      BY <1>5, <2>1, <2>2
    <2>3. CASE k # j /\ ~Missed
      <3>1. Pending(k) => Pending(k)'
        BY <2>1, <2>3 DEF Pending
      <3> QED
        BY <1>6, <2>1, <2>3, <3>1
    <2>4. CASE k = j /\ ~Missed
      <3>1. k[2] <= today
        BY <1>1, <1>9, <2>4 DEF Typed, JobsInOrder
      <3>2. Future(k) = {}
        <4>1. trade[k].levels # "none"
          BY <1>4, <2>1
        <4>2. Future(k) # {} => trade'[k].exit = "close"
          BY <1>1, <1>9, <2>1, <2>4, <4>1, EvaluateTradeEffect DEF Closes
        <4> QED
          BY <4>2 DEF IsOpen
      <3>3. today <= k[2] + 1 + misses
        BY <3>1, <3>2, NoFutureYet
      <3> QED
        BY <1>2, <2>1, <3>3
    <2> QED
      BY <2>2, <2>3, <2>4
  <1>10. ASSUME \/ EndEvaluating \/ StorePnl \/ EndStops \/ BeginStops \/ Refresh \/ Bhavcopy
                \/ JobMissed \/ Crash \/ UNCHANGED vars
                \/ \E j \in sched.todo : SchedulerChecksStop(j)
         PROVE  today' = today
    BY <1>10
       DEF EndEvaluating, StorePnl, EndStops, BeginStops, Refresh, Bhavcopy, JobMissed, Crash,
           SchedulerChecksStop, vars, clockVars
  <1>11. ASSUME EndEvaluating \/ StorePnl \/ EndStops \/ UNCHANGED vars
         PROVE  Pending(k) => Pending(k)'
    <2>1. slot' = slot /\ ran' = ran
      BY <1>11 DEF EndEvaluating, StorePnl, EndStops, vars, clockVars
    <2>2. \/ sched.todo = {} \/ sched' = sched \/ slot # "evaluate"
          \/ sched.at = "storing" /\ ran
      BY <1>1, <1>11 DEF EndEvaluating, StorePnl, EndStops, vars
    <2> QED
      BY <2>1, <2>2 DEF Pending
  <1>12. ASSUME \/ BeginStops \/ Refresh \/ Bhavcopy
                \/ \E j \in sched.todo : SchedulerChecksStop(j)
         PROVE  ~Pending(k)
    <2>1. slot # "evaluate" /\ slot # "predict"
      BY <1>1, <1>12 DEF BeginStops, Refresh, Bhavcopy, SchedulerChecksStop
    <2> QED
      BY <2>1 DEF Pending
  <1>13. JobMissed \/ Crash => Missed
    BY DEF JobMissed, Crash
  <1>14. ~BeginManualStops /\ ~ManualOutcome /\ \A j \in Key : ~ApiChecksStop(j)
    BY <1>1, NoManual
  <1>15. \A j \in Key : EvaluateTrade(j) \/ SchedulerChecksStop(j) => j \in sched.todo
    BY DEF EvaluateTrade, SchedulerChecksStop
  <1>16. CASE /\ ~Predict
              /\ \/ EndEvaluating \/ StorePnl \/ EndStops \/ BeginStops \/ Refresh \/ Bhavcopy
                 \/ JobMissed \/ Crash \/ UNCHANGED vars
                 \/ \E j \in sched.todo : SchedulerChecksStop(j)
    <2>1. CASE Missed
      BY <1>5, <1>10, <1>16, <2>1
    <2>2. CASE ~Missed
      <3>1. Pending(k) => Pending(k)'
        BY <1>11, <1>12, <1>13, <1>16, <2>2
      <3> QED
        BY <1>6, <1>10, <1>16, <2>2, <3>1
    <2> QED
      BY <2>1, <2>2
  <1> QED
    BY <1>3, <1>7, <1>8, <1>9, <1>14, <1>15, <1>16 DEF Next, SchedulerStep, ApiStep

LEMMA ExitKept ==
    ASSUME MinCalendarDays > 1, Typed, Typed', SnapshotHolds, GapsAreMisses, OpenOnTime,
           ExitInHold, requests' = 0, [Next]_vars
    PROVE  ExitInHold'
  <1> SUFFICES ASSUME NEW k \in Key
               PROVE  /\ trade'[k].exit \in {"stop", "target"} =>
                            trade'[k].exitDay \in k[2]..(k[2] + MinCalendarDays - 1 + misses')
                      /\ trade'[k].exit = "close" =>
                            trade'[k].exitDay \in (k[2] + 1)..(k[2] + Horizon + misses')
    BY DEF ExitInHold
  <1>1. /\ requests = 0 /\ sched \in JobType(today) /\ TablesTyped /\ sched.todo \in SUBSET Key
        /\ sched.at = "stopping" => slot = "stops" /\ ran
        /\ sched.at # "idle" => sched.day = today
        /\ \A j \in sched.todo : /\ IsOpen(trade[j]) /\ trade[j] = sched.snapshot[j]
                                 /\ j[2] <= today
    BY JobsStep DEF Typed, JobsInOrder, JobType, SnapshotHolds
  <1>2. /\ today \in Nat /\ k[2] \in Nat /\ misses \in Nat /\ misses' \in Nat /\ misses <= misses'
        /\ MinCalendarDays \in Nat /\ Horizon \in Nat
    BY CountersTyped, Todays, LedgerConfig DEF Typed, TablesTyped
  <1>3. CASE trade'[k].exit = trade[k].exit /\ trade'[k].exitDay = trade[k].exitDay
    <2>1. /\ trade[k].exit \in {"stop", "target"} =>
                trade[k].exitDay \in k[2]..(k[2] + MinCalendarDays - 1 + misses)
          /\ trade[k].exit = "close" =>
                trade[k].exitDay \in (k[2] + 1)..(k[2] + Horizon + misses)
      BY DEF ExitInHold
    <2>2. /\ \A x : x \in k[2]..(k[2] + MinCalendarDays - 1 + misses)
                  => x \in k[2]..(k[2] + MinCalendarDays - 1 + misses')
          /\ \A x : x \in (k[2] + 1)..(k[2] + Horizon + misses)
                  => x \in (k[2] + 1)..(k[2] + Horizon + misses')
      BY <1>2
    <2> QED
      BY <1>3, <2>1, <2>2
  <1>4. CASE Predict
    BY <1>1, <1>3, <1>4, PredictEffect DEF Predicts, OnlyTrade
  <1>5. ASSUME NEW j \in sched.todo, EvaluateTrade(j), trade'[k] # trade[k]
        PROVE  /\ trade'[k].exit = "close" /\ misses' = misses
               /\ trade'[k].exitDay \in (k[2] + 1)..(k[2] + Horizon + misses)
    <2>1. /\ Future(j) # {} /\ misses' = misses
          /\ \E ret \in Sign, correct \in BOOLEAN :
                 Closes(j, "close", HorizonDay(j), ret, correct)
      BY <1>1, <1>5, EvaluateTradeEffect
    <2>2. k = j /\ trade'[k].exit = "close" /\ trade'[k].exitDay = HorizonDay(k)
      BY <1>5, <2>1 DEF Closes, OnlyTrade
    <2> QED
      BY <2>1, <2>2, HorizonInTime
  <1>6. ASSUME NEW j \in sched.todo, SchedulerChecksStop(j), trade'[k] # trade[k]
        PROVE  /\ trade'[k].exit \in {"stop", "target"}
               /\ trade'[k].exitDay \in k[2]..(k[2] + MinCalendarDays - 1 + misses)
    <2>1. sched.at = "stopping" /\ StopChecked(sched, j) /\ CheckStop(sched, j)
      BY <1>1, <1>6, SchedulerChecksStopEffect DEF SchedulerChecksStop
    <2>2. PICK exit \in {"stop", "target"}, ret \in Sign, correct \in BOOLEAN :
             Closes(j, exit, today, ret, correct)
      BY <1>1, <1>6, <2>1 DEF StopChecked
    <2>3. k = j /\ trade'[k].exit = exit /\ trade'[k].exitDay = today
      BY <1>6, <2>2 DEF Closes, OnlyTrade
    <2>4. trade[k].levels = "stops"
      BY <1>1, <1>6, <2>1, <2>3 DEF CheckStop
    <2>5. today < k[2] + MinCalendarDays + misses
      BY <1>1, <2>1, <2>3, <2>4 DEF OpenOnTime, Pending
    <2> QED
      BY <1>1, <1>2, <2>3, <2>5
  <1>7. /\ \A x : x \in k[2]..(k[2] + MinCalendarDays - 1 + misses)
                => x \in k[2]..(k[2] + MinCalendarDays - 1 + misses')
    BY <1>2
  <1> QED
    BY <1>3, <1>4, <1>5, <1>6, <1>7, JobsStep

\* Without the manual endpoints a trade exits within its hold, for any gaps in
\* the bars and any jobs missed or broken off, and no more days late than there
\* were of these; the evaluation waits for more than a day.
THEOREM ExitsInHold ==
    ASSUME MaxManual = 0, MinCalendarDays > 1 PROVE Spec => []ExitInHold
  <1>1. Init => GapsAreMisses /\ OpenOnTime /\ ExitInHold
    <2> SUFFICES ASSUME Init PROVE GapsAreMisses /\ OpenOnTime /\ ExitInHold
      OBVIOUS
    <2>1. \A k \in Key : trade[k].exit = "open" /\ ~trade[k].stored
      BY Started DEF NoTrade
    <2>2. GapsAreMisses
      BY GapsStart
    <2> QED
      BY <2>1, <2>2 DEF OpenOnTime, ExitInHold, IsOpen
  <1>2. Typed /\ SnapshotHolds /\ [Next]_vars => SnapshotHolds'
    BY SnapshotKept
  <1>3. Typed /\ Typed' /\ GapsAreMisses /\ [Next]_vars => GapsAreMisses'
    BY GapsKept
  <1>4. Typed /\ Typed' /\ SnapshotHolds /\ GapsAreMisses /\ OpenOnTime /\ [Next]_vars
            => OpenOnTime'
    BY OpenKept
  <1>5. Typed /\ Typed' /\ SnapshotHolds /\ GapsAreMisses /\ OpenOnTime /\ ExitInHold /\ [Next]_vars
            => ExitInHold'
    <2> SUFFICES ASSUME Typed, Typed', SnapshotHolds, GapsAreMisses, OpenOnTime, ExitInHold,
                        [Next]_vars
                 PROVE  ExitInHold'
      OBVIOUS
    <2>1. requests' = 0
      BY DEF Typed, TablesTyped
    <2> QED
      BY <2>1, ExitKept
  <1> QED
    BY <1>1, <1>2, <1>3, <1>4, <1>5, SnapshotStarts, TypesHold, PTL DEF Spec

-----------------------------------------------------------------------------
(* The stops are enforced *)

\* While a stop check is on, nothing writes a bar.
LEMMA NotedKept ==
    ASSUME Typed, Typed', NotedBars, [Next]_vars
    PROVE  NotedBars'
  <1> SUFFICES ASSUME sched'.at = "stopping", NEW s \in Symbol
               PROVE  checked'[s][today'] = bars'[s][today']
    BY DEF NotedBars
  <1>1. /\ sched \in JobType(today) /\ TablesTyped
        /\ sched.at = "stopping" => slot = "stops"
        /\ NoJob.at = "idle"
    BY NoJobFacts DEF Typed, JobsInOrder
  <1>2. CASE BeginStops
    BY <1>1, <1>2, BeginStopsEffect
  <1>3. ASSUME ~BeginStops PROVE sched.at = "stopping"
    <2>1. CASE sched' = sched \/ sched' = NoJob
      BY <1>1, <2>1
    <2>2. CASE BeginEvaluate \/ EndEvaluating
      BY <1>1, <2>2, BeginEvaluateEffect, EndEvaluatingEffect
    <2>3. ASSUME NEW k \in Key, EvaluateTrade(k) \/ SchedulerChecksStop(k)
          PROVE  sched.at = "stopping"
      BY <1>1, <2>3, EvaluateTradeEffect, SchedulerChecksStopEffect DEF SameJob
    <2>4. \/ sched' = NoJob \/ sched' = sched \/ BeginEvaluate \/ EndEvaluating
          \/ \E k \in Key : EvaluateTrade(k) \/ SchedulerChecksStop(k)
      BY <1>3 DEF Refresh, Bhavcopy, JobMissed, StorePnl, EndStops, BeginManualStops,
             ManualOutcome, ApiChecksStop, Predict, Crash, ClockPasses, vars, Next,
             SchedulerStep, ApiStep
    <2> QED
      BY <2>1, <2>2, <2>3, <2>4
  <1>4. CASE ~BeginStops
    <2>1. sched.at = "stopping" /\ slot = "stops"
      BY <1>1, <1>3, <1>4
    <2>2. ~ClockPasses /\ ~Refresh /\ ~Bhavcopy /\ ~BeginEvaluate
      BY <2>1 DEF ClockPasses, Refresh, Bhavcopy, BeginEvaluate
    <2>3. today' = today
      BY <1>4, <2>2, ClockStep DEF JobMissed
    <2>4. bars' = bars /\ checked' = checked
      BY <1>1, <1>4, <2>2, BarsTyped, CheckedTyped
    <2> QED
      BY <2>1, <2>3, <2>4 DEF NotedBars
  <1> QED
    BY <1>2, <1>4

\* As long as no job is missed, every symbol has a bar of the day by its check.
LEMMA NoGaps ==
    ASSUME Typed, GapsAreMisses, misses = 0, NEW s \in Symbol, slot = "stops"
    PROVE  bars[s][today] # "none"
  <1>1. IsFiniteSet(Gaps(s)) /\ Cardinality(Gaps(s)) \in Nat /\ Cardinality(Gaps(s)) <= 0
    BY GapsFinite DEF GapsAreMisses, Gaps
  <1>2. Gaps(s) = {}
    BY <1>1, FS_EmptySet
  <1>3. today \in Day /\ Refreshed(today)
    BY DEF Refreshed, Typed, TablesTyped
  <1> QED
    BY <1>2, <1>3 DEF Gaps

\* What a trade with levels has been through.
Fine(k, d) ==
    /\ IsOpen(trade[k]) /\ Checked(k, d) => Quiet(k, d)
    /\ ~IsOpen(trade[k]) /\ d < trade[k].exitDay => Quiet(k, d)

\* The stop check and the evaluation leave a trade that was looked at on every
\* day before its exit.
LEMMA ClosedFine ==
    ASSUME Typed, SnapshotHolds, NEW k \in sched.todo, NEW d \in Day, Fine(k, d), requests = 0,
           checked' = checked, NEW exit \in Exit, NEW day \in Nat, day <= today, NEW ret, NEW correct,
           Closes(k, exit, day, ret, correct)
    PROVE  Fine(k, d)'
  <1>1. /\ IsOpen(trade[k]) /\ k \in Key /\ today \in Nat /\ d \in Nat
    BY Todays DEF SnapshotHolds, Typed, JobsInOrder, JobType
  <1>2. /\ trade'[k].exit # "open" /\ trade'[k].exitDay = day /\ trade'[k].dir = trade[k].dir
    BY DEF Closes, Exit
  <1>3. d < day => Quiet(k, d)
    BY <1>1 DEF Fine, Checked
  <1> QED
    BY <1>2, <1>3 DEF Fine, IsOpen, Quiet

LEMMA LevelsKept ==
    ASSUME Typed, Typed', SnapshotHolds, GapsAreMisses, NotedBars, LevelsChecked,
           [Next]_vars
    PROVE  LevelsChecked'
  <1> SUFFICES ASSUME misses' = 0, requests' = 0, NEW k \in Key, NEW d \in Day,
                      trade'[k].stored, trade'[k].levels = "stops", k[2] <= d
               PROVE  Fine(k, d)'
    BY DEF LevelsChecked, Fine
  <1>1. /\ misses = 0 /\ requests = 0 /\ ~Missed /\ ~JobMissed /\ ~Crash
        /\ sched \in JobType(today) /\ TablesTyped /\ sched.todo \in SUBSET Key
        /\ sched.at \in {"evaluating", "storing"} => slot = "evaluate"
        /\ sched.at = "stopping" => slot = "stops" /\ ran
        /\ sched.at # "idle" => sched.day = today
        /\ sched.at = "idle" => sched.todo = {}
        /\ today \in Nat /\ d \in Nat /\ k[2] \in Nat
    BY NoMiss, JobsStep, Todays DEF Typed, JobsInOrder, JobType
  <1>2. trade[k].stored /\ trade[k].levels = "stops" => Fine(k, d)
    BY <1>1 DEF LevelsChecked, Fine
  <1>3. ~Predict => Fine(k, d)
    BY <1>2, PredictionsStay DEF PredictionsSame
  <1>4. ASSUME ~Predict, trade'[k] = trade[k], checked' = checked,
               IsOpen(trade[k]) /\ Checked(k, d)' => Checked(k, d)
        PROVE  Fine(k, d)'
    BY <1>3, <1>4 DEF Fine, Quiet, IsOpen
  <1>5. ASSUME ~Predict, trade'[k] = trade[k], checked' = checked,
               today' = today, slot' = slot, ran' = ran,
               slot # "stops" \/ k \notin sched.todo \/ k \in sched'.todo
        PROVE  Fine(k, d)'
    BY <1>4, <1>5 DEF Checked
  <1>6. CASE Predict
    <2>1. PICK j \in Key, dir \in Sign, levels \in Levels : j[2] = today /\ Predicts(j, dir, levels)
      BY <1>1, <1>6, PredictEffect
    <2>2. /\ slot = "predict" /\ today' = today /\ slot' = slot /\ checked' = checked
          /\ \A i \in Key \ {j} : trade'[i] = trade[i]
          /\ trade'[j].exit = trade[j].exit /\ trade'[j].exitDay = trade[j].exitDay
          /\ trade'[j].stored
      BY <1>1, <1>6, <2>1, PredictEffect DEF clockVars, priceVars, Predicts, OnlyTrade
    <2>3. CASE k = j
      <3>1. ~(d < today) /\ ~(d < trade'[k].exitDay)
        BY <1>1, <2>1, <2>2, <2>3, Todays
      <3> QED
        BY <2>2, <3>1 DEF Fine, Checked
    <2>4. CASE k # j
      <3>1. Fine(k, d) /\ trade'[k] = trade[k]
        BY <1>2, <2>2, <2>4
      <3> QED
        BY <2>2, <3>1 DEF Fine, Checked, Quiet
    <2> QED
      BY <2>3, <2>4
  <1>7. ASSUME NEW j \in sched.todo, EvaluateTrade(j) PROVE Fine(k, d)'
    <2>1. ~Predict /\ slot = "evaluate"
      BY <1>1, <1>7, EvaluateTradeEffect, PredictEffect
    <2>2. checked' = checked /\ today' = today /\ slot' = slot /\ ran' = ran
      BY <1>1, <1>7, EvaluateTradeEffect DEF clockVars, priceVars
    <2>3. CASE trade'[k] = trade[k]
      BY <1>5, <2>1, <2>2, <2>3
    <2>4. CASE trade'[k] # trade[k]
      <3>1. /\ Future(j) # {}
            /\ \E ret \in Sign, correct \in BOOLEAN : Closes(j, "close", HorizonDay(j), ret, correct)
        BY <1>1, <1>7, <2>4, EvaluateTradeEffect
      <3>2. k = j
        BY <2>4, <3>1 DEF Closes, OnlyTrade
      <3>3. HorizonDay(k) \in 1..today
        BY <1>1, <3>1, <3>2, HorizonDayType
      <3>4. HorizonDay(k) \in Nat /\ HorizonDay(k) <= today /\ "close" \in Exit
        BY <1>1, <3>3 DEF Exit
      <3> QED
        BY <1>1, <1>3, <1>7, <2>1, <2>2, <3>1, <3>2, <3>4, ClosedFine
    <2> QED
      BY <2>3, <2>4
  <1>8. ASSUME NEW j \in sched.todo, SchedulerChecksStop(j) PROVE Fine(k, d)'
    <2>1. /\ sched.at = "stopping" /\ StopChecked(sched, j) /\ sched'.todo = sched.todo \ {j}
          /\ checked' = checked /\ today' = today /\ slot' = slot /\ ran' = ran
      BY <1>1, <1>8, SchedulerChecksStopEffect DEF clockVars, priceVars
    <2>2. slot = "stops" /\ sched.day = today /\ ~Predict
      BY <1>1, <2>1, PredictEffect
    <2>3. IsOpen(trade[j]) /\ trade[j] = sched.snapshot[j]
      BY <1>1 DEF SnapshotHolds
    <2>4. CASE k # j
      <3>1. trade'[k] = trade[k]
        BY <2>1, <2>4 DEF StopChecked, Closes, OnlyTrade
      <3> QED
        BY <1>5, <2>1, <2>2, <2>4, <3>1
    <2>5. CASE k = j /\ trade' = trade
      <3>1. \/ trade[k].levels # "stops" \/ trade[k].dir = 0
            \/ bars[k[1]][today] \in {"none", "inside"}
        BY <1>1, <2>1, <2>2, <2>3, <2>5 DEF StopChecked, Closes, IsOpen
      <3>2. Quiet(k, today)
        <4>1. k[1] \in Symbol /\ bars[k[1]][today] # "none"
          BY <1>1, <2>2, NoGaps, KeyParts
        <4>2. checked[k[1]][today] = bars[k[1]][today]
          BY <2>1, <4>1 DEF NotedBars
        <4> QED
          BY <2>5, <3>1, <4>1, <4>2 DEF Quiet
      <3>3. IsOpen(trade'[k])
        BY <2>3, <2>5
      <3>4. Checked(k, d)' => d < today \/ d = today
        BY <2>1 DEF Checked
      <3>5. d < today => Quiet(k, d)
        BY <1>3, <2>2, <2>3, <2>5 DEF Fine, Checked
      <3>6. Checked(k, d)' => Quiet(k, d)
        BY <3>2, <3>4, <3>5
      <3> QED
        BY <2>1, <2>5, <3>3, <3>6 DEF Fine, Quiet
    <2>6. CASE k = j /\ trade' # trade
      <3>1. PICK exit \in {"stop", "target"}, ret \in Sign, correct \in BOOLEAN :
               Closes(k, exit, today, ret, correct)
        BY <2>1, <2>2, <2>6 DEF StopChecked
      <3>2. exit \in Exit /\ today <= today
        BY <1>1 DEF Exit
      <3> QED
        BY <1>1, <1>3, <1>8, <2>1, <2>2, <2>6, <3>1, <3>2, ClosedFine
    <2> QED
      BY <2>4, <2>5, <2>6
  <1>9. CASE BeginEvaluate
    <2>1. ~Predict /\ trade' = trade /\ checked' = checked /\ today' = today /\ slot' = "evaluate"
      BY <1>1, <1>9, BeginEvaluateEffect, PredictEffect DEF tableVars, priceVars
    <2> QED
      BY <1>4, <2>1 DEF Checked
  <1>10. CASE BeginStops
    <2>1. /\ ~Predict /\ trade' = trade /\ today' = today /\ slot = "stops" /\ slot' = slot
          /\ IsOpen(trade[k]) => k \in sched'.todo
          /\ k[1] \in Symbol
          /\ d # today => checked'[k[1]][d] = checked[k[1]][d]
      BY <1>1, <1>10, BeginStopsEffect, PredictEffect, KeyParts DEF tableVars
    <2>2. IsOpen(trade[k]) /\ Checked(k, d)' => d < today
      BY <2>1 DEF Checked
    <2>3. d < trade[k].exitDay => d < today
      BY <1>1, Todays
    <2>4. d < today => checked'[k[1]][d] = checked[k[1]][d]
      BY <1>1, <2>1
    <2> QED
      BY <1>3, <2>1, <2>2, <2>3, <2>4 DEF Fine, Checked, Quiet, IsOpen
  <1>11. CASE Refresh \/ Bhavcopy
    <2>1. /\ ~Predict /\ trade' = trade /\ today' = today /\ slot' = slot /\ checked' = checked
          /\ slot # "stops"
      BY <1>1, <1>11, RefreshEffect, BhavcopyEffect, PredictEffect DEF BarsGrow
    <2>2. Checked(k, d)' => Checked(k, d)
      BY <2>1 DEF Checked
    <2> QED
      BY <1>4, <2>1, <2>2
  <1>12. CASE ClockPasses
    <2>1. /\ sched.todo = {} /\ trade' = trade /\ checked' = checked /\ ~ran'
          /\ \/ today' = today /\ slot' # "bhavcopy"
             \/ today' = today /\ slot = "stops" /\ ran
             \/ today' = today + 1 /\ slot = "bhavcopy" /\ slot' = "predict"
      BY <1>1, <1>12, ClockPassesEffect DEF tableVars, priceVars
    <2>2. Checked(k, d)' => Checked(k, d)
      BY <1>1, <2>1 DEF Checked
    <2>3. Fine(k, d)
      BY <1>2, <2>1
    <2> QED
      BY <2>1, <2>2, <2>3 DEF Fine, Quiet
  <1>13. ASSUME EndEvaluating \/ StorePnl \/ EndStops \/ UNCHANGED vars
         PROVE  Fine(k, d)'
    <2>1. trade' = trade /\ checked' = checked /\ today' = today /\ slot' = slot /\ ran' = ran
      BY <1>13 DEF EndEvaluating, StorePnl, EndStops, vars, tableVars, priceVars, clockVars
    <2>2. slot # "stops" \/ sched.todo = {} \/ sched' = sched
      BY <1>1, <1>13 DEF EndEvaluating, StorePnl, EndStops, vars
    <2>3. Fine(k, d)
      BY <1>2, <2>1
    <2>4. Checked(k, d)' => Checked(k, d)
      BY <2>1, <2>2 DEF Checked
    <2> QED
      BY <2>1, <2>3, <2>4 DEF Fine, Quiet
  <1>14. ~BeginManualStops /\ ~ManualOutcome /\ \A j \in Key : ~ApiChecksStop(j)
    BY <1>1, NoManual
  <1>15. \A j \in Key : EvaluateTrade(j) \/ SchedulerChecksStop(j) => j \in sched.todo
    BY DEF EvaluateTrade, SchedulerChecksStop
  <1> QED
    BY <1>1, <1>6, <1>7, <1>8, <1>9, <1>10, <1>11, <1>12, <1>13, <1>14, <1>15
       DEF Next, SchedulerStep, ApiStep

\* Without the manual endpoints and as long as no job is missed and no write or
\* bar lost, each day's check had a bar for every trade with levels and found it
\* inside them, from its prediction to its exit, or to the last check if it is
\* open, whatever is written over the bars afterwards.
THEOREM StopsEnforced == ASSUME MaxManual = 0 PROVE Spec => []StopsAreEnforced
  <1>1. Init => GapsAreMisses /\ NotedBars /\ LevelsChecked
    <2> SUFFICES ASSUME Init PROVE GapsAreMisses /\ NotedBars /\ LevelsChecked
      OBVIOUS
    <2>1. (\A k \in Key : ~trade[k].stored) /\ sched.at = "idle"
      BY Started, NoJobFacts DEF NoTrade
    <2>2. GapsAreMisses
      BY GapsStart
    <2> QED
      BY <2>1, <2>2 DEF NotedBars, LevelsChecked
  <1>2. Typed /\ SnapshotHolds /\ [Next]_vars => SnapshotHolds'
    BY SnapshotKept
  <1>3. Typed /\ Typed' /\ GapsAreMisses /\ [Next]_vars => GapsAreMisses'
    BY GapsKept
  <1>4. Typed /\ Typed' /\ NotedBars /\ [Next]_vars => NotedBars'
    BY NotedKept
  <1>5. Typed /\ Typed' /\ SnapshotHolds /\ GapsAreMisses /\ NotedBars /\ LevelsChecked /\ [Next]_vars
            => LevelsChecked'
    BY LevelsKept
  <1>6. Typed /\ LevelsChecked => StopsAreEnforced
    <2> SUFFICES ASSUME Typed, LevelsChecked, misses = 0, NEW k \in Key,
                        trade[k].stored, trade[k].levels = "stops",
                        NEW d \in k[2]..((IF IsOpen(trade[k]) THEN today ELSE trade[k].exitDay) - 1)
                 PROVE  trade[k].dir = 0 \/ checked[k[1]][d] = "inside"
      BY DEF StopsAreEnforced
    <2>1. /\ requests = 0 /\ today \in Nat /\ today \in Day /\ k[2] \in Nat /\ k[2] \in Day
          /\ trade[k].exitDay \in Nat /\ trade[k].exitDay <= today
      BY Todays DEF Typed, TablesTyped
    <2>2. /\ d \in Nat /\ k[2] <= d /\ d < today
          /\ ~IsOpen(trade[k]) => d < trade[k].exitDay
      BY <2>1
    <2>3. d \in Day
      BY <2>1, <2>2, LedgerConfig DEF Day
    <2>4. Quiet(k, d)
      BY <2>1, <2>2, <2>3 DEF LevelsChecked, Checked
    <2> QED
      BY <2>4 DEF Quiet
  <1> QED
    BY <1>1, <1>2, <1>3, <1>4, <1>5, <1>6, SnapshotStarts, TypesHold, PTL DEF Spec

=============================================================================
