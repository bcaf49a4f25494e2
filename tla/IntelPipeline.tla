----------------------------- MODULE IntelPipeline -----------------------------
(****************************************************************************)
(* Filings on their way to events: the announcement collectors, the         *)
(* disclosures and disclosure_events tables (intel/store.py), the nightly   *)
(* extraction by language models (intel/extraction) and its cost ledger.    *)
(*                                                                          *)
(* The scheduler collects in the evening and extracts an hour later, five   *)
(* days a week; an operator's backfill script runs the same batches at any  *)
(* time, and a cloud routine reads rows over the API (api/routes/ops.py)    *)
(* and pushes their events back.  A batch stores its events, marks its rows *)
(* and books its cost in three separate writes, and any of the processes    *)
(* may die between them.                                                    *)
(****************************************************************************)
EXTENDS Integers, Sequences, FiniteSetsExt

CONSTANTS Filings,        \* the exchange's announcements, as records
          FirstDay, LastDay,  \* days, 0 a Monday; LastDay stands for any later one
          Budget,         \* rows a month's money pays for, at a call each
          Providers,      \* the language models with a key: a row is put to each till one answers
          BatchSize, MaxBatches,
          PullLimit,      \* rows the routine asks for
          MaxTroubles,    \* bound: outages of a source, failed calls
          MaxCrashes,     \* bound: processes killed, answers of the API lost
          MaxVisits       \* bound: runs of the script and of the routine

\* A filing's order in time, the day of it, whether after the collectors of that
\* day; what it says, whether a model can read it, and the hash of its text.
ASSUME IntelAssumption ==
    /\ IsFiniteSet(Filings)
    /\ FirstDay \in Nat /\ LastDay \in Nat /\ FirstDay <= LastDay
    /\ \A f \in Filings : /\ f.day \in FirstDay..(LastDay - 2) /\ f.late \in BOOLEAN
                          /\ f.kind \in {"boilerplate", "news", "unreadable"}
                          /\ f.at \in Nat
    /\ \A f, g \in Filings : f.at = g.at => f = g
    /\ LastDay % 7 < 5
    /\ BatchSize \in Nat \ {0} /\ PullLimit \in Nat \ {0} /\ MaxBatches \in Nat \ {0}
    /\ Budget \in Nat \ {0} /\ Providers \in Nat \ {0}

Extractors == {"nightly", "backfill"}
Processes == Extractors \union {"routine"}

VARIABLES day, hour,   \* hour: what the scheduler has done today
          rows,        \* disclosures: filing -> "none", "open" (processed_at is null), "done"
          events,      \* disclosure_events: filing -> how many
          ledger,      \* calls booked this month, one for each row
          calls,       \* calls made this month
          batch,       \* process -> the batch it works on
          troubles, crashes, visits

vars == <<day, hour, rows, events, ledger, calls, batch,
          troubles, crashes, visits>>

Weekend(d) == d % 7 >= 5

--------------------------------------------------------------------------------
(* Collecting. *)

\* What the exchange answers to a query for yesterday and today.
Listed(f) == \/ f.day = day /\ ~f.late
             \/ f.day = day - 1

\* An upsert on the filing's key: the collectors never set processed_at, so a row
\* that was already there becomes unprocessed again.
StoreDisclosures(new) == rows' = [f \in Filings |-> IF f \in new THEN "open" ELSE rows[f]]

\* A query that fails returns no filings, and is not an error.
Collect ==
    /\ hour = "day"
    /\ \E missed \in SUBSET {f \in Filings : Listed(f)} :
         /\ missed # {} => ~Weekend(day) /\ troubles < MaxTroubles
         /\ troubles' = IF missed = {} THEN troubles ELSE troubles + 1
         /\ IF Weekend(day) THEN UNCHANGED rows
                            ELSE StoreDisclosures({f \in Filings : Listed(f)} \ missed)
    /\ hour' = "collected"
    /\ UNCHANGED <<day, events, ledger, calls, batch, crashes, visits>>

--------------------------------------------------------------------------------
(* Batches. *)

Idle == [phase |-> "idle", count |-> 0, found |-> {}, billed |-> 0, done |-> {}]

Unprocessed == {f \in Filings : rows[f] = "open"}

\* A faulty variant: one row fewer.
NextRows_OneLess == {f \in Unprocessed : Cardinality({g \in Unprocessed : g.at > f.at}) < BatchSize - 1}

\* The newest BatchSize rows.
NextRows == {f \in Unprocessed : Cardinality({g \in Unprocessed : g.at > f.at}) < BatchSize}

\* What GET /intel/pending reads, the newest PullLimit rows.
IntelPending == {f \in Unprocessed : Cardinality({g \in Unprocessed : g.at > f.at}) < PullLimit}

\* A faulty variant: checked once a night.
OverBudget_Once(p) == batch[p].count = 0 /\ ledger >= Budget

OverBudget(p) == ledger >= Budget

\* A row whose text was read earlier in the batch shares that event.
SharesEvent(f, rs, found) == \E g \in rs \cap found :
    g.at > f.at /\ g.hash = f.hash /\ f.hash # "none"

\* The results a batch of rows may have: every readable row is found, but for
\* failed calls.
Outcomes(rs) ==
    LET asked == {f \in rs : f.kind # "boilerplate"}
    IN {found \in SUBSET asked :
          \A f \in asked : /\ SharesEvent(f, rs, found) => f \in found
                           /\ f \in found /\ f.kind = "unreadable" => SharesEvent(f, rs, found)}

\* A faulty variant: marked before its events are stored.
Writes_MarkFirst == <<"mark", "store", "bill">>

\* The three writes, in this order.
Writes == <<"store", "mark", "bill">>

\* What follows a write.  The routine pays for its own calls.
After(p, phase) ==
    LET i == CHOOSE i \in DOMAIN Writes : Writes[i] = phase
    IN  IF i = Len(Writes) THEN "ready"
        ELSE IF p = "routine" /\ Writes[i + 1] = "bill" THEN "pushed"
        ELSE Writes[i + 1]

BeginNightly ==
    /\ hour = "collected"
    /\ IF Weekend(day) THEN hour' = "night" /\ UNCHANGED batch
                       ELSE /\ hour' = "extracting"
                            /\ batch' = [batch EXCEPT !["nightly"] = [Idle EXCEPT !.phase = "ready"]]
    /\ UNCHANGED <<day, rows, events, ledger, calls, troubles, crashes, visits>>

BeginBackfill ==
    /\ batch["backfill"].phase = "idle" /\ visits < MaxVisits
    /\ batch' = [batch EXCEPT !["backfill"] = [Idle EXCEPT !.phase = "ready"]]
    /\ visits' = visits + 1
    /\ UNCHANGED <<day, hour, rows, events, ledger, calls, troubles, crashes>>

\* A run ends when its batches are used up, the budget is, or no row is left.
EndRun(p) ==
    /\ batch[p].phase = "ready"
    /\ \/ batch[p].count = MaxBatches /\ p = "nightly"
       \/ OverBudget(p)
       \/ Unprocessed = {}
    /\ batch' = [batch EXCEPT ![p] = Idle]
    /\ IF p = "nightly"
         THEN hour' = "night" ELSE UNCHANGED hour
    /\ UNCHANGED <<day, rows, events, ledger, calls, troubles, crashes, visits>>

\* The calls a row may take: the nightly job puts it to one model after the other until
\* one answers, the script to the one it was started with.
Asks(p) == IF p = "nightly" THEN Providers ELSE 1

\* The rows are read and the model is asked about each.  The batch is billed a call for
\* each row, however many it took.
Extract(p) ==
    /\ batch[p].phase = "ready"
    /\ p = "nightly" => batch[p].count < MaxBatches
    /\ ~OverBudget(p) /\ Unprocessed # {}
    /\ \E found \in Outcomes(NextRows) :
         LET asked  == {f \in NextRows : f.kind # "boilerplate"}
             shared == {f \in found : SharesEvent(f, NextRows, found)}
             failed == {f \in asked \ found : f.kind # "unreadable"}
             n      == Cardinality(asked \ shared)
         IN /\ troubles + Cardinality(failed) <= MaxTroubles
            /\ troubles' = troubles + Cardinality(failed)
            /\ \E made \in n..(Asks(p) * n) : calls' = calls + made
            /\ batch' = [batch EXCEPT ![p] =
                 [phase |-> Writes[1], count |-> IF p = "nightly" THEN @.count + 1 ELSE 0,
                  found |-> found, billed |-> n, done |-> found \cup (NextRows \ asked)]]
    /\ UNCHANGED <<day, hour, rows, events, ledger, crashes, visits>>

StoreEvents(p) ==
    /\ batch[p].phase = "store"
    /\ events' = [f \in Filings |-> IF f \in batch[p].found THEN events[f] + 1 ELSE events[f]]
    /\ batch' = [batch EXCEPT ![p].phase = After(p, "store")]
    /\ UNCHANGED <<day, hour, rows, ledger, calls, troubles, crashes, visits>>

MarkProcessed(p) ==
    /\ batch[p].phase = "mark"
    /\ rows' = [f \in Filings |-> IF f \in batch[p].done THEN "done" ELSE rows[f]]
    /\ batch' = [batch EXCEPT ![p].phase = After(p, "mark")]
    /\ UNCHANGED <<day, hour, events, ledger, calls, troubles, crashes, visits>>

RecordBatch(p) ==
    /\ batch[p].phase = "bill"
    /\ ledger' = ledger + batch[p].billed
    /\ batch' = [batch EXCEPT ![p] = [Idle EXCEPT !.phase = After(p, "bill"), !.count = batch[p].count]]
    /\ UNCHANGED <<day, hour, rows, events, calls, troubles, crashes, visits>>

--------------------------------------------------------------------------------
(* The cloud routine. *)

\* It reads what waits; boilerplate is marked at once.
Pull ==
    /\ batch["routine"].phase = "idle" /\ visits < MaxVisits
    /\ LET told == {f \in IntelPending : f.kind # "boilerplate"}
       IN  /\ rows' = [f \in Filings |-> IF f \in IntelPending \ told THEN "done" ELSE rows[f]]
           /\ batch' = [batch EXCEPT !["routine"] = [Idle EXCEPT !.phase = "pulled", !.done = told]]
    /\ visits' = visits + 1
    /\ UNCHANGED <<day, hour, events, ledger, calls, troubles, crashes>>

\* It sends the events of the rows it could read, and the ids of those rows:
\* the API stores the ones and marks the others, whoever did so meanwhile.
PushIntelEvents ==
    /\ batch["routine"].phase = "pulled"
    /\ \E found \in SUBSET {f \in batch["routine"].done : f.kind # "unreadable"} :
         batch' = [batch EXCEPT !["routine"] =
                     IF found = {} THEN Idle
                     ELSE [@ EXCEPT !.phase = Writes[1], !.found = found, !.done = found]]
    /\ UNCHANGED <<day, hour, rows, events, ledger, calls, troubles, crashes, visits>>

PushAnswered ==
    /\ batch["routine"].phase = "pushed"
    /\ batch' = [batch EXCEPT !["routine"] = Idle]
    /\ UNCHANGED <<day, hour, rows, events, ledger, calls, troubles, crashes, visits>>

\* The API dies under the push, or its answer is lost: the routine pushes again.
PushRepeated ==
    /\ crashes < MaxCrashes /\ batch["routine"].phase \notin {"idle", "pulled"}
    /\ batch' = [batch EXCEPT !["routine"] = [@ EXCEPT !.phase = "pulled", !.found = {}]]
    /\ crashes' = crashes + 1
    /\ UNCHANGED <<day, hour, rows, events, ledger, calls, troubles, visits>>

--------------------------------------------------------------------------------
(* Failures and time. *)

\* A scheduler that dies does none of its remaining jobs of the day.
Killed(p) ==
    /\ crashes < MaxCrashes
    /\ p # "nightly" => batch[p].phase # "idle"
    /\ p = "nightly" => hour # "night"
    /\ batch' = [batch EXCEPT ![p] = Idle]
    /\ hour' = IF p = "nightly" THEN "night" ELSE hour
    /\ crashes' = crashes + 1
    /\ UNCHANGED <<day, rows, events, ledger, calls, troubles, visits>>

\* LastDay stands for all later ones, each in a month of its own.
Midnight ==
    /\ hour = "night"
    /\ hour' = "day"
    /\ IF day < LastDay THEN day' = day + 1 /\ UNCHANGED <<ledger, calls>>
                        ELSE ledger' = 0 /\ calls' = 0 /\ UNCHANGED day
    /\ UNCHANGED <<rows, events, batch, troubles, crashes, visits>>

Init ==
    /\ day = FirstDay /\ hour = "day"
    /\ rows = [f \in Filings |-> "none"]
    /\ events = [f \in Filings |-> 0]
    /\ ledger = 0 /\ calls = 0
    /\ batch = [p \in Processes |-> Idle]
    /\ troubles = 0 /\ crashes = 0 /\ visits = 0

RunStep(p) == EndRun(p) \/ Extract(p) \/ StoreEvents(p) \/ MarkProcessed(p) \/ RecordBatch(p)

Next ==
    \/ Collect \/ BeginNightly \/ BeginBackfill \/ Midnight
    \/ Pull \/ PushIntelEvents \/ PushAnswered \/ PushRepeated
    \/ \E p \in Processes : RunStep(p) \/ Killed(p)

\* The scheduler's loop and a started script go on, and days pass.
Spec == Init /\ [][Next]_vars
             /\ WF_vars(Collect) /\ WF_vars(BeginNightly) /\ WF_vars(Midnight)
             /\ \A p \in Processes : WF_vars(RunStep(p))

--------------------------------------------------------------------------------
(* Properties. *)

TypeOK ==
    /\ day \in FirstDay..LastDay /\ hour \in {"day", "collected", "extracting", "night"}
    /\ rows \in [Filings -> {"none", "open", "done"}]
    /\ events \in [Filings -> Nat]
    /\ ledger \in Nat /\ calls \in Nat
    /\ \A p \in Processes :
         /\ batch[p].phase \in {"idle", "ready", "pulled", "pushed"} \cup {Writes[i] : i \in DOMAIN Writes}
         /\ batch[p].count \in 0..MaxBatches
         /\ batch[p].found \subseteq Filings /\ batch[p].done \subseteq Filings
         /\ batch[p].billed \in 0..BatchSize
         /\ batch[p].phase \in {"ready", "bill"} => p # "routine"
    /\ hour = "extracting" <=> batch["nightly"].phase # "idle"

\* A row marked processed has its event, or is boilerplate: whatever dies between the
\* writes of a batch, no filing is lost (run_extraction_batch).
MarkedHasEvent == \A f \in Filings :
    rows[f] = "done" => f.kind = "boilerplate" \/ events[f] > 0

\* The calls of a month pay for the budget's rows, a batch of each process and one for
\* each crash, at most, each row put to every model: however many rows wait, whoever
\* extracts them and however many fall back (CostLedger, RoundRobinProvider.extract_json).
OverrunBounded ==
    calls < Providers * (Budget + BatchSize * (Cardinality(Extractors) + crashes))

\* A filing has at most an event of the nightly job and of each visit for each evening
\* it was collected, and one for each crash or lost answer.
EventsBounded == \A f \in Filings :
    events[f] <= (1 + visits) * Cardinality({d \in FirstDay..day : f.day \in {d - 1, d} /\ ~Weekend(d)})
                 + crashes

\* A row is not shut out of the batches: fewer than BatchSize filings newer than it are
\* such that no model can read them.  Those are read first every night and never marked.
Reachable(f) == Cardinality({g \in Filings : g.at > f.at /\ g.kind = "unreadable"}) < BatchSize

\* Every row a model can read is processed in the end, if it is reachable: with as many
\* failing rows as a batch before it, it never is (run_extraction_batch).
RowsAreProcessed == \A f \in Filings :
    f.kind # "unreadable" /\ Reachable(f) => (rows[f] = "open" ~> rows[f] = "done")

\* Every filing of the exchange is in the table two weekdays later at the latest.
FilingsAreCollected == \A f \in Filings :
    day > f.day + 3 /\ troubles = 0 /\ crashes = 0 => rows[f] # "none"

\* What every state of the extraction has: no filing is lost and none has events without end.
NoFilingIsLost == TypeOK /\ MarkedHasEvent /\ EventsBounded
================================================================================
