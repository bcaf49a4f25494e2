------------------------- MODULE IntelPipeline_proofs -------------------------
(***************************************************************************)
(* Proofs about IntelPipeline, for any finite set of filings and any       *)
(* numbers of days, calls, rows, batches, troubles, crashes and visits.    *)
(***************************************************************************)
EXTENDS IntelPipeline, FiniteSetTheorems, WellFoundedInduction, TLAPS

-----------------------------------------------------------------------------
(* The inductive invariants *)

BatchType ==
    [phase: {"idle", "ready", "pulled", "pushed", "store", "mark", "bill"},
     count: 0..MaxBatches, found: SUBSET Filings, billed: 0..BatchSize, done: SUBSET Filings]

\* The types of the tables, the counters and the batches; the scheduler is
\* extracting just while it has a batch, and only the routine pulls and pushes.
Typed ==
    /\ day \in FirstDay..LastDay /\ hour \in {"day", "collected", "extracting", "night"}
    /\ rows \in [Filings -> {"none", "open", "done"}]
    /\ events \in [Filings -> Nat]
    /\ ledger \in Nat /\ calls \in Nat /\ crashes \in Nat /\ visits \in Nat
    /\ batch \in [Processes -> BatchType]
    /\ hour = "extracting" <=> batch["nightly"].phase # "idle"
    /\ batch["routine"].phase \notin {"ready", "bill"}
    /\ \A p \in Extractors : batch[p].phase \notin {"pulled", "pushed"}
    /\ batch["backfill"].phase # "idle" => visits > 0

\* The rows a batch is going to mark have been found or say nothing, and once
\* its events are stored those it found have one; a new batch costs nothing.
BatchSound ==
    \A p \in Processes :
        /\ batch[p].phase \in {"store", "mark"} =>
              /\ batch[p].found \subseteq batch[p].done
              /\ \A f \in batch[p].done \ batch[p].found : f.kind = "boilerplate"
        /\ batch[p].phase \in {"idle", "ready"} => batch[p].billed = 0
        /\ batch[p].phase = "mark" => \A f \in batch[p].found : events[f] > 0

\* The calls of the month are for rows in the ledger, in a batch that is not booked
\* yet, or lost with a batch that was broken off, and each was put to every model at most.
Unbooked == batch["nightly"].billed + batch["backfill"].billed
CallsCounted ==
    /\ calls <= Providers * (ledger + Unbooked + BatchSize * crashes)
    /\ ledger + Unbooked < Budget + 2 * BatchSize

\* The evenings on which the filing was collected.
Evenings(f) == {d \in FirstDay..day : /\ f.day \in {d - 1, d} /\ ~Weekend(d)
                                      /\ d < day \/ hour # "day"}
Collected(f) == Cardinality(Evenings(f))

\* Whether a process may store an event of the filing before the filing is
\* collected again, a visit begins, or something is broken off.
MayStore(p, f) ==
    \/ batch[p].phase = "store" /\ f \in batch[p].found
    \/ p = "routine" /\ batch[p].phase = "pulled" /\ f \in batch[p].done
    \/ /\ p = "nightly" \/ (p = "backfill" /\ batch[p].phase # "idle")
       /\ rows[f] = "open"
       /\ ~(batch[p].phase = "mark" /\ f \in batch[p].found)
Owed(p, f) == IF MayStore(p, f) THEN 1 ELSE 0

\* The events a filing has and may get are at most one of the nightly job and
\* of each visit for each evening, and one for each thing broken off.
OwedSum(f) == Owed("nightly", f) + Owed("backfill", f) + Owed("routine", f)
Bound(f) == (1 + visits) * Collected(f) + crashes
EventsOwed ==
    \A f \in Filings :
        /\ events[f] + OwedSum(f) <= Bound(f)
        /\ rows[f] # "none" => Collected(f) > 0

\* Nobody works on a row that is not in the table.
BatchesOfRows == \A p \in Processes : \A f \in batch[p].done : rows[f] # "none"

IntelInv == Typed /\ BatchSound /\ CallsCounted /\ BatchesOfRows /\ EventsOwed

-----------------------------------------------------------------------------
(* The operators the actions are built from *)

LEMMA Ranges ==
    /\ BatchSize \in Nat /\ BatchSize # 0 /\ Budget \in Nat /\ Budget # 0 /\ MaxBatches \in Nat
    /\ FirstDay \in Nat /\ LastDay \in Nat /\ IsFiniteSet(Filings)
    /\ Providers \in Nat /\ Providers # 0
    /\ \A f \in Filings : f.at \in Nat /\ f.day \in Nat /\ FirstDay <= f.day /\ f.day <= LastDay - 2
    /\ \A f, g \in Filings : f.at = g.at => f = g
  BY IntelAssumption

\* What every row being put to every model does to sums and comparisons.
LEMMA TimesProviders ==
    ASSUME NEW a \in Nat, NEW b \in Nat
    PROVE  /\ Providers * a \in Nat
           /\ Providers * (a + b) = Providers * a + Providers * b
           /\ a <= b => Providers * a <= Providers * b
           /\ a < b => Providers * a < Providers * b
           /\ a <= Providers * a
  BY Ranges, Z3

\* Every set of natural numbers that is not empty has a least element.
LEMMA LeastNatural ==
    ASSUME NEW T \in SUBSET Nat, T # {}
    PROVE  \E x \in T : \A y \in T : x <= y
  <1> DEFINE Less == {pair \in Nat \X Nat : pair[1] < pair[2]}
  <1>1. IsWellFoundedOn(Less, Nat)
    BY NatLessThanWellFounded DEF OpToRel
  <1>2. \E x \in T : \A y \in T : <<y, x>> \notin Less
    <2> HIDE DEF Less
    <2> QED
      BY <1>1, WFMin
  <1>3. ASSUME NEW x \in T, NEW y \in T, <<y, x>> \notin Less
        PROVE  x <= y
    <2>1. x \in Nat /\ y \in Nat /\ ~(y < x)
      BY <1>3
    <2> QED
      BY <2>1
  <1> QED
    BY <1>2, <1>3

\* A batch reads at most BatchSize rows.
LEMMA BatchIsSmall ==
    /\ NextRows \subseteq Filings /\ IsFiniteSet(NextRows)
    /\ Cardinality(NextRows) \in 0..BatchSize
  <1> DEFINE N == NextRows
  <1>1. /\ Unprocessed \subseteq Filings /\ N \subseteq Unprocessed
        /\ \A f \in N : Cardinality({g \in Unprocessed : g.at > f.at}) < BatchSize
    BY DEF Unprocessed, NextRows
  <1>2. IsFiniteSet(Unprocessed) /\ IsFiniteSet(N) /\ Cardinality(N) \in Nat
    BY <1>1, Ranges, FS_Subset, FS_CardinalityType
  <1>3. ASSUME Cardinality(N) > BatchSize PROVE FALSE
    <2> DEFINE T == {f.at : f \in N}
    <2>1. N # {}
      BY <1>2, <1>3, Ranges, FS_EmptySet
    <2>2. PICK x \in T : \A y \in T : x <= y
      <3>1. T \in SUBSET Nat /\ T # {}
        BY <1>1, <2>1, Ranges
      <3> HIDE DEF T
      <3> QED
        BY <3>1, LeastNatural
    <2>3. PICK m \in N : x = m.at
      BY <2>2
    <2>4. \A g \in N \ {m} : g.at > m.at
      <3>1. ASSUME NEW g \in N \ {m} PROVE g.at > m.at
        <4>1. g.at \in T /\ m.at <= g.at
          BY <2>2, <2>3
        <4>2. g.at \in Nat /\ m.at \in Nat /\ g.at # m.at
          BY <1>1, Ranges
        <4> QED
          BY <4>1, <4>2
      <3> QED
        BY <3>1
    <2> DEFINE After1 == {g \in Unprocessed : g.at > m.at}
    <2>5. N \ {m} \subseteq After1 /\ IsFiniteSet(After1)
      BY <1>1, <1>2, <2>4, FS_Subset
    <2>6. Cardinality(N \ {m}) = Cardinality(N) - 1
      BY <1>2, <2>3, FS_RemoveElement
    <2>7. Cardinality(N \ {m}) <= Cardinality(After1) /\ Cardinality(After1) \in Nat
      BY <2>5, FS_Subset, FS_CardinalityType
    <2>8. Cardinality(After1) < BatchSize
      BY <1>1, <2>3
    <2> HIDE DEF After1, N
    <2> QED
      BY <1>2, <1>3, <2>6, <2>7, <2>8, Ranges
  <1>4. N \subseteq Filings
    BY <1>1
  <1> HIDE DEF N
  <1>5. Cardinality(N) \in 0..BatchSize
    BY <1>2, <1>3, Ranges
  <1> QED
    BY <1>2, <1>4, <1>5 DEF N

LEMMA AfterFacts ==
    /\ Writes[1] = "store"
    /\ \A p : After(p, "store") = "mark"
    /\ \A p : After(p, "mark") = IF p = "routine" THEN "pushed" ELSE "bill"
    /\ \A p : After(p, "bill") = "ready"
  <1>1. /\ DOMAIN Writes = 1..3 /\ Len(Writes) = 3
        /\ Writes[1] = "store" /\ Writes[2] = "mark" /\ Writes[3] = "bill"
    BY DEF Writes
  <1>2. /\ (CHOOSE i \in DOMAIN Writes : Writes[i] = "store") = 1
        /\ (CHOOSE i \in DOMAIN Writes : Writes[i] = "mark") = 2
        /\ (CHOOSE i \in DOMAIN Writes : Writes[i] = "bill") = 3
    BY <1>1
  <1> QED
    BY <1>1, <1>2 DEF After

LEMMA ProcessesAre ==
    /\ Processes = {"nightly", "backfill", "routine"} /\ Extractors = {"nightly", "backfill"}
  BY DEF Processes, Extractors

LEMMA IdleFacts ==
    /\ Idle \in BatchType /\ Idle.phase = "idle" /\ Idle.billed = 0
    /\ Idle.found = {} /\ Idle.done = {}
  BY Ranges DEF Idle, BatchType

-----------------------------------------------------------------------------
(* The steps, field by field *)

\* Process p works on b now; the other batches stay as they are.
OnlyBatch(p, b) ==
    /\ batch' \in [Processes -> BatchType] /\ batch'[p] = b
    /\ \A q \in Processes \ {p} : batch'[q] = batch[q]

LEMMA BatchSet ==
    ASSUME Typed, NEW p \in Processes, NEW b \in BatchType, batch' = [batch EXCEPT ![p] = b]
    PROVE  OnlyBatch(p, b)
  BY DEF Typed, OnlyBatch

LEMMA BatchIs == ASSUME Typed, NEW p \in Processes
                 PROVE  /\ batch[p] \in BatchType
                        /\ batch[p].found \subseteq Filings /\ batch[p].done \subseteq Filings
                        /\ batch[p].billed \in 0..BatchSize /\ batch[p].count \in 0..MaxBatches
  BY DEF Typed, BatchType

LEMMA CollectEffect ==
    ASSUME Typed, Collect
    PROVE  /\ hour = "day" /\ hour' = "collected"
           /\ rows' \in [Filings -> {"none", "open", "done"}]
           /\ \A f \in Filings : \/ rows'[f] = rows[f]
                                 \/ rows'[f] = "open" /\ Listed(f) /\ ~Weekend(day)
           /\ UNCHANGED <<day, events, ledger, calls, batch, crashes, visits>>
  <1>1. /\ hour = "day" /\ hour' = "collected"
        /\ UNCHANGED <<day, events, ledger, calls, batch, crashes, visits>>
    BY DEF Collect
  <1>2. PICK missed \in SUBSET {f \in Filings : Listed(f)} :
           IF Weekend(day) THEN UNCHANGED rows
                           ELSE StoreDisclosures({f \in Filings : Listed(f)} \ missed)
    BY DEF Collect
  <1>3. CASE Weekend(day)
    BY <1>1, <1>2, <1>3 DEF Typed
  <1>4. CASE ~Weekend(day)
    <2> DEFINE new == {f \in Filings : Listed(f)} \ missed
    <2>1. rows' = [f \in Filings |-> IF f \in new THEN "open" ELSE rows[f]]
      BY <1>2, <1>4 DEF StoreDisclosures
    <2>2. \A f \in new : Listed(f)
      OBVIOUS
    <2> HIDE DEF new
    <2> QED
      BY <1>1, <1>4, <2>1, <2>2 DEF Typed
  <1> QED
    BY <1>3, <1>4

LEMMA BeginNightlyEffect ==
    ASSUME Typed, BeginNightly
    PROVE  /\ hour = "collected" /\ batch["nightly"].phase = "idle"
           /\ \/ hour' = "night" /\ batch' = batch
              \/ /\ hour' = "extracting"
                 /\ \E b \in BatchType : /\ OnlyBatch("nightly", b) /\ b.phase = "ready"
                                         /\ b.billed = 0 /\ b.found = {} /\ b.done = {}
           /\ UNCHANGED <<day, rows, events, ledger, calls, crashes, visits>>
  <1> DEFINE b == [Idle EXCEPT !.phase = "ready"]
  <1>1. /\ hour = "collected"
        /\ \/ hour' = "night" /\ batch' = batch
           \/ hour' = "extracting" /\ batch' = [batch EXCEPT !["nightly"] = b]
        /\ UNCHANGED <<day, rows, events, ledger, calls, crashes, visits>>
    BY DEF BeginNightly
  <1>2. b \in BatchType /\ b.phase = "ready" /\ b.billed = 0 /\ b.found = {} /\ b.done = {}
    BY Ranges DEF Idle, BatchType
  <1>3. batch["nightly"].phase = "idle"
    BY <1>1 DEF Typed
  <1> HIDE DEF b
  <1> QED
    BY <1>1, <1>2, <1>3, BatchSet, ProcessesAre

LEMMA BeginBackfillEffect ==
    ASSUME Typed, BeginBackfill
    PROVE  /\ batch["backfill"].phase = "idle" /\ visits' = visits + 1
           /\ \E b \in BatchType : /\ OnlyBatch("backfill", b) /\ b.phase = "ready"
                                   /\ b.billed = 0 /\ b.found = {} /\ b.done = {}
           /\ UNCHANGED <<day, hour, rows, events, ledger, calls, crashes>>
  <1> DEFINE b == [Idle EXCEPT !.phase = "ready"]
  <1>1. /\ batch["backfill"].phase = "idle" /\ visits' = visits + 1
        /\ batch' = [batch EXCEPT !["backfill"] = b]
        /\ UNCHANGED <<day, hour, rows, events, ledger, calls, crashes>>
    BY DEF BeginBackfill
  <1>2. b \in BatchType /\ b.phase = "ready" /\ b.billed = 0 /\ b.found = {} /\ b.done = {}
    BY Ranges DEF Idle, BatchType
  <1> HIDE DEF b
  <1> QED
    BY <1>1, <1>2, BatchSet, ProcessesAre

LEMMA EndRunEffect ==
    ASSUME Typed, NEW p \in Processes, EndRun(p)
    PROVE  /\ batch[p].phase = "ready" /\ OnlyBatch(p, Idle)
           /\ hour' = IF p = "nightly" THEN "night" ELSE hour
           /\ UNCHANGED <<day, rows, events, ledger, calls, crashes, visits>>
  <1>1. /\ batch[p].phase = "ready" /\ batch' = [batch EXCEPT ![p] = Idle]
        /\ hour' = IF p = "nightly" THEN "night" ELSE hour
        /\ UNCHANGED <<day, rows, events, ledger, calls, crashes, visits>>
    BY DEF EndRun
  <1> QED
    BY <1>1, BatchSet, IdleFacts

\* The rows an extraction finds were waiting, and each is put to every model at most.
LEMMA ExtractEffect ==
    ASSUME Typed, NEW p \in Processes, Extract(p)
    PROVE  /\ batch[p].phase = "ready" /\ p \in Extractors /\ ledger < Budget
           /\ \E b \in BatchType :
                 /\ OnlyBatch(p, b) /\ b.phase = "store"
                 /\ \E made \in 0..(Providers * b.billed) : calls' = calls + made
                 /\ b.found \subseteq b.done /\ \A f \in b.done \ b.found : f.kind = "boilerplate"
                 /\ \A f \in b.done : rows[f] = "open"
           /\ UNCHANGED <<day, hour, rows, events, ledger, crashes, visits>>
  <1>1. /\ batch[p].phase = "ready" /\ ledger < Budget
        /\ p = "nightly" => batch[p].count < MaxBatches
        /\ UNCHANGED <<day, hour, rows, events, ledger, crashes, visits>>
    BY Ranges DEF Extract, OverBudget, Typed
  <1>2. p \in Extractors
    BY <1>1, ProcessesAre DEF Typed
  <1> DEFINE asked == {f \in NextRows : f.kind # "boilerplate"}
             count == IF p = "nightly" THEN batch[p].count + 1 ELSE 0
             shared(found) == {f \in found : SharesEvent(f, NextRows, found)}
             n(found) == Cardinality(asked \ shared(found))
             b(found) == [phase |-> Writes[1], count |-> count, found |-> found,
                          billed |-> n(found), done |-> found \cup (NextRows \ asked)]
  <1>3. PICK found \in Outcomes(NextRows) :
           /\ \E made \in n(found)..(Asks(p) * n(found)) : calls' = calls + made
           /\ batch' = [batch EXCEPT ![p] = b(found)]
    BY DEF Extract
  <1>4. found \subseteq asked /\ NextRows \subseteq Filings
    BY BatchIsSmall DEF Outcomes
  <1>5. n(found) \in 0..BatchSize
    <2> DEFINE read == asked \ shared(found)
    <2>1. read \subseteq NextRows
      OBVIOUS
    <2> HIDE DEF read
    <2>2. IsFiniteSet(read) /\ Cardinality(read) <= Cardinality(NextRows)
      BY <2>1, BatchIsSmall, FS_Subset
    <2>3. Cardinality(read) \in Nat
      BY <2>2, FS_CardinalityType
    <2>4. Cardinality(read) \in 0..BatchSize
      BY <2>2, <2>3, BatchIsSmall, Ranges
    <2> QED
      BY <2>4 DEF read
  <1>6. \E made \in 0..(Providers * n(found)) : calls' = calls + made
    <2> HIDE DEF n
    <2>1. n(found) \in Nat
      BY <1>5, Ranges
    <2>2. Asks(p) * n(found) <= Providers * n(found) /\ Providers * n(found) \in Nat
      <3>1. CASE Asks(p) = Providers
        BY <2>1, <3>1, Ranges, TimesProviders
      <3>2. CASE Asks(p) = 1
        BY <2>1, <3>2, Ranges, TimesProviders
      <3> QED
        BY <3>1, <3>2 DEF Asks
    <2>3. PICK made \in n(found)..(Asks(p) * n(found)) : calls' = calls + made
      BY <1>3
    <2>4. Asks(p) * n(found) \in Int
      BY <2>1, Ranges DEF Asks
    <2>5. made \in 0..(Providers * n(found))
      BY <2>1, <2>2, <2>3, <2>4
    <2> QED
      BY <2>3, <2>5
  <1>7. count \in 0..MaxBatches
    BY <1>1, BatchIs, Ranges
  <1>8. \A f \in NextRows \ asked : f.kind = "boilerplate"
    OBVIOUS
  <1>9. \A f \in found \cup NextRows : rows[f] = "open"
    BY <1>4 DEF NextRows, Unprocessed
  <1> HIDE DEF asked, count, n
  <1>10. /\ b(found) \in BatchType /\ b(found).phase = "store" /\ b(found).billed = n(found)
        /\ b(found).found = found /\ b(found).done = found \cup (NextRows \ asked)
    <2>1. asked \subseteq NextRows
      BY DEF asked
    <2> QED
      BY <1>4, <1>5, <1>7, <2>1, AfterFacts DEF BatchType
  <1> HIDE DEF b
  <1>11. OnlyBatch(p, b(found))
    BY <1>3, <1>10, BatchSet
  <1> QED
    BY <1>1, <1>2, <1>6, <1>8, <1>9, <1>10, <1>11

LEMMA StoreEventsEffect ==
    ASSUME Typed, NEW p \in Processes, StoreEvents(p)
    PROVE  /\ batch[p].phase = "store" /\ events' \in [Filings -> Nat]
           /\ \A f \in Filings :
                 events'[f] = IF f \in batch[p].found THEN events[f] + 1 ELSE events[f]
           /\ \E b \in BatchType :
                 /\ OnlyBatch(p, b) /\ b.phase = "mark" /\ b.found = batch[p].found
                 /\ b.done = batch[p].done /\ b.billed = batch[p].billed
           /\ UNCHANGED <<day, hour, rows, ledger, calls, crashes, visits>>
  <1> DEFINE b == [batch[p] EXCEPT !.phase = After(p, "store")]
  <1>1. /\ batch[p].phase = "store"
        /\ events' = [f \in Filings |-> IF f \in batch[p].found THEN events[f] + 1 ELSE events[f]]
        /\ UNCHANGED <<day, hour, rows, ledger, calls, crashes, visits>>
    BY DEF StoreEvents
  <1>2. batch' = [batch EXCEPT ![p] = b]
    BY DEF StoreEvents
  <1>3. /\ b \in BatchType /\ b.phase = "mark" /\ b.found = batch[p].found
        /\ b.done = batch[p].done /\ b.billed = batch[p].billed
    BY BatchIs, AfterFacts DEF BatchType
  <1> HIDE DEF b
  <1>4. OnlyBatch(p, b)
    BY <1>2, <1>3, BatchSet
  <1>5. \A f \in Filings : events[f] \in Nat
    BY DEF Typed
  <1>6. /\ events' \in [Filings -> Nat]
        /\ \A f \in Filings :
              events'[f] = IF f \in batch[p].found THEN events[f] + 1 ELSE events[f]
    BY <1>1, <1>5
  <1> QED
    BY <1>1, <1>3, <1>4, <1>6

LEMMA MarkProcessedEffect ==
    ASSUME Typed, NEW p \in Processes, MarkProcessed(p)
    PROVE  /\ batch[p].phase = "mark" /\ rows' \in [Filings -> {"none", "open", "done"}]
           /\ \A f \in Filings : rows'[f] = IF f \in batch[p].done THEN "done" ELSE rows[f]
           /\ \E b \in BatchType :
                 /\ OnlyBatch(p, b) /\ b.phase = (IF p = "routine" THEN "pushed" ELSE "bill")
                 /\ b.found = batch[p].found
                 /\ b.done = batch[p].done /\ b.billed = batch[p].billed
           /\ UNCHANGED <<day, hour, events, ledger, calls, crashes, visits>>
  <1> DEFINE b == [batch[p] EXCEPT !.phase = After(p, "mark")]
  <1>1. /\ batch[p].phase = "mark"
        /\ rows' = [f \in Filings |-> IF f \in batch[p].done THEN "done" ELSE rows[f]]
        /\ UNCHANGED <<day, hour, events, ledger, calls, crashes, visits>>
    BY DEF MarkProcessed
  <1>2. batch' = [batch EXCEPT ![p] = b]
    BY DEF MarkProcessed
  <1>3. /\ b \in BatchType /\ b.phase = (IF p = "routine" THEN "pushed" ELSE "bill")
        /\ b.found = batch[p].found /\ b.done = batch[p].done /\ b.billed = batch[p].billed
    BY BatchIs, AfterFacts DEF BatchType
  <1> HIDE DEF b
  <1>4. OnlyBatch(p, b)
    BY <1>2, <1>3, BatchSet
  <1>5. /\ rows' \in [Filings -> {"none", "open", "done"}]
        /\ \A f \in Filings : rows'[f] = IF f \in batch[p].done THEN "done" ELSE rows[f]
    BY <1>1 DEF Typed
  <1> QED
    BY <1>1, <1>3, <1>4, <1>5

LEMMA RecordBatchEffect ==
    ASSUME Typed, NEW p \in Processes, RecordBatch(p)
    PROVE  /\ batch[p].phase = "bill" /\ p \in Extractors /\ ledger' = ledger + batch[p].billed
           /\ \E b \in BatchType : /\ OnlyBatch(p, b) /\ b.phase = "ready"
                                   /\ b.found = {} /\ b.done = {} /\ b.billed = 0
           /\ UNCHANGED <<day, hour, rows, events, calls, crashes, visits>>
  <1> DEFINE b == [Idle EXCEPT !.phase = After(p, "bill"), !.count = batch[p].count]
  <1>1. /\ batch[p].phase = "bill" /\ ledger' = ledger + batch[p].billed
        /\ UNCHANGED <<day, hour, rows, events, calls, crashes, visits>>
    BY DEF RecordBatch
  <1>2. batch' = [batch EXCEPT ![p] = b]
    BY DEF RecordBatch
  <1>3. b \in BatchType /\ b.phase = "ready" /\ b.found = {} /\ b.done = {} /\ b.billed = 0
    <2>1. After(p, "bill") = "ready" /\ batch[p].count \in 0..MaxBatches
      BY BatchIs, AfterFacts
    <2> QED
      BY <2>1, IdleFacts DEF BatchType
  <1>4. p \in Extractors
    BY <1>1, ProcessesAre DEF Typed
  <1> HIDE DEF b
  <1>5. OnlyBatch(p, b)
    BY <1>2, <1>3, BatchSet
  <1> QED
    BY <1>1, <1>3, <1>4, <1>5

\* The routine takes rows that wait, and marks boilerplate at once.
LEMMA PullEffect ==
    ASSUME Typed, Pull
    PROVE  /\ batch["routine"].phase = "idle" /\ visits' = visits + 1
           /\ rows' \in [Filings -> {"none", "open", "done"}]
           /\ \A f \in Filings : \/ rows'[f] = rows[f]
                                 \/ rows[f] = "open" /\ rows'[f] = "done" /\ f.kind = "boilerplate"
           /\ \E b \in BatchType :
                 /\ OnlyBatch("routine", b) /\ b.phase = "pulled" /\ b.billed = 0 /\ b.found = {}
                 /\ \A f \in b.done : rows[f] = "open"
           /\ UNCHANGED <<day, hour, events, ledger, calls, crashes>>
  <1> DEFINE told == {f \in IntelPending : f.kind # "boilerplate"}
             b == [Idle EXCEPT !.phase = "pulled", !.done = told]
  <1>1. /\ batch["routine"].phase = "idle" /\ visits' = visits + 1
        /\ rows' = [f \in Filings |-> IF f \in IntelPending \ told THEN "done" ELSE rows[f]]
        /\ UNCHANGED <<day, hour, events, ledger, calls, crashes>>
    BY DEF Pull
  <1>2. batch' = [batch EXCEPT !["routine"] = b]
    BY DEF Pull
  <1>3. /\ told \subseteq Filings /\ \A f \in told : rows[f] = "open"
        /\ \A f \in IntelPending \ told : rows[f] = "open" /\ f.kind = "boilerplate"
    BY DEF IntelPending, Unprocessed
  <1> HIDE DEF told
  <1>4. /\ b \in BatchType /\ b.phase = "pulled" /\ b.billed = 0 /\ b.found = {} /\ b.done = told
    BY <1>3, IdleFacts DEF BatchType
  <1> HIDE DEF b
  <1>5. OnlyBatch("routine", b)
    BY <1>2, <1>4, BatchSet, ProcessesAre
  <1>6. rows' \in [Filings -> {"none", "open", "done"}]
    BY <1>1 DEF Typed
  <1> QED
    BY <1>1, <1>3, <1>4, <1>5, <1>6

LEMMA PushEffect ==
    ASSUME Typed, PushIntelEvents
    PROVE  /\ batch["routine"].phase = "pulled"
           /\ \/ OnlyBatch("routine", Idle)
              \/ \E b \in BatchType :
                    /\ OnlyBatch("routine", b) /\ b.phase = "store"
                    /\ b.billed = batch["routine"].billed
                    /\ b.found = b.done /\ b.found \subseteq batch["routine"].done
           /\ UNCHANGED <<day, hour, rows, events, ledger, calls, crashes, visits>>
  <1> DEFINE r == batch["routine"]
             b(found) == [r EXCEPT !.phase = Writes[1], !.found = found, !.done = found]
  <1>1. /\ r.phase = "pulled"
        /\ UNCHANGED <<day, hour, rows, events, ledger, calls, crashes, visits>>
    BY DEF PushIntelEvents
  <1>2. PICK found \in SUBSET {f \in r.done : f.kind # "unreadable"} :
           batch' = [batch EXCEPT !["routine"] = IF found = {} THEN Idle ELSE b(found)]
    BY DEF PushIntelEvents
  <1>3. found \subseteq r.done /\ r \in BatchType /\ r.done \subseteq Filings /\ "routine" \in Processes
    BY BatchIs, ProcessesAre
  <1>4. /\ b(found) \in BatchType /\ b(found).phase = "store" /\ b(found).found = found
        /\ b(found).done = found /\ b(found).billed = r.billed
    BY <1>3, AfterFacts DEF BatchType
  <1> HIDE DEF b, r
  <1>5. CASE found = {}
    <2>1. batch' = [batch EXCEPT !["routine"] = Idle]
      BY <1>2, <1>5
    <2> QED
      BY <1>1, <1>3, <2>1, BatchSet, IdleFacts DEF r
  <1>6. CASE found # {}
    <2>1. batch' = [batch EXCEPT !["routine"] = b(found)]
      BY <1>2, <1>6
    <2>2. OnlyBatch("routine", b(found))
      BY <1>3, <1>4, <2>1, BatchSet
    <2> QED
      BY <1>1, <1>3, <1>4, <2>2 DEF r
  <1> QED
    BY <1>5, <1>6

LEMMA PushAnsweredEffect ==
    ASSUME Typed, PushAnswered
    PROVE  /\ batch["routine"].phase = "pushed" /\ OnlyBatch("routine", Idle)
           /\ UNCHANGED <<day, hour, rows, events, ledger, calls, crashes, visits>>
  <1>1. /\ batch["routine"].phase = "pushed" /\ batch' = [batch EXCEPT !["routine"] = Idle]
        /\ UNCHANGED <<day, hour, rows, events, ledger, calls, crashes, visits>>
    BY DEF PushAnswered
  <1> QED
    BY <1>1, BatchSet, IdleFacts, ProcessesAre

LEMMA PushRepeatedEffect ==
    ASSUME Typed, PushRepeated
    PROVE  /\ crashes' = crashes + 1
           /\ \E b \in BatchType :
                 /\ OnlyBatch("routine", b) /\ b.phase = "pulled" /\ b.found = {}
                 /\ b.billed = batch["routine"].billed /\ b.done = batch["routine"].done
           /\ UNCHANGED <<day, hour, rows, events, ledger, calls, visits>>
  <1> DEFINE r == batch["routine"]
             b == [r EXCEPT !.phase = "pulled", !.found = {}]
  <1>1. /\ crashes' = crashes + 1
        /\ UNCHANGED <<day, hour, rows, events, ledger, calls, visits>>
    BY DEF PushRepeated
  <1>2. batch' = [batch EXCEPT !["routine"] = b]
    BY DEF PushRepeated
  <1>3. r \in BatchType /\ "routine" \in Processes
    BY BatchIs, ProcessesAre
  <1>4. /\ b \in BatchType /\ b.phase = "pulled" /\ b.found = {}
        /\ b.billed = r.billed /\ b.done = r.done
    BY <1>3 DEF BatchType
  <1> HIDE DEF b, r
  <1>5. OnlyBatch("routine", b)
    BY <1>2, <1>3, <1>4, BatchSet
  <1> QED
    BY <1>1, <1>4, <1>5 DEF r

LEMMA KilledEffect ==
    ASSUME Typed, NEW p \in Processes, Killed(p)
    PROVE  /\ OnlyBatch(p, Idle) /\ crashes' = crashes + 1
           /\ hour' = IF p = "nightly" THEN "night" ELSE hour
           /\ UNCHANGED <<day, rows, events, ledger, calls, visits>>
  <1>1. /\ batch' = [batch EXCEPT ![p] = Idle] /\ crashes' = crashes + 1
        /\ hour' = IF p = "nightly" THEN "night" ELSE hour
        /\ UNCHANGED <<day, rows, events, ledger, calls, visits>>
    BY DEF Killed
  <1> QED
    BY <1>1, BatchSet, IdleFacts

LEMMA MidnightEffect ==
    ASSUME Typed, Midnight
    PROVE  /\ hour = "night" /\ hour' = "day" /\ day' \in FirstDay..LastDay
           /\ \/ day' = day + 1 /\ ledger' = ledger /\ calls' = calls
              \/ day' = day /\ day = LastDay /\ ledger' = 0 /\ calls' = 0
           /\ UNCHANGED <<rows, events, batch, crashes, visits>>
  <1>1. /\ hour = "night" /\ hour' = "day"
        /\ IF day < LastDay THEN day' = day + 1 /\ ledger' = ledger /\ calls' = calls
                            ELSE ledger' = 0 /\ calls' = 0 /\ day' = day
        /\ UNCHANGED <<rows, events, batch, crashes, visits>>
    BY DEF Midnight
  <1>2. day \in FirstDay..LastDay /\ FirstDay \in Nat /\ LastDay \in Nat
    BY Ranges DEF Typed
  <1> QED
    BY <1>1, <1>2

-----------------------------------------------------------------------------
(* The types are an invariant *)

\* A step that changes one batch keeps the types, if the rest of it does.
LEMMA TypedFrom ==
    ASSUME Typed, NEW p \in Processes, NEW b \in BatchType, OnlyBatch(p, b),
           day' = day, hour' \in {"day", "collected", "extracting", "night"},
           rows' \in [Filings -> {"none", "open", "done"}], events' \in [Filings -> Nat],
           ledger' \in Nat, calls' \in Nat, crashes' \in Nat, visits' \in Nat, visits <= visits',
           p = "nightly" => (hour' = "extracting" <=> b.phase # "idle"),
           p # "nightly" => hour' = hour,
           p = "routine" => b.phase \notin {"ready", "bill"},
           p # "routine" => b.phase \notin {"pulled", "pushed"},
           p = "backfill" /\ b.phase # "idle" => visits' > 0
    PROVE  Typed'
  <1>1. /\ day' \in FirstDay..LastDay /\ batch' \in [Processes -> BatchType]
        /\ visits \in Nat
    BY DEF Typed, OnlyBatch
  <1>2. hour' = "extracting" <=> batch'["nightly"].phase # "idle"
    <2>1. CASE p = "nightly"
      BY <2>1 DEF OnlyBatch
    <2>2. CASE p # "nightly"
      <3>1. batch'["nightly"] = batch["nightly"]
        BY <2>2, ProcessesAre DEF OnlyBatch
      <3> QED
        BY <2>2, <3>1 DEF Typed
    <2> QED
      BY <2>1, <2>2
  <1>3. batch'["routine"].phase \notin {"ready", "bill"}
    BY ProcessesAre DEF OnlyBatch, Typed
  <1>4. \A q \in Extractors : batch'[q].phase \notin {"pulled", "pushed"}
    BY ProcessesAre DEF OnlyBatch, Typed
  <1>5. batch'["backfill"].phase # "idle" => visits' > 0
    <2>1. CASE p = "backfill"
      BY <2>1 DEF OnlyBatch
    <2>2. CASE p # "backfill"
      <3>1. batch'["backfill"] = batch["backfill"]
        BY <2>2, ProcessesAre DEF OnlyBatch
      <3>2. batch["backfill"].phase # "idle" => visits > 0
        BY DEF Typed
      <3> QED
        BY <1>1, <3>1, <3>2
    <2> QED
      BY <2>1, <2>2
  <1> QED
    BY <1>1, <1>2, <1>3, <1>4, <1>5 DEF Typed

LEMMA TypedKept ==
    ASSUME Typed, [Next]_vars
    PROVE  Typed'
  <1>1. /\ day \in FirstDay..LastDay /\ hour \in {"day", "collected", "extracting", "night"}
        /\ rows \in [Filings -> {"none", "open", "done"}] /\ events \in [Filings -> Nat]
        /\ ledger \in Nat /\ calls \in Nat /\ crashes \in Nat /\ visits \in Nat
        /\ visits <= visits /\ visits + 1 \in Nat /\ visits <= visits + 1 /\ visits + 1 > 0
        /\ crashes + 1 \in Nat
    BY DEF Typed
  <1>2. /\ hour = "extracting" <=> batch["nightly"].phase # "idle"
        /\ batch["routine"].phase \notin {"ready", "bill"}
        /\ \A p \in Extractors : batch[p].phase \notin {"pulled", "pushed"}
        /\ batch["backfill"].phase # "idle" => visits > 0
        /\ "nightly" \in Processes /\ "backfill" \in Processes /\ "routine" \in Processes
    BY ProcessesAre DEF Typed
  <1>3. CASE Collect
    BY <1>1, <1>2, <1>3, CollectEffect DEF Typed
  <1>4. CASE BeginNightly
    <2>1. /\ hour = "collected"
          /\ UNCHANGED <<day, rows, events, ledger, calls, crashes, visits>>
      BY <1>4, BeginNightlyEffect
    <2>2. CASE hour' = "night" /\ batch' = batch
      BY <1>1, <1>2, <2>1, <2>2 DEF Typed
    <2>3. CASE /\ hour' = "extracting"
               /\ \E b \in BatchType : OnlyBatch("nightly", b) /\ b.phase = "ready"
      BY <1>1, <1>2, <2>1, <2>3, TypedFrom
    <2> QED
      BY <1>4, <2>2, <2>3, BeginNightlyEffect
  <1>5. CASE BeginBackfill
    BY <1>1, <1>2, <1>5, BeginBackfillEffect, TypedFrom
  <1>6. CASE Midnight
    <2>1. ledger' \in Nat /\ calls' \in Nat /\ day' \in FirstDay..LastDay
      BY <1>1, <1>6, MidnightEffect
    <2>2. hour = "night" /\ hour' = "day" /\ UNCHANGED <<rows, events, batch, crashes, visits>>
      BY <1>6, MidnightEffect
    <2> QED
      BY <1>1, <1>2, <2>1, <2>2 DEF Typed
  <1>7. CASE Pull
    BY <1>1, <1>2, <1>7, PullEffect, TypedFrom
  <1>8. CASE PushIntelEvents
    BY <1>1, <1>2, <1>8, PushEffect, IdleFacts, TypedFrom
  <1>9. CASE PushAnswered
    BY <1>1, <1>2, <1>9, PushAnsweredEffect, IdleFacts, TypedFrom
  <1>10. CASE PushRepeated
    BY <1>1, <1>2, <1>10, PushRepeatedEffect, TypedFrom
  <1>11. ASSUME NEW p \in Processes, EndRun(p) PROVE Typed'
    BY <1>1, <1>2, <1>11, EndRunEffect, IdleFacts, TypedFrom
  <1>12. ASSUME NEW p \in Processes, Extract(p) PROVE Typed'
    <2>1. PICK b \in BatchType :
             /\ OnlyBatch(p, b) /\ b.phase = "store"
             /\ \E made \in 0..(Providers * b.billed) : calls' = calls + made
      BY <1>12, ExtractEffect
    <2>2. calls' \in Nat
      BY <1>1, <2>1 DEF Typed
    <2>3. /\ batch[p].phase = "ready"
          /\ UNCHANGED <<day, hour, rows, events, ledger, crashes, visits>>
      BY <1>12, ExtractEffect
    <2> QED
      BY <1>1, <1>2, <2>1, <2>2, <2>3, TypedFrom
  <1>13. ASSUME NEW p \in Processes, StoreEvents(p) PROVE Typed'
    BY <1>1, <1>2, <1>13, StoreEventsEffect, TypedFrom
  <1>14. ASSUME NEW p \in Processes, MarkProcessed(p) PROVE Typed'
    BY <1>1, <1>2, <1>14, MarkProcessedEffect, TypedFrom
  <1>15. ASSUME NEW p \in Processes, RecordBatch(p) PROVE Typed'
    <2>1. ledger' \in Nat /\ p # "routine"
      BY <1>1, <1>15, RecordBatchEffect, BatchIs, ProcessesAre
    <2> QED
      BY <1>1, <1>2, <1>15, <2>1, RecordBatchEffect, TypedFrom
  <1>16. ASSUME NEW p \in Processes, Killed(p) PROVE Typed'
    BY <1>1, <1>2, <1>16, KilledEffect, IdleFacts, TypedFrom
  <1>17. CASE UNCHANGED vars
    BY <1>17 DEF Typed, vars
  <1> QED
    BY <1>3, <1>4, <1>5, <1>6, <1>7, <1>8, <1>9, <1>10, <1>11, <1>12, <1>13, <1>14, <1>15,
       <1>16, <1>17 DEF Next, RunStep

LEMMA TypedStarts == Init => Typed
  <1> SUFFICES ASSUME Init PROVE Typed
    OBVIOUS
  <1>1. \A p \in Processes : batch[p] = Idle
    BY DEF Init
  <1>2. batch \in [Processes -> BatchType]
    BY IdleFacts DEF Init
  <1>3. FirstDay \in FirstDay..LastDay
    BY IntelAssumption
  <1> QED
    BY <1>1, <1>2, <1>3, IdleFacts, ProcessesAre DEF Init, Typed

\* The batches, the tables and the clock keep their types together: the scheduler
\* extracts just while it has a batch, and only the routine pulls and pushes.
THEOREM TypesHold == Spec => []Typed
  <1>1. Typed /\ [Next]_vars => Typed'
    BY TypedKept
  <1> QED
    BY <1>1, TypedStarts, PTL DEF Spec

\* Every variable stays in its range, and the night's extraction is under way
\* just while its batch is.
THEOREM TypeCorrect == Spec => []TypeOK
  <1>1. Typed => TypeOK
    <2> SUFFICES ASSUME Typed PROVE TypeOK
      OBVIOUS
    <2>1. {Writes[i] : i \in DOMAIN Writes} = {"store", "mark", "bill"}
      <3>1. DOMAIN Writes = {1, 2, 3} /\ Writes[1] = "store" /\ Writes[2] = "mark" /\ Writes[3] = "bill"
        BY DEF Writes
      <3> QED
        BY <3>1
    <2>2. ASSUME NEW p \in Processes
          PROVE  /\ batch[p].phase \in {"idle", "ready", "pulled", "pushed"}
                                          \cup {Writes[i] : i \in DOMAIN Writes}
                 /\ batch[p].count \in 0..MaxBatches
                 /\ batch[p].found \subseteq Filings /\ batch[p].done \subseteq Filings
                 /\ batch[p].billed \in 0..BatchSize
                 /\ batch[p].phase \in {"ready", "bill"} => p # "routine"
      <3>1. batch[p] \in BatchType
        BY BatchIs
      <3>2. p = "routine" => batch[p].phase \notin {"ready", "bill"}
        BY DEF Typed
      <3> QED
        BY <2>1, <3>1, <3>2 DEF BatchType
    <2> QED
      BY <2>2 DEF Typed, TypeOK
  <1> QED
    BY <1>1, TypesHold, PTL

-----------------------------------------------------------------------------
(* No filing is lost *)

\* What a batch is to have for BatchSound.
Sound(b) ==
    /\ b.phase \in {"store", "mark"} =>
          /\ b.found \subseteq b.done
          /\ \A f \in b.done \ b.found : f.kind = "boilerplate"
    /\ b.phase \in {"idle", "ready"} => b.billed = 0
    /\ b.phase = "mark" => \A f \in b.found : events[f] > 0

LEMMA SoundFrom ==
    ASSUME Typed, BatchSound, NEW p \in Processes, NEW b \in BatchType, OnlyBatch(p, b),
           \A f \in Filings : events'[f] >= events[f] /\ events'[f] \in Nat,
           b.phase \in {"store", "mark"} =>
              /\ b.found \subseteq b.done
              /\ \A f \in b.done \ b.found : f.kind = "boilerplate",
           b.phase \in {"idle", "ready"} => b.billed = 0,
           b.phase = "mark" => \A f \in b.found : events'[f] > 0
    PROVE  BatchSound'
  <1>1. ASSUME NEW q \in Processes, q # p PROVE Sound(batch[q])' /\ batch'[q] = batch[q]
    <2>1. batch'[q] = batch[q] /\ Sound(batch[q])
      BY <1>1 DEF OnlyBatch, BatchSound, Sound
    <2>2. \A f \in batch[q].found : events[f] > 0 => events'[f] > 0
      <3>1. batch[q].found \subseteq Filings /\ \A f \in Filings : events[f] \in Nat
        BY BatchIs DEF Typed
      <3> QED
        BY <3>1
    <2> QED
      BY <2>1, <2>2 DEF Sound
  <1>2. Sound(batch[p])'
    BY DEF OnlyBatch, Sound
  <1> QED
    BY <1>1, <1>2 DEF BatchSound, Sound

LEMMA SoundKept ==
    ASSUME Typed, BatchSound, [Next]_vars
    PROVE  BatchSound'
  <1>1. /\ \A f \in Filings : events[f] >= events[f] /\ events[f] \in Nat
        /\ "nightly" \in Processes /\ "backfill" \in Processes /\ "routine" \in Processes
    BY ProcessesAre DEF Typed
  <1>2. CASE batch' = batch /\ events' = events
    BY <1>2 DEF BatchSound
  <1>3. CASE Collect \/ Midnight \/ UNCHANGED vars
    BY <1>2, <1>3, CollectEffect, MidnightEffect DEF vars
  <1>4. CASE BeginNightly
    BY <1>1, <1>2, <1>4, BeginNightlyEffect, SoundFrom
  <1>5. CASE BeginBackfill
    BY <1>1, <1>5, BeginBackfillEffect, SoundFrom
  <1>6. CASE Pull
    BY <1>1, <1>6, PullEffect, SoundFrom
  <1>7. CASE PushIntelEvents
    BY <1>1, <1>7, PushEffect, IdleFacts, SoundFrom
  <1>8. CASE PushAnswered
    BY <1>1, <1>8, PushAnsweredEffect, IdleFacts, SoundFrom
  <1>9. CASE PushRepeated
    BY <1>1, <1>9, PushRepeatedEffect, SoundFrom
  <1>10. ASSUME NEW p \in Processes, EndRun(p) \/ Killed(p) PROVE BatchSound'
    BY <1>1, <1>10, EndRunEffect, KilledEffect, IdleFacts, SoundFrom
  <1>11. ASSUME NEW p \in Processes, Extract(p) PROVE BatchSound'
    BY <1>1, <1>11, ExtractEffect, SoundFrom
  <1>12. ASSUME NEW p \in Processes, StoreEvents(p) PROVE BatchSound'
    <2>1. /\ batch[p].phase = "store" /\ batch[p].found \subseteq Filings
          /\ \A f \in Filings :
                events'[f] = IF f \in batch[p].found THEN events[f] + 1 ELSE events[f]
      BY <1>12, StoreEventsEffect, BatchIs
    <2>2. /\ \A f \in Filings : events'[f] >= events[f] /\ events'[f] \in Nat
          /\ \A f \in batch[p].found : events'[f] > 0
      BY <1>1, <2>1
    <2>3. /\ batch[p].found \subseteq batch[p].done
          /\ \A f \in batch[p].done \ batch[p].found : f.kind = "boilerplate"
      BY <2>1 DEF BatchSound
    <2> QED
      BY <1>12, <2>2, <2>3, StoreEventsEffect, SoundFrom
  <1>13. ASSUME NEW p \in Processes, MarkProcessed(p) PROVE BatchSound'
    BY <1>1, <1>13, MarkProcessedEffect, SoundFrom
  <1>14. ASSUME NEW p \in Processes, RecordBatch(p) PROVE BatchSound'
    BY <1>1, <1>14, RecordBatchEffect, SoundFrom
  <1> QED
    BY <1>3, <1>4, <1>5, <1>6, <1>7, <1>8, <1>9, <1>10, <1>11, <1>12, <1>13, <1>14
       DEF Next, RunStep

LEMMA MarkedKept ==
    ASSUME Typed, BatchSound, MarkedHasEvent, [Next]_vars
    PROVE  MarkedHasEvent'
  <1>1. /\ \A f \in Filings : events[f] \in Nat
        /\ \A f \in Filings : rows[f] = "done" => f.kind = "boilerplate" \/ events[f] > 0
    BY DEF Typed, MarkedHasEvent
  <1>2. CASE rows' = rows /\ events' = events
    BY <1>2 DEF MarkedHasEvent
  <1>3. CASE Collect
    BY <1>1, <1>3, CollectEffect DEF MarkedHasEvent
  <1>4. CASE Pull
    BY <1>1, <1>4, PullEffect DEF MarkedHasEvent
  <1>5. ASSUME NEW p \in Processes, StoreEvents(p) PROVE MarkedHasEvent'
    <2>1. /\ rows' = rows
          /\ \A f \in Filings :
                events'[f] = IF f \in batch[p].found THEN events[f] + 1 ELSE events[f]
      BY <1>5, StoreEventsEffect
    <2>2. \A f \in Filings : events[f] > 0 => events'[f] > 0
      BY <1>1, <2>1
    <2> QED
      BY <1>1, <2>1, <2>2 DEF MarkedHasEvent
  <1>6. ASSUME NEW p \in Processes, MarkProcessed(p) PROVE MarkedHasEvent'
    <2>1. /\ batch[p].phase = "mark" /\ events' = events
          /\ \A f \in Filings : rows'[f] = IF f \in batch[p].done THEN "done" ELSE rows[f]
      BY <1>6, MarkProcessedEffect
    <2>2. \A f \in batch[p].done : f.kind = "boilerplate" \/ events[f] > 0
      BY <2>1 DEF BatchSound
    <2> QED
      BY <1>1, <2>1, <2>2 DEF MarkedHasEvent
  <1>7. \/ rows' = rows /\ events' = events
        \/ Collect \/ Pull \/ \E p \in Processes : StoreEvents(p) \/ MarkProcessed(p)
    BY DEF BeginNightly, BeginBackfill, Midnight, PushIntelEvents, PushAnswered, PushRepeated,
           EndRun, Extract, RecordBatch, Killed, RunStep, Next, vars
  <1> QED
    BY <1>2, <1>3, <1>4, <1>5, <1>6, <1>7

LEMMA SoundStarts == Init => BatchSound /\ MarkedHasEvent
  <1> SUFFICES ASSUME Init PROVE BatchSound /\ MarkedHasEvent
    OBVIOUS
  <1>1. /\ \A p \in Processes : batch[p] = Idle
        /\ \A f \in Filings : rows[f] = "none"
    BY DEF Init
  <1> QED
    BY <1>1, IdleFacts DEF BatchSound, MarkedHasEvent

\* A row marked processed has its event or is boilerplate, whatever dies between
\* the three writes of a batch and whoever else works on the row.
THEOREM MarkedRowsHaveEvents == Spec => []MarkedHasEvent
  <1>1. Typed /\ BatchSound /\ [Next]_vars => BatchSound'
    BY SoundKept
  <1>2. Typed /\ BatchSound /\ MarkedHasEvent /\ [Next]_vars => MarkedHasEvent'
    BY MarkedKept
  <1> QED
    BY <1>1, <1>2, SoundStarts, TypesHold, PTL DEF Spec

-----------------------------------------------------------------------------
(* The budget of the month *)

\* What a step of one batch does to the calls that are not booked.
LEMMA UnbookedStep ==
    ASSUME Typed, NEW p \in Processes, NEW b \in BatchType, OnlyBatch(p, b)
    PROVE  /\ Unbooked \in Nat /\ Unbooked <= 2 * BatchSize /\ batch[p].billed \in 0..BatchSize
           /\ b.billed \in 0..BatchSize /\ Unbooked' \in Nat
           /\ p = "routine" => Unbooked' = Unbooked
           /\ p # "routine" => Unbooked' = (Unbooked - batch[p].billed) + b.billed
           /\ p # "routine" => Unbooked - batch[p].billed \in 0..BatchSize
  <1>1. /\ batch["nightly"].billed \in 0..BatchSize /\ batch["backfill"].billed \in 0..BatchSize
        /\ batch[p].billed \in 0..BatchSize /\ b.billed \in 0..BatchSize /\ BatchSize \in Nat
    BY BatchIs, ProcessesAre, Ranges DEF BatchType
  <1>2. batch'[p].billed = b.billed /\ \A q \in Processes : q # p => batch'[q].billed = batch[q].billed
    BY DEF OnlyBatch
  <1>3. Unbooked' = batch'["nightly"].billed + batch'["backfill"].billed
    BY DEF Unbooked
  <1>4. Unbooked \in Nat /\ Unbooked <= 2 * BatchSize
    BY <1>1 DEF Unbooked
  <1>5. CASE p = "routine"
    <2>1. /\ batch'["nightly"].billed = batch["nightly"].billed
          /\ batch'["backfill"].billed = batch["backfill"].billed
      BY <1>2, <1>5, ProcessesAre
    <2> QED
      BY <1>1, <1>3, <1>4, <1>5, <2>1 DEF Unbooked
  <1>6. CASE p = "nightly"
    <2>1. batch'["backfill"].billed = batch["backfill"].billed
      BY <1>2, <1>6, ProcessesAre
    <2> QED
      BY <1>1, <1>2, <1>3, <1>4, <1>6, <2>1 DEF Unbooked
  <1>7. CASE p = "backfill"
    <2>1. batch'["nightly"].billed = batch["nightly"].billed
      BY <1>2, <1>7, ProcessesAre
    <2> QED
      BY <1>1, <1>2, <1>3, <1>4, <1>7, <2>1 DEF Unbooked
  <1> QED
    BY <1>5, <1>6, <1>7, ProcessesAre

\* Something broken off costs a batch at most.
LEMMA CrashCost ==
    ASSUME Typed
    PROVE  BatchSize * crashes \in Nat /\ BatchSize * (crashes + 1) = BatchSize * crashes + BatchSize
  BY Ranges DEF Typed

\* Calls that n rows pay for are paid for by more rows.
LEMMA MoreRows ==
    ASSUME NEW booked \in Nat, NEW old \in Nat, NEW new \in Nat, NEW past \in Nat,
           NEW made \in Nat, old <= new + BatchSize, made <= Providers * (booked + old + past)
    PROVE  made <= Providers * (booked + new + (past + BatchSize))
  <1>1. booked + old + past \in Nat /\ booked + new + (past + BatchSize) \in Nat
        /\ booked + old + past <= booked + new + (past + BatchSize)
    BY Ranges
  <1>2. /\ Providers * (booked + old + past) <= Providers * (booked + new + (past + BatchSize))
        /\ Providers * (booked + old + past) \in Nat
        /\ Providers * (booked + new + (past + BatchSize)) \in Nat
    BY <1>1, TimesProviders
  <1> QED
    BY <1>2

LEMMA CallsKept ==
    ASSUME Typed, BatchSound, CallsCounted, [Next]_vars
    PROVE  CallsCounted'
  <1>1. /\ calls \in Nat /\ ledger \in Nat /\ crashes \in Nat /\ BatchSize \in Nat /\ BatchSize # 0
        /\ Budget \in Nat /\ Budget # 0
        /\ "nightly" \in Processes /\ "backfill" \in Processes /\ "routine" \in Processes
    BY Ranges, ProcessesAre DEF Typed
  <1>2. /\ calls <= Providers * (ledger + Unbooked + BatchSize * crashes)
        /\ ledger + Unbooked < Budget + 2 * BatchSize
    BY DEF CallsCounted
  <1> DEFINE lost == BatchSize * crashes
  <1>3. lost \in Nat /\ BatchSize * (crashes + 1) = lost + BatchSize
    BY CrashCost
  <1> HIDE DEF lost
  <1>4. Unbooked \in Nat /\ Unbooked <= 2 * BatchSize
    <2>1. batch["nightly"].billed \in 0..BatchSize /\ batch["backfill"].billed \in 0..BatchSize
      BY BatchIs, <1>1
    <2> QED
      BY <1>1, <2>1 DEF Unbooked
  <1>5. CASE batch' = batch /\ calls' = calls /\ ledger' = ledger /\ crashes' = crashes
    <2>1. Unbooked' = Unbooked
      BY <1>5 DEF Unbooked
    <2> QED
      BY <1>2, <1>5, <2>1 DEF CallsCounted
  <1>6. ASSUME NEW p \in Processes, NEW b \in BatchType, OnlyBatch(p, b),
               p = "routine" \/ b.billed = batch[p].billed,
               calls' = calls, ledger' = ledger, crashes' = crashes
        PROVE  CallsCounted'
    <2>1. Unbooked' = Unbooked
      BY <1>4, <1>6, UnbookedStep
    <2> QED
      BY <1>2, <1>6, <2>1 DEF CallsCounted
  <1>7. CASE Collect \/ UNCHANGED vars
    BY <1>5, <1>7, CollectEffect DEF vars
  <1>8. CASE Midnight
    <2>1. Unbooked' = Unbooked /\ crashes' = crashes
      BY <1>8, MidnightEffect DEF Unbooked
    <2>2. CASE ledger' = ledger /\ calls' = calls
      BY <1>2, <2>1, <2>2 DEF CallsCounted
    <2>3. CASE ledger' = 0 /\ calls' = 0
      <3>1. 0 + Unbooked + lost \in Nat /\ 0 + Unbooked < Budget + 2 * BatchSize
        BY <1>1, <1>3, <1>4
      <3>2. 0 <= Providers * (0 + Unbooked + lost)
        BY <3>1, TimesProviders
      <3> QED
        BY <2>1, <2>3, <3>1, <3>2 DEF CallsCounted, lost
    <2> QED
      BY <1>8, <2>2, <2>3, MidnightEffect
  <1>9. CASE BeginNightly
    <2>1. batch["nightly"].billed = 0
      BY <1>1, <1>9, BeginNightlyEffect DEF BatchSound
    <2> QED
      BY <1>1, <1>5, <1>6, <1>9, <2>1, BeginNightlyEffect
  <1>10. CASE BeginBackfill
    <2>1. batch["backfill"].billed = 0
      BY <1>1, <1>10, BeginBackfillEffect DEF BatchSound
    <2> QED
      BY <1>1, <1>6, <1>10, <2>1, BeginBackfillEffect
  <1>11. CASE Pull \/ PushIntelEvents \/ PushAnswered
    BY <1>1, <1>6, <1>11, PullEffect, PushEffect, PushAnsweredEffect, IdleFacts
  <1>12. CASE PushRepeated
    <2>1. Unbooked' = Unbooked
      BY <1>1, <1>12, PushRepeatedEffect, UnbookedStep
    <2>2. calls' = calls /\ ledger' = ledger /\ crashes' = crashes + 1
      BY <1>12, PushRepeatedEffect
    <2>3. BatchSize * crashes' = lost + BatchSize
      BY <1>3, <2>2
    <2>4. calls <= Providers * (ledger + Unbooked + (lost + BatchSize))
      BY <1>1, <1>2, <1>3, <1>4, MoreRows DEF lost
    <2> QED
      BY <1>2, <2>1, <2>2, <2>3, <2>4 DEF CallsCounted
  <1>13. ASSUME NEW p \in Processes, EndRun(p) PROVE CallsCounted'
    <2>1. batch[p].billed = 0
      BY <1>13, EndRunEffect DEF BatchSound
    <2> QED
      BY <1>6, <1>13, <2>1, EndRunEffect, IdleFacts
  \* The budget is looked at before a batch, so it is passed by less than the batches.
  <1>14. ASSUME NEW p \in Processes, Extract(p) PROVE CallsCounted'
    <2>1. PICK b \in BatchType : /\ OnlyBatch(p, b)
                                 /\ \E made \in 0..(Providers * b.billed) : calls' = calls + made
      BY <1>14, ExtractEffect
    <2>2. /\ batch[p].phase = "ready" /\ p # "routine" /\ ledger < Budget
          /\ ledger' = ledger /\ crashes' = crashes
      BY <1>14, ExtractEffect, ProcessesAre
    <2>3. batch[p].billed = 0
      BY <2>2 DEF BatchSound
    <2>4. /\ Unbooked' = Unbooked + b.billed /\ Unbooked <= BatchSize
          /\ b.billed \in Nat /\ b.billed <= BatchSize
      BY <1>1, <1>4, <2>1, <2>2, <2>3, UnbookedStep
    <2>5. calls' <= Providers * (ledger + (Unbooked + b.billed) + lost)
      <3>1. PICK made \in 0..(Providers * b.billed) : calls' = calls + made
        BY <2>1
      <3>2. made <= Providers * b.billed /\ made \in Nat /\ Providers * b.billed \in Nat
        BY <2>4, TimesProviders
      <3>3. Providers * (ledger + Unbooked + lost) \in Nat /\ calls <= Providers * (ledger + Unbooked + lost)
        <4>1. ledger + Unbooked + lost \in Nat
          BY <1>1, <1>3, <1>4
        <4>2. Providers * (ledger + Unbooked + lost) \in Nat
          BY <4>1, TimesProviders
        <4> QED
          BY <1>2, <4>2 DEF lost
      <3>4. calls' <= Providers * (ledger + Unbooked + lost) + Providers * b.billed
        <4> DEFINE x == Providers * (ledger + Unbooked + lost)
                   y == Providers * b.billed
        <4>1. /\ calls \in Nat /\ x \in Nat /\ y \in Nat /\ made \in Nat
              /\ calls <= x /\ made <= y /\ calls' = calls + made
          BY <1>1, <3>1, <3>2, <3>3
        <4> HIDE DEF x, y
        <4>2. calls' <= x + y
          BY <4>1
        <4> QED
          BY <4>2 DEF x, y
      <3>5. ledger + Unbooked + lost \in Nat
        BY <1>1, <1>3, <1>4
      <3>6. Providers * ((ledger + Unbooked + lost) + b.billed)
              = Providers * (ledger + Unbooked + lost) + Providers * b.billed
        BY <2>4, <3>5, TimesProviders
      <3>7. (ledger + Unbooked + lost) + b.billed = ledger + (Unbooked + b.billed) + lost
        BY <1>1, <1>3, <1>4, <2>4
      <3> DEFINE all == Providers * (ledger + Unbooked + lost) + Providers * b.billed
      <3> HIDE DEF all
      <3>8. calls' <= all /\ all = Providers * (ledger + (Unbooked + b.billed) + lost)
        BY <3>4, <3>6, <3>7 DEF all
      <3> QED
        BY <3>8
    <2>6. ledger + (Unbooked + b.billed) < Budget + 2 * BatchSize
      BY <1>1, <1>4, <2>2, <2>4
    <2> QED
      BY <2>1, <2>2, <2>4, <2>5, <2>6 DEF CallsCounted, lost
  <1>15. ASSUME NEW p \in Processes, StoreEvents(p) PROVE CallsCounted'
    BY <1>6, <1>15, StoreEventsEffect
  <1>16. ASSUME NEW p \in Processes, MarkProcessed(p) PROVE CallsCounted'
    BY <1>6, <1>16, MarkProcessedEffect
  <1>17. ASSUME NEW p \in Processes, RecordBatch(p) PROVE CallsCounted'
    <2>1. PICK b \in BatchType : OnlyBatch(p, b) /\ b.billed = 0
      BY <1>17, RecordBatchEffect
    <2>2. /\ p # "routine" /\ ledger' = ledger + batch[p].billed /\ calls' = calls
          /\ crashes' = crashes
      BY <1>17, RecordBatchEffect, ProcessesAre
    <2>3. Unbooked' = Unbooked - batch[p].billed /\ batch[p].billed \in Nat
      BY <1>1, <1>4, <2>1, <2>2, UnbookedStep
    <2>4. ledger' + Unbooked' = ledger + Unbooked
      BY <1>1, <1>4, <2>2, <2>3
    <2> QED
      BY <1>2, <2>2, <2>4 DEF CallsCounted
  <1>18. ASSUME NEW p \in Processes, Killed(p) PROVE CallsCounted'
    <2>1. /\ Unbooked' \in Nat /\ Unbooked' <= Unbooked
          /\ Unbooked <= Unbooked' + BatchSize
      BY <1>1, <1>4, <1>18, KilledEffect, IdleFacts, UnbookedStep
    <2>2. calls' = calls /\ ledger' = ledger /\ crashes' = crashes + 1
      BY <1>18, KilledEffect
    <2>3. BatchSize * crashes' = lost + BatchSize
      BY <1>3, <2>2
    <2>4. /\ calls <= Providers * (ledger + Unbooked + lost)
          /\ ledger + Unbooked < Budget + 2 * BatchSize
      BY <1>2 DEF lost
    <2>5. ASSUME NEW old \in Nat, NEW new \in Nat, new <= old, old <= new + BatchSize,
                 calls <= Providers * (ledger + old + lost), ledger + old < Budget + 2 * BatchSize
          PROVE  /\ calls <= Providers * (ledger + new + (lost + BatchSize))
                 /\ ledger + new < Budget + 2 * BatchSize
      <3>1. calls \in Nat /\ ledger \in Nat /\ lost \in Nat
        BY <1>1, <1>3
      <3>2. calls <= Providers * (ledger + new + (lost + BatchSize))
        BY <2>5, <3>1, MoreRows, Zenon
      <3>3. ledger + new < Budget + 2 * BatchSize
        BY <1>1, <2>5
      <3> QED
        BY <3>2, <3>3
    <2>6. /\ calls <= Providers * (ledger + Unbooked' + (lost + BatchSize))
          /\ ledger + Unbooked' < Budget + 2 * BatchSize
      BY <1>4, <2>1, <2>4, <2>5
    <2> QED
      BY <2>2, <2>3, <2>6 DEF CallsCounted
  <1> QED
    BY <1>7, <1>8, <1>9, <1>10, <1>11, <1>12, <1>13, <1>14, <1>15, <1>16, <1>17, <1>18
       DEF Next, RunStep

\* The calls of a month are for less than the budget's rows, a batch of each
\* extractor and one for each thing broken off, each row put to every model at most.
THEOREM OverrunIsBounded == Spec => []OverrunBounded
  <1>1. Init => CallsCounted
    <2> SUFFICES ASSUME Init PROVE CallsCounted
      OBVIOUS
    <2>1. batch["nightly"].billed = 0 /\ batch["backfill"].billed = 0
      BY IdleFacts, ProcessesAre DEF Init
    <2>2. calls = 0 /\ ledger = 0 /\ crashes = 0
      BY DEF Init
    <2> QED
      BY <2>1, <2>2, Ranges DEF CallsCounted, Unbooked
  <1>2. Typed /\ BatchSound /\ [Next]_vars => BatchSound'
    BY SoundKept
  <1>3. Typed /\ BatchSound /\ CallsCounted /\ [Next]_vars => CallsCounted'
    BY CallsKept
  <1>4. Typed /\ CallsCounted => OverrunBounded
    <2> SUFFICES ASSUME Typed, CallsCounted
                 PROVE  calls < Providers * (Budget + BatchSize * (Cardinality(Extractors) + crashes))
      BY DEF OverrunBounded
    <2>1. Cardinality(Extractors) = 2
      <3>1. IsFiniteSet({"nightly"}) /\ Cardinality({"nightly"}) = 1
        BY FS_Singleton
      <3>2. Extractors = {"nightly"} \union {"backfill"} /\ "backfill" \notin {"nightly"}
        BY ProcessesAre
      <3> QED
        BY <3>1, <3>2, FS_AddElement
    <2>2. BatchSize * (2 + crashes) = 2 * BatchSize + BatchSize * crashes
      BY Ranges DEF Typed
    <2>3. /\ calls <= Providers * (ledger + Unbooked + BatchSize * crashes)
          /\ ledger + Unbooked < Budget + 2 * BatchSize
      BY DEF CallsCounted
    <2>4. Unbooked \in Nat
      BY BatchIs, ProcessesAre DEF Unbooked
    <2> DEFINE lost == BatchSize * crashes
    <2>5. lost \in Nat
      BY CrashCost
    <2> HIDE DEF lost
    <2>6. calls < Providers * (Budget + (2 * BatchSize + lost))
      <3>1. /\ ledger + Unbooked + lost \in Nat /\ Budget + (2 * BatchSize + lost) \in Nat
            /\ ledger + Unbooked + lost < Budget + (2 * BatchSize + lost)
        BY <2>3, <2>4, <2>5, Ranges DEF Typed
      <3>2. /\ Providers * (ledger + Unbooked + lost) < Providers * (Budget + (2 * BatchSize + lost))
            /\ Providers * (ledger + Unbooked + lost) \in Nat
            /\ Providers * (Budget + (2 * BatchSize + lost)) \in Nat
        BY <3>1, TimesProviders
      <3>3. calls <= Providers * (ledger + Unbooked + lost) /\ calls \in Nat
        BY <2>3 DEF lost, Typed
      <3> DEFINE made == Providers * (ledger + Unbooked + lost)
                 paid == Providers * (Budget + (2 * BatchSize + lost))
      <3>4. calls <= made /\ made < paid /\ calls \in Nat /\ made \in Nat /\ paid \in Nat
        BY <3>2, <3>3
      <3> HIDE DEF made, paid
      <3>5. calls < paid
        BY <3>4
      <3> QED
        BY <3>5 DEF paid
    <2> QED
      BY <2>1, <2>2, <2>6 DEF lost
  <1> QED
    BY <1>1, <1>2, <1>3, <1>4, SoundStarts, TypesHold, PTL DEF Spec

-----------------------------------------------------------------------------
(* No filing has events without end *)

LEMMA EveningsFinite ==
    ASSUME Typed, NEW f \in Filings
    PROVE  IsFiniteSet(Evenings(f)) /\ Collected(f) \in Nat /\ day \in Nat /\ day \in FirstDay..LastDay
  <1>1. day \in Nat /\ FirstDay \in Nat /\ day \in FirstDay..LastDay
    BY Ranges DEF Typed
  <1>2. IsFiniteSet(FirstDay..day)
    BY <1>1, FS_Interval
  <1>3. Evenings(f) \subseteq FirstDay..day
    BY DEF Evenings
  <1> QED
    BY <1>1, <1>2, <1>3, FS_Subset, FS_CardinalityType DEF Collected

\* An evening's collection counts for the filings it lists; a night adds none.
LEMMA EveningsStep ==
    ASSUME Typed, NEW f \in Filings
    PROVE  /\ day' = day /\ (hour # "day" => hour' # "day") => Evenings(f) \subseteq Evenings(f)'
           /\ Collect /\ Listed(f) /\ ~Weekend(day) =>
                 Evenings(f)' = Evenings(f) \union {day} /\ day \notin Evenings(f)
           /\ Midnight => Evenings(f)' = Evenings(f)
  <1>1. day \in Nat /\ FirstDay \in Nat /\ LastDay \in Nat /\ FirstDay <= day /\ day <= LastDay
    BY EveningsFinite, Ranges
  <1>2. ASSUME day' = day, hour # "day" => hour' # "day"
        PROVE  Evenings(f) \subseteq Evenings(f)'
    BY <1>1, <1>2 DEF Evenings
  <1>4. ASSUME Collect, Listed(f), ~Weekend(day)
        PROVE  Evenings(f)' = Evenings(f) \union {day} /\ day \notin Evenings(f)
    <2>1. day' = day /\ hour = "day" /\ hour' # "day"
      BY <1>4, CollectEffect
    <2>2. f.day \in {day - 1, day} /\ f.day \in Nat
      BY <1>1, <1>4, Ranges DEF Listed
    <2>3. Evenings(f) = {d \in FirstDay..day : f.day \in {d - 1, d} /\ ~Weekend(d) /\ d < day}
      BY <2>1 DEF Evenings
    <2>4. Evenings(f)' = {d \in FirstDay..day : f.day \in {d - 1, d} /\ ~Weekend(d)}
      BY <2>1 DEF Evenings
    <2>5. \A d \in FirstDay..day : d \in Nat /\ (d < day \/ d = day) /\ ~(day < day)
      BY <1>1
    <2>6. day \in FirstDay..day
      BY <1>1
    <2> QED
      BY <1>4, <2>2, <2>3, <2>4, <2>5, <2>6
  <1>5. ASSUME Midnight PROVE Evenings(f)' = Evenings(f)
    <2>1. /\ hour # "day" /\ hour' = "day"
          /\ day' = day + 1 \/ (day' = day /\ day = LastDay)
      BY <1>5, MidnightEffect
    <2>2. Evenings(f) = {d \in FirstDay..day : f.day \in {d - 1, d} /\ ~Weekend(d)}
      BY <2>1 DEF Evenings
    <2>3. Evenings(f)' = {d \in FirstDay..day' : f.day \in {d - 1, d} /\ ~Weekend(d) /\ d < day'}
      BY <2>1 DEF Evenings
    <2>4. CASE day' = day + 1
      <3>1. \A d : d \in FirstDay..day <=> d \in FirstDay..day' /\ d < day'
        BY <1>1, <2>4
      <3> QED
        BY <2>2, <2>3, <3>1
    <2>5. CASE day' = day /\ day = LastDay
      <3>1. f.day \in Nat /\ f.day <= LastDay - 2
        BY Ranges
      <3>2. f.day \notin {day - 1, day}
        BY <1>1, <2>5, <3>1
      <3>3. \A d \in FirstDay..day : d < day \/ d = day
        BY <1>1
      <3> QED
        BY <2>2, <2>3, <2>5, <3>2, <3>3
    <2> QED
      BY <2>1, <2>4, <2>5
  <1> QED
    BY <1>2, <1>4, <1>5

LEMMA CollectedStep ==
    ASSUME Typed, Typed', [Next]_vars, NEW f \in Filings
    PROVE  /\ Collected(f) \in Nat /\ Collected(f)' \in Nat
           /\ Collected(f) <= Collected(f)'
           /\ Collect /\ Listed(f) /\ ~Weekend(day) => Collected(f)' = Collected(f) + 1
  <1>1. /\ Collected(f) \in Nat /\ IsFiniteSet(Evenings(f)) /\ Collected(f) = Cardinality(Evenings(f))
        /\ Collected(f)' = Cardinality(Evenings(f)')
    BY EveningsFinite DEF Collected
  <1>2. IsFiniteSet(Evenings(f)') /\ Collected(f)' \in Nat
    <2>1. day' \in Nat /\ FirstDay \in Nat
      BY Ranges DEF Typed
    <2>2. IsFiniteSet(FirstDay..day')
      BY <2>1, FS_Interval
    <2>3. Evenings(f)' \subseteq FirstDay..day'
      BY DEF Evenings
    <2> QED
      BY <1>1, <2>2, <2>3, FS_Subset, FS_CardinalityType
  <1>3. CASE Collect
    <2>1. Evenings(f) \subseteq Evenings(f)'
      BY <1>3, CollectEffect, EveningsStep
    <2>2. Collected(f) <= Collected(f)'
      BY <1>1, <1>2, <2>1, FS_Subset
    <2>3. Listed(f) /\ ~Weekend(day) => Collected(f)' = Collected(f) + 1
      BY <1>1, <1>3, EveningsStep, FS_AddElement
    <2> QED
      BY <1>1, <1>2, <1>3, <2>2, <2>3
  <1>4. CASE Midnight
    <2>1. Evenings(f)' = Evenings(f) /\ ~Collect
      BY <1>4, EveningsStep, MidnightEffect, CollectEffect
    <2> QED
      BY <1>1, <2>1
  <1>5. CASE ~Collect /\ ~Midnight
    <2>1. day' = day /\ (hour # "day" => hour' # "day")
      <3>1. CASE BeginNightly
        BY <3>1, BeginNightlyEffect
      <3>2. ASSUME NEW p \in Processes, EndRun(p)
            PROVE  day' = day /\ (hour # "day" => hour' # "day")
        <4>1. batch[p].phase = "ready" /\ day' = day /\ hour' = IF p = "nightly" THEN "night" ELSE hour
          BY <3>2, EndRunEffect
        <4>2. p = "nightly" => hour = "extracting"
          BY <4>1 DEF Typed
        <4> QED
          BY <4>1, <4>2
      <3>3. ASSUME NEW p \in Processes, Killed(p)
            PROVE  day' = day /\ (hour # "day" => hour' # "day")
        BY <3>3, KilledEffect
      <3>4. ASSUME \/ BeginBackfill \/ Pull \/ PushIntelEvents \/ PushAnswered \/ PushRepeated
                   \/ \E p \in Processes : Extract(p) \/ StoreEvents(p) \/ MarkProcessed(p) \/ RecordBatch(p)
                   \/ UNCHANGED vars
            PROVE  day' = day /\ hour' = hour
        BY <3>4 DEF BeginBackfill, Pull, PushIntelEvents, PushAnswered, PushRepeated, Extract,
                    StoreEvents, MarkProcessed, RecordBatch, vars
      <3> QED
        BY <1>5, <3>1, <3>2, <3>3, <3>4 DEF Next, RunStep
    <2>2. Evenings(f) \subseteq Evenings(f)'
      BY <2>1, EveningsStep
    <2> QED
      BY <1>1, <1>2, <1>5, <2>2, FS_Subset
  <1> QED
    BY <1>3, <1>4, <1>5

LEMMA ProductGrows ==
    ASSUME NEW a \in Nat, NEW b \in Nat, NEW c \in Nat, NEW d \in Nat, a <= c, b <= d
    PROVE  a * b \in Nat /\ c * d \in Nat /\ a * b <= c * d
  <1>1. PICK x \in Nat, y \in Nat : c = a + x /\ d = b + y
    <2>1. c - a \in Nat /\ d - b \in Nat /\ c = a + (c - a) /\ d = b + (d - b)
      OBVIOUS
    <2> QED
      BY <2>1
  <1>2. (a + x) * (b + y) = a * b + (a * y + x * b + x * y)
    OBVIOUS
  <1>3. a * b \in Nat /\ a * y \in Nat /\ x * b \in Nat /\ x * y \in Nat
    OBVIOUS
  <1> DEFINE u == a * b
             v == a * y + x * b + x * y
  <1>4. v \in Nat /\ u \in Nat
    BY <1>3
  <1>5. c * d = u + v
    BY <1>1, <1>2
  <1> HIDE DEF u, v
  <1>6. u <= c * d /\ c * d \in Nat
    BY <1>4, <1>5
  <1> QED
    BY <1>4, <1>6 DEF u

LEMMA BoundGrows ==
    ASSUME NEW v \in Nat, NEW w \in Nat, NEW c \in Nat, NEW d \in Nat, NEW x \in Nat, NEW y \in Nat,
           v <= w, c <= d, x <= y
    PROVE  /\ (1 + v) * c + x \in Nat /\ (1 + w) * d + y \in Nat
           /\ (1 + v) * c + x <= (1 + w) * d + y
           /\ y = x + 1 => (1 + v) * c + x + 1 <= (1 + w) * d + y
           /\ w = v + 1 /\ c > 0 => (1 + v) * c + x + 1 <= (1 + w) * d + y
           /\ w = v /\ d = c + 1 /\ y = x => (1 + w) * d + y = (1 + v) * c + x + (1 + v)
  <1> DEFINE old == (1 + v) * c
             new == (1 + w) * d
  <1>1. old \in Nat /\ new \in Nat /\ old <= new
    <2>1. 1 + v \in Nat /\ 1 + w \in Nat /\ 1 + v <= 1 + w
      OBVIOUS
    <2> QED
      BY <2>1, ProductGrows
  <1>2. ASSUME w = v + 1 PROVE old + c <= new
    <2>1. old + c = (1 + w) * c
      BY <1>2
    <2>2. 1 + w \in Nat /\ (1 + w) * c <= new
      <3>1. 1 + w \in Nat /\ 1 + w <= 1 + w
        OBVIOUS
      <3> QED
        BY <3>1, ProductGrows
    <2> QED
      BY <2>1, <2>2
  <1>3. w = v /\ d = c + 1 => new = old + (1 + v)
    OBVIOUS
  <1> HIDE DEF old, new
  <1>4. /\ old + x \in Nat /\ new + y \in Nat /\ old + x <= new + y
        /\ y = x + 1 => old + x + 1 <= new + y
        /\ w = v + 1 /\ c > 0 => old + x + 1 <= new + y
        /\ w = v /\ d = c + 1 /\ y = x => new + y = old + x + (1 + v)
    BY <1>1, <1>2, <1>3
  <1> QED
    BY <1>4 DEF old, new

LEMMA BoundStep ==
    ASSUME Typed, Typed', [Next]_vars, NEW f \in Filings, visits <= visits', crashes <= crashes'
    PROVE  /\ Bound(f) \in Nat /\ Bound(f)' \in Nat /\ Bound(f) <= Bound(f)'
           /\ crashes' = crashes + 1 => Bound(f) + 1 <= Bound(f)'
           /\ visits' = visits + 1 /\ Collected(f) > 0 => Bound(f) + 1 <= Bound(f)'
           /\ Collect /\ Listed(f) /\ ~Weekend(day) => Bound(f)' = Bound(f) + (1 + visits)
  <1>1. /\ visits \in Nat /\ visits' \in Nat /\ crashes \in Nat /\ crashes' \in Nat
        /\ visits <= visits' /\ crashes <= crashes'
    BY DEF Typed
  <1>2. Collected(f) \in Nat /\ Collected(f)' \in Nat /\ Collected(f) <= Collected(f)'
    BY CollectedStep
  <1>3. Bound(f) = (1 + visits) * Collected(f) + crashes
    BY DEF Bound
  <1>4. Bound(f)' = (1 + visits') * Collected(f)' + crashes'
    BY DEF Bound
  <1> DEFINE v == visits
             w == visits'
             c == Collected(f)
             d == Collected(f)'
             x == crashes
             y == crashes'
  <1>5. /\ v \in Nat /\ w \in Nat /\ c \in Nat /\ d \in Nat /\ x \in Nat /\ y \in Nat
        /\ v <= w /\ c <= d /\ x <= y
    BY <1>1, <1>2
  <1>6. Bound(f) = (1 + v) * c + x /\ Bound(f)' = (1 + w) * d + y
    BY <1>3, <1>4
  <1>7. Collect /\ Listed(f) /\ ~Weekend(day) => w = v /\ d = c + 1 /\ y = x
    BY CollectEffect, CollectedStep
  <1>8. /\ Bound(f) \in Nat /\ Bound(f)' \in Nat /\ Bound(f) <= Bound(f)'
        /\ y = x + 1 => Bound(f) + 1 <= Bound(f)'
        /\ w = v + 1 /\ c > 0 => Bound(f) + 1 <= Bound(f)'
        /\ w = v /\ d = c + 1 /\ y = x => Bound(f)' = Bound(f) + (1 + v)
    <2> HIDE DEF v, w, c, d, x, y
    <2> QED
      BY <1>5, <1>6, BoundGrows
  <1> QED
    BY <1>7, <1>8

LEMMA OwedStep ==
    ASSUME Typed, NEW p \in Processes, NEW b \in BatchType, OnlyBatch(p, b), NEW f \in Filings,
           rows'[f] = "open" => rows[f] = "open"
    PROVE  /\ OwedSum(f) \in Nat /\ OwedSum(f)' \in Nat
           /\ OwedSum(f)' <= OwedSum(f) + 1
           /\ (MayStore(p, f)' => MayStore(p, f)) => OwedSum(f)' <= OwedSum(f)
           /\ MayStore(p, f) /\ ~MayStore(p, f)' => OwedSum(f)' + 1 <= OwedSum(f)
  <1>1. \A q \in Processes : Owed(q, f) \in {0, 1} /\ Owed(q, f)' \in {0, 1}
    BY DEF Owed
  <1>2. ASSUME NEW q \in Processes, q # p PROVE Owed(q, f)' <= Owed(q, f)
    <2>1. batch'[q] = batch[q]
      BY <1>2 DEF OnlyBatch
    <2>2. MayStore(q, f)' => MayStore(q, f)
      BY <2>1 DEF MayStore
    <2> QED
      BY <2>2 DEF Owed
  <1>3. (MayStore(p, f)' => MayStore(p, f)) => Owed(p, f)' <= Owed(p, f)
    BY DEF Owed
  <1>4. MayStore(p, f) /\ ~MayStore(p, f)' => Owed(p, f)' + 1 <= Owed(p, f)
    BY DEF Owed
  <1>5. /\ OwedSum(f) = Owed("nightly", f) + Owed("backfill", f) + Owed("routine", f)
        /\ OwedSum(f)' = Owed("nightly", f)' + Owed("backfill", f)' + Owed("routine", f)'
    BY DEF OwedSum
  <1>6. CASE p = "nightly"
    BY <1>1, <1>2, <1>3, <1>4, <1>5, <1>6, ProcessesAre
  <1>7. CASE p = "backfill"
    BY <1>1, <1>2, <1>3, <1>4, <1>5, <1>7, ProcessesAre
  <1>8. CASE p = "routine"
    BY <1>1, <1>2, <1>3, <1>4, <1>5, <1>8, ProcessesAre
  <1> QED
    BY <1>6, <1>7, <1>8, ProcessesAre

LEMMA OwedRange ==
    ASSUME NEW f \in Filings
    PROVE  /\ \A p \in Processes : Owed(p, f) \in {0, 1} /\ Owed(p, f)' \in {0, 1}
           /\ OwedSum(f) \in Nat /\ OwedSum(f)' \in Nat
           /\ OwedSum(f) = Owed("nightly", f) + Owed("backfill", f) + Owed("routine", f)
           /\ OwedSum(f)' = Owed("nightly", f)' + Owed("backfill", f)' + Owed("routine", f)'
  <1>1. \A p \in Processes : Owed(p, f) \in {0, 1} /\ Owed(p, f)' \in {0, 1}
    BY DEF Owed
  <1>2. /\ OwedSum(f) = Owed("nightly", f) + Owed("backfill", f) + Owed("routine", f)
        /\ OwedSum(f)' = Owed("nightly", f)' + Owed("backfill", f)' + Owed("routine", f)'
    BY DEF OwedSum
  <1> QED
    BY <1>1, <1>2, ProcessesAre

\* While no batch changes, a row that is not opened is owed no more.
LEMMA OwedByRows ==
    ASSUME NEW f \in Filings, batch' = batch, rows'[f] = "open" => rows[f] = "open"
    PROVE  OwedSum(f)' <= OwedSum(f)
  <1>1. \A p \in Processes : MayStore(p, f)' => MayStore(p, f)
    BY DEF MayStore
  <1>2. \A p \in Processes : Owed(p, f)' <= Owed(p, f)
    BY <1>1 DEF Owed
  <1> QED
    BY <1>2, OwedRange, ProcessesAre

\* A row that is opened is owed an event by the nightly job, and by a visit that is on.
LEMMA OwedByOpening ==
    ASSUME Typed, NEW f \in Filings, batch' = batch
    PROVE  OwedSum(f)' <= OwedSum(f) + (1 + visits)
  <1>1. visits \in Nat /\ batch["backfill"].phase # "idle" => visits > 0
    BY DEF Typed
  <1>2. MayStore("routine", f)' => MayStore("routine", f)
    BY DEF MayStore
  <1>3. visits = 0 => (MayStore("backfill", f)' => MayStore("backfill", f))
    BY <1>1 DEF MayStore
  <1>4. /\ Owed("routine", f)' <= Owed("routine", f)
        /\ visits = 0 => Owed("backfill", f)' <= Owed("backfill", f)
    BY <1>2, <1>3 DEF Owed
  <1>5. visits \in Nat
    BY DEF Typed
  <1> QED
    BY <1>4, <1>5, OwedRange, ProcessesAre

LEMMA CountersGrow ==
    ASSUME Typed, [Next]_vars
    PROVE  visits <= visits' /\ crashes <= crashes'
  <1>1. visits \in Nat /\ crashes \in Nat
    BY DEF Typed
  <1>2. CASE UNCHANGED vars
    BY <1>1, <1>2 DEF vars
  <1>3. CASE Next
    <2>1. visits' \in {visits, visits + 1} /\ crashes' \in {crashes, crashes + 1}
      BY <1>3 DEF Next, RunStep, Collect, BeginNightly, BeginBackfill, Midnight, Pull, PushIntelEvents,
                  PushAnswered, PushRepeated, EndRun, Extract, StoreEvents, MarkProcessed, RecordBatch,
                  Killed
    <2> QED
      BY <1>1, <2>1
  <1> QED
    BY <1>2, <1>3

LEMMA RowsStay ==
    ASSUME Typed, BatchesOfRows, [Next]_vars, NEW p \in Processes, NEW f \in batch'[p].done,
           f \in Filings
    PROVE  rows'[f] # "none"
  <1>1. \A q \in Processes : f \in batch[q].done => rows[f] # "none"
    BY DEF BatchesOfRows
  <1>2. rows[f] # "none" => rows'[f] # "none"
    <2>1. CASE Collect
      BY <2>1, CollectEffect
    <2>2. CASE Pull
      BY <2>2, PullEffect
    <2>3. ASSUME NEW q \in Processes, MarkProcessed(q) PROVE rows[f] # "none" => rows'[f] # "none"
      <3>1. \A g \in Filings : rows'[g] = IF g \in batch[q].done THEN "done" ELSE rows[g]
        BY <2>3, MarkProcessedEffect
      <3> QED
        BY <3>1
    <2>4. ASSUME \/ BeginNightly \/ BeginBackfill \/ Midnight \/ PushIntelEvents \/ PushAnswered
                 \/ PushRepeated \/ UNCHANGED vars
                 \/ \E q \in Processes : EndRun(q) \/ Extract(q) \/ StoreEvents(q) \/ RecordBatch(q) \/ Killed(q)
          PROVE  rows'[f] = rows[f]
      BY <2>4 DEF BeginNightly, BeginBackfill, Midnight, PushIntelEvents, PushAnswered, PushRepeated,
                  EndRun, Extract, StoreEvents, RecordBatch, Killed, vars
    <2> QED
      BY <2>1, <2>2, <2>3, <2>4 DEF Next, RunStep
  <1>3. \/ \E q \in Processes : f \in batch[q].done
        \/ rows[f] # "none"
    <2>1. CASE Collect \/ Midnight \/ UNCHANGED vars
      BY <2>1, CollectEffect, MidnightEffect DEF vars
    <2>2. CASE BeginNightly
      BY <2>2, BeginNightlyEffect, ProcessesAre DEF OnlyBatch
    <2>3. CASE BeginBackfill
      BY <2>3, BeginBackfillEffect, ProcessesAre DEF OnlyBatch
    <2>4. CASE Pull
      BY <2>4, PullEffect, ProcessesAre DEF OnlyBatch
    <2>5. CASE PushIntelEvents
      BY <2>5, PushEffect, IdleFacts, ProcessesAre DEF OnlyBatch
    <2>6. CASE PushAnswered
      BY <2>6, PushAnsweredEffect, IdleFacts, ProcessesAre DEF OnlyBatch
    <2>7. CASE PushRepeated
      BY <2>7, PushRepeatedEffect, ProcessesAre DEF OnlyBatch
    <2>8. ASSUME NEW q \in Processes, EndRun(q) \/ Killed(q)
          PROVE  \E r \in Processes : f \in batch[r].done
      <3>1. OnlyBatch(q, Idle)
        BY <2>8, EndRunEffect, KilledEffect
      <3> QED
        BY <3>1, IdleFacts DEF OnlyBatch
    <2>9. ASSUME NEW q \in Processes, Extract(q)
          PROVE  (\E r \in Processes : f \in batch[r].done) \/ rows[f] # "none"
      <3>1. PICK b \in BatchType : OnlyBatch(q, b) /\ \A g \in b.done : rows[g] = "open"
        BY <2>9, ExtractEffect
      <3> QED
        BY <3>1 DEF OnlyBatch
    <2>10. ASSUME NEW q \in Processes, StoreEvents(q) \/ MarkProcessed(q) \/ RecordBatch(q)
           PROVE  \E r \in Processes : f \in batch[r].done
      <3>1. PICK b \in BatchType : OnlyBatch(q, b) /\ b.done \in {batch[q].done, {}}
        BY <2>10, StoreEventsEffect, MarkProcessedEffect, RecordBatchEffect
      <3> QED
        BY <3>1 DEF OnlyBatch
    <2> QED
      BY <2>1, <2>2, <2>3, <2>4, <2>5, <2>6, <2>7, <2>8, <2>9, <2>10 DEF Next, RunStep
  <1> QED
    BY <1>1, <1>2, <1>3

LEMMA RowsKept ==
    ASSUME Typed, Typed', BatchesOfRows, [Next]_vars
    PROVE  BatchesOfRows'
  <1>1. \A p \in Processes : batch'[p].done \subseteq Filings
    BY DEF Typed, BatchType
  <1> QED
    BY <1>1, RowsStay DEF BatchesOfRows

\* A row in the table was collected.
LEMMA RowsCollected ==
    ASSUME Typed, Typed', BatchesOfRows, EventsOwed, [Next]_vars, NEW f \in Filings, rows'[f] # "none"
    PROVE  Collected(f)' > 0
  <1>1. /\ Collected(f) \in Nat /\ Collected(f)' \in Nat /\ Collected(f) <= Collected(f)'
        /\ Collect /\ Listed(f) /\ ~Weekend(day) => Collected(f)' = Collected(f) + 1
    BY CollectedStep
  <1>2. rows[f] # "none" => Collected(f) > 0
    BY DEF EventsOwed
  <1>3. rows[f] # "none" \/ (Collect /\ Listed(f) /\ ~Weekend(day))
    <2>1. CASE Collect
      BY <2>1, CollectEffect
    <2>2. CASE Pull
      BY <2>2, PullEffect
    <2>3. ASSUME NEW p \in Processes, MarkProcessed(p) PROVE rows[f] # "none"
      <3>1. \A g \in Filings : rows'[g] = IF g \in batch[p].done THEN "done" ELSE rows[g]
        BY <2>3, MarkProcessedEffect
      <3>2. f \in batch[p].done => rows[f] # "none"
        BY DEF BatchesOfRows
      <3> QED
        BY <3>1, <3>2
    <2>4. ASSUME \/ BeginNightly \/ BeginBackfill \/ Midnight \/ PushIntelEvents \/ PushAnswered
                 \/ PushRepeated \/ UNCHANGED vars
                 \/ \E p \in Processes : EndRun(p) \/ Extract(p) \/ StoreEvents(p) \/ RecordBatch(p) \/ Killed(p)
          PROVE  rows[f] # "none"
      BY <2>4 DEF BeginNightly, BeginBackfill, Midnight, PushIntelEvents, PushAnswered, PushRepeated,
                  EndRun, Extract, StoreEvents, RecordBatch, Killed, vars
    <2> QED
      BY <2>1, <2>2, <2>3, <2>4 DEF Next, RunStep
  <1> QED
    BY <1>1, <1>2, <1>3

\* Whatever step is taken, what a filing has and is owed stays within its bound.
LEMMA OwedFits ==
    ASSUME Typed, Typed', BatchSound, BatchesOfRows, EventsOwed, [Next]_vars, NEW f \in Filings
    PROVE  events'[f] + OwedSum(f)' <= Bound(f)'
  <1> DEFINE n == events[f]
             o == OwedSum(f)
             b1 == Bound(f)
             n2 == events'[f]
             o2 == OwedSum(f)'
             b2 == Bound(f)'
  <1>1. /\ crashes' = crashes + 1 => b1 + 1 <= b2
        /\ visits' = visits + 1 /\ Collected(f) > 0 => b1 + 1 <= b2
        /\ Collect /\ Listed(f) /\ ~Weekend(day) => b2 = b1 + (1 + visits)
    BY BoundStep, CountersGrow
  <1>2. /\ rows[f] # "none" => Collected(f) > 0
        /\ "nightly" \in Processes /\ "backfill" \in Processes /\ "routine" \in Processes
    BY ProcessesAre DEF EventsOwed
  <1>3. /\ n \in Nat /\ o \in Nat /\ o2 \in Nat /\ b1 \in Nat /\ b2 \in Nat /\ b1 <= b2
         /\ n + o <= b1 /\ visits \in Nat
    BY OwedRange, BoundStep, CountersGrow DEF Typed, EventsOwed
  <1>4. ASSUME n2 = n, o2 <= o PROVE n2 + o2 <= b2
    <2> HIDE DEF n, o, b1, n2, o2, b2
    <2> QED
      BY <1>4, <1>3
  <1>5. ASSUME n2 = n, o2 <= o + 1, b1 + 1 <= b2 PROVE n2 + o2 <= b2
    <2> HIDE DEF n, o, b1, n2, o2, b2
    <2> QED
      BY <1>5, <1>3
  <1>6. ASSUME n2 = n, o2 <= o + (1 + visits), b2 = b1 + (1 + visits) PROVE n2 + o2 <= b2
    <2> HIDE DEF n, o, b1, n2, o2, b2
    <2> QED
      BY <1>6, <1>3
  <1>7. ASSUME n2 = n + 1, o2 + 1 <= o PROVE n2 + o2 <= b2
    <2> HIDE DEF n, o, b1, n2, o2, b2
    <2> QED
      BY <1>7, <1>3
  <1>8. CASE Collect
    <2>1. batch' = batch /\ events' = events
      BY <1>8, CollectEffect
    <2>2. CASE rows'[f] = rows[f]
      BY <1>4, <2>1, <2>2, OwedByRows
    <2>3. CASE rows'[f] # rows[f]
      <3>1. Bound(f)' = Bound(f) + (1 + visits)
        BY <1>1, <1>8, <2>3, CollectEffect
      <3>2. OwedSum(f)' <= OwedSum(f) + (1 + visits)
        BY <2>1, OwedByOpening
      <3> QED
        BY <1>6, <2>1, <3>1, <3>2
    <2> QED
      BY <2>2, <2>3
  <1>9. CASE Midnight \/ UNCHANGED vars
    <2>1. batch' = batch /\ events' = events /\ rows' = rows
      BY <1>9, MidnightEffect DEF vars
    <2> QED
      BY <1>4, <2>1, OwedByRows
  \* The scheduler's batch may store every row that waits, whether it has begun or not.
  <1>10. CASE BeginNightly
    <2>1. events' = events /\ rows' = rows
      BY <1>10, BeginNightlyEffect
    <2>2. CASE batch' = batch
      BY <1>4, <2>1, <2>2, OwedByRows
    <2>3. CASE batch' # batch
      <3>1. PICK b \in BatchType : OnlyBatch("nightly", b) /\ b.phase = "ready"
        BY <1>10, <2>3, BeginNightlyEffect
      <3>2. batch["nightly"].phase = "idle" /\ batch'["nightly"] = b
        BY <1>10, <3>1, BeginNightlyEffect DEF OnlyBatch
      <3>3. MayStore("nightly", f)' => MayStore("nightly", f)
        BY <2>1, <3>1, <3>2 DEF MayStore
      <3> QED
        BY <1>2, <1>4, <2>1, <3>1, <3>3, OwedStep
    <2> QED
      BY <2>2, <2>3
  <1>11. CASE BeginBackfill
    <2>1. events' = events /\ rows' = rows /\ visits' = visits + 1
      BY <1>11, BeginBackfillEffect
    <2>2. PICK b \in BatchType : /\ OnlyBatch("backfill", b) /\ b.phase = "ready"
      BY <1>11, BeginBackfillEffect
    <2>3. OwedSum(f)' <= OwedSum(f) + 1
      BY <1>2, <2>1, <2>2, OwedStep
    <2>4. CASE rows[f] = "open"
      <3>1. Collected(f) > 0
        BY <1>2, <2>4
      <3>2. b1 + 1 <= b2
        BY <1>1, <2>1, <3>1
      <3> QED
        BY <1>5, <2>1, <2>3, <3>2
    <2>5. CASE rows[f] # "open"
      <3>1. MayStore("backfill", f)' => MayStore("backfill", f)
        BY <2>1, <2>2, <2>5 DEF MayStore, OnlyBatch
      <3> QED
        BY <1>2, <1>4, <2>1, <2>2, <3>1, OwedStep
    <2> QED
      BY <2>4, <2>5
  <1>12. CASE Pull
    <2>1. events' = events /\ visits' = visits + 1 /\ (rows'[f] = "open" => rows[f] = "open")
      BY <1>12, PullEffect
    <2>2. PICK b \in BatchType : /\ OnlyBatch("routine", b) /\ b.phase = "pulled"
                                 /\ \A g \in b.done : rows[g] = "open"
      BY <1>12, PullEffect
    <2>3. OwedSum(f)' <= OwedSum(f) + 1
      BY <1>2, <2>1, <2>2, OwedStep
    <2>4. CASE f \in b.done
      <3>1. rows[f] # "none"
        BY <2>2, <2>4
      <3>2. b1 + 1 <= b2
        BY <1>1, <1>2, <2>1, <3>1
      <3> QED
        BY <1>5, <2>1, <2>3, <3>2
    <2>5. CASE f \notin b.done
      <3>1. ~MayStore("routine", f)'
        BY <2>2, <2>5 DEF MayStore, OnlyBatch
      <3> QED
        BY <1>2, <1>4, <2>1, <2>2, <3>1, OwedStep
    <2> QED
      BY <2>4, <2>5
  <1>13. CASE PushIntelEvents
    <2>1. events' = events /\ rows' = rows /\ batch["routine"].phase = "pulled"
      BY <1>13, PushEffect
    <2>2. PICK b \in BatchType : /\ OnlyBatch("routine", b)
                                 /\ \/ b.phase = "idle"
                                    \/ b.phase = "store" /\ b.found \subseteq batch["routine"].done
      BY <1>13, PushEffect, IdleFacts
    <2>3. MayStore("routine", f)' => MayStore("routine", f)
      BY <2>1, <2>2 DEF MayStore, OnlyBatch
    <2> QED
      BY <1>2, <1>4, <2>1, <2>2, <2>3, OwedStep
  <1>14. CASE PushAnswered
    <2>1. events' = events /\ rows' = rows /\ OnlyBatch("routine", Idle)
      BY <1>14, PushAnsweredEffect
    <2>2. ~MayStore("routine", f)'
      BY <2>1, IdleFacts DEF MayStore, OnlyBatch
    <2> QED
      BY <1>2, <1>4, <2>1, <2>2, OwedStep, IdleFacts
  <1>15. CASE PushRepeated
    <2>1. events' = events /\ rows' = rows /\ crashes' = crashes + 1
      BY <1>15, PushRepeatedEffect
    <2>2. OwedSum(f)' <= OwedSum(f) + 1
      BY <1>2, <1>15, <2>1, PushRepeatedEffect, OwedStep
    <2> QED
      BY <1>1, <1>5, <2>1, <2>2
  <1>16. ASSUME NEW p \in Processes, EndRun(p) PROVE events'[f] + OwedSum(f)' <= Bound(f)'
    <2>1. events' = events /\ rows' = rows /\ OnlyBatch(p, Idle) /\ batch[p].phase = "ready"
      BY <1>16, EndRunEffect
    <2>2. MayStore(p, f)' => MayStore(p, f)
      BY <2>1, IdleFacts DEF MayStore, OnlyBatch
    <2> QED
      BY <1>4, <2>1, <2>2, OwedStep, IdleFacts
  <1>17. ASSUME NEW p \in Processes, Extract(p) PROVE events'[f] + OwedSum(f)' <= Bound(f)'
    <2>1. /\ events' = events /\ rows' = rows /\ batch[p].phase = "ready" /\ p \in Extractors
          /\ p # "routine"
      BY <1>17, ExtractEffect, ProcessesAre
    <2>2. PICK b \in BatchType : /\ OnlyBatch(p, b) /\ b.phase = "store" /\ b.found \subseteq b.done
                                 /\ \A g \in b.done : rows[g] = "open"
      BY <1>17, ExtractEffect
    <2>3. p = "nightly" \/ p = "backfill"
      BY <2>1, ProcessesAre
    <2>4. MayStore(p, f)' => MayStore(p, f)
      BY <2>1, <2>2, <2>3 DEF MayStore, OnlyBatch
    <2> QED
      BY <1>4, <2>1, <2>2, <2>4, OwedStep
  \* An event that is stored was owed.
  <1>18. ASSUME NEW p \in Processes, StoreEvents(p) PROVE events'[f] + OwedSum(f)' <= Bound(f)'
    <2>1. /\ rows' = rows /\ batch[p].phase = "store"
          /\ events'[f] = IF f \in batch[p].found THEN events[f] + 1 ELSE events[f]
      BY <1>18, StoreEventsEffect
    <2>2. PICK b \in BatchType : OnlyBatch(p, b) /\ b.phase = "mark" /\ b.found = batch[p].found
      BY <1>18, StoreEventsEffect
    <2>3. CASE f \in batch[p].found
      <3>1. MayStore(p, f) /\ ~MayStore(p, f)'
        BY <2>1, <2>2, <2>3 DEF MayStore, OnlyBatch
      <3>2. OwedSum(f)' + 1 <= OwedSum(f)
        BY <2>1, <2>2, <3>1, OwedStep
      <3> QED
        BY <1>7, <2>1, <2>3, <3>2
    <2>4. CASE f \notin batch[p].found
      <3>1. MayStore(p, f)' => MayStore(p, f)
        BY <2>1, <2>2, <2>4 DEF MayStore, OnlyBatch
      <3> QED
        BY <1>4, <2>1, <2>2, <2>4, <3>1, OwedStep
    <2> QED
      BY <2>3, <2>4
  \* A row is marked when what was found is stored: it is not owed again.
  <1>19. ASSUME NEW p \in Processes, MarkProcessed(p) PROVE events'[f] + OwedSum(f)' <= Bound(f)'
    <2>1. /\ events' = events /\ batch[p].phase = "mark"
          /\ rows'[f] = IF f \in batch[p].done THEN "done" ELSE rows[f]
      BY <1>19, MarkProcessedEffect
    <2>2. PICK b \in BatchType : /\ OnlyBatch(p, b) /\ b.found = batch[p].found
                                 /\ b.phase \in {"pushed", "bill"}
      BY <1>19, MarkProcessedEffect
    <2>3. batch[p].found \subseteq batch[p].done
      BY <2>1 DEF BatchSound
    <2>4. MayStore(p, f)' => MayStore(p, f)
      BY <2>1, <2>2, <2>3 DEF MayStore, OnlyBatch
    <2> QED
      BY <1>4, <2>1, <2>2, <2>4, OwedStep
  <1>20. ASSUME NEW p \in Processes, RecordBatch(p) PROVE events'[f] + OwedSum(f)' <= Bound(f)'
    <2>1. /\ events' = events /\ rows' = rows /\ batch[p].phase = "bill"
      BY <1>20, RecordBatchEffect
    <2>2. PICK b \in BatchType : OnlyBatch(p, b) /\ b.phase = "ready"
      BY <1>20, RecordBatchEffect
    <2>3. MayStore(p, f)' => MayStore(p, f)
      BY <2>1, <2>2 DEF MayStore, OnlyBatch
    <2> QED
      BY <1>4, <2>1, <2>2, <2>3, OwedStep
  \* What is broken off may be done once more.
  <1>21. ASSUME NEW p \in Processes, Killed(p) PROVE events'[f] + OwedSum(f)' <= Bound(f)'
    <2>1. events' = events /\ rows' = rows /\ crashes' = crashes + 1 /\ OnlyBatch(p, Idle)
      BY <1>21, KilledEffect
    <2>2. OwedSum(f)' <= OwedSum(f) + 1
      BY <2>1, OwedStep, IdleFacts
    <2> QED
      BY <1>1, <1>5, <2>1, <2>2
  <1> QED
    BY <1>8, <1>9, <1>10, <1>11, <1>12, <1>13, <1>14, <1>15, <1>16, <1>17, <1>18, <1>19, <1>20, <1>21
       DEF Next, RunStep

LEMMA EventsKept ==
    ASSUME Typed, Typed', BatchSound, BatchesOfRows, EventsOwed, [Next]_vars
    PROVE  EventsOwed'
  BY OwedFits, RowsCollected DEF EventsOwed

LEMMA EventsStart == Init => BatchesOfRows /\ EventsOwed
  <1> SUFFICES ASSUME Init PROVE BatchesOfRows /\ EventsOwed
    OBVIOUS
  <1>1. Typed
    BY TypedStarts
  <1>2. /\ \A p \in Processes : batch[p] = Idle
        /\ "nightly" \in Processes /\ "backfill" \in Processes /\ "routine" \in Processes
        /\ visits = 0 /\ crashes = 0
    BY ProcessesAre DEF Init
  <1>3. ASSUME NEW f \in Filings
        PROVE  rows[f] = "none" /\ events[f] + OwedSum(f) <= Bound(f)
    <2>1. rows[f] = "none" /\ events[f] = 0
      BY DEF Init
    <2>2. ~MayStore("nightly", f) /\ ~MayStore("backfill", f) /\ ~MayStore("routine", f)
      BY <1>2, <2>1, IdleFacts DEF MayStore
    <2>3. OwedSum(f) = 0
      BY <2>2 DEF OwedSum, Owed
    <2>4. Bound(f) = Collected(f) /\ Collected(f) \in Nat
      <3>1. Collected(f) \in Nat
        BY <1>1, EveningsFinite
      <3> QED
        BY <1>2, <3>1 DEF Bound
    <2> QED
      BY <2>1, <2>3, <2>4
  <1> QED
    BY <1>2, <1>3, IdleFacts DEF BatchesOfRows, EventsOwed

\* The filing was collected on evenings that have been.
LEMMA OwedIsBounded == Typed /\ EventsOwed => EventsBounded
  <1> SUFFICES ASSUME Typed, EventsOwed, NEW f \in Filings
               PROVE  events[f] <= (1 + visits)
                         * Cardinality({d \in FirstDay..day : f.day \in {d - 1, d} /\ ~Weekend(d)}) + crashes
    BY DEF EventsBounded
  <1> DEFINE Days == {d \in FirstDay..day : f.day \in {d - 1, d} /\ ~Weekend(d)}
             c == Collected(f)
             n == Cardinality(Days)
  <1>1. /\ events[f] \in Nat /\ visits \in Nat /\ crashes \in Nat /\ 1 + visits \in Nat
        /\ 1 + visits <= 1 + visits
    BY DEF Typed
  <1>2. IsFiniteSet(Days) /\ Evenings(f) \subseteq Days
    <2>1. IsFiniteSet(FirstDay..day)
      BY EveningsFinite, Ranges, FS_Interval
    <2>2. Days \subseteq FirstDay..day /\ Evenings(f) \subseteq Days
      BY DEF Evenings
    <2> HIDE DEF Days
    <2> QED
      BY <2>1, <2>2, FS_Subset
  <1>3. c \in Nat /\ n \in Nat /\ c <= n
    <2> HIDE DEF Days
    <2> QED
      BY <1>2, EveningsFinite, FS_Subset, FS_CardinalityType DEF Collected
  <1>4. events[f] + OwedSum(f) <= Bound(f) /\ OwedSum(f) \in Nat
    BY OwedRange DEF EventsOwed
  <1>5. Bound(f) = (1 + visits) * c + crashes
    BY DEF Bound
  <1> HIDE DEF c, n
  <1>6. /\ (1 + visits) * c \in Nat /\ (1 + visits) * n \in Nat
        /\ (1 + visits) * c <= (1 + visits) * n
    BY <1>1, <1>3, ProductGrows
  <1> DEFINE u == (1 + visits) * c
             v == (1 + visits) * n
  <1>7. /\ u \in Nat /\ v \in Nat /\ u <= v
        /\ events[f] + OwedSum(f) <= u + crashes
    BY <1>4, <1>5, <1>6
  <1> HIDE DEF u, v
  <1>8. events[f] <= v + crashes
    BY <1>1, <1>4, <1>7
  <1> QED
    BY <1>8 DEF v, n

\* Whoever extracts, pushes again or dies: no filing is marked without its event,
\* and none has more events than the evenings, the visits and the things broken off
\* account for.
THEOREM NoFilingLost == Spec => []NoFilingIsLost
  <1>1. Typed /\ Typed' /\ BatchesOfRows /\ [Next]_vars => BatchesOfRows'
    BY RowsKept
  <1>2. Typed /\ Typed' /\ BatchSound /\ BatchesOfRows /\ EventsOwed /\ [Next]_vars => EventsOwed'
    BY EventsKept
  <1>3. Typed /\ BatchSound /\ [Next]_vars => BatchSound'
    BY SoundKept
  <1>4. TypeOK /\ MarkedHasEvent /\ EventsBounded => NoFilingIsLost
    BY DEF NoFilingIsLost
  <1> QED
    BY <1>1, <1>2, <1>3, <1>4, EventsStart, SoundStarts, OwedIsBounded, TypesHold, TypeCorrect,
       MarkedRowsHaveEvents, PTL DEF Spec

=============================================================================
