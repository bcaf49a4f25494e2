------------------------------ MODULE Preprocessing ------------------------------
(****************************************************************************)
(* From a provider to the bars: requests are spaced and retried, rows       *)
(* validated, splits adjusted, gaps filled, suspensions and circuit days    *)
(* marked, and one symbol's failure is counted against that symbol.  A day  *)
(* is a trading day of the calendar, a price a natural number.              *)
(****************************************************************************)
EXTENDS Question, FiniteSets, FiniteSetsExt, SequencesExt

CONSTANTS LastBarDay, RetryLimit, MinInterval, MinZeroDays, CircuitLimits, FracWidth, MinRows

ASSUME PreprocessingAssumption ==
    /\ LastBarDay \in Nat /\ RetryLimit \in Nat \ {0} /\ MinInterval \in Nat
    /\ MinZeroDays \in Nat \ {0} /\ FracWidth \in Nat \ {0} /\ CircuitLimits \subseteq Nat

--------------------------------------------------------------------------------
(* Providers. *)

\* When each request goes out: the lock is held while a request waits for the interval
\* since the last one.
Acquire(arrivals) ==
    LET granted[i \in DOMAIN arrivals] ==
          IF i = 1 THEN arrivals[1] ELSE Max({arrivals[i], granted[i - 1] + MinInterval})
    IN granted

\* The first attempt that does not raise; after RetryLimit of them the error.
FetchWithRetry(attempts) ==
    LET good == {i \in 1..RetryLimit : attempts[i] # "error"}
    IN IF good = {} THEN "error" ELSE attempts[Min(good)]

\* Rows with a price of zero or less are dropped; one without a number is kept.
ValidateOhlcv(rows) == [d \in {x \in DOMAIN rows : rows[x] # <<0>>} |-> rows[d]]

\* What the ingestion of a universe reports.
IngestUniverse(outcome) ==
    LET got == [s \in DOMAIN outcome |-> FetchWithRetry(outcome[s])]
    IN [requested |-> Cardinality(DOMAIN outcome),
        succeeded |-> {s \in DOMAIN got : got[s] = "rows"},
        failed |-> {s \in DOMAIN got : got[s] \in {"empty", "error"}},
        errors |-> [s \in {x \in DOMAIN got : got[x] # "rows"} |-> got[s]]]

--------------------------------------------------------------------------------
(* Corporate actions. *)

PriceActions == {"split", "bonus", "rights"}

\* An action divides the prices of the days before it.
Divides(a, d) == a.type \in PriceActions /\ a.ratio > 1 /\ d < a.day

Ratios(actions) == [a \in actions |-> a.ratio]

\* The number by which the price of day d is divided.
ComputeAdjustmentFactors(actions, d) ==
    Multiplied(Ratios(actions), {a \in actions : Divides(a, d)})

AdjustOhlcv(rows, actions) ==
    [d \in DOMAIN rows |-> [close |-> rows[d].close \div ComputeAdjustmentFactors(actions, d),
                            volume |-> rows[d].volume * ComputeAdjustmentFactors(actions, d)]]

--------------------------------------------------------------------------------
(* Gaps, suspensions, circuits. *)

GenerateTradingCalendar(first, last) == first..last

\* The day whose price day d carries.
Carried(rows, d) == Max({x \in DOMAIN rows : x <= d})

ForwardFilled(rows) ==
    [d \in GenerateTradingCalendar(Min(DOMAIN rows), Max(DOMAIN rows)) |->
        IF d \in DOMAIN rows
        THEN [close |-> rows[d].close, volume |-> rows[d].volume, filled |-> FALSE]
        ELSE [close |-> rows[Carried(rows, d)].close, volume |-> 0, filled |-> TRUE]]

\* Days without volume, grouped by the last day that had one.
ZeroGroup(bars, d) ==
    {x \in DOMAIN bars : /\ bars[x].volume = 0
                         /\ {y \in DOMAIN bars : y <= x /\ bars[y].volume # 0}
                              = {y \in DOMAIN bars : y <= d /\ bars[y].volume # 0}}

DetectSuspensions(bars) ==
    {d \in DOMAIN bars : bars[d].volume = 0 /\ Cardinality(ZeroGroup(bars, d)) >= MinZeroDays}

\* Move of day d in percent of the close before, null on the first day.
Move(bars, d) ==
    IF d - 1 \notin DOMAIN bars THEN <<>>
    ELSE <<((bars[d].close - bars[d - 1].close) * 100) \div bars[d - 1].close>>

\* Limits are tried from the widest, and the last that matches is the band.
DetectCircuitHits(bars) ==
    [d \in {x \in DOMAIN bars : Move(bars, x) # <<>>} |->
        LET m == Move(bars, d)[1]
            reached == {c \in CircuitLimits : m >= c \/ m <= -c}
        IN IF reached = {} THEN [hit |-> "none", band |-> 0]
           ELSE [hit |-> IF m > 0 THEN "upper" ELSE "lower", band |-> Min(reached)]]

\* The days whose closes the fractional difference of day d weighs.
FracDiffFfd(bars) ==
    [d \in {x \in DOMAIN bars : x - FracWidth + 1 \in DOMAIN bars} |-> (d - FracWidth + 1)..d]

\* The least order at which the series is stationary, the greatest when none is.
FindMinD(stationary, orders, length) ==
    IF length < MinRows \/ stationary = {} THEN Max(orders) ELSE Min(stationary)

RunPipeline(rows, actions, stationary, orders) ==
    LET adjusted == AdjustOhlcv(rows, actions)
        bars == ForwardFilled(adjusted)
    IN [bars |-> bars, filled |-> Cardinality(DOMAIN bars) - Cardinality(DOMAIN rows),
        suspended |-> DetectSuspensions(bars), circuits |-> DetectCircuitHits(bars),
        frac |-> FracDiffFfd(bars), order |-> FindMinD(stationary, orders, Cardinality(DOMAIN bars))]

--------------------------------------------------------------------------------
(* Questions. *)

Actions == {[day |-> d, type |-> t, ratio |-> r] :
              d \in 1..LastBarDay, t \in {"split", "bonus", "dividend", "spin_off"}, r \in {1, 2}}

\* Raw closes of a share worth `worth` in today's terms every day.
RawCloses(worth, actions) ==
    [d \in DOMAIN worth |->
        [close |-> worth[d].close * Multiplied(Ratios(actions),
                        {a \in actions : a.type \in PriceActions /\ a.day > d}),
         volume |-> worth[d].volume]]

PreprocessingQuestions ==
    {[topic |-> "pipeline", worth |-> w, actions |-> A, stationary |-> {}, orders |-> {0, 1}] :
        w \in UNION {[D -> {[close |-> 20, volume |-> 0], [close |-> 20, volume |-> 4], [close |-> 23, volume |-> 4]}] :
                       D \in {E \in SUBSET (0..LastBarDay) : Cardinality(E) \in 2..4}},
        A \in {{}} \union {{a} : a \in Actions}
              \union {{[day |-> 1, type |-> "split", ratio |-> 2], [day |-> 2, type |-> "bonus", ratio |-> 2]}}}
    \union {[topic |-> "ingest", outcome |-> o] :
              o \in [{"a", "b"} -> [1..RetryLimit -> {"rows", "empty", "error"}]]}
    \union {[topic |-> "limiter", arrivals |-> <<a, a + b, a + b + c, a + b + c + e>>] :
              a \in 0..1, b \in 0..4, c \in 0..4, e \in 0..4}
    \union {[topic |-> "validate", rows |-> r] : r \in [0..2 -> {<<>>, <<0>>, <<5>>}]}

PreprocessingAnswers ==
    \/ Reply("pipeline", RunPipeline(RawCloses(asked.worth, asked.actions), asked.actions,
                                     asked.stationary, asked.orders))
    \/ Reply("ingest", IngestUniverse(asked.outcome))
    \/ Reply("limiter", Acquire(asked.arrivals))
    \/ Reply("validate", ValidateOhlcv(asked.rows))

--------------------------------------------------------------------------------
(* Properties. *)

\* Adjusted closes are the worth of the share in today's terms on every day that was
\* traded: an action moves the raw price, and neither the day of the action, nor a second
\* action, nor one of another type leaves a jump (compute_adjustment_factors, adjust_ohlcv).
AdjustedSeriesIsContinuous ==
    Answered("pipeline") =>
      \A d \in DOMAIN asked.worth : answer[1].bars[d].close = asked.worth[d].close

\* A day that is filled in carries the price of a day before it, never a later one, and no
\* day beyond the rows is made up ("forward-fill", "NEVER interpolate prices",
\* handle_missing_data).
FillsUseThePast ==
    Answered("pipeline") =>
      LET bars == answer[1].bars
      IN \A d \in DOMAIN bars :
           bars[d].filled => /\ d - 1 \in DOMAIN bars /\ bars[d].close = bars[d - 1].close
                             /\ \E x \in DOMAIN asked.worth : x > d

\* A day is marked suspended exactly when it lies in an unbroken run of MinZeroDays days
\* without volume, those filled in included (detect_suspensions after handle_missing_data).
SuspensionsAreRuns ==
    Answered("pipeline") =>
      LET bars == answer[1].bars
          run(a) == a..(a + MinZeroDays - 1)
      IN answer[1].suspended =
           UNION {run(a) : a \in {x \in DOMAIN bars :
                    run(x) \subseteq DOMAIN bars /\ \A d \in run(x) : bars[d].volume = 0}}

\* However the callers of a provider arrive, two requests are an interval apart and none
\* waits longer than the requests before it make it wait (RateLimiter.acquire).
RequestsAreSpaced ==
    Answered("limiter") =>
      LET out == answer[1] arrived == asked.arrivals
      IN \A i, j \in DOMAIN out :
           i < j => /\ out[j] - out[i] >= (j - i) * MinInterval
                    /\ out[j] <= arrived[j] + (j - 1) * MinInterval

\* A symbol that answers at any of its attempts is stored, whatever becomes of the other,
\* and every symbol is counted once (fetch_with_retry, ingest_universe).
OneFailureCostsOneSymbol ==
    Answered("ingest") =>
      LET r == answer[1]
          first(s) == CHOOSE i \in 1..RetryLimit :
                        asked.outcome[s][i] # "error" /\ \A k \in 1..(i - 1) : asked.outcome[s][k] = "error"
      IN /\ r.succeeded \intersect r.failed = {} /\ Cardinality(r.succeeded \union r.failed) = r.requested
         /\ DOMAIN r.errors = r.failed
         /\ \A s \in DOMAIN asked.outcome :
              (\E i \in 1..RetryLimit : asked.outcome[s][i] # "error") =>
                (s \in r.succeeded <=> asked.outcome[s][first(s)] = "rows")
================================================================================
