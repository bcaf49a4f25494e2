--------------------------- MODULE PredictionServing ---------------------------
(****************************************************************************)
(* One symbol's predictions as the API serves them: the requests of         *)
(* services/prediction_service.py, the two levels of services/cache.py, the *)
(* feature store and the daily bars under them.  Requests are coroutines    *)
(* and give way at every await; Redis can fail between two of them.         *)
(*                                                                          *)
(* Time is counted in minutes from a Monday 00:00 and stands still between  *)
(* the chosen Moments.  Every weekday is a trading day.                     *)
(****************************************************************************)
EXTENDS Integers, Sequences, FiniteSets

CONSTANTS Moments,       \* the times of the model, increasing
          Requests,      \* concurrent requests
          SequenceRows,  \* _feature_window_rows
          WindowDays,    \* calendar days searched for them
          LongestRequest,\* bound: minutes of a request
          MaxOutages,    \* bound: failures of Redis, of a table or of a computation
          MaxRequests,   \* bound: requests made
          MaxRestarts    \* bound: restarts of the API

ASSUME ServingAssumption ==
    /\ Moments \in Seq(Nat) /\ Moments # <<>>
    /\ Moments[1] >= 1440 * (WindowDays + 1)
    /\ \A i \in 1..(Len(Moments) - 1) : Moments[i] < Moments[i + 1]
    /\ SequenceRows \in Nat \ {0} /\ WindowDays \in Nat \ {0}
    /\ LongestRequest \in Nat /\ MaxOutages \in Nat /\ MaxRestarts \in Nat /\ MaxRequests \in Nat

VARIABLES tick,       \* the moment it is
          lastBar,    \* the last day whose bar is stored
          lastFeature,\* the last day whose features are stored
          redis,      \* [up, entry]
          local,      \* the in-process entry of the API
          market,     \* the market features the API keeps: of which day, and up to which bar
          request,    \* request -> how far it is and what it has read
          served,     \* the answer given last
          dawns,      \* history: day -> the last day whose bar was stored when it began
          outages, requests, restarts

vars == <<tick, lastBar, lastFeature, redis, local, market, request, served, dawns,
          outages, requests, restarts>>

--------------------------------------------------------------------------------
(* The calendar. *)

Now == Moments[tick]
DayOf(t) == t \div 1440
MinuteOf(t) == t % 1440
Weekday(d) == d % 7
Trading(d) == Weekday(d) < 5
Today == DayOf(Now)
LastDay == DayOf(Moments[Len(Moments)])
Open == 9 * 60 + 15
Close == 15 * 60 + 30

TradingDays(from, to) == {d \in from..to : Trading(d)}
DaysBetween(from, to) == Cardinality(TradingDays(from, to))

\* The search window is twice as many days as rows: those to spare are no fewer than
\* the model's days, on which the refresh may be late.
ASSUME SpanAssumption ==
    \A i \in DOMAIN Moments :
        LET d == DayOf(Moments[i])
        IN DaysBetween(d - WindowDays, d) >= SequenceRows + DaysBetween(DayOf(Moments[1]), d)

\* Cached for this long during market hours, and never for less.
MarketHoursTtl == 5

NextOpen(t) ==
    LET d == DayOf(t)
    IN 1440 * (IF ~Trading(d) THEN d + 7 - Weekday(d)
               ELSE IF MinuteOf(t) <= Close THEN d
               ELSE IF Weekday(d) = 4 THEN d + 3 ELSE d + 1) + Open

\* _compute_ttl
ComputeTtl(t) ==
    IF Trading(DayOf(t)) /\ MinuteOf(t) >= Open /\ MinuteOf(t) <= Close THEN MarketHoursTtl
    ELSE LET rest == NextOpen(t) - t IN IF rest > MarketHoursTtl THEN rest ELSE MarketHoursTtl

--------------------------------------------------------------------------------
(* The cache. *)

\* The market features of a day rest on the bars up to one, or there are none (-1).
NoMarket == [day |-> -1, bar |-> -1]

\* A prediction: the last day of its features and how many rows they are, its market,
\* the day of its entry price, when it was asked for and stored, and until when.
NoEntry == [features |-> -1, rows |-> 0, regime |-> NoMarket, close |-> -1,
            asked |-> 0, made |-> 0, expiry |-> -1]
Entry(r) == [features |-> request[r].features, rows |-> request[r].rows,
             regime |-> request[r].regime, close |-> request[r].close,
             asked |-> request[r].asked, made |-> Now, expiry |-> Now + ComputeTtl(Now)]

Live(e) == Now <= e.expiry

\* A faulty variant: the in-process entry is returned whatever its age.
Lookup_LocalForEver == IF redis.up THEN (IF Live(redis.entry) THEN redis.entry ELSE NoEntry)
                       ELSE local

\* PredictionCache.get: the in-process entry is looked at only if Redis fails.
Lookup == LET e == IF redis.up THEN redis.entry ELSE local
          IN IF Live(e) THEN e ELSE NoEntry

--------------------------------------------------------------------------------
(* The feature store. *)

\* Rows of the window that the store has.
StoredRows == Cardinality({d \in TradingDays(Today - WindowDays, Today) : d <= lastFeature})

\* A faulty variant: any stored row of the window will do.
Fresh_OneRow == StoredRows >= 1

\* _load_real_features: enough rows in the window, and nothing is computed.
Fresh == StoredRows >= SequenceRows

\* What a caller may get: the newest stored rows, those computed from the bars, or none.
Stored == [last |-> lastFeature, rows |-> IF StoredRows > SequenceRows THEN SequenceRows ELSE StoredRows]
Computed == [last |-> lastBar, rows |-> SequenceRows]
NoRows == [last |-> -1, rows |-> 0]

Faults(n) == outages + n <= MaxOutages /\ outages' = outages + n

\* A store that cannot be read is as good as an empty one.  What is computed from the
\* bars is stored too, unless that fails; if the computation fails or finds no bars, the
\* rows of the store are taken, however few they are.
LoadFeatures(got) ==
    \/ Fresh /\ got = Stored /\ UNCHANGED <<lastFeature, outages>>
    \/ \E unread \in {0, 1} :
          /\ unread = 0 => ~Fresh
          /\ \/ got = Computed /\ lastFeature' = lastBar /\ Faults(unread)
             \/ got = Computed /\ UNCHANGED lastFeature /\ Faults(unread + 1)
             \/ /\ got = IF unread = 1 \/ StoredRows = 0 THEN NoRows ELSE Stored
                /\ UNCHANGED lastFeature /\ Faults(unread + 1)

--------------------------------------------------------------------------------
(* A request of predict_single. *)

Waiting == [at |-> "idle", asked |-> 0, features |-> -1, rows |-> 0, regime |-> NoMarket, close |-> -1]

\* The cache is asked first; a hit is the answer.
Ask(r) ==
    /\ request[r].at = "idle" /\ requests < MaxRequests
    /\ requests' = requests + 1
    /\ IF Lookup # NoEntry
       THEN served' = [entry |-> Lookup, at |-> Now, cached |-> TRUE] /\ UNCHANGED request
       ELSE /\ request' = [request EXCEPT ![r] = [Waiting EXCEPT !.at = "features", !.asked = Now]]
            /\ UNCHANGED served
    /\ UNCHANGED <<tick, lastBar, lastFeature, redis, local, market, dawns, outages, restarts>>

\* A symbol without any row is answered with an error.
ReadFeatures(r) ==
    /\ request[r].at = "features"
    /\ \E got \in {Stored, Computed, NoRows} :
          /\ LoadFeatures(got)
          /\ request' = [request EXCEPT ![r] =
                IF got.rows = 0 THEN Waiting
                ELSE [@ EXCEPT !.at = "market", !.features = got.last, !.rows = got.rows]]
    /\ UNCHANGED <<tick, lastBar, redis, local, market, served, dawns, requests, restarts>>

\* A faulty variant: what was built once is kept whatever the day.
MarketKept_WhateverDay == market.day # -1

MarketKept == market.day = Today

\* _get_market_features: those of the day are kept, or the build of today's begins.
ReadMarket(r) ==
    /\ request[r].at = "market"
    /\ request' = [request EXCEPT ![r] =
          IF MarketKept THEN [@ EXCEPT !.at = "close", !.regime = market]
          ELSE [@ EXCEPT !.at = "build", !.regime = [day |-> Today, bar |-> -1]]]
    /\ UNCHANGED <<tick, lastBar, lastFeature, redis, local, market, served, dawns, outages, requests, restarts>>

\* _build_market_features: from the bars there are, kept for the day it was begun on; or
\* nothing can be read, and that day goes on without a regime.
BuildMarket(r) ==
    /\ request[r].at = "build"
    /\ \E bar \in {lastBar, -1} :
          /\ Faults(IF bar = -1 THEN 1 ELSE 0)
          /\ market' = [day |-> request[r].regime.day, bar |-> bar]
    /\ request' = [request EXCEPT ![r].at = "close", ![r].regime = market']
    /\ UNCHANGED <<tick, lastBar, lastFeature, redis, local, served, dawns, requests, restarts>>

\* _get_last_close, or no price if the bars cannot be read; then the engine, which does
\* not wait.
ReadClose(r) ==
    /\ request[r].at = "close"
    /\ \E bar \in {lastBar, -1} :
          /\ Faults(IF bar = -1 THEN 1 ELSE 0)
          /\ request' = [request EXCEPT ![r].at = "answer", ![r].close = bar]
    /\ UNCHANGED <<tick, lastBar, lastFeature, redis, local, market, served, dawns, requests, restarts>>

\* PredictionCache.set, in Redis or, if that fails, in process; and the answer.
StoreAndAnswer(r) ==
    /\ request[r].at = "answer"
    /\ IF redis.up THEN redis' = [redis EXCEPT !.entry = Entry(r)] /\ UNCHANGED local
                   ELSE local' = Entry(r) /\ UNCHANGED redis
    /\ served' = [entry |-> Entry(r), at |-> Now, cached |-> FALSE]
    /\ request' = [request EXCEPT ![r] = Waiting]
    /\ UNCHANGED <<tick, lastBar, lastFeature, market, dawns, outages, requests, restarts>>

--------------------------------------------------------------------------------
(* What happens around the requests. *)

\* A request takes its time, over midnight too, but no longer than the longest one.
TimePasses ==
    /\ tick < Len(Moments)
    /\ \A r \in Requests : request[r].at # "idle" => Moments[tick + 1] - request[r].asked <= LongestRequest
    /\ tick' = tick + 1
    /\ dawns' = IF Today' = Today THEN dawns ELSE [dawns EXCEPT ![Today'] = lastBar]
    /\ UNCHANGED <<lastBar, lastFeature, redis, local, market, request, served, outages, requests, restarts>>

\* The 17:00 refresh stores the bars up to today's.
RefreshBars ==
    /\ MinuteOf(Now) >= 17 * 60 /\ TradingDays(lastBar + 1, Today) # {}
    /\ lastBar' = CHOOSE d \in TradingDays(lastBar + 1, Today) :
                     \A e \in TradingDays(lastBar + 1, Today) : e <= d
    /\ UNCHANGED <<tick, lastFeature, redis, local, market, request, served, dawns, outages, requests, restarts>>

\* The 06:00 job predicts in the scheduler's process, without a cache, on the same
\* feature store.
ScheduledPrediction ==
    /\ MinuteOf(Now) >= 6 * 60 /\ MinuteOf(Now) < 7 * 60
    /\ \E got \in {Stored, Computed, NoRows} : LoadFeatures(got)
    /\ lastFeature' # lastFeature
    /\ UNCHANGED <<tick, lastBar, redis, local, market, request, served, dawns, requests, restarts>>

RedisFails ==
    /\ redis.up /\ outages < MaxOutages
    /\ outages' = outages + 1 /\ redis' = [redis EXCEPT !.up = FALSE]
    /\ UNCHANGED <<tick, lastBar, lastFeature, local, market, request, served, dawns, requests, restarts>>

RedisReturns ==
    /\ ~redis.up /\ redis' = [redis EXCEPT !.up = TRUE]
    /\ UNCHANGED <<tick, lastBar, lastFeature, local, market, request, served, dawns, outages, requests, restarts>>

\* A restart of the API loses the in-process entries and the requests; Redis
\* keeps its entries, whose key names a version that no training changes.
RestartApi ==
    /\ restarts < MaxRestarts /\ restarts' = restarts + 1
    /\ local' = NoEntry /\ request' = [r \in Requests |-> Waiting]
    /\ market' = NoMarket
    /\ UNCHANGED <<tick, lastBar, lastFeature, redis, served, dawns, outages, requests>>

--------------------------------------------------------------------------------

\* The store has features up to a day of the window before, and all bars.
Init ==
    /\ tick = 1
    /\ lastBar = CHOOSE d \in TradingDays(0, Today - 1) : \A e \in TradingDays(0, Today - 1) : e <= d
    /\ lastFeature \in {0} \cup TradingDays(Today - WindowDays, lastBar)
    /\ redis = [up |-> TRUE, entry |-> NoEntry] /\ local = NoEntry
    /\ market = NoMarket
    /\ request = [r \in Requests |-> Waiting]
    /\ served = [entry |-> NoEntry, at |-> 0, cached |-> FALSE]
    /\ dawns = [d \in 0..LastDay |-> IF d = Today THEN lastBar ELSE -1]
    /\ outages = 0 /\ requests = 0 /\ restarts = 0

Next ==
    \/ \E r \in Requests : Ask(r)
    \/ \E r \in Requests : ReadFeatures(r)
    \/ \E r \in Requests : ReadMarket(r)
    \/ \E r \in Requests : BuildMarket(r)
    \/ \E r \in Requests : ReadClose(r)
    \/ \E r \in Requests : StoreAndAnswer(r)
    \/ TimePasses \/ RefreshBars \/ ScheduledPrediction
    \/ RedisFails \/ RedisReturns \/ RestartApi

Spec == Init /\ [][Next]_vars

--------------------------------------------------------------------------------
(* Properties. *)

MarketType == [day : -1..LastDay, bar : -1..LastDay]
EntryType == [features : -1..LastDay, rows : 0..SequenceRows, regime : MarketType, close : -1..LastDay,
              asked : Nat, made : Nat, expiry : Int]

\* Every variable keeps its type, and the stores never run ahead of the calendar
\* or the features ahead of the bars.
TypeOK ==
    /\ tick \in 1..Len(Moments)
    /\ lastFeature <= lastBar /\ lastBar <= Today
    /\ redis.entry \in EntryType /\ local \in EntryType /\ market \in MarketType
    /\ \A r \in Requests : request[r].at \in {"idle", "features", "market", "build", "close", "answer"}
    /\ served.entry.made <= served.at /\ served.at <= Now

\* The opening and closing minutes of the model's days.
Boundaries == {1440 * d + m : d \in TradingDays(0, Today), m \in {Open, Close}}

\* A prediction stored on one side of an opening or a closing is served on the
\* other for the least lifetime at most, whichever level of the cache it comes
\* from, through outages, restarts and weekends (cache.py:131-180).
ServedWithinGrace ==
    served.cached => \A b \in Boundaries :
        served.entry.made < b /\ b < served.at => served.at - b < MarketHoursTtl

\* The features behind an answer end at most as many trading days before its entry
\* price as the search window has beside its rows, with the days the request went on
\* over: the store can be behind the bars for long and is still taken as enough.  Too
\* few rows are served only where something failed (prediction_service.py:67-101).
FeatureLagBounded ==
    served.entry # NoEntry =>
        LET e == served.entry
        IN /\ DaysBetween(e.features + 1, e.close) + e.rows
                  <= DaysBetween(DayOf(e.asked) - WindowDays, DayOf(e.made))
           /\ e.rows < SequenceRows => outages > 0

\* The entry price of an answer is never older than its features or than the bars under
\* its market, whatever the refresh stores while the request waits
\* (prediction_service.py:326-349).
EntryPriceIsNewest ==
    LET e == served.entry
    IN e.close # -1 => e.features <= e.close /\ e.regime.bar <= e.close

\* The market behind an answer is of a day the request was on, and rests on all the bars
\* stored when that day began: of the refresh of that evening it may miss the bars,
\* which its price has (prediction_service.py:186-200).
MarketIsOfItsDay ==
    LET e == served.entry
    IN e.regime.bar # -1 =>
         /\ e.regime.day \in DayOf(e.asked)..DayOf(e.made)
         /\ dawns[e.regime.day] <= e.regime.bar

\* What every state of the serving has, beside its two bounds on age.
AnswersAreOfTheirDay == TypeOK /\ EntryPriceIsNewest /\ MarketIsOfItsDay
================================================================================
