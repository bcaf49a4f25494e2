------------------------ MODULE PredictionServing_proofs ------------------------
(***************************************************************************)
(* Proofs about PredictionServing, for any moments, requests, windows and  *)
(* numbers of outages, restarts and requests.                              *)
(***************************************************************************)
EXTENDS PredictionServing, FiniteSetTheorems, WellFoundedInduction, TLAPS

-----------------------------------------------------------------------------
(* The calendar *)

LEMMA Ranges ==
    /\ Len(Moments) \in Nat /\ DOMAIN Moments = 1..Len(Moments)
    /\ \A i \in 1..Len(Moments) : Moments[i] \in Nat
    /\ 1 \in 1..Len(Moments)
    /\ \A i \in 1..(Len(Moments) - 1) : Moments[i] < Moments[i + 1]
    /\ SequenceRows \in Nat /\ SequenceRows # 0 /\ WindowDays \in Nat /\ LongestRequest \in Nat
    /\ Moments[1] >= 1440 * (WindowDays + 1)
  <1>1. Moments \in Seq(Nat) /\ Moments # <<>>
    BY ServingAssumption
  <1>2. Len(Moments) \in Nat /\ DOMAIN Moments = 1..Len(Moments) /\ Len(Moments) # 0
    BY <1>1
  <1>3. \A i \in 1..Len(Moments) : Moments[i] \in Nat
    BY <1>1
  <1> QED
    BY <1>2, <1>3, ServingAssumption

\* A minute is one of its day.
LEMMA Clock ==
    ASSUME NEW t \in Nat
    PROVE  /\ DayOf(t) \in Nat /\ MinuteOf(t) \in Nat /\ MinuteOf(t) < 1440
           /\ t = 1440 * DayOf(t) + MinuteOf(t)
  BY DEF DayOf, MinuteOf

LEMMA ClockIsMonotone ==
    ASSUME NEW t \in Nat, NEW u \in Nat, t <= u
    PROVE  DayOf(t) <= DayOf(u)
  BY Clock

\* The days after a weekday up to the next trading day are no trading days.
LEMMA NextTradingDay ==
    ASSUME NEW d \in Nat, NEW e \in Nat, d < e, Trading(e)
    PROVE  /\ ~Trading(d) => d + 7 - Weekday(d) <= e /\ d + 7 - Weekday(d) \in Nat
           /\ Trading(d) => IF Weekday(d) = 4 THEN d + 3 <= e ELSE d + 1 <= e
  BY DEF Trading, Weekday

LEMMA WeekdayRange == \A d \in Int : Weekday(d) \in 0..6
  BY DEF Weekday

\* Outside the market's hours nothing opens or closes before the next opening.
LEMMA NextOpenIsNext ==
    ASSUME NEW t \in Nat, NEW d \in Nat, Trading(d), NEW m \in {Open, Close}, t < 1440 * d + m
    PROVE  /\ NextOpen(t) \in Int
           /\ \/ Trading(DayOf(t)) /\ MinuteOf(t) >= Open /\ MinuteOf(t) <= Close
              \/ NextOpen(t) <= 1440 * d + m
  <1> DEFINE D == DayOf(t)
             M == MinuteOf(t)
  <1>1. D \in Nat /\ M \in Nat /\ M < 1440 /\ t = 1440 * D + M
    BY Clock
  <1>2. Open = 555 /\ Close = 930
    BY DEF Open, Close
  <1>3. NextOpen(t) = 1440 * (IF ~Trading(D) THEN D + 7 - Weekday(D)
                              ELSE IF M <= Close THEN D
                              ELSE IF Weekday(D) = 4 THEN D + 3 ELSE D + 1) + Open
    BY DEF NextOpen
  <1>4. Weekday(D) \in 0..6
    BY <1>1, WeekdayRange
  <1> HIDE DEF D, M
  <1>5. D <= d
    BY <1>1, <1>2
  <1>6. CASE D = d
    BY <1>1, <1>2, <1>3, <1>4, <1>6 DEF D, M
  <1>7. CASE D < d
    <2>1. /\ ~Trading(D) => D + 7 - Weekday(D) <= d
          /\ Trading(D) => IF Weekday(D) = 4 THEN D + 3 <= d ELSE D + 1 <= d
      BY <1>1, <1>7, NextTradingDay
    <2> QED
      BY <1>1, <1>2, <1>3, <1>4, <1>7, <2>1 DEF D, M
  <1> QED
    BY <1>1, <1>5, <1>6, <1>7

\* An entry that lives over an opening or a closing lives on for less than the
\* least lifetime.
LEMMA GraceIsShort ==
    ASSUME NEW t \in Nat, NEW now \in Nat, now <= t + ComputeTtl(t),
           NEW d \in Nat, Trading(d), NEW m \in {Open, Close},
           t < 1440 * d + m, 1440 * d + m < now
    PROVE  now - (1440 * d + m) < MarketHoursTtl
  <1>1. MarketHoursTtl = 5 /\ 1440 * d + m \in Nat
    BY DEF MarketHoursTtl, Open, Close
  <1>2. /\ NextOpen(t) \in Int
        /\ \/ Trading(DayOf(t)) /\ MinuteOf(t) >= Open /\ MinuteOf(t) <= Close
           \/ NextOpen(t) <= 1440 * d + m
    BY NextOpenIsNext
  <1>3. CASE Trading(DayOf(t)) /\ MinuteOf(t) >= Open /\ MinuteOf(t) <= Close
    <2>1. ComputeTtl(t) = 5
      BY <1>1, <1>3 DEF ComputeTtl
    <2> QED
      BY <1>1, <2>1
  <1>4. CASE ~(Trading(DayOf(t)) /\ MinuteOf(t) >= Open /\ MinuteOf(t) <= Close)
    <2>1. ComputeTtl(t) = IF NextOpen(t) - t > 5 THEN NextOpen(t) - t ELSE 5
      BY <1>1, <1>4 DEF ComputeTtl
    <2> QED
      BY <1>1, <1>2, <1>4, <2>1
  <1> QED
    BY <1>3, <1>4

\* Every set of natural numbers that is not empty has a least element, and a
\* greatest one if it has a bound.
LEMMA LeastNatural ==
    ASSUME NEW T \in SUBSET Nat, T # {}
    PROVE  \E x \in T : \A y \in T : x <= y
  <1> DEFINE Less == {pair \in Nat \X Nat : pair[1] < pair[2]}
  <1>1. IsWellFoundedOn(Less, Nat)
    BY NatLessThanWellFounded DEF OpToRel
  <1>2. PICK x \in T : \A y \in T : <<y, x>> \notin Less
    <2> HIDE DEF Less
    <2> QED
      BY <1>1, WFMin
  <1>3. ASSUME NEW y \in T PROVE x <= y
    <2>1. x \in Nat /\ y \in Nat /\ ~(y < x)
      BY <1>2
    <2> QED
      BY <2>1
  <1> QED
    BY <1>3

LEMMA GreatestNatural ==
    ASSUME NEW top \in Nat, NEW T \in SUBSET (0..top), T # {}
    PROVE  \E x \in T : \A y \in T : y <= x
  <1> DEFINE From == {top - x : x \in T}
  <1>1. \A x \in T : x \in Nat /\ x <= top /\ top - x \in Nat
    OBVIOUS
  <1>2. From \in SUBSET Nat /\ From # {}
    BY <1>1
  <1>3. PICK z \in From : \A y \in From : z <= y
    <2> HIDE DEF From
    <2> QED
      BY <1>2, LeastNatural
  <1>4. PICK x \in T : z = top - x
    BY <1>3
  <1>5. ASSUME NEW y \in T PROVE y <= x
    <2>1. top - y \in From
      OBVIOUS
    <2>2. top - x <= top - y
      BY <1>3, <1>4, <2>1
    <2> QED
      BY <1>1, <2>2
  <1> QED
    BY <1>5

\* Time only goes on.
LEMMA MomentsGrow ==
    ASSUME NEW i \in 1..Len(Moments), NEW j \in 1..Len(Moments), i <= j
    PROVE  Moments[i] <= Moments[j]
  <1> DEFINE T == {k \in 1..Len(Moments) : i <= k /\ Moments[k] < Moments[i]}
  <1>1. ASSUME T # {} PROVE FALSE
    <2>1. T \in SUBSET Nat
      BY Ranges
    <2>2. PICK k \in T : \A l \in T : k <= l
      <3> HIDE DEF T
      <3> QED
        BY <1>1, <2>1, LeastNatural
    <2>3. k \in 1..Len(Moments) /\ i <= k /\ Moments[k] < Moments[i] /\ k # i
      BY <2>2, Ranges
    <2>4. k - 1 \in 1..(Len(Moments) - 1) /\ i <= k - 1 /\ k - 1 \in 1..Len(Moments) /\ k = (k - 1) + 1
      BY <2>3, Ranges
    <2>5. Moments[k - 1] < Moments[k]
      BY <2>4, Ranges
    <2>6. Moments[k] \in Nat /\ Moments[k - 1] \in Nat /\ Moments[i] \in Nat
      BY <2>3, <2>4, Ranges
    <2>7. k - 1 \in T
      BY <2>3, <2>4, <2>5, <2>6
    <2>8. k <= k - 1
      BY <2>2, <2>7
    <2> QED
      BY <2>3, <2>8, Ranges
  <1>2. Moments[i] \in Nat /\ Moments[j] \in Nat /\ ~(Moments[j] < Moments[i])
    BY <1>1, Ranges
  <1> QED
    BY <1>2

LEMMA TradingDaysFinite ==
    ASSUME NEW a \in Int, NEW b \in Int
    PROVE  /\ IsFiniteSet(TradingDays(a, b)) /\ Cardinality(TradingDays(a, b)) \in Nat
           /\ TradingDays(a, b) = {d \in Int : a <= d /\ d <= b /\ Trading(d)}
  <1>1. TradingDays(a, b) \subseteq a..b /\ IsFiniteSet(a..b)
    BY FS_Interval DEF TradingDays
  <1>2. TradingDays(a, b) = {d \in Int : a <= d /\ d <= b /\ Trading(d)}
    BY DEF TradingDays
  <1> QED
    BY <1>1, <1>2, FS_Subset, FS_CardinalityType

\* There are no more trading days in a part of a period.
LEMMA FewerTradingDays ==
    ASSUME NEW a \in Int, NEW b \in Int, NEW c \in Int, NEW e \in Int, c <= a, b <= e
    PROVE  Cardinality(TradingDays(a, b)) <= Cardinality(TradingDays(c, e))
  <1>1. TradingDays(a, b) \subseteq TradingDays(c, e)
    <2>1. /\ TradingDays(a, b) = {d \in Int : a <= d /\ d <= b /\ Trading(d)}
          /\ TradingDays(c, e) = {d \in Int : c <= d /\ d <= e /\ Trading(d)}
      BY TradingDaysFinite
    <2>2. \A d \in Int : a <= d /\ d <= b => c <= d /\ d <= e
      OBVIOUS
    <2> QED
      BY <2>1, <2>2
  <1>2. IsFiniteSet(TradingDays(c, e))
    BY TradingDaysFinite
  <1> QED
    BY <1>1, <1>2, FS_Subset

\* What the refresh stores, and what is stored at the beginning: the last trading
\* day of a period.
LastTradingDay(a, b) == CHOOSE d \in TradingDays(a, b) : \A e \in TradingDays(a, b) : e <= d

LEMMA LastTradingDayIs ==
    ASSUME NEW a \in Nat, NEW b \in Nat, TradingDays(a, b) # {}
    PROVE  /\ LastTradingDay(a, b) \in Nat
           /\ a <= LastTradingDay(a, b) /\ LastTradingDay(a, b) <= b
           /\ \A e \in TradingDays(a, b) : e <= LastTradingDay(a, b)
  <1>1. TradingDays(a, b) \in SUBSET (0..b)
    BY DEF TradingDays
  <1>2. \E d \in TradingDays(a, b) : \A e \in TradingDays(a, b) : e <= d
    BY <1>1, GreatestNatural
  <1>3. /\ LastTradingDay(a, b) \in TradingDays(a, b)
        /\ \A e \in TradingDays(a, b) : e <= LastTradingDay(a, b)
    BY <1>2 DEF LastTradingDay
  <1>4. \A d \in TradingDays(a, b) : d \in Nat /\ a <= d /\ d <= b
    BY DEF TradingDays
  <1> QED
    BY <1>3, <1>4

-----------------------------------------------------------------------------
(* The inductive invariants *)

RequestType == [at : {"idle", "features", "market", "build", "close", "answer"}, asked : Nat,
                features : -1..LastDay, rows : 0..SequenceRows, regime : MarketType, close : -1..LastDay]

\* The types, the order of the stores and the calendar, and that nothing was asked,
\* made or served later than now.
Typed ==
    /\ tick \in 1..Len(Moments)
    /\ lastBar \in Nat /\ lastFeature \in Nat /\ lastFeature <= lastBar /\ lastBar <= Today
    /\ redis \in [up : BOOLEAN, entry : EntryType] /\ local \in EntryType
    /\ market \in MarketType
    /\ request \in [Requests -> RequestType]
    /\ served \in [entry : EntryType, at : Nat, cached : BOOLEAN]
    /\ dawns \in [0..LastDay -> Int] /\ outages \in Nat
    /\ redis.entry.made <= Now /\ local.made <= Now
    /\ served.entry.made <= served.at /\ served.at <= Now
    /\ \A r \in Requests : request[r].asked <= Now

\* What the caches hold and what was served last.
Kept == {redis.entry, local, served.entry}

\* Market features of a day rest on all the bars that were stored when it began.
RestsOnItsDay(m, from, to) ==
    m.bar # -1 => m.day \in from..to /\ dawns[m.day] <= m.bar

\* No entry has a price older than the rest of it or a market of another day, and no
\* request that is on has begun to.
EntryOfItsDay(e) ==
    /\ e.close # -1 => e.features <= e.close /\ e.regime.bar <= e.close
    /\ RestsOnItsDay(e.regime, DayOf(e.asked), DayOf(e.made))
RequestOfItsDay(q) ==
    /\ q.at \in {"market", "build", "close", "answer"} => q.features <= lastBar
    /\ q.at = "build" => q.regime.day \in DayOf(q.asked)..Today
    /\ q.at \in {"close", "answer"} => /\ RestsOnItsDay(q.regime, DayOf(q.asked), Today)
                                       /\ q.regime.bar <= lastBar
    /\ q.at = "answer" /\ q.close # -1 => q.features <= q.close /\ q.regime.bar <= q.close
OfTheirDay == /\ \A d \in 0..LastDay : dawns[d] <= lastBar
              /\ RestsOnItsDay(market, 0, Today) /\ market.bar <= lastBar
              /\ \A e \in Kept : EntryOfItsDay(e)
              /\ \A r \in Requests : RequestOfItsDay(request[r])

\* Every entry has the lifetime of the minute it was made, and a cached answer was
\* given within it.
Expires(e) == e = NoEntry \/ e.expiry = e.made + ComputeTtl(e.made)
ExpiryKept == /\ \A e \in Kept : Expires(e)
              /\ served.cached => served.entry # NoEntry /\ served.at <= served.entry.expiry

\* No bar before the first moment is missing.
UpToDate(d) == TradingDays(d + 1, DayOf(Moments[1]) - 1) = {}

\* Features from the store are rows of the window before the day they were asked for;
\* computed ones are of the last bar.  Too few of them mean that something failed.
Reaches(x) ==
    /\ x.rows # 0 /\ x.features \in Nat
    /\ \/ x.rows <= DaysBetween(DayOf(x.asked) - WindowDays, x.features)
       \/ UpToDate(x.features) /\ x.rows = SequenceRows
    /\ x.rows < SequenceRows => outages > 0
RequestReaches(q) ==
    /\ q.at \in {"market", "build", "close", "answer"} => q.features <= lastBar /\ Reaches(q)
    /\ q.at = "answer" => q.close <= lastBar
EntryReaches(e) ==
    e = NoEntry \/ /\ Reaches(e) /\ e.asked <= e.made
                   /\ e.features <= DayOf(e.made) /\ e.close <= DayOf(e.made)
                   /\ \E i \in 1..Len(Moments) : e.made = Moments[i]
LagKept == /\ UpToDate(lastBar)
           /\ \A e \in Kept : EntryReaches(e)
           /\ \A r \in Requests : RequestReaches(request[r])

-----------------------------------------------------------------------------
(* The time and the types *)

\* The day of every moment is one of the model's, and of the days after the window.
LEMMA DaysOfMoments ==
    /\ LastDay \in Nat /\ DayOf(Moments[1]) \in Nat /\ DayOf(Moments[1]) > WindowDays
    /\ \A i \in 1..Len(Moments) : /\ DayOf(Moments[i]) \in Nat
                                  /\ DayOf(Moments[1]) <= DayOf(Moments[i])
                                  /\ DayOf(Moments[i]) <= LastDay
  <1>1. Len(Moments) \in 1..Len(Moments) /\ 1 \in 1..Len(Moments)
    BY Ranges
  <1>2. ASSUME NEW i \in 1..Len(Moments)
        PROVE  /\ DayOf(Moments[i]) \in Nat
               /\ DayOf(Moments[1]) <= DayOf(Moments[i])
               /\ DayOf(Moments[i]) <= DayOf(Moments[Len(Moments)])
    <2>1. 1 <= i /\ i <= Len(Moments)
      BY Ranges
    <2>2. Moments[1] <= Moments[i] /\ Moments[i] <= Moments[Len(Moments)]
      BY <1>1, <2>1, MomentsGrow
    <2>3. Moments[1] \in Nat /\ Moments[i] \in Nat /\ Moments[Len(Moments)] \in Nat
      BY <1>1, Ranges
    <2>4. DayOf(Moments[i]) \in Nat
      BY <2>3 DEF DayOf
    <2>5. DayOf(Moments[1]) <= DayOf(Moments[i])
      BY <2>2, <2>3, ClockIsMonotone
    <2>6. DayOf(Moments[i]) <= DayOf(Moments[Len(Moments)])
      BY <2>2, <2>3, ClockIsMonotone
    <2> QED
      BY <2>4, <2>5, <2>6
  <1>3. DayOf(Moments[1]) > WindowDays
    <2> DEFINE d == DayOf(Moments[1])
               m == MinuteOf(Moments[1])
    <2>1. /\ d \in Nat /\ m \in Nat /\ m < 1440 /\ Moments[1] = 1440 * d + m
          /\ Moments[1] >= 1440 * (WindowDays + 1) /\ WindowDays \in Nat
      <3>1. Moments[1] \in Nat /\ WindowDays \in Nat /\ Moments[1] >= 1440 * (WindowDays + 1)
        BY <1>1, Ranges
      <3>2. d \in Nat /\ m \in Nat /\ m < 1440 /\ Moments[1] = 1440 * d + m
        BY <3>1 DEF DayOf, MinuteOf
      <3> QED
        BY <3>1, <3>2
    <2> HIDE DEF d, m
    <2>2. d > WindowDays
      BY <2>1
    <2> QED
      BY <2>2 DEF d
  <1> QED
    BY <1>1, <1>2, <1>3 DEF LastDay

LEMMA NowFacts ==
    ASSUME tick \in 1..Len(Moments)
    PROVE  /\ Now \in Nat /\ Today \in Nat /\ Today <= LastDay /\ LastDay \in Nat
           /\ DayOf(Moments[1]) <= Today
  BY Ranges, DaysOfMoments DEF Now, Today

\* What was before now was on a day before, or today.
LEMMA PastDay ==
    ASSUME tick \in 1..Len(Moments), NEW t \in Nat, t <= Now
    PROVE  DayOf(t) \in Nat /\ DayOf(t) <= Today
  <1>1. Now \in Nat /\ Today = DayOf(Now)
    BY NowFacts DEF Today
  <1>2. DayOf(t) <= DayOf(Now)
    BY <1>1, ClockIsMonotone
  <1>3. DayOf(t) \in Nat
    BY DEF DayOf
  <1> QED
    BY <1>1, <1>2, <1>3

LEMMA TtlIsAnInteger ==
    ASSUME NEW t \in Nat
    PROVE  ComputeTtl(t) \in Int
  <1>1. DayOf(t) \in Nat /\ Weekday(DayOf(t)) \in Int
    <2>1. DayOf(t) \in Nat
      BY Clock
    <2> QED
      BY <2>1, WeekdayRange
  <1>2. NextOpen(t) \in Int
    BY <1>1 DEF NextOpen, Open
  <1> QED
    BY <1>2 DEF ComputeTtl, MarketHoursTtl

LEMMA MarketFacts ==
    /\ NoMarket \in MarketType /\ NoMarket.bar = -1 /\ NoMarket.day = -1
    /\ \A d, b \in -1..LastDay : [day |-> d, bar |-> b] \in MarketType
    /\ -1 \in -1..LastDay /\ 0 \in 0..SequenceRows
  <1>1. -1 \in -1..LastDay /\ 0 \in 0..SequenceRows
    BY DaysOfMoments, Ranges
  <1>2. \A d, b \in -1..LastDay : [day |-> d, bar |-> b] \in MarketType
    BY DEF MarketType
  <1> QED
    BY <1>1, <1>2 DEF NoMarket

LEMMA NoEntryFacts ==
    /\ NoEntry \in EntryType /\ NoEntry.made = 0 /\ NoEntry.close = -1
    /\ NoEntry.regime = NoMarket
  BY MarketFacts DEF NoEntry, EntryType

LEMMA WaitingFacts == Waiting \in RequestType /\ Waiting.at = "idle" /\ Waiting.asked = 0
  BY MarketFacts DEF Waiting, RequestType

LEMMA RequestIs ==
    ASSUME Typed, NEW r \in Requests
    PROVE  /\ request[r] \in RequestType /\ request[r].asked \in Nat
           /\ request[r].features \in -1..LastDay /\ request[r].rows \in 0..SequenceRows
           /\ request[r].close \in -1..LastDay
           /\ request[r].regime \in MarketType /\ request[r].asked <= Now
           /\ request[r].regime.day \in -1..LastDay /\ request[r].regime.bar \in -1..LastDay
  BY DEF Typed, RequestType, MarketType

\* What a request stores.
LEMMA EntryFacts ==
    ASSUME Typed, NEW r \in Requests
    PROVE  /\ Entry(r) \in EntryType
           /\ Entry(r).features = request[r].features /\ Entry(r).regime = request[r].regime
           /\ Entry(r).rows = request[r].rows /\ Entry(r).asked = request[r].asked
           /\ Entry(r).close = request[r].close /\ Entry(r).made = Now
           /\ Entry(r).expiry = Now + ComputeTtl(Now)
  <1>1. Now \in Nat /\ ComputeTtl(Now) \in Int
    BY NowFacts, TtlIsAnInteger DEF Typed
  <1> QED
    BY <1>1, RequestIs DEF Entry, EntryType

LEMMA CachedIs ==
    ASSUME Typed
    PROVE  /\ redis.entry \in EntryType /\ local \in EntryType /\ served.entry \in EntryType
           /\ redis.entry.made \in Nat /\ local.made \in Nat /\ served.entry.made \in Nat
           /\ served.at \in Nat /\ served.entry.expiry \in Int
  BY DEF Typed, EntryType

\* What is kept is of a type, and made by now.
LEMMA KeptIs ==
    ASSUME Typed, NEW e \in Kept
    PROVE  /\ e \in EntryType /\ e.made \in Nat /\ e.made <= Now /\ e.asked \in Nat
           /\ e.regime.day \in -1..LastDay /\ e.regime.bar \in -1..LastDay
  <1>1. e \in {redis.entry, local, served.entry}
    BY DEF Kept
  <1>2. e \in EntryType
    BY <1>1, CachedIs
  <1>3. Now \in Nat
    BY NowFacts DEF Typed
  <1>4. e.made <= Now
    BY <1>1, <1>3, CachedIs DEF Typed
  <1> QED
    BY <1>2, <1>4 DEF EntryType, MarketType

-----------------------------------------------------------------------------
(* The steps, field by field *)

\* Request r is q now; the others are where they were.
OnlyRequest(r, q) ==
    /\ request' \in [Requests -> RequestType] /\ request'[r] = q
    /\ \A o \in Requests \ {r} : request'[o] = request[o]

LEMMA RequestSet ==
    ASSUME Typed, NEW r \in Requests, NEW q \in RequestType, request' = [request EXCEPT ![r] = q]
    PROVE  OnlyRequest(r, q)
  BY DEF Typed, OnlyRequest

LEMMA AskEffect ==
    ASSUME Typed, NEW r \in Requests, Ask(r)
    PROVE  /\ request[r].at = "idle"
           /\ \/ /\ request' = request
                 /\ \E e \in {redis.entry, local} :
                       /\ e # NoEntry /\ Now <= e.expiry
                       /\ served' = [entry |-> e, at |-> Now, cached |-> TRUE]
              \/ /\ served' = served
                 /\ \E q \in RequestType : OnlyRequest(r, q) /\ q.at = "features" /\ q.asked = Now
           /\ UNCHANGED <<tick, lastBar, lastFeature, redis, local, market, dawns, outages>>
  <1> DEFINE q == [Waiting EXCEPT !.at = "features", !.asked = Now]
  <1>1. /\ request[r].at = "idle"
        /\ UNCHANGED <<tick, lastBar, lastFeature, redis, local, market, dawns, outages>>
    BY DEF Ask
  <1>2. CASE Lookup # NoEntry
    <2>1. served' = [entry |-> Lookup, at |-> Now, cached |-> TRUE] /\ request' = request
      BY <1>2 DEF Ask
    <2>2. Lookup \in {redis.entry, local} /\ Now <= Lookup.expiry
      BY <1>2 DEF Lookup, Live
    <2> QED
      BY <1>1, <1>2, <2>1, <2>2
  <1>3. CASE Lookup = NoEntry
    <2>1. request' = [request EXCEPT ![r] = q] /\ served' = served
      BY <1>3 DEF Ask
    <2>2. Now \in Nat
      BY NowFacts DEF Typed
    <2>3. q \in RequestType /\ q.at = "features" /\ q.asked = Now
      BY <2>2, WaitingFacts DEF RequestType
    <2> HIDE DEF q
    <2> QED
      BY <1>1, <2>1, <2>3, RequestSet
  <1> QED
    BY <1>2, <1>3

\* The rows the store has of the window are its trading days up to the last stored one.
LEMMA StoredAre ==
    ASSUME Typed
    PROVE  /\ StoredRows \in Nat
           /\ StoredRows = DaysBetween(Today - WindowDays, lastFeature)
  <1>1. Today - WindowDays \in Int /\ Today \in Int /\ lastFeature \in Int /\ lastFeature <= Today
    BY NowFacts, Ranges DEF Typed
  <1>2. /\ TradingDays(Today - WindowDays, Today)
              = {d \in Int : Today - WindowDays <= d /\ d <= Today /\ Trading(d)}
        /\ TradingDays(Today - WindowDays, lastFeature)
              = {d \in Int : Today - WindowDays <= d /\ d <= lastFeature /\ Trading(d)}
        /\ Cardinality(TradingDays(Today - WindowDays, lastFeature)) \in Nat
    BY <1>1, TradingDaysFinite
  <1>3. \A d \in Int : d <= lastFeature => d <= Today
    BY <1>1
  <1>4. {d \in TradingDays(Today - WindowDays, Today) : d <= lastFeature}
          = TradingDays(Today - WindowDays, lastFeature)
    BY <1>2, <1>3
  <1> QED
    BY <1>2, <1>4 DEF StoredRows, DaysBetween

\* The stored rows taken are rows of the window up to the last; fewer than asked for are
\* taken only after a failure.
LEMMA LoadEffect ==
    ASSUME Typed, NEW got \in {Stored, Computed, NoRows}, LoadFeatures(got)
    PROVE  /\ lastFeature' \in {lastFeature, lastBar} /\ outages' \in Nat /\ outages <= outages'
           /\ got.rows \in 0..SequenceRows /\ got.last \in -1..LastDay
           /\ got.rows # 0 => /\ got.last \in Nat /\ got.last <= lastBar
                              /\ \/ got.last = lastFeature /\ got.rows <= StoredRows
                                 \/ got.last = lastBar /\ got.rows = SequenceRows
           /\ got.rows # 0 /\ got.rows < SequenceRows => outages' > 0
  <1>1. /\ outages \in Nat /\ lastFeature \in Nat /\ lastBar \in Nat /\ lastFeature <= lastBar
        /\ SequenceRows \in Nat /\ SequenceRows # 0 /\ LastDay \in Nat /\ lastBar <= LastDay
    <2>1. lastBar <= Today /\ Today <= LastDay /\ Today \in Nat /\ LastDay \in Nat
      BY NowFacts DEF Typed
    <2> QED
      BY <2>1, Ranges DEF Typed
  <1>2. StoredRows \in Nat
    BY StoredAre
  <1>3. /\ Stored.last = lastFeature /\ Stored.rows \in 0..SequenceRows /\ Stored.rows <= StoredRows
        /\ Stored.rows < SequenceRows => ~Fresh
        /\ Computed.last = lastBar /\ Computed.rows = SequenceRows
        /\ NoRows.last = -1 /\ NoRows.rows = 0
    BY <1>1, <1>2 DEF Stored, Computed, NoRows, Fresh
  <1>4. /\ lastFeature' \in {lastFeature, lastBar}
        /\ \/ Fresh /\ got = Stored /\ outages' = outages
           \/ got = Computed /\ outages' \in {outages, outages + 1, outages + 2}
           \/ got \in {Stored, NoRows} /\ outages' \in {outages + 1, outages + 2}
    BY <1>1 DEF LoadFeatures, Faults
  <1> HIDE DEF Stored, Computed, NoRows
  <1>5. CASE Fresh /\ got = Stored /\ outages' = outages
    BY <1>1, <1>2, <1>3, <1>4, <1>5
  <1>6. CASE got = Computed /\ outages' \in {outages, outages + 1, outages + 2}
    BY <1>1, <1>2, <1>3, <1>4, <1>6
  <1>7. CASE got \in {Stored, NoRows} /\ outages' \in {outages + 1, outages + 2}
    BY <1>1, <1>2, <1>3, <1>4, <1>7
  <1> QED
    BY <1>4, <1>5, <1>6, <1>7

LEMMA ReadFeaturesEffect ==
    ASSUME Typed, NEW r \in Requests, ReadFeatures(r)
    PROVE  /\ lastFeature' \in {lastFeature, lastBar} /\ outages' \in Nat /\ outages <= outages'
           /\ \/ OnlyRequest(r, Waiting)
              \/ \E q \in RequestType :
                   /\ OnlyRequest(r, q) /\ q.at = "market" /\ q.asked = request[r].asked
                   /\ q.rows # 0 /\ q.features \in Nat /\ q.features <= lastBar
                   /\ \/ q.features = lastFeature /\ q.rows <= StoredRows
                      \/ q.features = lastBar /\ q.rows = SequenceRows
                   /\ q.rows < SequenceRows => outages' > 0
           /\ UNCHANGED <<tick, lastBar, redis, local, market, served, dawns>>
  <1>1. UNCHANGED <<tick, lastBar, redis, local, market, served, dawns>>
    BY DEF ReadFeatures
  <1> DEFINE q(got) == [request[r] EXCEPT !.at = "market", !.features = got.last, !.rows = got.rows]
  <1>2. PICK got \in {Stored, Computed, NoRows} :
           /\ LoadFeatures(got)
           /\ request' = [request EXCEPT ![r] = IF got.rows = 0 THEN Waiting ELSE q(got)]
    BY DEF ReadFeatures
  <1>3. /\ lastFeature' \in {lastFeature, lastBar} /\ outages' \in Nat /\ outages <= outages'
        /\ got.rows \in 0..SequenceRows /\ got.last \in -1..LastDay
        /\ got.rows # 0 => /\ got.last \in Nat /\ got.last <= lastBar
                           /\ \/ got.last = lastFeature /\ got.rows <= StoredRows
                              \/ got.last = lastBar /\ got.rows = SequenceRows
        /\ got.rows # 0 /\ got.rows < SequenceRows => outages' > 0
    BY <1>2, LoadEffect
  <1>4. CASE got.rows = 0
    <2>1. request' = [request EXCEPT ![r] = Waiting]
      BY <1>2, <1>4
    <2> QED
      BY <1>1, <1>3, <2>1, RequestSet, WaitingFacts
  <1>5. CASE got.rows # 0
    <2>1. request' = [request EXCEPT ![r] = q(got)]
      BY <1>2, <1>5
    <2>2. /\ q(got) \in RequestType /\ q(got).at = "market" /\ q(got).features = got.last
          /\ q(got).rows = got.rows /\ q(got).asked = request[r].asked
      BY <1>3, RequestIs DEF RequestType
    <2> HIDE DEF q
    <2>3. OnlyRequest(r, q(got))
      BY <2>1, <2>2, RequestSet
    <2> QED
      BY <1>1, <1>3, <1>5, <2>2, <2>3
  <1> QED
    BY <1>4, <1>5

LEMMA ReadMarketEffect ==
    ASSUME Typed, NEW r \in Requests, ReadMarket(r)
    PROVE  /\ request[r].at = "market"
           /\ \E q \in RequestType :
                 /\ OnlyRequest(r, q) /\ q.features = request[r].features /\ q.rows = request[r].rows
                 /\ q.asked = request[r].asked
                 /\ \/ q.at = "close" /\ q.regime = market /\ market.day = Today
                    \/ q.at = "build" /\ q.regime.day = Today
           /\ UNCHANGED <<tick, lastBar, lastFeature, redis, local, market, served, dawns, outages>>
  <1>1. /\ request[r].at = "market"
        /\ UNCHANGED <<tick, lastBar, lastFeature, redis, local, market, served, dawns, outages>>
    BY DEF ReadMarket
  <1> DEFINE kept == [request[r] EXCEPT !.at = "close", !.regime = market]
             build == [request[r] EXCEPT !.at = "build", !.regime = [day |-> Today, bar |-> -1]]
  <1>2. request' = [request EXCEPT ![r] = IF MarketKept THEN kept ELSE build]
    BY DEF ReadMarket
  <1>3. Today \in -1..LastDay /\ [day |-> Today, bar |-> -1] \in MarketType /\ market \in MarketType
    <2>1. Today \in -1..LastDay
      BY NowFacts DEF Typed
    <2> QED
      BY <2>1, MarketFacts DEF Typed
  <1>4. /\ kept \in RequestType /\ kept.at = "close" /\ kept.regime = market
        /\ kept.features = request[r].features /\ kept.rows = request[r].rows
        /\ kept.asked = request[r].asked
    BY <1>3, RequestIs DEF RequestType
  <1>5. /\ build \in RequestType /\ build.at = "build" /\ build.regime.day = Today
        /\ build.features = request[r].features /\ build.rows = request[r].rows
        /\ build.asked = request[r].asked
    BY <1>3, RequestIs DEF RequestType
  <1> HIDE DEF kept, build
  <1>6. CASE MarketKept
    <2>1. request' = [request EXCEPT ![r] = kept] /\ market.day = Today
      BY <1>2, <1>6 DEF MarketKept
    <2> QED
      BY <1>1, <1>4, <2>1, RequestSet
  <1>7. CASE ~MarketKept
    <2>1. request' = [request EXCEPT ![r] = build]
      BY <1>2, <1>7
    <2> QED
      BY <1>1, <1>5, <2>1, RequestSet
  <1> QED
    BY <1>6, <1>7

LEMMA FaultFacts ==
    ASSUME outages \in Nat, NEW n \in {0, 1}, Faults(n)
    PROVE  outages' \in Nat /\ outages <= outages'
  BY DEF Faults

LEMMA BuildMarketEffect ==
    ASSUME Typed, NEW r \in Requests, BuildMarket(r)
    PROVE  /\ request[r].at = "build" /\ market' \in MarketType
           /\ market'.day = request[r].regime.day /\ market'.bar \in {lastBar, -1}
           /\ \E q \in RequestType :
                 /\ OnlyRequest(r, q) /\ q.at = "close" /\ q.regime = market'
                 /\ q.features = request[r].features /\ q.rows = request[r].rows
                 /\ q.asked = request[r].asked
           /\ outages' \in Nat /\ outages <= outages'
           /\ UNCHANGED <<tick, lastBar, lastFeature, redis, local, served, dawns>>
  <1>1. /\ request[r].at = "build"
        /\ UNCHANGED <<tick, lastBar, lastFeature, redis, local, served, dawns>>
    BY DEF BuildMarket
  <1>2. PICK bar \in {lastBar, -1} :
           /\ Faults(IF bar = -1 THEN 1 ELSE 0)
           /\ market' = [day |-> request[r].regime.day, bar |-> bar]
    BY DEF BuildMarket
  <1>3. bar \in -1..LastDay
    BY <1>2, NowFacts, MarketFacts DEF Typed
  <1>4. market' \in MarketType /\ market'.day = request[r].regime.day /\ market'.bar = bar
    BY <1>2, <1>3, RequestIs, MarketFacts
  <1>5. outages' \in Nat /\ outages <= outages'
    BY <1>2, FaultFacts DEF Typed
  <1> DEFINE q == [request[r] EXCEPT !.at = "close", !.regime = market']
  <1>6. request' = [request EXCEPT ![r] = q]
    BY DEF BuildMarket, Typed
  <1>7. /\ q \in RequestType /\ q.at = "close" /\ q.regime = market'
        /\ q.features = request[r].features /\ q.rows = request[r].rows
        /\ q.asked = request[r].asked
    BY <1>4, RequestIs DEF RequestType
  <1> HIDE DEF q
  <1> QED
    BY <1>1, <1>2, <1>4, <1>5, <1>6, <1>7, RequestSet

LEMMA ReadCloseEffect ==
    ASSUME Typed, NEW r \in Requests, ReadClose(r)
    PROVE  /\ request[r].at = "close"
           /\ \E q \in RequestType :
                 /\ OnlyRequest(r, q) /\ q.at = "answer" /\ q.close \in {lastBar, -1}
                 /\ q.features = request[r].features /\ q.rows = request[r].rows
                 /\ q.regime = request[r].regime /\ q.asked = request[r].asked
           /\ outages' \in Nat /\ outages <= outages'
           /\ UNCHANGED <<tick, lastBar, lastFeature, redis, local, market, served, dawns>>
  <1>1. /\ request[r].at = "close"
        /\ UNCHANGED <<tick, lastBar, lastFeature, redis, local, market, served, dawns>>
    BY DEF ReadClose
  <1> DEFINE q(bar) == [request[r] EXCEPT !.at = "answer", !.close = bar]
  <1>2. PICK bar \in {lastBar, -1} : /\ Faults(IF bar = -1 THEN 1 ELSE 0)
                                    /\ request' = [request EXCEPT ![r] = q(bar)]
    BY DEF ReadClose, Typed
  <1>3. bar \in -1..LastDay
    BY <1>2, NowFacts, MarketFacts DEF Typed
  <1>4. outages' \in Nat /\ outages <= outages'
    BY <1>2, FaultFacts DEF Typed
  <1>5. /\ q(bar) \in RequestType /\ q(bar).at = "answer" /\ q(bar).close = bar
        /\ q(bar).features = request[r].features /\ q(bar).rows = request[r].rows
        /\ q(bar).regime = request[r].regime /\ q(bar).asked = request[r].asked
    BY <1>3, RequestIs DEF RequestType
  <1> HIDE DEF q
  <1>6. OnlyRequest(r, q(bar))
    BY <1>2, <1>5, RequestSet
  <1> QED
    BY <1>1, <1>2, <1>4, <1>5, <1>6

LEMMA StoreAndAnswerEffect ==
    ASSUME Typed, NEW r \in Requests, StoreAndAnswer(r)
    PROVE  /\ request[r].at = "answer" /\ OnlyRequest(r, Waiting)
           /\ redis' \in [up : BOOLEAN, entry : EntryType]
           /\ redis'.entry \in {redis.entry, Entry(r)} /\ local' \in {local, Entry(r)}
           /\ served' = [entry |-> Entry(r), at |-> Now, cached |-> FALSE]
           /\ UNCHANGED <<tick, lastBar, lastFeature, market, dawns, outages>>
  <1>1. /\ request[r].at = "answer" /\ request' = [request EXCEPT ![r] = Waiting]
        /\ served' = [entry |-> Entry(r), at |-> Now, cached |-> FALSE]
        /\ redis' = [redis EXCEPT !.entry = Entry(r)] \/ redis' = redis
        /\ local' \in {local, Entry(r)}
        /\ UNCHANGED <<tick, lastBar, lastFeature, market, dawns, outages>>
    BY DEF StoreAndAnswer
  <1>2. Entry(r) \in EntryType /\ redis \in [up : BOOLEAN, entry : EntryType]
    BY EntryFacts DEF Typed
  <1>3. redis' \in [up : BOOLEAN, entry : EntryType] /\ redis'.entry \in {redis.entry, Entry(r)}
    BY <1>1, <1>2
  <1> QED
    BY <1>1, <1>3, RequestSet, WaitingFacts

\* A new day begins with the bars there are; the days gone by keep theirs.
LEMMA TimePassesEffect ==
    ASSUME Typed, TimePasses
    PROVE  /\ tick' \in 1..Len(Moments) /\ Now <= Now' /\ Today <= Today'
           /\ Now' \in Nat /\ Today' \in Nat /\ Today' <= LastDay
           /\ dawns' \in [0..LastDay -> Int]
           /\ \A d \in 0..LastDay : dawns'[d] = dawns[d] \/ dawns'[d] = lastBar
           /\ \A d \in 0..LastDay : d <= Today => dawns'[d] = dawns[d]
           /\ UNCHANGED <<lastBar, lastFeature, redis, local, market, request, served, outages>>
  <1>1. /\ tick < Len(Moments) /\ tick' = tick + 1
        /\ UNCHANGED <<lastBar, lastFeature, redis, local, market, request, served, outages>>
        /\ dawns' = IF Today' = Today THEN dawns ELSE [dawns EXCEPT ![Today'] = lastBar]
    BY DEF TimePasses
  <1>2. tick \in 1..Len(Moments) /\ tick \in 1..(Len(Moments) - 1) /\ tick' \in 1..Len(Moments)
    BY <1>1, Ranges DEF Typed
  <1>3. Moments[tick] < Moments[tick + 1] /\ Moments[tick] \in Nat /\ Moments[tick + 1] \in Nat
    BY <1>1, <1>2, Ranges
  <1>4. Now = Moments[tick] /\ Now' = Moments[tick + 1]
    BY <1>1 DEF Now
  <1>5. Now <= Now' /\ DayOf(Now) <= DayOf(Moments[tick + 1])
    BY <1>3, <1>4, ClockIsMonotone
  <1>6. Today = DayOf(Now) /\ Today' = DayOf(Moments[tick + 1])
    BY <1>4 DEF Today, DayOf
  <1>7. Now' \in Nat /\ Today' \in Nat /\ Today' <= LastDay /\ Today \in Nat /\ LastDay \in Nat
    BY <1>1, <1>2, <1>3, <1>4, <1>6, DaysOfMoments, NowFacts
  <1>8. /\ dawns \in [0..LastDay -> Int] /\ lastBar \in Int
    BY DEF Typed
  <1>9. /\ dawns' \in [0..LastDay -> Int]
        /\ \A d \in 0..LastDay : dawns'[d] = dawns[d] \/ dawns'[d] = lastBar
        /\ \A d \in 0..LastDay : d <= Today => dawns'[d] = dawns[d]
    <2>1. CASE Today' = Today
      BY <1>1, <1>8, <2>1
    <2>2. CASE Today' # Today
      <3>1. dawns' = [dawns EXCEPT ![Today'] = lastBar]
        BY <1>1, <2>2
      <3>2. \A d \in 0..LastDay : d <= Today => d # Today'
        BY <1>5, <1>6, <1>7, <2>2
      <3> QED
        BY <1>8, <3>1, <3>2
    <2> QED
      BY <2>1, <2>2
  <1> QED
    BY <1>1, <1>2, <1>5, <1>6, <1>7, <1>9

LEMMA RefreshBarsEffect ==
    ASSUME Typed, RefreshBars
    PROVE  /\ lastBar' \in Nat /\ lastBar < lastBar' /\ lastBar' <= Today
           /\ UNCHANGED <<tick, lastFeature, redis, local, market, request, served, dawns, outages>>
  <1>1. /\ TradingDays(lastBar + 1, Today) # {}
        /\ lastBar' = LastTradingDay(lastBar + 1, Today)
        /\ UNCHANGED <<tick, lastFeature, redis, local, market, request, served, dawns, outages>>
    BY DEF RefreshBars, LastTradingDay
  <1>2. lastBar \in Nat /\ lastBar + 1 \in Nat /\ Today \in Nat
    BY NowFacts DEF Typed
  <1>3. lastBar' \in Nat /\ lastBar + 1 <= lastBar' /\ lastBar' <= Today
    BY <1>1, <1>2, LastTradingDayIs
  <1> QED
    BY <1>1, <1>2, <1>3

LEMMA ScheduledPredictionEffect ==
    ASSUME Typed, ScheduledPrediction
    PROVE  /\ lastFeature' \in {lastFeature, lastBar} /\ outages' \in Nat /\ outages <= outages'
           /\ UNCHANGED <<tick, lastBar, redis, local, market, request, served, dawns>>
  <1>1. /\ \E got \in {Stored, Computed, NoRows} : LoadFeatures(got)
        /\ UNCHANGED <<tick, lastBar, redis, local, market, request, served, dawns>>
    BY DEF ScheduledPrediction
  <1> QED
    BY <1>1, LoadEffect

\* Redis fails, or returns with what it had.
LEMMA RedisEffect ==
    ASSUME Typed, RedisFails \/ RedisReturns
    PROVE  /\ redis' \in [up : BOOLEAN, entry : EntryType] /\ redis'.entry = redis.entry
           /\ outages' \in Nat /\ outages <= outages'
           /\ UNCHANGED <<tick, lastBar, lastFeature, local, market, request, served, dawns>>
  <1>1. redis \in [up : BOOLEAN, entry : EntryType] /\ outages \in Nat
    BY DEF Typed
  <1>2. CASE RedisFails
    <2>1. /\ redis' = [redis EXCEPT !.up = FALSE] /\ outages' = outages + 1
          /\ UNCHANGED <<tick, lastBar, lastFeature, local, market, request, served, dawns>>
      BY <1>2 DEF RedisFails
    <2>2. redis' \in [up : BOOLEAN, entry : EntryType] /\ redis'.entry = redis.entry
      BY <1>1, <2>1
    <2>3. outages' \in Nat /\ outages <= outages'
      BY <1>1, <2>1
    <2> QED
      BY <2>1, <2>2, <2>3
  <1>3. CASE RedisReturns
    <2>1. /\ redis' = [redis EXCEPT !.up = TRUE] /\ outages' = outages
          /\ UNCHANGED <<tick, lastBar, lastFeature, local, market, request, served, dawns>>
      BY <1>3 DEF RedisReturns
    <2>2. redis' \in [up : BOOLEAN, entry : EntryType] /\ redis'.entry = redis.entry
      BY <1>1, <2>1
    <2>3. outages' \in Nat /\ outages <= outages'
      BY <1>1, <2>1
    <2> QED
      BY <2>1, <2>2, <2>3
  <1> QED
    BY <1>2, <1>3

LEMMA RestartApiEffect ==
    ASSUME Typed, RestartApi
    PROVE  /\ local' = NoEntry /\ market' = NoMarket
           /\ request' \in [Requests -> RequestType] /\ \A r \in Requests : request'[r] = Waiting
           /\ UNCHANGED <<tick, lastBar, lastFeature, redis, served, dawns, outages>>
  BY WaitingFacts DEF RestartApi

-----------------------------------------------------------------------------
(* Types *)

LEMMA TypedStarts == Init => Typed
  <1> SUFFICES ASSUME Init PROVE Typed
    OBVIOUS
  <1>1. tick = 1 /\ tick \in 1..Len(Moments)
    BY Ranges DEF Init
  <1>2. /\ Now \in Nat /\ Today \in Nat /\ Today > WindowDays /\ WindowDays \in Nat
    BY <1>1, NowFacts, DaysOfMoments, Ranges DEF Init
  <1>3. lastBar = LastTradingDay(0, Today - 1)
    BY DEF Init, LastTradingDay
  <1>4. TradingDays(0, Today - 1) # {} /\ Today - 1 \in Nat
    <2>1. 0 % 7 = 0 /\ Today - 1 \in Nat
      BY <1>2
    <2>2. 0 \in TradingDays(0, Today - 1)
      BY <2>1 DEF TradingDays, Trading, Weekday
    <2> QED
      BY <2>1, <2>2
  <1>5. lastBar \in Nat /\ lastBar <= Today - 1
    BY <1>3, <1>4, LastTradingDayIs
  <1>6. lastFeature \in Nat /\ lastFeature <= lastBar
    <2>1. lastFeature = 0 \/ lastFeature \in TradingDays(Today - WindowDays, lastBar)
      BY DEF Init
    <2>2. Today - WindowDays \in Nat
      BY <1>2
    <2> QED
      BY <1>5, <2>1, <2>2 DEF TradingDays
  <1>7. /\ redis = [up |-> TRUE, entry |-> NoEntry] /\ local = NoEntry
        /\ market = NoMarket
        /\ request = [r \in Requests |-> Waiting]
        /\ served = [entry |-> NoEntry, at |-> 0, cached |-> FALSE]
        /\ dawns = [d \in 0..LastDay |-> IF d = Today THEN lastBar ELSE -1]
        /\ outages = 0
    BY DEF Init
  <1>8. /\ redis \in [up : BOOLEAN, entry : EntryType] /\ redis.entry = NoEntry
        /\ market \in MarketType
        /\ request \in [Requests -> RequestType]
        /\ served \in [entry : EntryType, at : Nat, cached : BOOLEAN]
        /\ served.entry = NoEntry /\ served.at = 0
    BY <1>2, <1>7, NoEntryFacts, MarketFacts, WaitingFacts
  <1>9. dawns \in [0..LastDay -> Int]
    BY <1>5, <1>7
  <1>10. \A r \in Requests : request[r].asked <= Now
    BY <1>2, <1>7, WaitingFacts
  <1> QED
    BY <1>1, <1>2, <1>5, <1>6, <1>7, <1>8, <1>9, <1>10, NoEntryFacts DEF Typed

\* A request that is somewhere else now was asked no later than now.
LEMMA AskedBefore ==
    ASSUME Typed, tick' = tick, NEW r \in Requests, NEW q \in RequestType, OnlyRequest(r, q),
           q.asked <= Now
    PROVE  /\ request' \in [Requests -> RequestType]
           /\ \A o \in Requests : request'[o].asked <= Now'
  <1>1. Now' = Now
    BY DEF Now
  <1> QED
    BY <1>1 DEF Typed, OnlyRequest

LEMMA TypedKept ==
    ASSUME Typed, [Next]_vars
    PROVE  Typed'
  <1>1. /\ Now \in Nat /\ Today \in Nat /\ Today <= LastDay /\ LastDay \in Nat
        /\ tick \in 1..Len(Moments)
    BY NowFacts DEF Typed
  <1>2. \A r \in Requests : Entry(r) \in EntryType /\ Entry(r).made = Now
    BY EntryFacts
  <1>3. ASSUME tick' = tick PROVE Now' = Now /\ Today' = Today
    BY <1>3 DEF Now, Today
  <1>4. CASE UNCHANGED vars
    BY <1>3, <1>4 DEF Typed, vars
  <1>5. ASSUME NEW r \in Requests, Ask(r) PROVE Typed'
    <2>1. tick' = tick /\ UNCHANGED <<lastBar, lastFeature, redis, local, market, dawns, outages>>
      BY <1>5, AskEffect
    <2>2. request' \in [Requests -> RequestType] /\ \A o \in Requests : request'[o].asked <= Now'
      <3>1. CASE request' = request
        BY <1>3, <2>1, <3>1 DEF Typed
      <3>2. CASE request' # request
        BY <1>1, <1>5, <2>1, <3>2, AskEffect, AskedBefore
      <3> QED
        BY <3>1, <3>2
    <2>3. CASE served' = served
      BY <1>3, <2>1, <2>2, <2>3 DEF Typed
    <2>4. CASE served' # served
      <3>1. PICK e \in {redis.entry, local} : served' = [entry |-> e, at |-> Now, cached |-> TRUE]
        BY <1>5, <2>4, AskEffect
      <3>2. e \in EntryType /\ e.made <= Now
        BY DEF Typed
      <3>3. /\ served' \in [entry : EntryType, at : Nat, cached : BOOLEAN]
            /\ served'.entry.made <= served'.at /\ served'.at <= Now
        BY <1>1, <3>1, <3>2
      <3> QED
        BY <1>3, <2>1, <2>2, <3>3 DEF Typed
    <2> QED
      BY <2>3, <2>4
  <1>6. ASSUME NEW r \in Requests, ReadFeatures(r) PROVE Typed'
    <2>1. /\ tick' = tick /\ lastFeature' \in {lastFeature, lastBar} /\ outages' \in Nat
          /\ UNCHANGED <<lastBar, redis, local, market, served, dawns>>
      BY <1>6, ReadFeaturesEffect
    <2>2. PICK q \in RequestType : OnlyRequest(r, q) /\ q.asked <= Now
      BY <1>1, <1>6, ReadFeaturesEffect, RequestIs, WaitingFacts
    <2>3. request' \in [Requests -> RequestType] /\ \A o \in Requests : request'[o].asked <= Now'
      BY <2>1, <2>2, AskedBefore
    <2> QED
      BY <1>3, <2>1, <2>3 DEF Typed
  <1>7. ASSUME NEW r \in Requests, ReadMarket(r) PROVE Typed'
    <2>1. tick' = tick /\ UNCHANGED <<lastBar, lastFeature, redis, local, market, served, dawns, outages>>
      BY <1>7, ReadMarketEffect
    <2>2. PICK q \in RequestType : OnlyRequest(r, q) /\ q.asked <= Now
      BY <1>7, ReadMarketEffect, RequestIs
    <2>3. request' \in [Requests -> RequestType] /\ \A o \in Requests : request'[o].asked <= Now'
      BY <2>1, <2>2, AskedBefore
    <2> QED
      BY <1>3, <2>1, <2>3 DEF Typed
  <1>8. ASSUME NEW r \in Requests, BuildMarket(r) PROVE Typed'
    <2>1. /\ tick' = tick /\ market' \in MarketType /\ outages' \in Nat
          /\ UNCHANGED <<lastBar, lastFeature, redis, local, served, dawns>>
      BY <1>8, BuildMarketEffect
    <2>2. PICK q \in RequestType : OnlyRequest(r, q) /\ q.asked <= Now
      BY <1>8, BuildMarketEffect, RequestIs
    <2>3. request' \in [Requests -> RequestType] /\ \A o \in Requests : request'[o].asked <= Now'
      BY <2>1, <2>2, AskedBefore
    <2> QED
      BY <1>3, <2>1, <2>3 DEF Typed
  <1>9. ASSUME NEW r \in Requests, ReadClose(r) PROVE Typed'
    <2>1. /\ tick' = tick /\ outages' \in Nat
          /\ UNCHANGED <<lastBar, lastFeature, redis, local, market, served, dawns>>
      BY <1>9, ReadCloseEffect
    <2>2. PICK q \in RequestType : OnlyRequest(r, q) /\ q.asked <= Now
      BY <1>9, ReadCloseEffect, RequestIs
    <2>3. request' \in [Requests -> RequestType] /\ \A o \in Requests : request'[o].asked <= Now'
      BY <2>1, <2>2, AskedBefore
    <2> QED
      BY <1>3, <2>1, <2>3 DEF Typed
  <1>10. ASSUME NEW r \in Requests, StoreAndAnswer(r) PROVE Typed'
    <2>1. /\ tick' = tick /\ redis' \in [up : BOOLEAN, entry : EntryType]
          /\ redis'.entry \in {redis.entry, Entry(r)} /\ local' \in {local, Entry(r)}
          /\ served' = [entry |-> Entry(r), at |-> Now, cached |-> FALSE]
          /\ OnlyRequest(r, Waiting)
          /\ UNCHANGED <<lastBar, lastFeature, market, dawns, outages>>
      BY <1>10, StoreAndAnswerEffect
    <2>2. request' \in [Requests -> RequestType] /\ \A o \in Requests : request'[o].asked <= Now'
      BY <1>1, <2>1, AskedBefore, WaitingFacts
    <2>3. /\ served' \in [entry : EntryType, at : Nat, cached : BOOLEAN]
          /\ served'.entry.made <= served'.at /\ served'.at <= Now
      BY <1>1, <1>2, <2>1
    <2>4. local' \in EntryType /\ redis'.entry.made <= Now /\ local'.made <= Now
      BY <1>1, <1>2, <2>1 DEF Typed
    <2> QED
      BY <1>3, <2>1, <2>2, <2>3, <2>4 DEF Typed
  <1>11. CASE TimePasses
    <2>1. /\ tick' \in 1..Len(Moments) /\ Now <= Now' /\ Today <= Today' /\ Now' \in Nat /\ Today' \in Nat
          /\ dawns' \in [0..LastDay -> Int]
          /\ UNCHANGED <<lastBar, lastFeature, redis, local, market, request, served, outages>>
      BY <1>11, TimePassesEffect
    <2>2. redis.entry.made \in Nat /\ local.made \in Nat /\ served.at \in Nat
      BY CachedIs
    <2>3. \A r \in Requests : request[r].asked \in Nat /\ request[r].asked <= Now
      BY RequestIs
    <2>4. \A r \in Requests : request'[r].asked <= Now'
      BY <1>1, <2>1, <2>3
    <2>5. lastBar <= Today' /\ redis.entry.made <= Now' /\ local.made <= Now' /\ served.at <= Now'
      <3>1. lastBar <= Today /\ lastBar \in Nat /\ redis.entry.made <= Now /\ local.made <= Now
            /\ served.at <= Now
        BY DEF Typed
      <3> QED
        BY <1>1, <2>1, <2>2, <3>1
    <2> QED
      BY <2>1, <2>4, <2>5 DEF Typed
  <1>12. CASE RefreshBars
    <2>1. /\ tick' = tick /\ lastBar' \in Nat /\ lastBar < lastBar' /\ lastBar' <= Today
          /\ UNCHANGED <<lastFeature, redis, local, market, request, served, dawns, outages>>
      BY <1>12, RefreshBarsEffect
    <2> QED
      BY <1>3, <2>1 DEF Typed
  <1>13. CASE ScheduledPrediction
    <2>1. /\ tick' = tick /\ lastFeature' \in {lastFeature, lastBar} /\ outages' \in Nat
          /\ UNCHANGED <<lastBar, redis, local, market, request, served, dawns>>
      BY <1>13, ScheduledPredictionEffect
    <2> QED
      BY <1>3, <2>1 DEF Typed
  <1>14. CASE RedisFails \/ RedisReturns
    <2>1. /\ tick' = tick /\ redis' \in [up : BOOLEAN, entry : EntryType] /\ redis'.entry = redis.entry
          /\ outages' \in Nat
          /\ UNCHANGED <<lastBar, lastFeature, local, market, request, served, dawns>>
      BY <1>14, RedisEffect
    <2> QED
      BY <1>3, <2>1 DEF Typed
  <1>15. CASE RestartApi
    <2>1. /\ tick' = tick /\ local' = NoEntry /\ market' = NoMarket
          /\ request' \in [Requests -> RequestType] /\ \A r \in Requests : request'[r] = Waiting
          /\ UNCHANGED <<lastBar, lastFeature, redis, served, dawns, outages>>
      BY <1>15, RestartApiEffect
    <2> QED
      BY <1>1, <1>3, <2>1, NoEntryFacts, MarketFacts, WaitingFacts DEF Typed
  <1> QED
    BY <1>4, <1>5, <1>6, <1>7, <1>8, <1>9, <1>10, <1>11, <1>12, <1>13, <1>14, <1>15 DEF Next

\* The stores, the caches and the requests keep their types, and nothing in them is
\* of a time to come.
THEOREM TypesHold == Spec => []Typed
  <1>1. Typed /\ [Next]_vars => Typed'
    BY TypedKept
  <1> QED
    BY <1>1, TypedStarts, PTL DEF Spec

-----------------------------------------------------------------------------
(* What a step does to the entries, the answers and the requests *)

LEMMA KeptStep ==
    ASSUME Typed, [Next]_vars, NEW e \in Kept'
    PROVE  e \in Kept \/ e = NoEntry \/ \E r \in Requests : request[r].at = "answer" /\ e = Entry(r)
  <1>1. e \in {redis'.entry, local', served'.entry}
    BY DEF Kept
  <1>2. CASE UNCHANGED vars
    BY <1>1, <1>2 DEF Kept, vars
  <1>3. ASSUME NEW r \in Requests, Ask(r) PROVE e \in Kept
    <2>1. redis' = redis /\ local' = local /\ served'.entry \in {served.entry, redis.entry, local}
      BY <1>3, AskEffect
    <2> QED
      BY <1>1, <2>1 DEF Kept
  <1>4. ASSUME NEW r \in Requests, ReadFeatures(r) \/ ReadMarket(r) \/ BuildMarket(r) \/ ReadClose(r)
        PROVE  e \in Kept
    <2>1. redis' = redis /\ local' = local /\ served' = served
      BY <1>4, ReadFeaturesEffect, ReadMarketEffect, BuildMarketEffect, ReadCloseEffect
    <2> QED
      BY <1>1, <2>1 DEF Kept
  <1>5. ASSUME NEW r \in Requests, StoreAndAnswer(r)
        PROVE  e \in Kept \/ (request[r].at = "answer" /\ e = Entry(r))
    <2>1. /\ request[r].at = "answer"
          /\ redis'.entry \in {redis.entry, Entry(r)} /\ local' \in {local, Entry(r)}
          /\ served'.entry = Entry(r)
      BY <1>5, StoreAndAnswerEffect
    <2> QED
      BY <1>1, <2>1 DEF Kept
  <1>6. CASE TimePasses \/ RefreshBars \/ ScheduledPrediction
    <2>1. redis' = redis /\ local' = local /\ served' = served
      BY <1>6, TimePassesEffect, RefreshBarsEffect, ScheduledPredictionEffect
    <2> QED
      BY <1>1, <2>1 DEF Kept
  <1>7. CASE RedisFails \/ RedisReturns
    BY <1>1, <1>7, RedisEffect DEF Kept
  <1>8. CASE RestartApi
    BY <1>1, <1>8, RestartApiEffect DEF Kept
  <1> QED
    BY <1>2, <1>3, <1>4, <1>5, <1>6, <1>7, <1>8 DEF Next

LEMMA ServedStep ==
    ASSUME Typed, [Next]_vars
    PROVE  \/ served' = served
           \/ ~served'.cached
           \/ served'.entry # NoEntry /\ served'.at <= served'.entry.expiry
  <1>1. CASE UNCHANGED vars
    BY <1>1 DEF vars
  <1>2. ASSUME NEW r \in Requests, Ask(r), served' # served
        PROVE  served'.entry # NoEntry /\ served'.at <= served'.entry.expiry
    BY <1>2, AskEffect
  <1>3. ASSUME NEW r \in Requests, ReadFeatures(r) \/ ReadMarket(r) \/ BuildMarket(r) \/ ReadClose(r)
        PROVE  served' = served
    BY <1>3, ReadFeaturesEffect, ReadMarketEffect, BuildMarketEffect, ReadCloseEffect
  <1>4. ASSUME NEW r \in Requests, StoreAndAnswer(r) PROVE ~served'.cached
    BY <1>4, StoreAndAnswerEffect
  <1>5. CASE TimePasses \/ RefreshBars \/ ScheduledPrediction \/ RedisFails \/ RedisReturns \/ RestartApi
    BY <1>5, TimePassesEffect, RefreshBarsEffect, ScheduledPredictionEffect, RedisEffect, RestartApiEffect
  <1> QED
    BY <1>1, <1>2, <1>3, <1>4, <1>5 DEF Next

\* The bars only grow, never beyond today, and so do the failures; time goes on.
LEMMA BarsStep ==
    ASSUME Typed, [Next]_vars
    PROVE  /\ lastBar \in Nat /\ lastBar' \in Nat /\ lastBar <= lastBar'
           /\ outages \in Nat /\ outages' \in Nat /\ outages <= outages'
           /\ Today \in Nat /\ Today' \in Nat /\ Today <= Today' /\ lastBar <= Today
           /\ \A d \in 0..LastDay : d <= Today => dawns'[d] = dawns[d]
           /\ \A d \in 0..LastDay : dawns'[d] = dawns[d] \/ dawns'[d] = lastBar
  <1>1. lastBar \in Nat /\ Today \in Nat /\ outages \in Nat /\ lastBar <= Today
    BY NowFacts DEF Typed
  <1>2. CASE RefreshBars
    <2>1. Today' = Today
      BY <1>2, RefreshBarsEffect DEF Today, Now
    <2> QED
      BY <1>1, <1>2, <2>1, RefreshBarsEffect
  <1>3. CASE TimePasses
    BY <1>1, <1>3, TimePassesEffect
  <1>4. ASSUME tick' = tick, lastBar' = lastBar, dawns' = dawns, outages' \in Nat, outages <= outages'
        PROVE  /\ lastBar' \in Nat /\ lastBar <= lastBar' /\ Today' \in Nat /\ Today <= Today'
               /\ \A d \in 0..LastDay : dawns'[d] = dawns[d]
    <2>1. Today' = Today
      BY <1>4 DEF Today, Now
    <2> QED
      BY <1>1, <1>4, <2>1
  <1>5. CASE UNCHANGED vars
    BY <1>1, <1>4, <1>5 DEF vars
  <1>6. ASSUME NEW r \in Requests,
               Ask(r) \/ ReadFeatures(r) \/ ReadMarket(r) \/ BuildMarket(r) \/ ReadClose(r) \/ StoreAndAnswer(r)
        PROVE  tick' = tick /\ lastBar' = lastBar /\ dawns' = dawns /\ outages' \in Nat /\ outages <= outages'
    BY <1>1, <1>6, AskEffect, ReadFeaturesEffect, ReadMarketEffect, BuildMarketEffect, ReadCloseEffect,
       StoreAndAnswerEffect
  <1>7. CASE ScheduledPrediction \/ RedisFails \/ RedisReturns \/ RestartApi
    <2>1. tick' = tick /\ lastBar' = lastBar /\ dawns' = dawns /\ outages' \in Nat /\ outages <= outages'
      BY <1>1, <1>7, ScheduledPredictionEffect, RedisEffect, RestartApiEffect
    <2> QED
      BY <1>1, <1>4, <2>1
  <1> QED
    BY <1>1, <1>2, <1>3, <1>4, <1>5, <1>6, <1>7 DEF Next

\* A request stays where it is, begins or ends, or reads one thing more.
Stays(r) == request'[r] = request[r]
BeginsOrEnds(r) == request'[r].at \in {"idle", "features"}
SameFeatures(r) ==
    /\ request'[r].asked = request[r].asked /\ request'[r].features = request[r].features
    /\ request'[r].rows = request[r].rows
GotFeatures(r) ==
    /\ request'[r].at = "market" /\ request'[r].asked = request[r].asked
    /\ request'[r].rows # 0 /\ request'[r].features \in Nat /\ request'[r].features <= lastBar
    /\ \/ request'[r].features = lastFeature /\ request'[r].rows <= StoredRows
       \/ request'[r].features = lastBar /\ request'[r].rows = SequenceRows
    /\ request'[r].rows < SequenceRows => outages' > 0
GotMarket(r) ==
    /\ request[r].at = "market" /\ request'[r].at = "close" /\ SameFeatures(r)
    /\ request'[r].regime = market /\ market.day = Today
Builds(r) ==
    /\ request[r].at = "market" /\ request'[r].at = "build" /\ SameFeatures(r)
    /\ request'[r].regime.day = Today
Built(r) ==
    /\ request[r].at = "build" /\ request'[r].at = "close" /\ SameFeatures(r)
    /\ request'[r].regime = market' /\ market'.day = request[r].regime.day
    /\ market'.bar \in {lastBar, -1}
GotClose(r) ==
    /\ request[r].at = "close" /\ request'[r].at = "answer" /\ SameFeatures(r)
    /\ request'[r].regime = request[r].regime
    /\ request'[r].close \in {lastBar, -1}

LEMMA RequestStep ==
    ASSUME Typed, [Next]_vars, NEW r \in Requests
    PROVE  \/ Stays(r) \/ BeginsOrEnds(r)
           \/ /\ tick' = tick /\ lastBar' = lastBar /\ dawns' = dawns
              /\ GotFeatures(r) \/ GotMarket(r) \/ Builds(r) \/ Built(r) \/ GotClose(r)
  <1>1. ASSUME request' = request PROVE Stays(r)
    BY <1>1 DEF Stays
  <1>2. ASSUME NEW o \in Requests, NEW q, OnlyRequest(o, q)
        PROVE  request'[o] = q /\ (o # r => Stays(r))
    BY <1>2 DEF OnlyRequest, Stays
  <1>3. CASE UNCHANGED vars
    BY <1>1, <1>3 DEF vars
  <1>4. ASSUME NEW o \in Requests, Ask(o) PROVE Stays(r) \/ BeginsOrEnds(r)
    <2>1. CASE request' = request
      BY <1>1, <2>1
    <2>2. CASE request' # request
      <3>1. PICK q \in RequestType : OnlyRequest(o, q) /\ q.at = "features"
        BY <1>4, <2>2, AskEffect
      <3> QED
        BY <1>2, <3>1 DEF BeginsOrEnds
    <2> QED
      BY <2>1, <2>2
  <1>5. ASSUME NEW o \in Requests, ReadFeatures(o)
        PROVE  \/ Stays(r) \/ BeginsOrEnds(r)
               \/ tick' = tick /\ lastBar' = lastBar /\ dawns' = dawns /\ GotFeatures(r)
    <2>1. tick' = tick /\ lastBar' = lastBar /\ dawns' = dawns
      BY <1>5, ReadFeaturesEffect
    <2>2. CASE OnlyRequest(o, Waiting)
      BY <1>2, <2>2, WaitingFacts DEF BeginsOrEnds
    <2>3. CASE ~OnlyRequest(o, Waiting)
      <3>1. PICK q \in RequestType :
               /\ OnlyRequest(o, q) /\ q.at = "market" /\ q.asked = request[o].asked
               /\ q.rows # 0 /\ q.features \in Nat /\ q.features <= lastBar
               /\ \/ q.features = lastFeature /\ q.rows <= StoredRows
                  \/ q.features = lastBar /\ q.rows = SequenceRows
               /\ q.rows < SequenceRows => outages' > 0
        BY <1>5, <2>3, ReadFeaturesEffect
      <3> QED
        BY <1>2, <2>1, <3>1 DEF GotFeatures
    <2> QED
      BY <2>2, <2>3
  <1>6. ASSUME NEW o \in Requests, ReadMarket(o)
        PROVE  \/ Stays(r)
               \/ tick' = tick /\ lastBar' = lastBar /\ dawns' = dawns /\ (GotMarket(r) \/ Builds(r))
    <2>1. tick' = tick /\ lastBar' = lastBar /\ dawns' = dawns /\ request[o].at = "market"
      BY <1>6, ReadMarketEffect
    <2>2. PICK q \in RequestType :
             /\ OnlyRequest(o, q) /\ q.features = request[o].features /\ q.rows = request[o].rows
             /\ q.asked = request[o].asked
             /\ \/ q.at = "close" /\ q.regime = market /\ market.day = Today
                \/ q.at = "build" /\ q.regime.day = Today
      BY <1>6, ReadMarketEffect
    <2> QED
      BY <1>2, <2>1, <2>2 DEF GotMarket, Builds, SameFeatures
  <1>7. ASSUME NEW o \in Requests, BuildMarket(o)
        PROVE  Stays(r) \/ (tick' = tick /\ lastBar' = lastBar /\ dawns' = dawns /\ Built(r))
    <2>1. /\ tick' = tick /\ lastBar' = lastBar /\ dawns' = dawns /\ request[o].at = "build"
          /\ market'.day = request[o].regime.day /\ market'.bar \in {lastBar, -1}
      BY <1>7, BuildMarketEffect
    <2>2. PICK q \in RequestType :
             /\ OnlyRequest(o, q) /\ q.at = "close" /\ q.regime = market'
             /\ q.features = request[o].features /\ q.rows = request[o].rows
             /\ q.asked = request[o].asked
      BY <1>7, BuildMarketEffect
    <2> QED
      BY <1>2, <2>1, <2>2 DEF Built, SameFeatures
  <1>8. ASSUME NEW o \in Requests, ReadClose(o)
        PROVE  Stays(r) \/ (tick' = tick /\ lastBar' = lastBar /\ dawns' = dawns /\ GotClose(r))
    <2>1. tick' = tick /\ lastBar' = lastBar /\ dawns' = dawns /\ request[o].at = "close"
      BY <1>8, ReadCloseEffect
    <2>2. PICK q \in RequestType :
             /\ OnlyRequest(o, q) /\ q.at = "answer" /\ q.close \in {lastBar, -1}
             /\ q.features = request[o].features /\ q.rows = request[o].rows
             /\ q.regime = request[o].regime /\ q.asked = request[o].asked
      BY <1>8, ReadCloseEffect
    <2> QED
      BY <1>2, <2>1, <2>2 DEF GotClose, SameFeatures
  <1>9. ASSUME NEW o \in Requests, StoreAndAnswer(o) PROVE Stays(r) \/ BeginsOrEnds(r)
    BY <1>2, <1>9, StoreAndAnswerEffect, WaitingFacts DEF BeginsOrEnds
  <1>10. CASE TimePasses \/ RefreshBars \/ ScheduledPrediction \/ RedisFails \/ RedisReturns
    BY <1>1, <1>10, TimePassesEffect, RefreshBarsEffect, ScheduledPredictionEffect, RedisEffect
  <1>11. CASE RestartApi
    BY <1>11, RestartApiEffect, WaitingFacts DEF BeginsOrEnds
  <1> QED
    BY <1>3, <1>4, <1>5, <1>6, <1>7, <1>8, <1>9, <1>10, <1>11 DEF Next


\* The market features kept stay, are lost, or are those a request has built.
LEMMA MarketStep ==
    ASSUME Typed, [Next]_vars
    PROVE  \/ market' = market
           \/ market' = NoMarket
           \/ \E r \in Requests : /\ request[r].at = "build" /\ market'.day = request[r].regime.day
                                  /\ market'.bar \in {lastBar, -1}
  <1>1. CASE UNCHANGED vars
    BY <1>1 DEF vars
  <1>2. ASSUME NEW r \in Requests,
               Ask(r) \/ ReadFeatures(r) \/ ReadMarket(r) \/ ReadClose(r) \/ StoreAndAnswer(r)
        PROVE  market' = market
    BY <1>2, AskEffect, ReadFeaturesEffect, ReadMarketEffect, ReadCloseEffect, StoreAndAnswerEffect
  <1>3. ASSUME NEW r \in Requests, BuildMarket(r)
        PROVE  /\ request[r].at = "build" /\ market'.day = request[r].regime.day
               /\ market'.bar \in {lastBar, -1}
    BY <1>3, BuildMarketEffect
  <1>4. CASE TimePasses \/ RefreshBars \/ ScheduledPrediction \/ RedisFails \/ RedisReturns
    BY <1>4, TimePassesEffect, RefreshBarsEffect, ScheduledPredictionEffect, RedisEffect
  <1>5. CASE RestartApi
    BY <1>5, RestartApiEffect
  <1> QED
    BY <1>1, <1>2, <1>3, <1>4, <1>5 DEF Next

-----------------------------------------------------------------------------
(* Answers of their day *)

\* What rested on all the bars of the dawn of its day still does.
LEMMA RestsOnStill ==
    ASSUME Typed, [Next]_vars, NEW m, m.day \in -1..LastDay, m.bar \in -1..LastDay,
           NEW from \in Nat, NEW to \in Nat, NEW until \in Nat, to <= Today, to <= until,
           RestsOnItsDay(m, from, to)
    PROVE  m.bar # -1 => m.day \in from..until /\ dawns'[m.day] <= m.bar
  <1> SUFFICES ASSUME m.bar # -1
               PROVE  m.day \in from..until /\ dawns'[m.day] <= m.bar
    OBVIOUS
  <1>1. m.day \in from..to /\ dawns[m.day] <= m.bar
    BY DEF RestsOnItsDay
  <1>2. LastDay \in Nat /\ Today \in Nat
    BY NowFacts DEF Typed
  <1>3. m.day \in from..until /\ m.day \in 0..LastDay /\ m.day <= Today
    BY <1>1, <1>2
  <1>4. dawns'[m.day] = dawns[m.day]
    BY <1>3, BarsStep
  <1> QED
    BY <1>1, <1>3, <1>4

LEMMA DayKept ==
    ASSUME Typed, OfTheirDay, [Next]_vars
    PROVE  OfTheirDay'
  <1>1. /\ lastBar \in Nat /\ lastBar' \in Nat /\ lastBar <= lastBar'
        /\ Today \in Nat /\ Today' \in Nat /\ Today <= Today' /\ LastDay \in Nat /\ Today <= LastDay
        /\ \A d \in 0..LastDay : d <= Today => dawns'[d] = dawns[d]
        /\ \A d \in 0..LastDay : dawns'[d] = dawns[d] \/ dawns'[d] = lastBar
    BY BarsStep, NowFacts DEF Typed
  <1>2. \A d \in 0..LastDay : dawns[d] \in Int /\ dawns[d] <= lastBar
    BY DEF Typed, OfTheirDay
  <1>3. \A d \in 0..LastDay : dawns'[d] <= lastBar'
    BY <1>1, <1>2
  <1>4. \A r \in Requests : DayOf(request[r].asked) \in Nat /\ DayOf(request[r].asked) <= Today
    <2>1. ASSUME NEW r \in Requests
          PROVE  DayOf(request[r].asked) \in Nat /\ DayOf(request[r].asked) <= Today
      <3>1. request[r].asked \in Nat /\ request[r].asked <= Now /\ tick \in 1..Len(Moments)
        BY RequestIs DEF Typed
      <3> QED
        BY <3>1, PastDay
    <2> QED
      BY <2>1
  <1>5. RestsOnItsDay(market, 0, Today)' /\ market'.bar <= lastBar'
    <2>1. market.day \in -1..LastDay /\ market.bar \in -1..LastDay
      BY DEF Typed, MarketType
    <2>2. CASE market' = market
      <3>1. market.bar # -1 => market.day \in 0..Today' /\ dawns'[market.day] <= market.bar
        BY <1>1, <2>1, RestsOnStill DEF OfTheirDay
      <3>2. market.bar <= lastBar
        BY DEF OfTheirDay
      <3>3. market'.bar <= lastBar'
        BY <1>1, <2>1, <2>2, <3>2
      <3> QED
        BY <2>2, <3>1, <3>3 DEF RestsOnItsDay
    <2>3. CASE market' = NoMarket
      BY <1>1, <2>3, MarketFacts DEF RestsOnItsDay
    <2>4. ASSUME NEW r \in Requests, request[r].at = "build", market'.day = request[r].regime.day,
                 market'.bar \in {lastBar, -1}
          PROVE  RestsOnItsDay(market, 0, Today)' /\ market'.bar <= lastBar'
      <3>1. market'.day \in DayOf(request[r].asked)..Today
        BY <2>4 DEF OfTheirDay, RequestOfItsDay
      <3>2. market'.day \in 0..LastDay /\ market'.day \in 0..Today' /\ market'.day <= Today
        BY <1>1, <1>4, <3>1
      <3>3. dawns'[market'.day] <= lastBar
        BY <1>1, <1>2, <3>2
      <3> QED
        BY <1>1, <2>4, <3>2, <3>3 DEF RestsOnItsDay
    <2> QED
      BY <2>2, <2>3, <2>4, MarketStep
  <1>6. ASSUME NEW e \in Kept' PROVE EntryOfItsDay(e)'
    <2>1. CASE e \in Kept
      <3>1. /\ e.made \in Nat /\ e.made <= Now /\ e.asked \in Nat /\ Now \in Nat
            /\ e.regime.day \in -1..LastDay /\ e.regime.bar \in -1..LastDay
        BY <2>1, KeptIs, NowFacts DEF Typed
      <3>2. DayOf(e.made) \in Nat /\ DayOf(e.made) <= Today /\ DayOf(e.asked) \in Nat
        <4>1. tick \in 1..Len(Moments)
          BY DEF Typed
        <4>2. DayOf(e.asked) \in Nat
          BY <3>1 DEF DayOf
        <4> QED
          BY <3>1, <4>1, <4>2, PastDay
      <3>3. EntryOfItsDay(e)
        BY <2>1 DEF OfTheirDay
      <3>4. e.regime.bar # -1 => /\ e.regime.day \in DayOf(e.asked)..DayOf(e.made)
                                 /\ dawns'[e.regime.day] <= e.regime.bar
        BY <3>1, <3>2, <3>3, RestsOnStill DEF EntryOfItsDay
      <3> QED
        BY <3>3, <3>4 DEF EntryOfItsDay, RestsOnItsDay
    <2>2. CASE e = NoEntry
      BY <2>2, NoEntryFacts, MarketFacts DEF EntryOfItsDay, RestsOnItsDay
    <2>3. ASSUME NEW r \in Requests, request[r].at = "answer", e = Entry(r) PROVE EntryOfItsDay(e)'
      <3>1. RequestOfItsDay(request[r])
        BY DEF OfTheirDay
      <3>2. /\ e.features = request[r].features /\ e.regime = request[r].regime
            /\ e.close = request[r].close /\ e.asked = request[r].asked /\ DayOf(e.made) = Today
        BY <2>3, EntryFacts DEF Today
      <3>3. e.regime.day \in -1..LastDay /\ e.regime.bar \in -1..LastDay
        BY <3>2, RequestIs
      <3>4. RestsOnItsDay(e.regime, DayOf(e.asked), Today)
        BY <2>3, <3>1, <3>2 DEF RequestOfItsDay
      <3>5. DayOf(e.asked) \in Nat
        BY <1>4, <3>2
      <3>6. e.regime.bar # -1 => /\ e.regime.day \in DayOf(e.asked)..Today
                                 /\ dawns'[e.regime.day] <= e.regime.bar
        BY <1>1, <3>3, <3>4, <3>5, RestsOnStill
      <3>7. e.close # -1 => e.features <= e.close /\ e.regime.bar <= e.close
        BY <2>3, <3>1, <3>2 DEF RequestOfItsDay
      <3> QED
        BY <3>2, <3>6, <3>7 DEF EntryOfItsDay, RestsOnItsDay
    <2> QED
      BY <2>1, <2>2, <2>3, KeptStep
  <1>7. ASSUME NEW r \in Requests PROVE RequestOfItsDay(request[r])'
    <2> DEFINE asked == DayOf(request[r].asked)
    <2>1. /\ request[r].features \in Int /\ request[r].close \in Int /\ asked \in Nat
          /\ request[r].regime.day \in -1..LastDay /\ request[r].regime.bar \in -1..LastDay
          /\ lastFeature <= lastBar /\ lastFeature \in Nat /\ asked <= Today
      BY <1>4, RequestIs, DaysOfMoments DEF Typed
    <2>2. RequestOfItsDay(request[r])
      BY DEF OfTheirDay
    <2> HIDE DEF asked
    <2>3. CASE Stays(r)
      <3>1. request'[r] = request[r]
        BY <2>3 DEF Stays
      <3>2. request[r].at \in {"market", "build", "close", "answer"} => request[r].features <= lastBar'
        BY <1>1, <2>1, <2>2 DEF RequestOfItsDay
      <3>3. request[r].at = "build" => request[r].regime.day \in asked..Today'
        BY <1>1, <2>1, <2>2 DEF RequestOfItsDay, asked
      <3>4. request[r].at \in {"close", "answer"} =>
               /\ request[r].regime.bar # -1 =>
                     /\ request[r].regime.day \in asked..Today'
                     /\ dawns'[request[r].regime.day] <= request[r].regime.bar
               /\ request[r].regime.bar <= lastBar'
        <4> SUFFICES ASSUME request[r].at \in {"close", "answer"}
                     PROVE  /\ request[r].regime.bar # -1 =>
                                 /\ request[r].regime.day \in asked..Today'
                                 /\ dawns'[request[r].regime.day] <= request[r].regime.bar
                            /\ request[r].regime.bar <= lastBar'
          OBVIOUS
        <4>1. RestsOnItsDay(request[r].regime, asked, Today) /\ request[r].regime.bar <= lastBar
          BY <2>2 DEF RequestOfItsDay, asked
        <4>2. request[r].regime.bar # -1 =>
                     /\ request[r].regime.day \in asked..Today'
                     /\ dawns'[request[r].regime.day] <= request[r].regime.bar
          BY <1>1, <2>1, <4>1, RestsOnStill
        <4>3. request[r].regime.bar \in Int /\ request[r].regime.bar <= lastBar'
          BY <1>1, <2>1, <4>1
        <4> QED
          BY <4>2, <4>3
      <3> QED
        BY <2>2, <3>1, <3>2, <3>3, <3>4 DEF RequestOfItsDay, RestsOnItsDay, asked
    <2>4. CASE BeginsOrEnds(r)
      BY <2>4 DEF BeginsOrEnds, RequestOfItsDay
    <2>5. ASSUME tick' = tick, lastBar' = lastBar, dawns' = dawns PROVE Today' = Today
      BY <2>5 DEF Today, Now
    <2>6. CASE tick' = tick /\ lastBar' = lastBar /\ dawns' = dawns /\ GotFeatures(r)
      BY <2>1, <2>6 DEF GotFeatures, RequestOfItsDay
    <2>7. CASE tick' = tick /\ lastBar' = lastBar /\ dawns' = dawns /\ GotMarket(r)
      <3>1. RestsOnItsDay(market, asked, Today) /\ market.bar <= lastBar
        BY <1>1, <2>1, <2>7 DEF GotMarket, OfTheirDay, RestsOnItsDay
      <3> QED
        BY <2>2, <2>5, <2>7, <3>1 DEF GotMarket, SameFeatures, RequestOfItsDay, RestsOnItsDay, asked
    <2>8. CASE tick' = tick /\ lastBar' = lastBar /\ dawns' = dawns /\ Builds(r)
      <3>1. request'[r].regime.day \in asked..Today
        BY <1>1, <2>1, <2>8 DEF Builds
      <3> QED
        BY <2>2, <2>5, <2>8, <3>1 DEF Builds, SameFeatures, RequestOfItsDay, asked
    <2>9. CASE tick' = tick /\ lastBar' = lastBar /\ dawns' = dawns /\ Built(r)
      <3>1. market'.day \in asked..Today /\ market'.day \in 0..LastDay
        BY <1>1, <2>1, <2>2, <2>9 DEF Built, RequestOfItsDay, asked
      <3>2. dawns[market'.day] <= lastBar /\ market'.bar \in {lastBar, -1} /\ -1 <= lastBar
        BY <1>1, <1>2, <2>9, <3>1 DEF Built
      <3> QED
        BY <1>1, <2>2, <2>5, <2>9, <3>1, <3>2 DEF Built, SameFeatures, RequestOfItsDay, RestsOnItsDay, asked
    <2>10. CASE tick' = tick /\ lastBar' = lastBar /\ dawns' = dawns /\ GotClose(r)
      BY <2>1, <2>2, <2>5, <2>10 DEF GotClose, SameFeatures, RequestOfItsDay, RestsOnItsDay
    <2> QED
      BY <2>3, <2>4, <2>6, <2>7, <2>8, <2>9, <2>10, RequestStep
  <1> QED
    BY <1>3, <1>5, <1>6, <1>7 DEF OfTheirDay

LEMMA KeptStarts ==
    ASSUME Init
    PROVE  Kept = {NoEntry} /\ ~served.cached /\ \A r \in Requests : request[r] = Waiting
  BY DEF Init, Kept

\* No answer mixes days otherwise than by the evening's refresh, whatever is refreshed,
\* lost or restarted while a request waits, over midnight too: its price is not older than
\* its features or its market, which is of a day the request was on and has all the bars
\* that day began with.
THEOREM AnswersOfTheirDay == Spec => []AnswersAreOfTheirDay
  <1>1. Init => OfTheirDay
    <2> SUFFICES ASSUME Init PROVE OfTheirDay
      OBVIOUS
    <2>1. Typed
      BY TypedStarts
    <2>2. EntryOfItsDay(NoEntry) /\ RequestOfItsDay(Waiting) /\ RestsOnItsDay(NoMarket, 0, Today)
      BY NoEntryFacts, MarketFacts, WaitingFacts DEF EntryOfItsDay, RequestOfItsDay, RestsOnItsDay
    <2>3. market = NoMarket /\ lastBar \in Nat /\ market.bar <= lastBar
      BY <2>1, MarketFacts DEF Init, Typed
    <2>4. \A d \in 0..LastDay : dawns[d] <= lastBar
      BY <2>3 DEF Init
    <2> QED
      BY <2>2, <2>3, <2>4, KeptStarts DEF OfTheirDay
  <1>2. Typed /\ OfTheirDay /\ [Next]_vars => OfTheirDay'
    BY DayKept
  <1>3. Typed => TypeOK
    <2> SUFFICES ASSUME Typed PROVE TypeOK
      OBVIOUS
    <2>1. \A r \in Requests : request[r].at \in {"idle", "features", "market", "build", "close", "answer"}
      BY RequestIs DEF RequestType
    <2> QED
      BY <2>1, CachedIs DEF Typed, TypeOK
  <1>4. OfTheirDay => EntryPriceIsNewest /\ MarketIsOfItsDay
    BY DEF OfTheirDay, Kept, EntryOfItsDay, RestsOnItsDay, EntryPriceIsNewest, MarketIsOfItsDay
  <1>5. Typed /\ OfTheirDay => AnswersAreOfTheirDay
    BY <1>3, <1>4 DEF AnswersAreOfTheirDay
  <1> QED
    BY <1>1, <1>2, <1>5, TypesHold, PTL DEF Spec

-----------------------------------------------------------------------------
(* Lifetimes *)

LEMMA ExpiriesKept ==
    ASSUME Typed, ExpiryKept, [Next]_vars
    PROVE  ExpiryKept'
  <1>1. ASSUME NEW e \in Kept' PROVE Expires(e)
    <2>1. CASE e \in Kept
      BY <2>1 DEF ExpiryKept
    <2>2. CASE e = NoEntry
      BY <2>2 DEF Expires
    <2>3. ASSUME NEW r \in Requests, e = Entry(r) PROVE Expires(e)
      BY <2>3, EntryFacts DEF Expires
    <2> QED
      BY <2>1, <2>2, <2>3, KeptStep
  <1>2. served'.cached => served'.entry # NoEntry /\ served'.at <= served'.entry.expiry
    <2>1. CASE served' = served
      BY <2>1 DEF ExpiryKept
    <2>2. CASE served' # served
      BY <2>2, ServedStep
    <2> QED
      BY <2>1, <2>2
  <1> QED
    BY <1>1, <1>2 DEF ExpiryKept

\* Over an opening or a closing of the market, no prediction is served for longer
\* than the least lifetime, for any moments and from either level of the cache.
THEOREM ServedInGrace == Spec => []ServedWithinGrace
  <1>1. Init => ExpiryKept
    BY KeptStarts DEF ExpiryKept, Expires
  <1>2. Typed /\ ExpiryKept /\ [Next]_vars => ExpiryKept'
    BY ExpiriesKept
  <1>3. Typed /\ ExpiryKept => ServedWithinGrace
    <2> SUFFICES ASSUME Typed, ExpiryKept, served.cached, NEW b \in Boundaries,
                        served.entry.made < b, b < served.at
                 PROVE  served.at - b < MarketHoursTtl
      BY DEF ServedWithinGrace
    <2>1. PICK d \in TradingDays(0, Today), m \in {Open, Close} : b = 1440 * d + m
      BY DEF Boundaries
    <2>2. d \in Nat /\ Trading(d)
      BY <2>1 DEF TradingDays
    <2> DEFINE t == served.entry.made
               now == served.at
    <2>3. t \in Nat /\ now \in Nat
      BY CachedIs
    <2>4. served.entry.expiry = t + ComputeTtl(t) /\ now <= served.entry.expiry
      BY DEF ExpiryKept, Expires, Kept
    <2>5. now <= t + ComputeTtl(t) /\ t < 1440 * d + m /\ 1440 * d + m < now
      BY <2>1, <2>4
    <2> HIDE DEF t, now
    <2>6. now - (1440 * d + m) < MarketHoursTtl
      BY <2>1, <2>2, <2>3, <2>5, GraceIsShort
    <2> QED
      BY <2>1, <2>6 DEF now
  <1> QED
    BY <1>1, <1>2, <1>3, TypesHold, PTL DEF Spec

-----------------------------------------------------------------------------
(* The age of the features *)

\* From stored rows: the days after the last are days of the window without a row.
LEMMA StoredReach ==
    ASSUME NEW a \in Int, NEW f \in Int, NEW c \in Int, NEW m \in Int, f <= m, c <= m,
           NEW rows \in Nat, rows # 0, rows <= DaysBetween(a, f)
    PROVE  DaysBetween(f + 1, c) + rows <= DaysBetween(a, m)
  <1> DEFINE before == TradingDays(a, f)
             after == TradingDays(f + 1, c)
             all == TradingDays(a, m)
  <1>1. f + 1 \in Int
    OBVIOUS
  <1>2. /\ IsFiniteSet(before) /\ Cardinality(before) \in Nat
        /\ before = {d \in Int : a <= d /\ d <= f /\ Trading(d)}
        /\ IsFiniteSet(after) /\ Cardinality(after) \in Nat
        /\ after = {d \in Int : f + 1 <= d /\ d <= c /\ Trading(d)}
        /\ IsFiniteSet(all) /\ Cardinality(all) \in Nat
        /\ all = {d \in Int : a <= d /\ d <= m /\ Trading(d)}
    BY <1>1, TradingDaysFinite
  <1>3. before # {}
    <2>1. Cardinality(before) # 0
      BY <1>2 DEF DaysBetween
    <2> QED
      BY <2>1, FS_EmptySet
  <1>4. a <= f
    BY <1>2, <1>3
  <1>5. before \subseteq all /\ after \subseteq all /\ before \cap after = {}
    BY <1>2, <1>4
  <1> HIDE DEF before, after, all
  <1>6. /\ IsFiniteSet(before \union after)
        /\ Cardinality(before \union after) = Cardinality(before) + Cardinality(after)
    <2>1. Cardinality(before \cap after) = 0
      BY <1>5, FS_EmptySet
    <2> QED
      BY <1>2, <2>1, FS_Union
  <1>7. Cardinality(before \union after) <= Cardinality(all)
    <2>1. before \union after \subseteq all
      BY <1>5
    <2> QED
      BY <1>2, <2>1, FS_Subset
  <1>8. rows <= Cardinality(before)
    BY DEF DaysBetween, before
  <1>9. Cardinality(after) + rows <= Cardinality(all)
    BY <1>2, <1>6, <1>7, <1>8
  <1> QED
    BY <1>9 DEF DaysBetween, after, all

\* From the bars: those stored since the first moment are of the model's days, which are
\* to spare.
LEMMA ComputedReach ==
    ASSUME NEW a \in Int, NEW f \in Int, NEW c \in Int, NEW i \in 1..Len(Moments),
           a <= DayOf(Moments[i]), c <= DayOf(Moments[i]), UpToDate(f)
    PROVE  DaysBetween(f + 1, c) + SequenceRows <= DaysBetween(a - WindowDays, DayOf(Moments[i]))
  <1> DEFINE first == DayOf(Moments[1])
             m == DayOf(Moments[i])
  <1>1. /\ first \in Int /\ m \in Int /\ f + 1 \in Int /\ first - 1 \in Int /\ WindowDays \in Int
        /\ a - WindowDays \in Int /\ m - WindowDays \in Int /\ SequenceRows \in Int
        /\ a - WindowDays <= m - WindowDays
    BY DaysOfMoments, Ranges
  <1>2. TradingDays(f + 1, first - 1) = {}
    BY DEF UpToDate
  <1>3. DaysBetween(m - WindowDays, m) >= SequenceRows + DaysBetween(first, m)
    BY Ranges, SpanAssumption
  <1>4. c <= m
    OBVIOUS
  <1> HIDE DEF first, m
  <1>5. TradingDays(f + 1, c) \subseteq TradingDays(first, m)
    <2>1. /\ TradingDays(f + 1, first - 1) = {d \in Int : f + 1 <= d /\ d <= first - 1 /\ Trading(d)}
          /\ TradingDays(f + 1, c) = {d \in Int : f + 1 <= d /\ d <= c /\ Trading(d)}
          /\ TradingDays(first, m) = {d \in Int : first <= d /\ d <= m /\ Trading(d)}
      BY <1>1, TradingDaysFinite
    <2>2. \A d \in Int : d <= c => d <= m /\ (d <= first - 1 \/ first <= d)
      BY <1>1, <1>4
    <2> QED
      BY <1>2, <2>1, <2>2
  <1>6. /\ IsFiniteSet(TradingDays(first, m)) /\ Cardinality(TradingDays(first, m)) \in Nat
        /\ Cardinality(TradingDays(f + 1, c)) \in Nat
        /\ Cardinality(TradingDays(m - WindowDays, m)) \in Nat
        /\ Cardinality(TradingDays(a - WindowDays, m)) \in Nat
    BY <1>1, TradingDaysFinite
  <1>7. Cardinality(TradingDays(f + 1, c)) <= Cardinality(TradingDays(first, m))
    BY <1>5, <1>6, FS_Subset
  <1>8. Cardinality(TradingDays(m - WindowDays, m)) <= Cardinality(TradingDays(a - WindowDays, m))
    BY <1>1, FewerTradingDays
  <1>9. DaysBetween(f + 1, c) + SequenceRows <= DaysBetween(a - WindowDays, m)
    BY <1>1, <1>3, <1>6, <1>7, <1>8 DEF DaysBetween
  <1> QED
    BY <1>9 DEF m

LEMMA LagsKept ==
    ASSUME Typed, LagKept, [Next]_vars
    PROVE  LagKept'
  <1>1. /\ lastBar \in Nat /\ lastBar' \in Nat /\ lastBar <= lastBar' /\ lastBar <= Today
        /\ Today \in Nat /\ UpToDate(lastBar) /\ outages \in Nat /\ outages' \in Nat
        /\ outages <= outages'
    BY BarsStep DEF LagKept
  <1>2. UpToDate(lastBar')
    <2> DEFINE to == DayOf(Moments[1]) - 1
    <2>1. to \in Int /\ lastBar + 1 \in Int /\ lastBar' + 1 \in Int
      BY <1>1, DaysOfMoments
    <2> HIDE DEF to
    <2>2. /\ TradingDays(lastBar + 1, to) = {d \in Int : lastBar + 1 <= d /\ d <= to /\ Trading(d)}
          /\ TradingDays(lastBar' + 1, to) = {d \in Int : lastBar' + 1 <= d /\ d <= to /\ Trading(d)}
      BY <2>1, TradingDaysFinite
    <2>3. TradingDays(lastBar + 1, to) = {}
      BY <1>1 DEF UpToDate, to
    <2>4. \A d \in Int : lastBar' + 1 <= d => lastBar + 1 <= d
      <3>1. \A a, b, d \in Int : a <= b /\ b + 1 <= d => a + 1 <= d
        OBVIOUS
      <3>2. lastBar \in Int /\ lastBar' \in Int /\ lastBar <= lastBar'
        BY <1>1
      <3> QED
        BY <3>1, <3>2
    <2>5. TradingDays(lastBar' + 1, to) = {}
      BY <2>2, <2>3, <2>4
    <2> QED
      BY <2>5 DEF UpToDate, to
  <1>3. ASSUME NEW e \in Kept' PROVE EntryReaches(e)'
    <2>1. CASE e \in Kept
      <3>1. EntryReaches(e)
        BY <2>1 DEF LagKept
      <3> QED
        BY <1>1, <3>1 DEF EntryReaches, Reaches, UpToDate
    <2>2. CASE e = NoEntry
      BY <2>2 DEF EntryReaches
    <2>3. ASSUME NEW r \in Requests, request[r].at = "answer", e = Entry(r) PROVE EntryReaches(e)'
      <3>1. /\ request[r].features <= lastBar /\ Reaches(request[r]) /\ request[r].close <= lastBar
        BY <2>3 DEF LagKept, RequestReaches
      <3>2. /\ e.features = request[r].features /\ e.rows = request[r].rows
            /\ e.close = request[r].close /\ e.asked = request[r].asked /\ e.made = Now
            /\ e.asked <= e.made /\ DayOf(e.made) = Today
        BY <2>3, EntryFacts, RequestIs DEF Today
      <3>3. \E i \in 1..Len(Moments) : e.made = Moments[i]
        BY <3>2 DEF Typed, Now
      <3>4. request[r].features \in Int /\ request[r].close \in Int
        BY RequestIs, DaysOfMoments
      <3>5. e.features <= DayOf(e.made) /\ e.close <= DayOf(e.made)
        BY <1>1, <3>1, <3>2, <3>4
      <3> QED
        BY <1>1, <3>1, <3>2, <3>3, <3>5 DEF EntryReaches, Reaches, UpToDate
    <2> QED
      BY <2>1, <2>2, <2>3, KeptStep
  <1>4. ASSUME NEW r \in Requests PROVE RequestReaches(request[r])'
    <2>1. RequestReaches(request[r]) /\ request[r].features \in Int /\ request[r].close \in Int
      BY RequestIs, DaysOfMoments DEF LagKept
    <2>2. CASE Stays(r)
      BY <1>1, <2>1, <2>2 DEF Stays, RequestReaches, Reaches, UpToDate
    <2>3. CASE BeginsOrEnds(r)
      BY <2>3 DEF BeginsOrEnds, RequestReaches
    <2>4. CASE lastBar' = lastBar /\ GotFeatures(r)
      <3> DEFINE q == request'[r]
                 asked == DayOf(request[r].asked)
      <3>1. /\ q.at = "market" /\ q.asked = request[r].asked /\ q.rows # 0
            /\ q.features \in Nat /\ q.features <= lastBar
            /\ \/ q.features = lastFeature /\ q.rows <= StoredRows
               \/ q.features = lastBar /\ q.rows = SequenceRows
            /\ q.rows < SequenceRows => outages' > 0
        BY <2>4 DEF GotFeatures
      <3>2. CASE q.features = lastBar /\ q.rows = SequenceRows
        BY <1>1, <2>4, <3>1, <3>2 DEF RequestReaches, Reaches, UpToDate
      <3>3. CASE q.features = lastFeature /\ q.rows <= StoredRows
        <4>1. /\ asked \in Int /\ asked <= Today /\ WindowDays \in Int /\ lastFeature \in Int
          <5>1. request[r].asked \in Nat /\ request[r].asked <= Now /\ tick \in 1..Len(Moments)
            BY RequestIs DEF Typed
          <5>2. asked \in Nat /\ asked <= Today
            BY <5>1, PastDay
          <5> QED
            BY <5>2, Ranges DEF Typed
        <4> HIDE DEF asked
        <4>2. /\ asked - WindowDays \in Int /\ Today - WindowDays \in Int
              /\ asked - WindowDays <= Today - WindowDays
          BY <1>1, <4>1
        <4>3. Cardinality(TradingDays(Today - WindowDays, lastFeature))
                 <= Cardinality(TradingDays(asked - WindowDays, lastFeature))
          BY <4>1, <4>2, FewerTradingDays
        <4>4. /\ StoredRows \in Nat
              /\ StoredRows = Cardinality(TradingDays(Today - WindowDays, lastFeature))
              /\ Cardinality(TradingDays(asked - WindowDays, lastFeature)) \in Nat
          BY <4>1, <4>2, StoredAre, TradingDaysFinite DEF DaysBetween
        <4>5. q.rows \in Nat
          BY TypedKept, RequestIs, Ranges DEF Typed, RequestType
        <4>6. q.rows <= DaysBetween(asked - WindowDays, q.features)
          BY <3>3, <4>3, <4>4, <4>5 DEF DaysBetween
        <4> QED
          BY <2>4, <3>1, <4>6 DEF RequestReaches, Reaches, asked
      <3> QED
        BY <3>1, <3>2, <3>3
    <2>5. CASE lastBar' = lastBar /\ (GotMarket(r) \/ Builds(r) \/ Built(r) \/ GotClose(r))
      <3>1. /\ request[r].at \in {"market", "build", "close"} /\ SameFeatures(r)
            /\ request'[r].at = "answer" => request'[r].close \in {lastBar, -1}
        BY <2>5 DEF GotMarket, Builds, Built, GotClose
      <3>2. request[r].features <= lastBar /\ Reaches(request[r])
        BY <2>1, <3>1 DEF RequestReaches
      <3> QED
        BY <1>1, <2>5, <3>1, <3>2 DEF SameFeatures, RequestReaches, Reaches, UpToDate
    <2> QED
      BY <2>2, <2>3, <2>4, <2>5, RequestStep
  <1> QED
    BY <1>2, <1>3, <1>4 DEF LagKept

\* The features behind an answer end no further before its price than its rows leave of the
\* search window, however long the store lags and whenever the refresh comes, also when
\* too few of them are served because something failed.
THEOREM LagIsBounded == Spec => []FeatureLagBounded
  <1>1. Init => LagKept
    <2> SUFFICES ASSUME Init PROVE LagKept
      OBVIOUS
    <2>1. Typed /\ tick = 1
      BY TypedStarts DEF Init
    <2>2. Today = DayOf(Moments[1]) /\ Today - 1 \in Nat
      <3>1. Today = DayOf(Moments[1])
        BY <2>1 DEF Today, Now
      <3> QED
        BY <3>1, DaysOfMoments, Ranges
    <2>3. lastBar = LastTradingDay(0, Today - 1)
      BY DEF Init, LastTradingDay
    <2>4. lastBar \in Nat /\ lastBar + 1 \in Int /\ Today - 1 \in Int
      BY <2>1, <2>2 DEF Typed
    <2>5. TradingDays(lastBar + 1, Today - 1) = {}
      <3>1. TradingDays(lastBar + 1, Today - 1)
               = {d \in Int : lastBar + 1 <= d /\ d <= Today - 1 /\ Trading(d)}
        BY <2>4, TradingDaysFinite
      <3>2. TradingDays(0, Today - 1) = {d \in Int : 0 <= d /\ d <= Today - 1 /\ Trading(d)}
        <4>1. 0 \in Int
          OBVIOUS
        <4> QED
          BY <2>4, <4>1, TradingDaysFinite
      <3>3. ASSUME NEW d \in TradingDays(lastBar + 1, Today - 1) PROVE FALSE
        <4>1. d \in Int /\ lastBar + 1 <= d /\ d <= Today - 1 /\ Trading(d)
          BY <3>1
        <4>2. d \in TradingDays(0, Today - 1)
          BY <2>4, <3>2, <4>1
        <4>3. d <= lastBar
          BY <2>2, <2>3, <4>2, LastTradingDayIs
        <4> QED
          BY <2>4, <4>1, <4>3
      <3> QED
        BY <3>3
    <2>6. UpToDate(lastBar)
      BY <2>2, <2>5 DEF UpToDate
    <2>7. EntryReaches(NoEntry) /\ RequestReaches(Waiting)
      BY WaitingFacts DEF EntryReaches, RequestReaches
    <2> QED
      BY <2>6, <2>7, KeptStarts DEF LagKept
  <1>2. Typed /\ LagKept /\ [Next]_vars => LagKept'
    BY LagsKept
  <1>3. Typed /\ LagKept => FeatureLagBounded
    <2> SUFFICES ASSUME Typed, LagKept, served.entry # NoEntry
                 PROVE  LET e == served.entry
                        IN /\ DaysBetween(e.features + 1, e.close) + e.rows
                                  <= DaysBetween(DayOf(e.asked) - WindowDays, DayOf(e.made))
                           /\ e.rows < SequenceRows => outages > 0
      BY DEF FeatureLagBounded
    <2> DEFINE e == served.entry
    <2>1. /\ Reaches(e) /\ e.asked <= e.made /\ e.features <= DayOf(e.made) /\ e.close <= DayOf(e.made)
          /\ \E i \in 1..Len(Moments) : e.made = Moments[i]
      <3>1. EntryReaches(e) /\ e # NoEntry
        BY DEF LagKept, Kept
      <3> HIDE DEF e
      <3> QED
        BY <3>1 DEF EntryReaches
    <2>2. /\ e.features \in Int /\ e.close \in Int /\ e.rows \in Nat /\ e.asked \in Nat /\ e.made \in Nat
      <3>1. e \in EntryType
        BY CachedIs
      <3>2. LastDay \in Nat /\ SequenceRows \in Nat
        BY DaysOfMoments, Ranges
      <3> HIDE DEF e
      <3> QED
        BY <3>1, <3>2 DEF EntryType
    <2>3. /\ DayOf(e.asked) \in Nat /\ DayOf(e.made) \in Nat /\ DayOf(e.asked) <= DayOf(e.made)
          /\ WindowDays \in Nat
      <3> HIDE DEF e
      <3>1. DayOf(e.asked) <= DayOf(e.made)
        BY <2>1, <2>2, ClockIsMonotone
      <3>2. DayOf(e.asked) \in Nat /\ DayOf(e.made) \in Nat
        BY <2>2 DEF DayOf
      <3> QED
        BY <3>1, <3>2, Ranges
    <2> HIDE DEF e
    <2>4. e.rows < SequenceRows => outages > 0
      BY <2>1 DEF Reaches
    <2>5. CASE e.rows <= DaysBetween(DayOf(e.asked) - WindowDays, e.features)
      <3>1. e.rows # 0 /\ DayOf(e.asked) - WindowDays \in Int /\ DayOf(e.made) \in Int
        BY <2>1, <2>3 DEF Reaches
      <3> QED
        BY <2>1, <2>2, <2>4, <2>5, <3>1, StoredReach DEF e
    <2>6. CASE UpToDate(e.features) /\ e.rows = SequenceRows
      <3>1. PICK i \in 1..Len(Moments) : e.made = Moments[i]
        BY <2>1
      <3>2. DayOf(e.asked) \in Int /\ DayOf(e.asked) <= DayOf(Moments[i]) /\ e.close <= DayOf(Moments[i])
        BY <2>1, <2>3, <3>1
      <3>3. DaysBetween(e.features + 1, e.close) + SequenceRows
               <= DaysBetween(DayOf(e.asked) - WindowDays, DayOf(Moments[i]))
        BY <2>2, <2>6, <3>2, ComputedReach
      <3> QED
        BY <2>4, <2>6, <3>1, <3>3 DEF e
    <2> QED
      BY <2>1, <2>5, <2>6 DEF Reaches
  <1> QED
    BY <1>1, <1>2, <1>3, TypesHold, PTL DEF Spec

=============================================================================
