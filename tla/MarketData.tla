------------------------------- MODULE MarketData -------------------------------
(****************************************************************************)
(* What the market tables are filled with: the point-in-time composition of *)
(* the index, the daily bars that a nightly refresh and the exchange's file *)
(* write in turn, and the running bar of the day.  A day is a trading day   *)
(* of the calendar; a price is its scale only, one before a split is        *)
(* SplitRatio times one after it.                                           *)
(****************************************************************************)
EXTENDS Integers, FiniteSets, FiniteSetsExt, Functions

CONSTANTS Members,        \* symbols that may be in the index
          FirstIndex,     \* its composition on day 0
          LastMarketDay, Lookback, SplitRatio,
          Quotes,         \* [high, low, last] as the live feed answers; 0 is missing
          MaxSaves, MaxPolls

ASSUME MarketAssumption ==
    /\ FirstIndex \subseteq Members
    /\ LastMarketDay \in Nat /\ Lookback \in Nat /\ SplitRatio \in Nat \ {0, 1}
    /\ \A q \in Quotes : q.high \in Nat /\ q.low \in Nat /\ q.last \in Nat

VARIABLES marketDay,
          index,            \* the composition
          constituents,     \* <<symbol, effective_from>> -> number of rows
          split,            \* day of the split, or beyond the last day
          bars,             \* <<form, day>> -> a row of daily_ohlcv
          tick, polled      \* intraday_ohlcv of the day, and the quotes stored

universeVars == <<index, constituents>>
barVars == <<split, bars>>
tickVars == <<tick, polled>>
marketVars == <<marketDay, universeVars, barVars, tickVars>>

MarketDays == 0..LastMarketDay

NextDay ==
    /\ marketDay < LastMarketDay /\ marketDay' = marketDay + 1
    /\ tick' = <<>> /\ polled' = {}
    /\ UNCHANGED <<universeVars, barVars>>

--------------------------------------------------------------------------------
(* The universe. *)

\* A rebalance of the index, outside the program.
Rebalance ==
    /\ \E leaver \in index, joiner \in Members \ index : index' = (index \ {leaver}) \union {joiner}
    /\ UNCHANGED <<marketDay, constituents, barVars, tickVars>>

FetchIndexConstituents == index

\* A faulty variant: a backfill dates the composition by the start of its prices.
EffectiveDate_Backfilled == 0

\* effective_date defaults to today.
EffectiveDate == marketDay

\* No key makes two saves of one composition conflict; effective_to stays null.
SaveConstituents(symbols, from) ==
    [row \in DOMAIN constituents \union (symbols \X {from}) |->
        (IF row \in DOMAIN constituents THEN constituents[row] ELSE 0)
          + (IF row \in symbols \X {from} THEN 1 ELSE 0)]

\* A download that fails is logged, and the tier keeps its rows.
RefreshUniverse ==
    /\ constituents' = SaveConstituents(FetchIndexConstituents, EffectiveDate)
    /\ \A row \in DOMAIN constituents : constituents[row] < MaxSaves
    /\ UNCHANGED <<marketDay, index, barVars, tickVars>>

\* Number of times each symbol is listed as of a day.
GetConstituents(asOf) ==
    [s \in {r[1] : r \in {q \in DOMAIN constituents : q[2] <= asOf}} |->
        FoldSet(LAMBDA r, sum : sum + constituents[r], 0,
                {q \in DOMAIN constituents : q[1] = s /\ q[2] <= asOf})]

GetSymbolsForTier(asOf) == DOMAIN GetConstituents(asOf)

\* Without a composition the strategies fall back to a list in the source.
GetStrategyUniverse ==
    LET symbols == GetSymbolsForTier(marketDay)
    IN IF symbols = {} THEN FirstIndex ELSE symbols

UniverseNext == NextDay \/ Rebalance \/ RefreshUniverse

--------------------------------------------------------------------------------
(* Daily bars. *)

Bar(price, traded, flag) == [price |-> price, traded |-> traded, isFilled |-> flag]

\* What the exchange prints on day d.
RawPrice(d) == IF split <= marketDay /\ d >= split THEN 1 ELSE SplitRatio

\* What the provider gives today for day d: it adjusts the whole history for a split.
AdjustedPrice == IF split <= marketDay THEN 1 ELSE SplitRatio

\* Between the first and the last row a missing day is filled forward, and flagged.
HandleMissingData(rows, first, last) ==
    [d \in first..last |-> IF d \in rows THEN Bar(AdjustedPrice, TRUE, FALSE) ELSE Bar(AdjustedPrice, FALSE, TRUE)]

\* Columns the caller has replace those of the row; without is_filled the flag stays.
StoreOhlcv(form, new, flagged) ==
    [key \in DOMAIN bars \union {<<form, d>> : d \in DOMAIN new} |->
        IF key[1] # form \/ key[2] \notin DOMAIN new THEN bars[key]
        ELSE IF flagged \/ key \notin DOMAIN bars THEN new[key[2]]
        ELSE [new[key[2]] EXCEPT !.isFilled = bars[key].isFilled]]

\* refresh_latest: the provider answers with some of the days of the window, or with none.
IngestSymbol ==
    /\ \E rows \in (SUBSET (Max({0, marketDay - Lookback})..marketDay)) \ {{}} :
         bars' = StoreOhlcv("bare", HandleMissingData(rows, Min(rows), Max(rows)), TRUE)
    /\ UNCHANGED <<marketDay, universeVars, split, tickVars>>

\* The exchange's file of the day, under the bare symbol.
IngestBhavcopy ==
    /\ bars' = StoreOhlcv("bare", [d \in {marketDay} |-> Bar(RawPrice(d), TRUE, FALSE)], FALSE)
    /\ UNCHANGED <<marketDay, universeVars, split, tickVars>>

Split ==
    /\ split > marketDay + 1 /\ marketDay < LastMarketDay
    /\ split' = marketDay + 1
    /\ UNCHANGED <<marketDay, universeVars, bars, tickVars>>

\* Both forms are read; "the bare (yfinance, split-adjusted) row wins".
LoadOhlcv(days) ==
    [d \in {key[2] : key \in DOMAIN bars} \intersect days |->
        IF <<"bare", d>> \in DOMAIN bars THEN bars[<<"bare", d>>] ELSE bars[<<"NS", d>>]]

BarsNext == NextDay \/ IngestSymbol \/ IngestBhavcopy \/ Split

--------------------------------------------------------------------------------
(* The running bar. *)

\* The conflict clause: the range only widens.
Merge(row, q) ==
    [high |-> Max({row.high, q.high}), low |-> Min({row.low, q.low}), last |-> q.last, count |-> row.count + 1]

\* A quote without a last price is a failed poll and stores nothing.
PollSymbol(q) ==
    /\ q.last # 0
    /\ tick' = IF tick = <<>> THEN <<[high |-> q.high, low |-> q.low, last |-> q.last, count |-> 1]>>
               ELSE <<Merge(tick[1], q)>>
    /\ polled' = polled \union {q}

PollOnce ==
    /\ tick # <<>> => tick[1].count < MaxPolls
    /\ \E q \in Quotes : PollSymbol(q)
    /\ UNCHANGED <<marketDay, universeVars, barVars>>

TicksNext == NextDay \/ PollOnce

--------------------------------------------------------------------------------
\* The legacy rows of a day were written raw, before the split.
MarketInit ==
    /\ marketDay = 0
    /\ index = FirstIndex /\ constituents = <<>>
    /\ split = LastMarketDay + 1
    /\ bars = [key \in {<<"NS", 0>>} |-> Bar(SplitRatio, TRUE, FALSE)]
    /\ tick = <<>> /\ polled = {}

--------------------------------------------------------------------------------
(* Properties. *)

\* What the index was on an earlier day stays what it was, whatever is downloaded later, so
\* that a backtest of that day sees the members of that day (save_constituents,
\* get_constituents, "to avoid survivorship bias").
PastCompositionsStay ==
    [][\A d \in 0..(marketDay - 1) : GetSymbolsForTier(d)' = GetSymbolsForTier(d)]_marketVars

\* A price at which nobody traded is marked as filled in whenever the bars are read, in
\* whatever order the refresh, the file of the exchange and a later refresh wrote the day
\* (handle_missing_data, store_ohlcv, load_ohlcv).
FilledAreFlagged ==
    LET loaded == LoadOhlcv(MarketDays)
    IN \A d \in DOMAIN loaded : loaded[d].traded \/ loaded[d].isFilled

\* Whatever the order the quotes of the feed arrive in, the bar of the day keeps the highest
\* high and the lowest low among them and the last of the prices (LiveDataPoller).
RunningExtremes ==
    tick # <<>> =>
      /\ tick[1].high = Max({q.high : q \in polled}) /\ tick[1].low = Min({q.low : q \in polled})
      /\ tick[1].last \in {q.last : q \in polled}
================================================================================
