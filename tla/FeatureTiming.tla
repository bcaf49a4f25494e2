----------------------------- MODULE FeatureTiming -----------------------------
(****************************************************************************)
(* When the features of features/ know what they say: which bars each       *)
(* column of a row reads, in the frame a model is trained on and in the     *)
(* shorter one it is served with; and, for the sources dated otherwise than *)
(* by bars (results, pledges, insider trades, announcements, search         *)
(* interest), which records.  A value is abstracted to what it is computed  *)
(* from; <<>> is NaN.                                                       *)
(****************************************************************************)
EXTENDS ExecutionPlanning, SequencesExt

CONSTANTS StoredBars,  \* numbers of bars a symbol has in the store
          ServedBars,  \* bars of the 300 calendar days before a prediction
          YearAgo      \* quarters between a result and that of the year before

ASSUME TimingAssumption ==
    StoredBars \subseteq Nat \ {0} /\ {ServedBars, YearAgo} \subseteq Nat \ {0} /\ ServedBars >= 60

--------------------------------------------------------------------------------
(* The columns, by the source they read, how many rows they reach back and how many
   they need.  A weight that never ends, a running total, reach the first row. *)

RollingColumn(source, reach, least) ==
    [source |-> source, kind |-> "window", reach |-> reach, least |-> least]
EndlessColumn(source, least) == [source |-> source, kind |-> "total", reach |-> 0, least |-> least]

Rolling(source, w) == RollingColumn(source, w, w)
Shifted(source, k) == RollingColumn(source, k + 1, k + 1)

\* ta's averages: exponential ones and the running volumes reach the first bar; the
\* average true range and the directional index start with zeros, not with gaps.
TechnicalColumns(n) ==
    {EndlessColumn("bars", w) : w \in {1, 3, 7, 9, 10, 12, 13, 14, 20, 21, 26, 34}}
    \union {Rolling("bars", w) : w \in {14, 16, 20, 50, 200}}
    \union {Shifted("bars", k) : k \in {10, 20, 60}}
    \union (IF n > 28 THEN {EndlessColumn("bars", 1)} ELSE {})

ReturnColumns ==
    {Shifted("bars", k) : k \in {1, 5, 10, 20, 60}}
    \union {Rolling("bars", w + 1) : w \in {5, 20}} \union {RollingColumn("bars", 252, 20)}

\* A comparison with a gap is false, so the flags never miss a value.
MicrostructureColumns ==
    {Rolling("bars", 1), RollingColumn("bars", 20, 5), RollingColumn("bars", 5, 1), Shifted("bars", 5),
     Rolling("bars", 3), RollingColumn("bars", 10, 3), RollingColumn("bars", 60, 10),
     RollingColumn("bars", 20, 1), RollingColumn("bars", 21, 1)}

MacroColumns ==
    {Rolling("macro", 1), RollingColumn("macro", 20, 5), Shifted("macro", 1), Shifted("macro", 5),
     Rolling("flows", 1), RollingColumn("flows", 5, 1), Shifted("sector", 1),
     Rolling("alt", 1), Shifted("alt", 1), Shifted("alt", 5),
     RollingColumn("universe", 200, 50), Shifted("universe", 1)}

DerivativesColumns ==
    {Rolling("options", 1), Shifted("options", 1), RollingColumn("options", 252, 20),
     RollingColumn("options", 2, 1)}

SentimentColumns ==
    {Rolling("articles", 1), RollingColumn("articles", 5, 1), Shifted("articles", 1),
     RollingColumn("articles", 21, 6)}

Columns(n) == TechnicalColumns(n) \union ReturnColumns \union MicrostructureColumns
                \union MacroColumns \union DerivativesColumns \union SentimentColumns

--------------------------------------------------------------------------------
(* Frames.  One is the last n bars of a history, its sources, and the bar of the history
   at which a divisor is zero. *)

\* _prepare_symbol_data: nothing is trained on fewer bars than a year.
TrainingFrame(q) ==
    [bars |-> IF q.history < 252 THEN 0 ELSE q.history,
     sources |-> {"bars", "macro", "flows", "alt"}]

\* _compute_features_on_the_fly: the bars of 300 days, and no flows.
ServingFrame(q) ==
    [bars |-> IF Min({q.history, ServedBars}) < 60 THEN 0 ELSE Min({q.history, ServedBars}),
     sources |-> {"bars", "macro", "alt"}]

\* What a bar's value is computed from, in bars of the history; <<>> if it is a gap.
Raw(q, frame, c, r) ==
    LET first == q.history - frame.bars + 1
    IN IF c.source \notin frame.sources \/ r - first + 1 < c.least \/ r = q.gap THEN <<>>
       ELSE <<IF c.kind = "total" THEN first ELSE Max({first, r - c.reach + 1}), r>>

\* ffill, then bfill, then 0: a gap is filled from before, one before any value from after.
FilledFrom(q, frame, c, r) ==
    LET defined == {x \in (q.history - frame.bars + 1)..q.history : Raw(q, frame, c, x) # <<>>}
        before == {x \in defined : x <= r}
    IN IF before # {} THEN Raw(q, frame, c, Max(before))
       ELSE IF defined # {} THEN Raw(q, frame, c, Min(defined)) ELSE <<>>

NoRow == <<0>>

\* compute_all_features on both frames, at the bar asked about.
ComputeAllFeatures(q) ==
    LET row(frame, c) == IF q.history - q.back <= q.history - frame.bars THEN NoRow
                         ELSE FilledFrom(q, frame, c, q.history - q.back)
    IN [c \in Columns(q.history) |->
          [trained |-> row(TrainingFrame(q), c), served |-> row(ServingFrame(q), c)]]

FrameQuestions ==
    UNION {[topic: {"features"}, history: {h}, back: {0, 1, 59}, gap: {0, h - 10, h - 1, h}] :
             h \in StoredBars}

AnswerFeatures == Reply("features", ComputeAllFeatures(asked))

--------------------------------------------------------------------------------
(* Results.  A quarter is announced on a day, or at no known one; a profit, an estimate
   and a revenue may be missing. *)

AnnouncedBy(x, d) == x.on # <<>> /\ x.on[1] <= d

\* sort_values puts the results without a day last.
ByAnnouncement(quarters) ==
    SortSeq(quarters, LAMBDA a, b : a.on # <<>> /\ (b.on = <<>> \/ a.on[1] < b.on[1]))

\* The change from one value to another by the size of the base; none from a base of 0.
Change(value, base) ==
    IF value = <<>> \/ base = <<>> \/ base = <<0>> THEN <<>>
    ELSE <<value[1] - base[1], IF base[1] < 0 THEN -base[1] ELSE base[1]>>

\* _compute_surprise_series: by the estimate, or else by the result of the year before.
Surprise(s, i) ==
    IF s[i].estimate # <<>> THEN Change(s[i].profit, s[i].estimate)
    ELSE IF i > YearAgo THEN Change(s[i].profit, s[i - YearAgo].profit)
    ELSE <<>>

StreakAfter(streak, surprise) ==
    IF surprise = <<>> THEN streak
    ELSE IF surprise[1] > 0 THEN Max({0, streak}) + 1
    ELSE IF surprise[1] < 0 THEN Min({0, streak}) - 1
    ELSE 0

SurpriseStreak(s, i) ==
    FoldLeft(StreakAfter, 0, [j \in 1..i |-> Surprise(s, j)])

QoqGrowth(s, i) == IF i = 1 THEN <<>> ELSE Change(s[i].revenue, s[i - 1].revenue)

Margin(s, i) ==
    IF s[i].profit = <<>> \/ s[i].revenue \in {<<>>, <<0>>} THEN <<>>
    ELSE <<s[i].profit[1], s[i].revenue[1]>>

MarginChange(s, i) ==
    IF i = 1 \/ Margin(s, i) = <<>> THEN <<>>
    ELSE IF Margin(s, i - 1) = <<>> THEN <<>> ELSE <<Margin(s, i), Margin(s, i - 1)>>

\* compute_fundamental_features on a day: the newest of the results announced by then.
EarningsOn(quarters, d) ==
    LET s == ByAnnouncement(quarters)
        last == Cardinality({i \in DOMAIN s : AnnouncedBy(s[i], d)})
    IN IF last = 0 THEN <<>>
       ELSE [surprise |-> Surprise(s, last), since |-> d - s[last].on[1],
             streak |-> SurpriseStreak(s, last), growth |-> QoqGrowth(s, last),
             margin |-> MarginChange(s, last)]

--------------------------------------------------------------------------------
(* The other records that carry a day of their own. *)

ByDay(records) == SetToSortSeq(records, LAMBDA a, b : a.on < b.on)

NewestBy(records, d) == {x \in records : x.on <= d /\ \A y \in records : y.on <= d => y.on <= x.on}

\* _compute_promoter_features: pledges by the end of their quarter, thirty days of trades.
\* Without any pledge of any day nothing is computed, and without any trade nothing of them.
PromoterOn(pledges, trades, d) ==
    LET s == ByDay(pledges)
        last == Cardinality({x \in pledges : x.on <= d})
        recent == {x \in trades : d - 30 <= x.on /\ x.on <= d}
        worth(side) == FoldSet(LAMBDA x, sum : x.value + sum, 0, {x \in recent : x.side = side})
        total == worth("buy") + worth("sell")
        insiders == pledges # {} /\ trades # {}
    IN [pledge |-> IF last = 0 THEN <<>> ELSE s[last].pledge,
        change |-> IF last < 2 \/ s[last].pledge = <<>> \/ s[last - 1].pledge = <<>> THEN <<>>
                   ELSE <<s[last].pledge[1] - s[last - 1].pledge[1]>>,
        buying |-> IF insiders THEN <<worth("buy") > 0>> ELSE <<>>,
        ratio |-> IF ~insiders THEN <<>> ELSE IF total > 0 THEN <<worth("buy"), total>> ELSE <<1, 2>>]

\* compute_corporate_event_features: a countdown to announcements of later days.
NoData == 999

DaysToBoard(announcements, d) ==
    LET ahead == {x \in announcements : x.type = "board" /\ x.on >= d}
    IN IF ahead = {} THEN NoData ELSE Min({x.on : x \in ahead}) - d

DaysSinceDividend(announcements, d) ==
    LET past == {x \in announcements : x.type = "dividend" /\ x.on < d}
    IN IF past = {} THEN NoData ELSE d - Max({x.on : x \in past})

EventThisWeek(announcements, d) == \E x \in announcements : d <= x.on /\ x.on <= d + 7

\* compute_trends_features: the sums and counts of the last seven days and of those before.
TrendsOn(interest, d) ==
    LET days(from, to) == {x \in DOMAIN interest : from <= x /\ x <= to}
        mean(D) == <<FoldSet(LAMBDA x, sum : interest[x] + sum, 0, D), Cardinality(D)>>
        recent == days(d - 6, d)
        prior == days(d - 13, d - 7)
    IN IF recent = {} THEN <<>>
       ELSE [week |-> mean(recent), before |-> IF prior = {} THEN <<>> ELSE mean(prior)]

\* reindex with ffill, and the age of the value that is carried.
AlignedOn(records, d) ==
    [values |-> {x.value : x \in NewestBy(records, d)},
     staleness |-> {d - x.on : x \in NewestBy(records, d)}]

\* Everything a row of day d reads besides the bars.
DatedFeatures(q, d) ==
    [earnings |-> EarningsOn(q.quarters, d),
     promoter |-> PromoterOn(q.pledges, q.trades, d),
     dividend |-> DaysSinceDividend(q.announcements, d),
     board |-> DaysToBoard(q.announcements, d),
     week |-> EventThisWeek(q.announcements, d),
     trends |-> TrendsOn(q.interest, d),
     macro |-> AlignedOn(q.macro, d)]

AskedDays == {1, 7, 8, 14, 31, 32}

AnswerDated == Reply("dated", [d \in AskedDays |-> DatedFeatures(asked, d)])

NoRecords == [topic |-> "dated", quarters |-> <<>>, pledges |-> {}, trades |-> {},
              announcements |-> {}, interest |-> <<>>, macro |-> {}]

Quarters ==
    [profit: {<<-1>>, <<0>>, <<1>>}, estimate: {<<>>, <<0>>, <<1>>}, revenue: {<<2>>}]
    \union [profit: {<<>>, <<2>>}, estimate: {<<>>}, revenue: {<<>>, <<0>>, <<3>>}]

\* In order, one without a day, and the first announced after the second.
AnnouncementDays == {<<<<1>>, <<7>>, <<31>>>>, <<<<1>>, <<>>, <<8>>>>, <<<<14>>, <<8>>, <<32>>>>}

WithDays(results, days) == [i \in DOMAIN days |-> results[i] @@ [on |-> days[i]]]

ResultQuestions ==
    {[NoRecords EXCEPT !.quarters = WithDays(s, days)] :
        s \in [1..3 -> Quarters], days \in AnnouncementDays}

Holding(stake, T) ==
    [NoRecords EXCEPT !.pledges = {[on |-> d, pledge |-> stake[d]] : d \in DOMAIN stake}, !.trades = T]

HoldingQuestions ==
    {Holding(f, T) :
        f \in UNION {[D -> {<<>>, <<1>>, <<3>>}] : D \in SUBSET {1, 8, 32}},
        T \in SUBSET {[on |-> 1, side |-> "buy", value |-> 2], [on |-> 2, side |-> "sell", value |-> 1],
                      [on |-> 31, side |-> "sell", value |-> 3], [on |-> 32, side |-> "buy", value |-> 0]}}

OtherDatedQuestions ==
    {[NoRecords EXCEPT !.announcements = A] :
        A \in SUBSET [on: {1, 8, 14}, type: {"board", "dividend", "agm"}]}
    \union {[NoRecords EXCEPT !.interest = f] :
        f \in UNION {[D -> {0, 40}] : D \in SUBSET {1, 2, 7, 8, 14}}}
    \union {[NoRecords EXCEPT !.macro = {[on |-> d, value |-> f[d]] : d \in DOMAIN f}] :
        f \in UNION {[D -> {1, 2}] : D \in SUBSET {1, 8, 14}}}

DatedQuestions == ResultQuestions \union HoldingQuestions \union OtherDatedQuestions

--------------------------------------------------------------------------------
(* The calendar of calendar_features.py, which has expiries of its own, and the chain of
   options of a day. *)

ExpiryOfMonth(y, m) ==
    LET last == [y |-> y, m |-> m, d |-> MonthLength(y, m)]
    IN DayNumber(last) - (((DayNumber(last) % 7) - 3) % 7)

MonthAfter(t, k) == [y |-> t.y + (t.m + k - 1) \div 12, m |-> ((t.m + k - 1) % 12) + 1]

DaysToNextExpiry(t) ==
    LET this == ExpiryOfMonth(t.y, t.m)
        next == MonthAfter(t, 1)
    IN (IF DayNumber(t) > this THEN ExpiryOfMonth(next.y, next.m) ELSE this) - DayNumber(t)

\* Monday to Friday around the expiry of the date's own month.
IsExpiryWeek(t) ==
    LET monday == ExpiryOfMonth(t.y, t.m) - (ExpiryOfMonth(t.y, t.m) % 7)
    IN monday <= DayNumber(t) /\ DayNumber(t) <= monday + 4

\* The seventh of the first even month that is not over by then.
DaysToNextRbi(t) ==
    LET target(k) == DayNumber([y |-> MonthAfter(t, k).y, m |-> MonthAfter(t, k).m, d |-> 7])
        ahead == {k \in 0..12 : MonthAfter(t, k).m % 2 = 0 /\ target(k) >= DayNumber(t)}
    IN IF ahead = {} THEN 30 ELSE target(Min(ahead)) - DayNumber(t)

CalendarFeatures(t) ==
    [expiry |-> DaysToNextExpiry(t), day |-> DayNumber(t) = ExpiryOfMonth(t.y, t.m),
     week |-> IsExpiryWeek(t), rbi |-> DaysToNextRbi(t),
     quarterDay |-> DayNumber(t) - DayNumber([y |-> t.y, m |-> ((t.m - 1) \div 3) * 3 + 1, d |-> 1]) + 1]

AnswerCalendar == Reply("calendar", CalendarFeatures(asked.date))

\* _extract_options_features: the first of the nearest strikes that has a volatility, and
\* of the strikes of most open interest, the last entry of each counting, the one that
\* came first in the chain.
OptionsFeatures(chain, spot) ==
    LET far(i) == IF chain[i].strike < spot THEN spot - chain[i].strike ELSE chain[i].strike - spot
        quoted == {i \in DOMAIN chain : chain[i].iv # <<>>}
        nearest == {i \in quoted : \A j \in quoted : far(i) < far(j) \/ (far(i) = far(j) /\ i <= j)}
        total(side) == FoldLeft(LAMBDA sum, e : sum + e[side], 0, chain)
        interest == [k \in {e.strike : e \in Range(chain)} |->
                       LET e == chain[Max({i \in DOMAIN chain : chain[i].strike = k})]
                       IN e.call + e.put]
        mostOpen == {i \in DOMAIN chain : \A j \in DOMAIN chain :
                       interest[chain[j].strike] <= interest[chain[i].strike]}
    IN [iv |-> {chain[i].iv : i \in nearest},
        pcr |-> IF total("call") > 0 THEN <<total("put"), total("call")>> ELSE <<>>,
        pain |-> {chain[i].strike : i \in {j \in mostOpen : \A k \in mostOpen : j <= k}}]

ChainEntry == [strike: {1, 2, 3}, call: {0, 2}, put: {1}, iv: {<<>>, <<20>>, <<30>>}]

AnswerOptions == Reply("options", OptionsFeatures(asked.chain, 2))

TimingQuestions ==
    FrameQuestions \union DatedQuestions
    \union {[topic |-> "calendar", date |-> t] : t \in Dates}
    \union [topic: {"options"}, chain: {<<>>} \union [1..2 -> ChainEntry]]

TimingAnswers == AnswerFeatures \/ AnswerDated \/ AnswerCalendar \/ AnswerOptions

--------------------------------------------------------------------------------
(* Properties. *)

\* A row a model is served, or trained on, reads no bar after itself, unless its column
\* has had no value yet in the frame: a gap in the middle is never filled from what
\* followed it (compute_all_features, ffill before bfill).
GapsAreFilledFromBefore ==
    Answered("features") =>
      \A c \in DOMAIN answer[1] : \A read \in {answer[1][c].trained, answer[1][c].served} :
        read \notin {NoRow, <<>>} /\ read[2] > asked.history - asked.back =>
          \E frame \in {TrainingFrame(asked), ServingFrame(asked)} :
            \A r \in (asked.history - frame.bars + 1)..(asked.history - asked.back) :
              Raw(asked, frame, c, r) = <<>>

\* Short of a year's window, of a weight that reaches the first bar and of the flows of
\* the institutions, the newest row says when served what it says in training
\* (_prepare_symbol_data, _compute_features_on_the_fly).
NewestRowIsTrainedAndServedAlike ==
    Answered("features") /\ asked.back = 0 =>
      \A c \in DOMAIN answer[1] :
        /\ answer[1][c].trained # NoRow => answer[1][c].served # NoRow
        /\ answer[1][c].trained \notin {NoRow, answer[1][c].served} =>
             c.kind = "total" \/ c.reach >= ServedBars \/ c.source = "flows"

\* What a past day says of the results, the pledges and trades of insiders, the dividends,
\* the search interest and the macro series is never changed by a record of a later day,
\* but for the two columns of the trades, which are missing until there are both a pledge
\* and a trade of any day (has_promoter, has_insider); the countdowns to announcements are,
\* and served on the day itself they know of none but the day's own (features/, "no
\* look-ahead").
LaterRecordsChangeNoDay ==
    Answered("dated") =>
      \A d \in DOMAIN answer[1] :
        LET known == [asked EXCEPT !.quarters = SelectSeq(@, LAMBDA x : AnnouncedBy(x, d)),
                                   !.pledges = {x \in @ : x.on <= d},
                                   !.trades = {x \in @ : x.on <= d},
                                   !.announcements = {x \in @ : x.on <= d},
                                   !.interest = [x \in {y \in DOMAIN @ : y <= d} |-> asked.interest[x]],
                                   !.macro = {x \in @ : x.on <= d}]
            then == DatedFeatures(known, d)
        IN /\ \A column \in {"earnings", "dividend", "trends", "macro"} :
                answer[1][d][column] = then[column]
           /\ \A column \in DOMAIN then.promoter :
                \/ answer[1][d].promoter[column] = then.promoter[column]
                \/ /\ column \in {"buying", "ratio"} /\ then.promoter[column] = <<>>
                   /\ known.pledges = {} \/ known.trades = {}
           /\ then.board \in {0, NoData} /\ (then.board = 0 => then.week)

\* A streak is the length, up or down, of the last run of surprises of one sign, the
\* missing ones passed over (_compute_surprise_streak).
StreakIsTheLastRun ==
    Answered("dated") =>
      \A d \in DOMAIN answer[1] : answer[1][d].earnings # <<>> =>
        LET s == ByAnnouncement(asked.quarters)
            n == Cardinality({i \in DOMAIN s : AnnouncedBy(s[i], d)})
            sign(i) == IF Surprise(s, i)[1] > 0 THEN 1 ELSE IF Surprise(s, i)[1] < 0 THEN -1 ELSE 0
            there == {i \in 1..n : Surprise(s, i) # <<>>}
            run == {i \in there : \A j \in there : j >= i => sign(j) = sign(Max(there))}
        IN answer[1][d].earnings.streak =
             IF there = {} THEN 0 ELSE sign(Max(there)) * Cardinality(run)

\* The two calendars of the program agree: the features name the days the planner of
\* executions treats as expiries, in the weeks they call so, across the ends of months and
\* years; and no policy meeting is more than two months ahead (calendar_features.py,
\* signals/execution.py).
CalendarsAgree ==
    Answered("calendar") =>
        /\ answer[1].expiry = DayNumber(NextExpiry(asked.date)) - DayNumber(asked.date)
        /\ answer[1].day = IsExpiryDay(asked.date) /\ (answer[1].day => answer[1].week)
        /\ answer[1].rbi \in 0..61 /\ answer[1].quarterDay \in 1..92

\* The order of the entries of a chain does not matter, but for two entries of one strike,
\* two strikes equally near and quoted, and two of equal open interest
\* (_extract_options_features).
ChainOrderDecidesTies ==
    Answered("options") /\ Len(asked.chain) = 2 =>
      LET other == OptionsFeatures(Reverse(asked.chain), 2)
          a == asked.chain[1]
          b == asked.chain[2]
      IN /\ other.pcr = answer[1].pcr
         /\ a.strike # b.strike =>
              /\ other.iv = answer[1].iv
                   \/ ({a.strike, b.strike} = {1, 3} /\ a.iv # <<>> /\ b.iv # <<>>)
              /\ other.pain = answer[1].pain \/ a.call + a.put = b.call + b.put
================================================================================
