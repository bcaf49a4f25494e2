------------------------------ MODULE PublicRecord ------------------------------
(****************************************************************************)
(* What the routes tell of the paper trades: the public track record, the   *)
(* one of the user interface, the paper dashboard with its cost-adjusted    *)
(* tracks, the list of strategies, monthly returns, the weekly digest, the  *)
(* equity curve of the trades, positions and portfolio, and the pages of    *)
(* the prediction list.  A ratio is a pair <<part, whole>>, a return is in  *)
(* percent of its entry, confidence in percent; a month has ten days.       *)
(****************************************************************************)
EXTENDS Question, FiniteSets, FiniteSetsExt, SequencesExt

CONSTANTS PaperTrades,   \* [id, day, symbol, strategy, direction, confidence, flag, ret];
                         \* flag (is_tradeable) and ret (actual_return) are << >> when null
          RecordSize,    \* trades of a history, at most
          Closes,        \* symbol -> <<last close in percent of every entry>>, or << >>
          TopK, OpenShown, LongCost, ShortCost, RecordDay

ASSUME RecordAssumption ==
    /\ IsFiniteSet(PaperTrades) /\ {RecordDay, LongCost, ShortCost, TopK, OpenShown} \subseteq Nat
    /\ \A t \in PaperTrades :
         /\ t.id \in Nat /\ t.day \in 0..RecordDay /\ t.direction \in -1..1 /\ t.confidence \in 0..100
         /\ t.ret # <<>> => t.ret[1] \in Int
         /\ Closes[t.symbol] # <<>> => Closes[t.symbol][1] \in Int
    /\ \A t, u \in PaperTrades : t.id = u.id => t = u

Total(S, f(_)) == Summed([x \in S |-> f(x)], S)

\* Of the trades S those for which p holds, as a ratio.
Share(S, p(_)) == <<Cardinality({x \in S : p(x)}), Cardinality(S)>>

Sign(x) == IF x > 0 THEN 1 ELSE IF x < 0 THEN -1 ELSE 0

Earned(t) == t.direction * t.ret[1]

\* is_correct: the signs agree, so a neutral call of a still share is a hit.
Correct(t) == Sign(t.direction) = Sign(t.ret[1])

\* update_paper_trade_outcome writes the return and is_correct together.
Evaluated(T) == {t \in T : t.ret # <<>>}

Days(S) == {t.day : t \in S}

--------------------------------------------------------------------------------
(* The two track records and the dashboard. *)

Monday(day) == day - (day % 7)

PublicBands == <<<<0, 55>>, <<55, 65>>, <<65, 75>>, <<75, 85>>, <<85, 101>>>>

InBand(t, band) == band[1] <= t.confidence /\ t.confidence < band[2]

Breakdown(T) == [d \in -1..1 |-> Cardinality({t \in T : t.direction = d})]

AccuracyOf(S) == Share(S, Correct)

BuildTrackRecord(T) ==
    LET e == Evaluated(T)
        cutoff == Max(Days(e)) - 30
    IN [total |-> Cardinality(T), overall |-> AccuracyOf(e),
        recent |-> AccuracyOf({t \in e : t.day >= cutoff}),
        up |-> AccuracyOf({t \in e : t.direction = 1}),
        down |-> AccuracyOf({t \in e : t.direction = -1}),
        weeks |-> [w \in {Monday(d) : d \in Days(e)} |-> AccuracyOf({t \in e : Monday(t.day) = w})],
        bands |-> [b \in 1..5 |-> AccuracyOf({t \in e : InBand(t, PublicBands[b])})],
        breakdown |-> Breakdown(T)]

\* That of the user interface counts what is evaluated, by day, and shows four bands.
UiTrackRecord(T) ==
    LET e == Evaluated(T)
    IN [total |-> Cardinality(e), overall |-> AccuracyOf(e),
        recent |-> AccuracyOf({t \in e : t.day >= RecordDay - 30}),
        up |-> AccuracyOf({t \in e : t.direction = 1}),
        down |-> AccuracyOf({t \in e : t.direction = -1}),
        days |-> [d \in Days(e) |-> AccuracyOf({t \in e : t.day = d})],
        bands |-> [b \in 2..5 |-> AccuracyOf({t \in e : InBand(t, PublicBands[b])})],
        breakdown |-> Breakdown(T)]

MonthlyReturns(T) ==
    LET e == Evaluated(T)
        month(m) == {t \in e : t.day \div 10 = m}
    IN [m \in {d \div 10 : d \in Days(e)} |-> [earned |-> Total(month(m), Earned), won |-> AccuracyOf(month(m))]]

\* The best of the strategies with ten evaluated trades (two here).
WeeklyDigest(T) ==
    LET e == Evaluated(T)
        week == {t \in T : t.day >= Monday(RecordDay)}
        of(s) == {t \in e : t.strategy = s}
        known == {s \in {t.strategy : t \in T} : Cardinality(of(s)) >= 2}
        won(s) == AccuracyOf(of(s))
    IN [week |-> Cardinality(week), accuracy |-> AccuracyOf(Evaluated(week)),
        cumulative |-> AccuracyOf(e),
        best |-> {s \in known : \A r \in known : won(r)[1] * won(s)[2] <= won(s)[1] * won(r)[2]}]

--------------------------------------------------------------------------------
(* Cost-adjusted tracks. *)

\* Only a direction is traded.
Directional(T) == {t \in Evaluated(T) : t.direction # 0}

CostOf(t) == IF t.direction > 0 THEN LongCost ELSE ShortCost

Net(t) == Earned(t) - CostOf(t)

TrackStats(S) ==
    LET e == Directional(S)
    IN [selected |-> Cardinality(S), evaluated |-> Cardinality(e),
        won |-> Cardinality({t \in e : Net(t) > 0}),
        gross |-> Total(e, Earned), net |-> Total(e, Net)]

\* One flagged row and the rows of before the flag are out.
GatePassed(T) ==
    IF \E t \in T : t.flag # <<>> THEN {t \in T : t.flag = <<TRUE>>}
    ELSE {t \in T : t.confidence >= 50}

\* More confident; of equals one comes first.
Ahead(u, t) ==
    u.confidence > t.confidence \/ (u.confidence = t.confidence /\ u.id < t.id)

\* A faulty variant: the best of the whole history.
TopOfDay_Overall(T) ==
    {t \in T : t.direction # 0 /\ Cardinality({u \in T : u.direction # 0 /\ Ahead(u, t)}) < TopK}

\* The TopK most confident directions of each day.
TopOfDay(T) ==
    {t \in T : /\ t.direction # 0
               /\ Cardinality({u \in T : u.direction # 0 /\ u.day = t.day /\ Ahead(u, t)}) < TopK}

Tracks(T) == [all |-> TrackStats(T), gate |-> TrackStats(GatePassed(T)), top |-> TrackStats(TopOfDay(T))]

\* "Shows every strategy - including losing ones."
StrategyStats(T) == [s \in {t.strategy : t \in T} |-> TrackStats({t \in T : t.strategy = s})]

Dashboard(T) ==
    [total |-> Cardinality(T), accuracy |-> AccuracyOf(Evaluated(T)),
     week |-> AccuracyOf({t \in Evaluated(T) : t.day >= RecordDay - 7}),
     days |-> Cardinality(Days(T)), tracks |-> Tracks(T)]

--------------------------------------------------------------------------------
(* Curve, positions, pages. *)

\* Sum and number: the mean return of the trades of a day.
DayReturn(T, day) ==
    LET e == {t \in Evaluated(T) : t.day = day} IN <<Total(e, Earned), Cardinality(e)>>

DailyReturns(T) == [d \in Days(Evaluated(T)) |-> DayReturn(T, d)]

\* An open row without a direction is shown as a BUY.
SideOf(t) == IF t.direction >= 0 THEN 1 ELSE -1

\* The newest open rows, by day (rows of a day in the order of their ids).
OpenRows(T) ==
    LET open == {t \in T : t.ret = <<>>}
        newer(t) == {u \in open : u.day > t.day \/ (u.day = t.day /\ u.id > t.id)}
    IN {t \in open : Cardinality(newer(t)) < OpenShown}

\* Without a close the entry is shown as the last price.
PaperPositions(T) ==
    {[id |-> <<t.symbol, t.day>>, trade |-> t.id, side |-> SideOf(t),
      gain |-> IF Closes[t.symbol] = <<>> THEN 0 ELSE Closes[t.symbol][1] * SideOf(t)] : t \in OpenRows(T)}

PortfolioSummary(T) ==
    [signals |-> Cardinality({t \in T : t.ret = <<>>}),
     unrealized |-> Total({t \in OpenRows(T) : Closes[t.symbol] # <<>>},
                          LAMBDA t : Closes[t.symbol][1] * SideOf(t))]

PaperOrders(T) == {[id |-> <<t.symbol, t.day>>, side |-> SideOf(t)] : t \in T}

Page(rows, page, size) ==
    SubSeq(rows, (page - 1) * size + 1, Min({page * size, Len(rows)}))

TotalPages(rows, size) == (Len(rows) + size - 1) \div size

GetPredictions(rows, size) == [p \in 1..TotalPages(rows, size) |-> Page(rows, p, size)]

--------------------------------------------------------------------------------
(* Questions. *)

Histories == UNION {kSubset(n, PaperTrades) : n \in 1..RecordSize}

RecordQuestions ==
    {[topic |-> "record", trades |-> T] : T \in {H \in Histories : Evaluated(H) # {}}}
    \union {[topic |-> "pages", rows |-> [i \in 1..n |-> i], size |-> s] : n \in 0..7, s \in 1..4}

Told(T) ==
    [public |-> BuildTrackRecord(T), ui |-> UiTrackRecord(T), board |-> Dashboard(T),
     months |-> MonthlyReturns(T), digest |-> WeeklyDigest(T), strategies |-> StrategyStats(T),
     daily |-> DailyReturns(T), positions |-> PaperPositions(T),
     portfolio |-> PortfolioSummary(T), orders |-> PaperOrders(T)]

RecordAnswers ==
    \/ Reply("record", Told(asked.trades))
    \/ Reply("pages", GetPredictions(asked.rows, asked.size))

--------------------------------------------------------------------------------
(* Properties. *)

Parts(f) == <<Total(DOMAIN f, LAMBDA x : f[x][1]), Total(DOMAIN f, LAMBDA x : f[x][2])>>

\* Five routes tell one accuracy, and the weeks, days, months and bands they split it by
\* add up to it; the interface leaves out what is below its bands (_build_track_record,
\* _real_track_record, get_dashboard, weekly_digest, _monthly_returns_from_records).
RoutesAgreeOnAccuracy ==
    Answered("record") =>
      LET a == answer[1]
          low == AccuracyOf({t \in Evaluated(asked.trades) : t.confidence < 55})
      IN /\ a.public.overall = a.ui.overall /\ a.public.overall = a.board.accuracy
         /\ a.public.overall = a.digest.cumulative
         /\ Parts(a.public.weeks) = a.public.overall /\ Parts(a.ui.days) = a.ui.overall
         /\ Parts(a.public.bands) = a.public.overall
         /\ <<Parts(a.ui.bands)[1] + low[1], Parts(a.ui.bands)[2] + low[2]>> = a.ui.overall
         /\ Parts([m \in DOMAIN a.months |-> a.months[m].won]) = a.public.overall

\* The strategies listed earn together what the dashboard's track of all predictions
\* earns, so no loser is missing from the list (list_strategies, "Publishing losers is the
\* credibility move").
NoLoserIsHidden ==
    Answered("record") =>
      LET s == answer[1].strategies all == answer[1].board.tracks.all
      IN /\ Total(DOMAIN s, LAMBDA x : s[x].net) = all.net
         /\ Total(DOMAIN s, LAMBDA x : s[x].evaluated) = all.evaluated
         /\ Total(DOMAIN s, LAMBDA x : s[x].won) = all.won

\* Every day with a direction has its best ideas in the track of the top picks, also a day
\* whose confidence is low, and no more than TopK (_select_top_k).
EveryDayHasItsTopPicks ==
    Answered("record") =>
      LET directions == {t \in asked.trades : t.direction # 0}
          most(d) == Min({TopK, Cardinality({t \in directions : t.day = d})})
      IN answer[1].board.tracks.top.selected = Total(Days(directions), most)

\* A day on which every prediction came true does not lower the curve or the Sharpe ratio's
\* series, whichever way the predictions went (_daily_returns, _equity_curve_from_records).
RightDaysDoNotLose ==
    Answered("record") =>
      \A d \in DOMAIN answer[1].daily :
        (\A t \in {u \in Evaluated(asked.trades) : u.day = d} : Correct(t)) => answer[1].daily[d][1] >= 0

\* The portfolio's unrealized gain is that of the positions listed, though one takes the
\* entry for a missing close and the other skips the row (_real_portfolio_summary,
\* _real_paper_positions).
PortfolioIsOfThePositions ==
    Answered("record") =>
      answer[1].portfolio.unrealized = Total(answer[1].positions, LAMBDA p : p.gain)

\* Reading page after page gives every prediction once and in order (get_predictions).
PagesCoverTheList ==
    Answered("pages") => FlattenSeq([p \in 1..TotalPages(asked.rows, asked.size) |-> answer[1][p]]) = asked.rows
================================================================================
