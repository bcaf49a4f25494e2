------------------------------ MODULE IntelSignals ------------------------------
(****************************************************************************)
(* From extracted events to paper trades: the derivation of insider trades, *)
(* the blowup score with its avoid list, the three signal strategies of     *)
(* intel/signals and the job that runs them at 06:05 or when an operator    *)
(* asks for it.  An evening's extraction may store the events of a filing a *)
(* second time after a crash.  Confidence and trust are in percent, values  *)
(* in lakhs.                                                                *)
(****************************************************************************)
EXTENDS Integers, FiniteSets, FiniteSetsExt

CONSTANTS Filings,      \* [id, symbol, type, materiality, direction, trust, filed, person,
                        \*  traded, value]; person is "" when the summary names none
          OtherScore,   \* symbol -> points of pledges, ratings, surveillance and pump
          LastSignalDay, MaxSignalRuns, MaxCopies

ASSUME SignalsAssumption ==
    /\ \A f \in Filings : f.filed \in 1..LastSignalDay /\ f.id \in Nat \ {0} /\ f.traded \in Int
    /\ \A f, g \in Filings : f.id = g.id => f = g
    /\ LastSignalDay \in Nat /\ MaxSignalRuns \in Nat

VARIABLES sigDay,
          evening,      \* the day's filings are being extracted
          sigEvents,    \* disclosure_events: [filing, copy, at]
          insiderRows,  \* insider_trades: [symbol, date, person, type, value, from]
          sigTrades,    \* paper_trades of the strategies: [symbol, day, strategy, direction, run, from]
          sigRuns

sigVars == <<sigDay, evening, sigEvents, insiderRows, sigTrades, sigRuns>>

Symbols == DOMAIN OtherScore

--------------------------------------------------------------------------------
(* Insider trades. *)

\* Without a name the filing stands for the person.
ParsePerson(f, copy) == IF f.person = "" THEN <<"", f.id, 0>> ELSE <<f.person, 0, 0>>

ParseTradeDate(f) == Min({f.traded, f.filed})

InsiderRow(e) ==
    [symbol |-> e.filing.symbol, date |-> ParseTradeDate(e.filing),
     person |-> ParsePerson(e.filing, e.copy),
     type |-> IF e.filing.type = "insider_buy" THEN "buy" ELSE "sell",
     value |-> e.filing.value, from |-> e.filing]

SameKey(r, s) == r.symbol = s.symbol /\ r.date = s.date /\ r.person = s.person

\* Rows in the order of the events' ids, later ones over earlier ones of the same key.
UpsertAll(rows, new) ==
    {r \in rows : ~\E s \in new : SameKey(r, s)}
    \union {s \in new : \A t \in new : SameKey(s, t) => t.from.id <= s.from.id}

DeriveInsiderTrades ==
    /\ evening
    /\ insiderRows' = UpsertAll(insiderRows,
         {InsiderRow(e) : e \in {x \in sigEvents : x.filing.type \in {"insider_buy", "insider_sell"}}})
    /\ UNCHANGED <<sigDay, evening, sigEvents, sigTrades, sigRuns>>

--------------------------------------------------------------------------------
(* Scores. *)

EventsOf(symbol) == {e \in sigEvents : e.filing.symbol = symbol}

OfType(symbol, type) == {e \in EventsOf(symbol) : e.filing.type = type}

ScoreGovernance(symbol) ==
    IF OfType(symbol, "auditor_resignation") # {} THEN 20
    ELSE IF OfType(symbol, "kmp_resignation") # {} THEN 15 ELSE 0

ScoreDefaults(symbol) == IF OfType(symbol, "default_or_delay") # {} THEN 25 ELSE 0

ScoreInsiderSells(symbol) ==
    LET n == Cardinality(OfType(symbol, "insider_sell"))
    IN CASE n >= 3 -> 15 [] n = 2 -> 10 [] OTHER -> 0

\* At 70 of 100 a symbol is on the avoid list.
BlowupScore(symbol) ==
    Min({100, OtherScore[symbol] + ScoreGovernance(symbol) + ScoreDefaults(symbol)
                + ScoreInsiderSells(symbol)})

AvoidList == {s \in Symbols : BlowupScore(s) >= 70}

--------------------------------------------------------------------------------
(* Strategies: each answers with its signals [symbol, direction, from] of today. *)

BlowupShort == {[symbol |-> s, direction |-> -1, from |-> EventsOf(s)] : s \in AvoidList}

\* What was extracted before midnight and not more than so many days ago.
Known(e, days) == e.at < sigDay /\ e.at >= sigDay - days

Confident(f) == (30 + 12 * f.materiality) * f.trust * 12 >= 50000

DefaultDirection(type) ==
    IF type \in {"order_win", "capacity_expansion", "rating_upgrade", "pledge_release",
                 "insider_buy", "dividend_buyback"} THEN 1
    ELSE IF type \in {"guidance_cut", "rating_downgrade", "pledge_increase", "insider_sell",
                      "auditor_resignation", "kmp_resignation", "litigation_regulatory",
                      "default_or_delay", "surveillance_action"} THEN -1
    ELSE 0

DirectionOf(f) == IF f.direction # 0 THEN f.direction ELSE DefaultDirection(f.type)

MostMaterial(events) ==
    {e \in events : \A x \in events : x.filing.materiality <= e.filing.materiality}

\* The most material event of a symbol; its own direction or that of its type.  (The ten
\* best symbols of a day are all there are.)
EventDrift ==
    {[symbol |-> e.filing.symbol, direction |-> DirectionOf(e.filing), from |-> {e}] :
        e \in {x \in UNION {MostMaterial({y \in EventsOf(s) : Known(y, 3) /\ y.filing.materiality >= 3}) :
                              s \in Symbols \ AvoidList} : DirectionOf(x.filing) # 0 /\ Confident(x.filing)}}

NetOf(rows) == FoldSet(LAMBDA r, sum : IF r.type = "buy" THEN sum + r.value ELSE sum - r.value, 0, rows)

\* At least two net buyers of 25 lakhs together within 14 days; avoided symbols are out.
InsiderCluster ==
    LET recent(s) == {r \in insiderRows : r.symbol = s /\ r.date <= sigDay /\ r.date >= sigDay - 14}
        by(s, p) == {r \in recent(s) : r.person = p}
        buyers(s) == {p \in {r.person : r \in recent(s)} : NetOf(by(s, p)) > 0}
    IN {[symbol |-> s, direction |-> 1, from |-> UNION {by(s, p) : p \in buyers(s)}] :
          s \in {t \in Symbols \ AvoidList :
                   /\ Cardinality(buyers(t)) >= 2
                   /\ NetOf(UNION {by(t, p) : p \in buyers(t)}) >= 25}}

\* No avoid list here, and no look at what the summary says of the change.
GuidanceDelta ==
    {[symbol |-> e.filing.symbol, direction |-> e.filing.direction, from |-> {e}] :
        e \in {x \in UNION {MostMaterial({y \in OfType(s, "results_guidance") :
                                            Known(y, 30) /\ y.filing.materiality >= 2}) : s \in Symbols} :
                 x.filing.direction # 0}}

Strategy == <<"blowup_short", "event_drift", "insider_cluster", "guidance_delta">>

SignalsOf(strategy) ==
    CASE strategy = "blowup_short"    -> BlowupShort
      [] strategy = "event_drift"     -> EventDrift
      [] strategy = "insider_cluster" -> InsiderCluster
      [] strategy = "guidance_delta"  -> GuidanceDelta

\* One of several equally material events is taken; a row of the same symbol, day and
\* strategy is overwritten.
PersistSignals(upTo) ==
    LET new == {[symbol |-> x.symbol, day |-> sigDay, strategy |-> Strategy[i],
                 direction |-> x.direction, run |-> sigRuns, from |-> x.from] :
                  i \in 1..upTo, x \in UNION {SignalsOf(Strategy[k]) : k \in 1..upTo}}
        mine == {t \in new : \E x \in SignalsOf(t.strategy) :
                               x.symbol = t.symbol /\ x.direction = t.direction /\ x.from = t.from}
        key(t) == <<t.symbol, t.strategy>>
        chosen == {CHOOSE t \in mine : key(t) = k : k \in {key(t) : t \in mine}}
    IN sigTrades' = {t \in sigTrades : t.day # sigDay \/ ~\E c \in chosen : key(c) = key(t)}
                      \union chosen

\* The job, which may raise after some of the strategies; each commits its own rows.
RunSignalJob(upTo) ==
    /\ sigRuns < MaxSignalRuns /\ sigRuns' = sigRuns + 1
    /\ PersistSignals(upTo)
    /\ UNCHANGED <<sigDay, evening, sigEvents, insiderRows>>

\* The extraction of a filing that arrived today or before.
StoreEvents(f) ==
    /\ evening /\ f.filed <= sigDay
    /\ LET copies == {e \in sigEvents : e.filing = f}
       IN /\ Cardinality(copies) < MaxCopies
          /\ sigEvents' = sigEvents \union
               {[filing |-> f, copy |-> Cardinality(copies) + 1, at |-> sigDay]}
    /\ UNCHANGED <<sigDay, evening, insiderRows, sigTrades, sigRuns>>

EveningComes == ~evening /\ evening' = TRUE /\ UNCHANGED <<sigDay, sigEvents, insiderRows, sigTrades, sigRuns>>

DayBreaks ==
    /\ evening /\ sigDay < LastSignalDay
    /\ evening' = FALSE /\ sigDay' = sigDay + 1
    /\ UNCHANGED <<sigEvents, insiderRows, sigTrades, sigRuns>>

SignalsInit ==
    /\ sigDay = 1 /\ evening = FALSE /\ sigEvents = {} /\ insiderRows = {}
    /\ sigTrades = {} /\ sigRuns = 0

SignalsNext ==
    \/ EveningComes \/ DayBreaks \/ DeriveInsiderTrades
    \/ \E f \in Filings : StoreEvents(f)
    \/ \E upTo \in {1, 4} : RunSignalJob(upTo)

--------------------------------------------------------------------------------
(* Properties. *)

\* No trade of a day rests on a filing of that day, though the job can be asked for again
\* in the evening, when the day's events are in the store (the midnight cutoff of
\* event_drift and guidance_delta).
NoLookAhead ==
    \A t \in sigTrades :
      t.strategy \in {"event_drift", "guidance_delta"} =>
        \A e \in t.from : e.at < t.day /\ e.filing.filed < t.day

\* One run does not sell a symbol as a blowup and buy it on an event or a cluster, even
\* if its score passed the threshold since the morning (run_signal_strategies).
VetoWithinARun ==
    \A t, u \in sigTrades :
      t.strategy = "blowup_short" /\ u.strategy \in {"event_drift", "insider_cluster"}
      /\ t.run = u.run => t.symbol # u.symbol

\* A cluster is of two filings by different people as far as they are named: events that
\* a crash stored twice and derivations that ran twice do not make a second insider
\* (parse_person, the upsert of store_insider_trades).
ClusterOfTwoFilings ==
    \A t \in sigTrades :
      t.strategy = "insider_cluster" => Cardinality({r.from.id : r \in t.from}) >= 2

\* An insider's trade is not dated after the filing that tells of it, so no window looks
\* at it before it could be known (parse_trade_date, "clamped to the filing date").
TradesAreDatedByFilings == \A r \in insiderRows : r.date <= r.from.filed
================================================================================
