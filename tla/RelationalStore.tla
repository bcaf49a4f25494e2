----------------------------- MODULE RelationalStore -----------------------------
(****************************************************************************)
(* The tables and the functions that write and read them: the unique keys   *)
(* the migrations leave behind, the targets the upserts name, what a second *)
(* call and a duplicate do, the order in which rows come back, and the      *)
(* quarters of the transcripts.  A row is a function of its columns; of the *)
(* columns that are no key the model keeps v and w, where w stands for what *)
(* an upsert may leave as the first call wrote it.                          *)
(****************************************************************************)
EXTENDS Question, FiniteSets, FiniteSetsExt, SequencesExt

CONSTANTS StoreBatch,  \* rows of one INSERT of the intel tables
          FilingMonths      \* months in which transcripts are filed: 12 * year + month - 1

ASSUME StoreAssumption == StoreBatch \in Nat \ {0} /\ FilingMonths \subseteq Nat

--------------------------------------------------------------------------------
(* Unique keys: name -> columns.  A key without a name of its own is pk. *)

\* The tables of the first revision, each with a serial id.
InitialSchema ==
    [alternative_data |-> [uq_alternative_data |-> {"data_type", "period_date"}],
     daily_pnl |-> [daily_pnl_date_key |-> {"date"}],
     earnings_results |-> [uq_earnings_result |-> {"symbol", "quarter", "year"}],
     insider_trades |-> <<>>,
     news_articles |-> [uq_news_article_hash |-> {"content_hash"}],
     paper_trades |-> [uq_paper_trade |-> {"symbol", "prediction_date"}],
     promoter_holdings |-> [uq_promoter_holding |-> {"symbol", "quarter_end"}],
     daily_ohlcv |-> [uq_daily_ohlcv_symbol_date |-> {"symbol", "date"}],
     features |-> [uq_feature |-> {"symbol", "date", "feature_version"}],
     derivatives_data |-> [uq_derivatives_data |-> {"symbol", "date"}],
     institutional_flows |-> [uq_institutional_flow |-> {"date", "category"}],
     corporate_actions |-> [uq_corp_action |-> {"symbol", "ex_date", "action_type"}],
     index_constituents |-> <<>>]

NewPk == [daily_ohlcv |-> {"symbol", "date"}, features |-> {"symbol", "date", "feature_version"},
          derivatives_data |-> {"symbol", "date"}, institutional_flows |-> {"date", "category"},
          daily_pnl |-> {"date"}, paper_trades |-> {"symbol", "prediction_date"},
          news_articles |-> {"content_hash", "published_date"},
          insider_trades |-> {"symbol", "trade_date", "person_name"}]

\* The old unique constraint and the id go, a natural key comes.
ToHypertables(schema) ==
    [t \in DOMAIN schema |-> IF t \in DOMAIN NewPk THEN [pk |-> NewPk[t]] ELSE schema[t]]

NewTables(schema) ==
    schema @@ [corporate_announcements |-> [uq_corp_announcement |-> {"symbol", "announced_date", "event_type"}],
               data_lineage |-> <<>>, data_quality_reports |-> <<>>,
               intraday_ohlcv |-> [pk |-> {"symbol", "date"}]]

ProofTable(schema) == schema @@ [prediction_proofs |-> [pk |-> {"proof_date"}]]

IntelTables(schema) ==
    schema @@ [disclosures |-> [uq_disclosure |-> {"symbol", "source", "filed_at", "headline"}],
               disclosure_events |-> <<>>,
               transcripts |-> [uq_transcript |-> {"symbol", "fiscal_quarter"}],
               rating_events |-> [uq_rating_event |-> {"symbol", "agency", "filed_at"}],
               pledge_snapshots |-> [uq_pledge_snapshot |-> {"symbol", "as_of"}],
               surveillance_flags |-> [uq_surveillance_flag |-> {"symbol", "list_name", "added_on"}],
               bulk_block_deals |-> <<>>]

\* paper_trades is rebuilt under a key that has the strategy.
StrategyKey(schema) ==
    [schema EXCEPT !.paper_trades = [pk |-> {"symbol", "prediction_date", "strategy"}]]

ShadowTable(schema) == schema @@ [shadow_fills |-> <<>>]

\* alembic upgrade head; the revisions that only add columns change no key.
Migrated ==
    ShadowTable(StrategyKey(IntelTables(ProofTable(NewTables(ToHypertables(InitialSchema))))))

\* The keys the models declare, by which create_all builds a database.
MarketModels ==
    [daily_ohlcv |-> [pk |-> {"symbol", "date"}],
     corporate_actions |-> [uq_corp_action |-> {"symbol", "ex_date", "action_type"}],
     index_constituents |-> <<>>, institutional_flows |-> [pk |-> {"date", "category"}],
     derivatives_data |-> [pk |-> {"symbol", "date"}],
     earnings_results |-> [uq_earnings_result |-> {"symbol", "quarter", "year"}],
     promoter_holdings |-> [uq_promoter_holding |-> {"symbol", "quarter_end"}]]

TradingModels ==
    [insider_trades |-> [pk |-> {"symbol", "trade_date", "person_name"}],
     news_articles |-> [pk |-> {"content_hash", "published_date"}],
     alternative_data |-> [uq_alternative_data |-> {"data_type", "period_date"}],
     paper_trades |-> [pk |-> {"symbol", "prediction_date", "strategy"}],
     daily_pnl |-> [pk |-> {"date"}], features |-> [pk |-> {"symbol", "date", "feature_version"}]]

ServiceModels ==
    [data_lineage |-> <<>>, data_quality_reports |-> <<>>,
     corporate_announcements |-> [uq_corp_announcement |-> {"symbol", "announced_date", "event_type"}],
     prediction_proofs |-> [pk |-> {"proof_date"}], intraday_ohlcv |-> [pk |-> {"symbol", "date"}]]

IntelModels ==
    [disclosures |-> [uq_disclosure |-> {"symbol", "source", "filed_at", "headline"}],
     disclosure_events |-> <<>>, transcripts |-> [uq_transcript |-> {"symbol", "fiscal_quarter"}],
     rating_events |-> [uq_rating_event |-> {"symbol", "agency", "filed_at"}],
     pledge_snapshots |-> [uq_pledge_snapshot |-> {"symbol", "as_of"}],
     surveillance_flags |-> [uq_surveillance_flag |-> {"symbol", "list_name", "added_on"}],
     bulk_block_deals |-> <<>>, shadow_fills |-> <<>>]

Declared == MarketModels @@ TradingModels @@ ServiceModels @@ IntelModels

Databases == {Migrated, Declared}

\* The migration of the outcome of one row: the stopped ones held direction times return.
FlipStopRows(row) ==
    IF row.reason \in {"stop_loss", "take_profit"} /\ row.direction \in {-1, 1}
    THEN [row EXCEPT !.ret = @ * row.direction] ELSE row

--------------------------------------------------------------------------------
(* Statements. *)

Failed == <<>>

On(row, cols) == [c \in cols |-> row[c]]

All == {"v", "w"}
Score == {"v"}

\* ON CONFLICT (cols) DO UPDATE SET set, for one row.
PutRow(table, cols, set, row) ==
    IF \E old \in table : On(old, cols) = On(row, cols)
    THEN {[c \in DOMAIN old |-> IF On(old, cols) = On(row, cols) /\ c \in set THEN row[c] ELSE old[c]] :
            old \in table}
    ELSE table \union {row}

\* A target is the name of a constraint or the columns of a unique index.
ByName(schema, t, name) == IF name \in DOMAIN schema[t] THEN <<schema[t][name]>> ELSE <<>>
ByColumns(schema, t, cols) == IF \E k \in DOMAIN schema[t] : schema[t][k] = cols THEN <<cols>> ELSE <<>>

\* One statement for each row, one commit.
UpsertRows(table, target, set, rows) ==
    IF target = <<>> THEN Failed
    ELSE <<FoldLeft(LAMBDA tab, row : PutRow(tab, target[1], set, row), table, rows)>>

Batch(rows, b) == SubSeq(rows, (b - 1) * StoreBatch + 1, Min({b * StoreBatch, Len(rows)}))

\* One statement for each batch, one commit; a statement that meets a row twice is refused.
UpsertBatches(table, target, set, rows) ==
    LET batches == {Batch(rows, b) : b \in 1..((Len(rows) + StoreBatch - 1) \div StoreBatch)}
    IN IF target = <<>> \/ \E s \in batches : \E i, j \in DOMAIN s :
            i # j /\ On(s[i], target[1]) = On(s[j], target[1])
       THEN Failed ELSE UpsertRows(table, target, set, rows)

--------------------------------------------------------------------------------
(* The functions that store: table -> the rows after a call. *)

StoreFeatures(schema, table, rows) ==
    UpsertRows(table, ByColumns(schema, "features", {"symbol", "date", "feature_version"}), All, rows)

StoreFiiDii(schema, table, rows) ==
    UpsertRows(table, ByColumns(schema, "institutional_flows", {"date", "category"}), All, rows)

StoreDerivatives(schema, table, rows) ==
    UpsertRows(table, ByColumns(schema, "derivatives_data", {"symbol", "date"}), All, rows)

StoreEarnings(schema, table, rows) ==
    UpsertRows(table, ByName(schema, "earnings_results", "uq_earnings_result"), All, rows)

StorePromoterHoldings(schema, table, rows) ==
    UpsertRows(table, ByName(schema, "promoter_holdings", "uq_promoter_holding"), All, rows)

\* merge: by the primary key of the model, and every column is replaced.
StoreInsiderTrades(schema, table, rows) ==
    UpsertRows(table, ByColumns(schema, "insider_trades", Declared["insider_trades"].pk), All, rows)

StoreNewsArticles(schema, table, rows) ==
    UpsertRows(table, ByColumns(schema, "news_articles", {"content_hash", "published_date"}), Score, rows)

StoreAlternativeData(schema, table, rows) ==
    UpsertRows(table, ByName(schema, "alternative_data", "uq_alternative_data"), All, rows)

StorePaperTrade(schema, table, rows) ==
    UpsertRows(table, ByColumns(schema, "paper_trades", {"symbol", "prediction_date", "strategy"}), All, rows)

\* add: a second row of a day is refused.
StoreDailyPnl(schema, table, rows) ==
    IF \E r \in table, i \in DOMAIN rows : r["date"] = rows[i]["date"] THEN Failed
    ELSE UpsertBatches(table, ByColumns(schema, "daily_pnl", {"date"}), All, rows)

StoreDisclosures(schema, table, rows) ==
    UpsertBatches(table, ByName(schema, "disclosures", "uq_disclosure"), Score, rows)

StoreRatingEvents(schema, table, rows) ==
    UpsertBatches(table, ByName(schema, "rating_events", "uq_rating_event"), All, rows)

StorePledgeSnapshots(schema, table, rows) ==
    UpsertBatches(table, ByName(schema, "pledge_snapshots", "uq_pledge_snapshot"), All, rows)

StoreSurveillanceFlags(schema, table, rows) ==
    UpsertBatches(table, ByName(schema, "surveillance_flags", "uq_surveillance_flag"), All, rows)

\* One row for each symbol and quarter, the first with a text (v = 2), else the first.
FirstWithText(rows) ==
    LET key(i) == On(rows[i], {"symbol", "fiscal_quarter"})
        better(i, j) == key(i) = key(j) /\ IF rows[i]["v"] = rows[j]["v"] THEN i < j ELSE rows[i]["v"] = 2
        kept == {i \in DOMAIN rows : ~\E j \in DOMAIN rows : better(j, i)}
    IN [n \in 1..Cardinality(kept) |-> rows[SetToSortSeq(kept, <)[n]]]

StoreTranscripts(schema, table, rows) ==
    UpsertBatches(table, ByName(schema, "transcripts", "uq_transcript"), All, FirstWithText(rows))

Keyed == {"features", "institutional_flows", "derivatives_data", "earnings_results", "promoter_holdings",
          "insider_trades", "news_articles", "alternative_data", "paper_trades", "daily_pnl",
          "disclosures", "rating_events", "pledge_snapshots", "surveillance_flags", "transcripts"}

StoreInto(t, schema, table, rows) ==
    CASE t = "features" -> StoreFeatures(schema, table, rows)
      [] t = "institutional_flows" -> StoreFiiDii(schema, table, rows)
      [] t = "derivatives_data" -> StoreDerivatives(schema, table, rows)
      [] t = "earnings_results" -> StoreEarnings(schema, table, rows)
      [] t = "promoter_holdings" -> StorePromoterHoldings(schema, table, rows)
      [] t = "insider_trades" -> StoreInsiderTrades(schema, table, rows)
      [] t = "news_articles" -> StoreNewsArticles(schema, table, rows)
      [] t = "alternative_data" -> StoreAlternativeData(schema, table, rows)
      [] t = "paper_trades" -> StorePaperTrade(schema, table, rows)
      [] t = "daily_pnl" -> StoreDailyPnl(schema, table, rows)
      [] t = "disclosures" -> StoreDisclosures(schema, table, rows)
      [] t = "rating_events" -> StoreRatingEvents(schema, table, rows)
      [] t = "pledge_snapshots" -> StorePledgeSnapshots(schema, table, rows)
      [] t = "surveillance_flags" -> StoreSurveillanceFlags(schema, table, rows)
      [] t = "transcripts" -> StoreTranscripts(schema, table, rows)

\* A call of which nothing is left when it fails.
AfterCall(t, schema, table, rows) ==
    LET result == StoreInto(t, schema, table, rows)
    IN [ok |-> result # Failed, table |-> IF result = Failed THEN table ELSE result[1]]

--------------------------------------------------------------------------------
(* The functions that read.  q is [symbol, start, end, limit]. *)

InWindow(table, col, q) == {r \in table : r[col] >= q.start /\ r[col] <= q.end}
OfSymbol(table, q) == {r \in table : r["symbol"] = q.symbol}
Since(table, col, q) == {r \in table : r[col] >= q.start}
Oldest(rows, col) == SetToSortSeq(rows, LAMBDA a, b : a[col] < b[col])
Newest(rows, col, q) ==
    LET all == SetToSortSeq(rows, LAMBDA a, b : a[col] > b[col])
    IN SubSeq(all, 1, Min({q.limit, Len(all)}))

LoadFeatures(table, q) ==
    Oldest(InWindow({r \in OfSymbol(table, q) : r["feature_version"] = 1}, "date", q), "date")
LoadFiiDii(table, q) == Oldest(InWindow(table, "date", q), "date")
LoadDerivatives(table, q) == Oldest(InWindow(OfSymbol(table, q), "date", q), "date")
LoadEarnings(table, q) == Oldest(Since(OfSymbol(table, q), "year", q), "year")
LoadPromoterHoldings(table, q) == Oldest(OfSymbol(table, q), "quarter_end")
LoadInsiderTrades(table, q) == Oldest(Since(OfSymbol(table, q), "trade_date", q), "trade_date")
LoadNewsArticles(table, q) == Oldest(InWindow(table, "published_date", q), "published_date")
LoadAlternativeData(table, q) == Oldest(InWindow(table, "period_date", q), "period_date")
LoadPaperTrades(table, q) == Oldest(InWindow(OfSymbol(table, q), "prediction_date", q), "prediction_date")

LoadDailyPnl(table, q) == Oldest(InWindow(table, "date", q), "date")
LoadDisclosures(table, q) == Newest(InWindow(OfSymbol(table, q), "filed_at", q), "filed_at", q)
LoadRatingEvents(table, q) == Newest(Since(OfSymbol(table, q), "filed_at", q), "filed_at", q)

LoadPledgeSnapshots(table, q) == Newest(OfSymbol(table, q), "as_of", q)
LoadSurveillanceFlags(table, q) == Newest(OfSymbol(table, q), "added_on", [q EXCEPT !.limit = Cardinality(table)])
LoadTranscripts(table, q) == Newest(OfSymbol(table, q), "fiscal_quarter", q)

LoadFrom(t, table, q) ==
    CASE t = "features" -> LoadFeatures(table, q)
      [] t = "institutional_flows" -> LoadFiiDii(table, q)
      [] t = "derivatives_data" -> LoadDerivatives(table, q)
      [] t = "earnings_results" -> LoadEarnings(table, q)
      [] t = "promoter_holdings" -> LoadPromoterHoldings(table, q)
      [] t = "insider_trades" -> LoadInsiderTrades(table, q)
      [] t = "news_articles" -> LoadNewsArticles(table, q)
      [] t = "alternative_data" -> LoadAlternativeData(table, q)
      [] t = "paper_trades" -> LoadPaperTrades(table, q)
      [] t = "daily_pnl" -> LoadDailyPnl(table, q)
      [] t = "disclosures" -> LoadDisclosures(table, q)
      [] t = "rating_events" -> LoadRatingEvents(table, q)
      [] t = "pledge_snapshots" -> LoadPledgeSnapshots(table, q)
      [] t = "surveillance_flags" -> LoadSurveillanceFlags(table, q)
      [] t = "transcripts" -> LoadTranscripts(table, q)

TimeColumn ==
    [features |-> "date", institutional_flows |-> "date", derivatives_data |-> "date", earnings_results |-> "year",
     promoter_holdings |-> "quarter_end", insider_trades |-> "trade_date", news_articles |-> "published_date",
     alternative_data |-> "period_date", paper_trades |-> "prediction_date", daily_pnl |-> "date",
     disclosures |-> "filed_at", rating_events |-> "filed_at", pledge_snapshots |-> "as_of",
     surveillance_flags |-> "added_on", transcripts |-> "fiscal_quarter"]

--------------------------------------------------------------------------------
(* The quarters of the transcripts. *)

\* <<quarter, fiscal year>> of a filing: the quarter of the label comes first.
InferFiscalQuarter(filing) ==
    LET month == (filing % 12) + 1 year == filing \div 12
    IN IF month \in 5..7 THEN <<4, year>>
       ELSE IF month \in 8..10 THEN <<1, year + 1>>
       ELSE IF month \in {11, 12, 1} THEN <<2, IF month >= 11 THEN year + 1 ELSE year>>
       ELSE <<3, year + 1>>

\* The transcripts of a symbol in the order of their labels, newest first.
OrderedByLabel(filings) ==
    SetToSortSeq(filings, LAMBDA a, b :
        LET x == InferFiscalQuarter(a) y == InferFiscalQuarter(b)
        IN x[1] > y[1] \/ (x[1] = y[1] /\ x[2] > y[2]))

\* (newer, older).
LoadTranscriptPairs(filings) ==
    LET records == OrderedByLabel(filings)
    IN [i \in 1..(Len(records) - 1) |-> <<records[i], records[i + 1]>>]

--------------------------------------------------------------------------------
(* Questions. *)

KeyColumns(t) == UNION {Declared[t][k] : k \in DOMAIN Declared[t]}

\* Rows of a table: in one of the columns 2, in the others 1.
Rows(t) ==
    LET cols == KeyColumns(t) \union All \union {"symbol"}
    IN {[c \in cols |-> IF c = d THEN 2 ELSE 1] : d \in cols \union {"none"}}

Reasons == {"none", "stop_loss", "take_profit"}

KeyQuestions == {[topic |-> "keys", table |-> t] : t \in DOMAIN Declared}

CallQuestions ==
    UNION {{[topic |-> "store", table |-> t, first |-> f, second |-> <<s>>, start |-> b] :
              f \in UNION {[1..n -> Rows(t)] : n \in 1..2}, s \in Rows(t), b \in 1..2} : t \in Keyed}

OutcomeQuestions ==
    {[topic |-> "outcome", direction |-> d, reason |-> r, move |-> x] :
        d \in -1..1, r \in Reasons, x \in -1..1}

TranscriptQuestions ==
    {[topic |-> "transcripts", filings |-> f] : f \in {g \in SUBSET FilingMonths : Cardinality(g) <= 3}}

StoreQuestions == KeyQuestions \union CallQuestions \union OutcomeQuestions \union TranscriptQuestions

Stored(t, first, second, start) ==
    LET once == AfterCall(t, Declared, {}, first)
        twice == AfterCall(t, Declared, once.table, second)
        retried == AfterCall(t, Declared, twice.table, second)
    IN [calls |-> <<once, twice, retried>>,
        read |-> LoadFrom(t, retried.table, [symbol |-> 1, start |-> start, end |-> 2, limit |-> 1])]

\* The paths that evaluated a trade before the migration.
OldOutcome(direction, reason, move) ==
    [direction |-> direction, reason |-> reason, ret |-> IF reason = "none" THEN move ELSE direction * move]

StoreAnswers ==
    \/ Reply("keys", [migrated |-> Migrated[asked.table], declared |-> Declared[asked.table]])
    \/ asked.topic = "store" /\ Reply("store", Stored(asked.table, asked.first, asked.second, asked.start))
    \/ asked.topic = "outcome" /\ Reply("outcome", FlipStopRows(OldOutcome(asked.direction, asked.reason, asked.move)))
    \/ asked.topic = "transcripts" /\ Reply("transcripts", LoadTranscriptPairs(asked.filings))

--------------------------------------------------------------------------------
(* Properties. *)

\* A migrated database and one built from the models have the same tables and unique keys,
\* so an upsert that works in the tests' database works in the migrated one (alembic/versions,
\* data/models.py).
KeysAgree ==
    Answered("keys") => DOMAIN Migrated = DOMAIN Declared /\ answer[1].migrated = answer[1].declared

\* A call of the night that is made again succeeds and leaves every row as it was; only the
\* profit of a day is refused the second time.  A call with two rows of one key succeeds and
\* keeps the last of them, except into the tables that are filled a batch a statement: there
\* all of it is lost (the store_ functions; of store_transcripts see below).
RetryIsHarmless ==
    Answered("store") =>
      LET once == answer[1].calls[1]
          twice == answer[1].calls[2]
          retried == answer[1].calls[3]
          last == asked.first[Len(asked.first)]
      IN /\ retried.table = twice.table
         /\ IF once.ok THEN asked.table = "transcripts" \/ \E r \in once.table : r["v"] = last["v"]
                                     /\ On(r, KeyColumns(asked.table)) = On(last, KeyColumns(asked.table))
            ELSE /\ asked.table \in {"daily_pnl", "disclosures", "rating_events",
                                     "pledge_snapshots", "surveillance_flags"}
                 /\ once.table = {} /\ On(asked.first[1], KeyColumns(asked.table))
                                          = On(last, KeyColumns(asked.table))
         /\ asked.table # "daily_pnl" => twice.ok /\ retried.ok

\* What is read has the newest row of the symbol in it and comes in the order the callers
\* rely on: oldest first of the market tables, newest first of the intel tables ("descending
\* order is part of the contract", load_pledge_snapshots).
NewestIsRead ==
    Answered("store") =>
      LET read == answer[1].read
          col == TimeColumn[asked.table]
          newest == {r \in answer[1].calls[3].table : r["symbol"] = 1 /\ r[col] = 2
                        /\ ("feature_version" \in DOMAIN r => r["feature_version"] = 1)}
      IN /\ newest # {} => \E i \in DOMAIN read : read[i][col] = 2
         /\ \A i, j \in DOMAIN read : i < j =>
              IF asked.table \in DOMAIN IntelModels THEN read[i][col] >= read[j][col]
              ELSE read[i][col] <= read[j][col]

\* Several filings of one quarter in one call do not make the call fail, and one text among
\* them is enough (store_transcripts).
OneTextIsEnough ==
    Answered("store") /\ asked.table = "transcripts" =>
      /\ answer[1].calls[1].ok
      /\ \A i \in DOMAIN asked.first : asked.first[i]["v"] = 2 =>
           \E r \in answer[1].calls[1].table :
             On(r, {"symbol", "fiscal_quarter", "v"}) = On(asked.first[i], {"symbol", "fiscal_quarter", "v"})

\* After the migration every outcome is the return of the price, whichever path stored it:
\* the profit of a trade is its direction times it (b8c9d0e1f2a3, models.py PaperTrade).
OneConvention == Answered("outcome") => answer[1].ret = asked.move \/ asked.direction = 0

\* Two filings have the same label exactly when they fall into the same three months after a
\* quarter's end, over the turn of the year too (infer_fiscal_quarter).
LabelsFollowTheWindows ==
    Answered("transcripts") =>
      \A a, b \in asked.filings :
        (InferFiscalQuarter(a) = InferFiscalQuarter(b)) = ((a - 4) \div 3 = (b - 4) \div 3)
================================================================================
