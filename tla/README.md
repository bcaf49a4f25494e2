# alphavedha in TLA+

A model of the trading-signal platform in `src/alphavedha`: the live engine with
its kill switch, the approval of orders over Telegram, the daily proofs, the
paper ledger, the trained models and what is served of them, the extraction of
disclosures, the daily scheduler, and the rules the rest of the program decides
by. TLC checks the modules on small instances; TLAPS proves, for every value of
their constants, the invariants and action properties of the live engine, the
runner, the publisher, the ledger, the extraction, the serving, the artifacts, the
smaller components and most of the rules, and that the runner and the publisher
implement what they promise. Paths are relative to `src/alphavedha` unless they
start with `docs/`.

## The system

One process runs the scheduler: a single thread that starts the day's jobs in
turn. A second one is the API. Both read and write the same database and the
same directory of model artifacts, and nothing but the database's transactions
keeps them apart. An operator adds command lines, which train models and run
backfills, and a cloud routine reads and writes disclosures over the API. The
semi-auto runner is one asyncio process of its own: it hands approved plans to
the order manager, which asks the kill switch and then the broker, while
Telegram's updates arrive between any two of its sends.

| Component | State | What makes it hard | What makes it correct |
|---|---|---|---|
| Kill switch, order manager, Kite adapter (`execution/`) | manual halt, last reasons; equity, peak, orders of the day, all in memory; the account at the exchange | fills between orders, calls that fail before or after the order exists, restarts, midnight | the caps hold for every entry, a halt shows, the books agree with the exchange |
| Semi-auto runner, Telegram bot (`execution/semi_auto.py`, `telegram.py`) | pending approvals, ids, last update | a suspension at every send, redelivery, buttons that outlive the process | an order is approved and placed once, a halt stops a running batch |
| Paper broker, shadow mode (`execution/broker.py`, `shadow.py`) | orders, fills, cash, brackets | a rerun of the day, oversold positions | cash and positions agree, one run of ghost fills a day |
| Prediction proofs (`verification/`) | proof row, hash, stamp and payload files, commits, remote | six writes in three places, each of which can fail, reruns, crashes | what is public verifies, the row is true, each proof is revealed |
| Paper ledger (`services/stop_evaluation.py`, `api/routes/paper_trading.py`) | trades, daily P&L, bars | two processes on snapshots, missed jobs, late bars | one outcome per trade, at the right bar, counted once |
| Daily scheduler (`scheduler.py`) | due times, job history | jobs of hours on one thread, restarts, weekends | what a job needs is done, nothing is dropped, the report is true |
| Disclosure extraction and stores (`intel/`) | disclosures, events, the ledger of costs | three transactions a batch, three extractors at once, rows that always fail | nothing is lost, the budget holds, rows get through |
| Training, artifacts, versions (`training/`, `services/model_registry.py`, `monitoring/retrainer.py`) | one directory per model, versions | trainers in two processes, half-written files, loads in between | layers fit their base models, one stack is served, no leak |
| Prediction service and cache (`services/`) | Redis, a local fallback, stored features | waits between reads, outages, openings and closings | bounded age, one day per answer |
| Relational store and migrations (`data/store.py`, `intel/store.py`, `alembic/`) | the tables | retried calls, keys that grew by migrations | an upsert can be repeated, the newest row is read |
| Data ingestion (`data/`) | bars, universe, ticks | order of refresh and file, gaps, splits | the past stays, invented prices are marked |
| Features, labels, backtests (`features/`, `labels/`, `backtest/`) | none | windows, gaps, dates of publication | no row uses what was not known |
| Gates, risk, signals (`gates/`, `risk/`, `prediction/`, `signals/`, `intel/signals/`) | stages, tiers, the book | any order of legal calls | limits hold, advice is followed, no look-ahead |
| Monitoring, public pages, operations (`monitoring/`, `api/routes/`) | none of their own | five places that compute one number | every page tells the same, an alarm is about a failure |

`PROJECT.json` has the whole list of components, with what each leaves out, and
the hazards, each at its line and with the properties that would find it going
wrong.

## Modules

**The live engine.** `KillSwitch` (`Check` builds the reasons from scratch, as
`check()` does; `Halt`, `Resume`, `ShouldFlatten`), `OrderManager` (plans, the
day's exposure with its reset, the equity setter) and `KiteBroker` (the account,
whose fills, rejections and triggers belong to the exchange) are composed in
`LiveExecution`. `ExecuteSignal` is `compute_plan` and `execute_plan` in one
step, because every call in them is synchronous; its failures are disjuncts: no
positions, a lost order, a lost answer, no bracket. `Restart` loses the memory.

**Approval.** `SemiAuto` has one step per suspension of `semi_auto.py`: between
two sends any update can be handled. The user, Telegram's queue and a restart
are actions of their own. `ApprovedOrders` is the abstract specification, five
lines of state change long: plans are shown under labels, labels are approved, a
plan is ordered once, under an approved label, and not while trading is halted.
`SemiAuto` instantiates it with `shown <- messages`, `approved <- ApprovedLabels`,
`halted <- manuallyHalted`, `orders <- ordered`.

**Proofs and trades.** `ProofPublisher` has one step per effect of the publish
and the reveal job (row, hash file, stamp, commit, push, rebase, second push,
note; payload files, mark); a payload is the version of the day's trades. Others
push to the same origin, and a rejected push makes the commits that origin lacks
anew on top of theirs: a commit is `<<own, foreign>>`, its place among the
publisher's commits and the number of foreign ones below it, so that a rebase
gives it another name, as git gives it another SHA. `CommitReveal` is the
abstract specification, for readers of the public repository: a day's predictions
are sealed by a hash of them, a seal is only replaced by that of newer ones, it is
opened `RevealAfter` days later, and then seal and content stay. `ProofPublisher`
instantiates it with `clock <- today`, `made <- ledger`, `sealed <- remote.hash`,
`opened <- remote.payload`, `spoilt <- torn`. In `PaperLedger` a job
takes a snapshot and then makes one step per transaction, and the API's requests
run in between. A bar is what it does to a trade entered at its middle. `Refresh`
(the bars of the last days) and `Bhavcopy` (today's, at 18:45) both upsert, so a
bar may change after the 17:30 check has read it; `checked` is history and keeps
what the check saw.

**Models.** `ModelStack` has the artifacts, each with two parts that are replaced
in place, the trainers (the nightly and weekly job, a command line) as processes
that open, write and note, and the API as a process that loads one model after
the other. An artifact knows which artifacts and rows it was fitted on; the rows
come from `TemporalSplit`. `PredictionServing` has coroutines that suspend at
each await, over a midnight too, the two levels of the cache, the stored features,
the bars, and the market features the service keeps for a day with the last bar
they rest on. Whatever cannot be read or computed is a disjunct: too few stored
rows are then served all the same, or none.

**Disclosures.** `IntelPipeline` has the collectors, the table, and the nightly
job, the backfill script and the routine as extractors: pull, call, store, mark,
bill, each a step, with a crash between any two. A row of the nightly job takes up
to `Providers` calls and is billed as one.

**Step machines of components that share no state with others.** `PaperDesk`
(paper broker, shadow run), `StrategyGates` (reviews, life cycle, ladder),
`JobSchedule` (the loop of `run_forever` with every job's time, weekend and
report), `IntelSignals` (derived trades, blowup score, three strategies, the
morning job), `MarketData` (universe, refresh, exchange file, poller),
`PairTrading` (the two loops over one spread), `TradingGym`, `ModelVersions`,
`OpsHealth`.

**Rules.** Functions without state are asked a question each: `Question` declares
the pair `asked`, `answer`; the initial states are the questions, and one action
per function answers. `BacktestRules` (labels, weights, splits, both trade
loops, views), `DecisionRules` (predict, regime overlay, score, rank, risk, with
the book of holdings as a step machine), `PublicRecord` (track record, dashboard,
strategies, curve, digest, portfolio, pages), `Preprocessing` (retries, rate
limit, gaps, splits, suspensions, circuits), `PooledTraining` (loaders, batches,
early stopping, alignment, regimes, the stack's columns), `RelationalStore` (the
keys after every migration, upserts, order of reading, quarters),
`ExecutionPlanning` (windows, slices, expiries), `FeatureTiming` (which bars and
which dated records a column reads, trained and served), `Monitors` (the quality
check and its mail, collapse alarm, performance report, sector ranking).

**Instances.** `MC...` modules hold the constants. `MCLiveness` sets the live
engine, the runner and the publisher side by side and runs one of them, its
`scene`; `MCComponents` does the same for the step machines and for the questions.

Variables have the names of the fields they stand for. Ghost variables are
marked `history` (what was placed and hidden, whether a limit tripped, what was
reported, torn proofs, replaced commits, the bars a check read, the bars stored at
each dawn). No guard of the program reads them; the bound `MaxCorrections` counts
by one. A definition `X_Something` is a faulty variant of `X` that no specification
uses; it shows which bug the property beside it would find.

Abstractions: money is whole units and ratios are compared by multiplication;
symbols, plans, messages and texts are model values; a learned model is what it
was fitted on, or an answer given as part of the question; a week has its
weekdays but no holidays; the month's money for extraction is a number of rows at
one price.

## Runs

Every run ends within five minutes with two workers. The properties of
`Components`, and `NightsAreClean`, `AnswersAreOfTheirDay` and `NoFilingIsLost`,
are conjunctions of named parts, each stated with its comment in the module of
its component.

| Run | Shows | Bounds, and why they do |
|---|---|---|
| `LiveSafety` | types, the halt in the status, the books against the exchange, the exposure cap, the gate before every entry | two symbols, a long signal over the 5% cap and a short one, two calls, two days, a restart, every fault of the broker, a new peak and a loss past the limit: each limit trips and the day resets with exposure on the books |
| `SemiAutoSafety` | the runner implements `ApprovedOrders`; within one process the approval is the plan's own and a halt stops a running batch (2.1 million states) | two lists, one cut by the cap and one with a plan over the position cap, three presses or commands, a raising `execute_plan`, a restart with its redelivery |
| `ProofSafety` | the publisher implements `CommitReveal`; public proofs verify, the noted commit holds or was replaced by a rebase, what is reported is public under the SHA told (3.6 million states) | two days, two versions of a day's trades, the publish job twice on the first day (`RerunDays`) and once on the second, every step failing but the last `rev-parse`, a foreign commit (`MaxOthers`), so that a backlog of two commits is rebased, a crash |
| `LedgerJobs` | one outcome, in the end, within the hold, at the stop, in one P&L row (189 thousand states) | four days and a horizon of one, so that an evaluation can be late; bars that fall or stay inside (`PriceBar`); one job missed or broken off, or one write or bar lost; one bar stored anew after its check (`MaxCorrections`) |
| `LedgerManual` | a closed trade stays closed and its verdict fits its return while the API races the jobs (6.1 million states) | three days, two predictions, every kind of bar, one manual request at any step of a job; no bar changes after its check, which neither property looks at |
| `Liveness` | a panic ends flat, an approval in time is answered, every proof is revealed (418 thousand states) | three calls, so two entries and a flatten; one list and three updates, a change of mind; three days, one publish run each, failing stamps, commits, pushes, rebases and re-reads, a crash; no foreign commits, which bear only on where a commit stands |
| `ModelStack` | a night without errors leaves layers that fit, a quiet start serves one stack, `train_all` stacks on unseen rows (769 thousand states) | four saves and three events: a job, a command in the middle of it, and a killed trainer or an API start |
| `Serving` | the price is the newest of an answer, its market of a day of the request and not older than the bars at its dawn, entries live at most the least lifetime past an opening or a closing, features and their number fit the window (1.9 million states) | two requests, at once or one on the other's answer; ten moments from Thursday 15:28 to Monday 09:17, two of them three minutes apart around a midnight that a request of five minutes (`LongestRequest`) crosses; two failures of Redis, a table or a computation; a restart |
| `Intel` | no filing is lost, the budget is passed by a batch per process and one per crash at most, times the providers, readable rows get through unless a batch of unreadable ones is before them (372 thousand states) | four filings: two of one text, one before and one after the collectors' hour, one unreadable, one boilerplate; Thursday to the next Monday and after, a budget of two rows, batches of two, two providers, a visit, a failed call, a crash. With one unreadable row and a batch of two every readable row is `Reachable`; with two it would not be, and the property says nothing of such a row |
| `Components` | the step machines and the rules, through seven properties (724 thousand states) | see below |

`Components` asks each rule every question of a small set, and the sets hold the
boundaries of the code: histories shorter than the served frame, longer than it
and than the 252-bar window; cohorts at 90% and 80% of one direction; results
without a day, an estimate or a profit; the first and last segments of a split;
ends of months in a leap year and another one. The step machines have two or
three actors each, which is what an order of two events needs.

| Property | Parts |
|---|---|
| `DeskIsSound` | the paper account balances; a day has one run of ghost fills |
| `ScheduleHolds` | a job has the work it needs; late, never dropped; the summary is of the newest reports; bad days are mailed; alarm and gate agree on a collapse; performance is relative to the newest row |
| `StrategiesAreSound` | retired is for good; advice is done; full capital takes its weeks; the judges agree; no look-ahead; vetoes within a run; clusters of two filings; dates of trades; a pair's signals are its trades |
| `StoredDataHolds` | past compositions stay; invented prices are marked; running extremes; one sign convention; quarter labels; a stale table is one whose job failed; a split breaks no series; gaps are filled from before; suspensions are the runs without volume; requests are spaced; one failure costs one symbol |
| `DecisionsHold` | mirrored shorts; the overlay only restricts; a score between its parts; no sector over its cap; plans fit their window; the next expiry is the first; restored weights are near the best |
| `RecordsHold` | labels, weights, splits, curve, folds, ranges and buckets of a backtest; accuracy, losers, top picks, right days, portfolio and pages of the record; features filled from before and read when served as in training |
| `TrainingHolds` | keys of the migrations and of the models agree; a retry is harmless, and a call with two rows of one key keeps the last or fails as a whole, by table; the newest is read; one text is enough; later records change no day, but for the first of its kind; streaks; the two calendars agree; the option chain's order decides ties and nothing else; loaders, batches, cells, columns, states and stack; the active version keeps its artifacts; the gym's books; the ranking puts the best first |

`CHECK_DEADLOCK FALSE` is set where the bounds on updates, days, saves or
questions end the model.

### Where the documents and the code differ

Two runs check what a document says and show that the code does otherwise:

| Run | The document says | The code |
|---|---|---|
| `LiveTripHolds` | a tripped limit halts until the operator resumes (`execution/kill_switch.py:11-13`) | each check builds the reasons anew, so a trip ends when its measure does |
| `IntelWeekend` | the daily ingestion fetches yesterday's announcements and stores them (`intel/collectors/bse_announcements.py:223`) | the job skips weekends and Monday's window begins on Sunday, so Friday evening and Saturday are in no run |

More was met while modelling. The models behave as the code does, and the
properties are worded so that they hold with it:

- Execution. Nothing calls `should_flatten`, so a loss limit flattens nothing
  (`docs/execution-runbook.md:69`). The ids of the runner start anew after a
  restart, so an old button approves a new plan. The cap on a day's signals is
  applied to each list; `approval_timeout_seconds` is used nowhere. One share is
  bought even if it costs more than the cap; a short plan has the target and stop
  of a long one, and its bracket sells. Working entries are not counted as
  positions, so the account can pass the cap on positions, and a `/panic` does not
  flatten what fills after it. The daily loss is measured from the peak. The paper
  broker's brackets carry no symbol.
- Ledger and proofs. The hold ends a bar early, because the evaluation comes
  before the refresh (`scheduler.py:881`, `docs/E2E_FLOW.md:91`). A trade closed
  by its stop is in no P&L row. Trades stored after the publish job are in no
  proof. A rerun that loses one of its two writes reveals what does not verify.
  A stop is checked against the bar as it is at 17:30; the exchange file of 18:45
  (`scheduler.py:1034`) and the next refresh (`data/ingestion.py:163`) may store
  another over it, which no check reads, so a held bar can go through a stop with
  no job missed. A day whose push failed keeps in its row a commit that the rebase
  of a later day puts another in place of, under another SHA, though "the next
  successful push publishes the whole backlog" (`verification/publisher.py:151-156`);
  and when the SHA cannot be read again after the rebase, the old one is reported.
- Serving. The cache promises that nothing stale passes a session's boundary
  (`services/cache.py:57-59`); the least lifetime of five minutes carries an
  entry over it. The market features built in the morning are kept all day, so an
  answer of the evening may have the price of today and the market of yesterday
  (`services/prediction_service.py:193-200`). When the computation fails, the too
  few stored rows are served without a word (`:92-101`). A load of the artifacts
  during a training mixes two stacks.
- Extraction. A row that fails is put to every provider and billed as one call
  (`intel/extraction/llm.py:271-297`, `batcher.py:166`), so a night of outages
  costs up to three times what the ledger says. The newest rows are always taken
  first: as many of them as a batch that no model can read are read again in every
  batch, paid for each time, and nothing older is extracted while they last
  ("until all disclosures are processed", `batcher.py:191`).
- Training. `train all` stacks out of sample; the nightly restack refits the
  ensemble on rows its new base model was trained on. `should_retrain` is asked
  without a report and never says yes (`scheduler.py:1504`); the drift detector
  is constructed and not run (`scheduler.py:1482`). The conformal set is the last
  symbols' rows, not the newest rows.
- Features. The countdown to board meetings reads announcements of later days,
  though its docstring says "no look-ahead" (`features/corporate_events.py:30`);
  served, it can only be 0 or 999. A frame's leading rows are filled backwards
  from later bars, and training keeps them (`features/pipeline.py`). Flows of the
  institutions are passed in training and not when serving; a 252-bar window is
  computed over some 205 bars when served, and running totals start elsewhere.
  Pledges are dated by their quarter's end, not by publication. Both columns of the
  insiders' trades are missing until there are a pledge and a trade of any day, so a
  later record turns a past day's missing value into a number
  (`features/fundamental_features.py:42`, `:239`). Of strikes with equal open
  interest the first of the chain is the point of most pain
  (`features/derivatives.py:134`).
- Data. The stores of disclosures, ratings, pledges and surveillance flags
  "deduplicate" by their docstrings (`intel/store.py:33`, `:215`, `:303`, `:382`);
  two rows of one key in one call make PostgreSQL refuse the whole call, while the
  stores that write row by row keep the last. A removed member stays in the
  universe (`docs/E2E_FLOW.md:162-164`, `data/universe.py:73`). Transcripts of a
  pair are chosen by comparing quarter labels as strings (`intel/store.py:544`),
  and filings of February to April get the label of the next fiscal year. Transcript deltas are stored again by every
  run. A table that stamps times is reported stale on a Monday morning. Freshness
  looks at the first storing of a row, which an upsert does not renew. A sector
  whose strength is not a number ranks as one at par.

### Fairness

- `LiveExecution`: the exchange works every open order, and signals keep coming.
  Nothing obliges the operator, the market or a fault.
- `SemiAuto`: the tasks of the event loop go on. A send that fails returns `None`
  (`telegram.py`), so no await blocks for ever. The user owes nothing.
- `ProofPublisher`: days pass, a job that began takes its next step (each has a
  timeout or a failing outcome), the scheduler starts the reveal job daily.
- `PaperLedger`: the loop of `run_forever` goes on. A missed job, a crash and the
  API are not fair.
- `IntelPipeline`: days pass, the collectors and the nightly job are started, and
  a process that runs takes its next step. The backfill, the routine, a failing
  call and a crash are not fair.

In `MCLiveness` one scene runs for good and the others rest, so weak fairness of
a disjunction with one action of each scene is fairness of that action.

## Proofs

Each module `X_proofs` holds the theorems about `X`, for all values of the
constants that satisfy the named assumptions of the modules that declare them.
The argument is the same throughout: an invariant with named parts, a lemma that
the initial states have it, a lemma for each action that says what the action
does (the `...Effect` lemmas), a lemma for each part that all steps keep it, and
a temporal theorem that puts them together.

**`LiveExecution_proofs`.**

- `TypeCorrect`: one step per action.
- `ManualHaltIsShown`: the flag and the shown reasons agree.
- `DrawdownIsRedundant`: both limits measure the loss from the same peak, so with
  `DailyLossLimit <= DrawdownHalt` a drawdown trip implies a loss trip.
- `ExposureIsAccounted`: needs `ExposureInv`: the manager's date is never ahead
  of the clock, nothing is placed or hidden on a day still to come, and the books
  agree today; `MidnightPasses` preserves the equation only with these.
- `ExposureIsCapped`: what the manager counts is below the cap, so a day's
  entries exceed it by what faults and restarts hid at most.
- `EntriesAreGated`: an action property; orders carry numbers up to the count of
  calls (`OrdersNumbered`), so a new entry can only come from `ExecuteSignal`.

**`SemiAuto_proofs`**, for every list of plans, cap and bound. The invariant `IInv`
is `TypeOK` with five parts: what is in the inbox was sent by the user
(`InboxInv`); the entries of a list are messages in their order with the ids of
their buttons, and an approved one has an approved label (`ListInv`); no entry
the cursor has not passed has become an order (`CursorInv`); within one process
the ids are the numbers of the messages (`IdsInv`); and the inbox is what follows
the handled updates, so a halt in force is in the flag (`HaltInv`). `CursorInv`
is what makes "once" inductive, `ListInv` what makes "approved" so.

- `TypeCorrect`, `OrderedOnce`, `OrderedIsApproved`: invariants, from `IInv`.
- `HaltStops`: an action property, from `HaltInv` and the check in the loop.
- `PromiseKept`: the refinement `Spec => Promised!Spec`: a send is `Show`, a press
  is `Approve`, a command or a restart `SetHalt`, an execution `Order`, or each of
  them a stutter; `Order`'s guards come from `ListInv` and `CursorInv`.

**`ProofPublisher_proofs`**: `TypeCorrect`, `RevealsVerify`,
`RecordedCommitsHold`, `ReportedIsThere`, all from `PublisherInv`.
`HashFollowsJob` and `FirstRun` say how far a run has come with the row, the file
and the commit, and that a later run which missed its row has torn the day;
`PathsFit` and `TreesFit` that the branch differs from origin by the own commits
after the last pushed one alone, and that a replaced commit stands on fewer foreign
ones than the branch and was never pushed; `JobNames` and `CommitNoted` that the SHA
in a job or a row names a commit with its hash, in the branch or replaced;
`Settled` that a day no rerun has torn has one version in the row and in the file
outside the two writes; `PayloadIsPast` that payloads are of past days, whose
rows and hashes no longer change, in the files, the last commit and the remote;
`ReportedIsKept` that none of the three is behind what was reported.

- `PromiseKept`: the refinement `Spec => Promised!Spec`. A push is `Publish`, the
  trades of the day are `Predict`, a day torn by a rerun is `Spoil`, and midnight
  is `DayPasses`; every other step of the two jobs is a stutter. That a push
  leaves an opened day alone comes from `PayloadIsPast`, that it opens what was
  sealed from `RevealsVerify`.

**`PaperLedger_proofs`.** The invariant grows in steps that rest on one another:
`Typed`; `PnlInv` (a closed trade counts in one row, and only a trade on the list
of the run under way may still be counted); `SnapshotHolds` (what a job holds of
a trade is what the table held); `FitInv` (an outcome under way has the sign of
its trade); `GapsAreMisses` and `OpenOnTime` (a day without a bar and a day a trade
is open past its time are each a miss); `NotedBars` and `LevelsChecked` (the check
under way reads the bars that `checked` notes, and every day it has looked at was
quiet by them).

- `TypeCorrect`, `CountedOnce`, `OutcomesFit`, `ClosedStaysClosed` (an action
  property): with every interleaving of the jobs and the requests.
- `JobsCloseOnce`, `ExitsInHold`, `StopsEnforced` under `MaxManual = 0`, the
  scheduler alone, and `ExitsInHold` for an evaluation that waits longer than a day
  (it waits 21, `scheduler.py:72`). The hold of `ExitsInHold` ends when the evaluation is due, for a
  level, and at the horizon's last day, for a close, and later by a day at most for
  each thing that went wrong. `StopsEnforced` is of the bars as the checks read them,
  for any number of bars rewritten later. A request may close a trade on any day,
  and a second time while a job holds it, so without the hypothesis they are false,
  as they are of the program; `LedgerJobs` checks them with the same value.

**`IntelPipeline_proofs`**: `TypeCorrect`, `MarkedRowsHaveEvents`,
`NoFilingLost`, `OverrunIsBounded`. `BatchSound` says of the batch of a process
what its three transactions have done so far; `EventsOwed` that a row marked, or
about to be, has its event; `CallsCounted` and `BatchesOfRows` that what was
called and not yet billed is in a batch of a living process, or was lost in a
crash, so that the overrun is a batch per process and one per crash. The ledger
counts rows; a row is up to `Providers` calls, so the calls are bounded by the rows
times that number, for every number of providers.

**`PredictionServing_proofs`**: `TypesHold`, `AnswersOfTheirDay`,
`ServedInGrace`, `LagIsBounded`. The parts speak of both levels of the cache, of
what was served last and of every request at each of its awaits. `OfTheirDay`:
`dawns[d]` is the last bar stored when day `d` began, and whatever market is kept,
read or served rests on all of those bars and on none after the price; it may lack
the bars of its own evening. `ExpiryKept`: an entry expires when `_compute_ttl` said
when it was made. `LagKept`: stored rows lie in the window before the day they were
asked for, computed ones end with the last bar, and fewer than asked for mean that
something has failed. The bound of `LagIsBounded` is that of the code: the rows and
the trading days they lag behind the price together fit into the window and the days
the request went on over, which for a full set of rows leaves the days the window has
to spare. It rests on `SpanAssumption`: the window of twice as many calendar days as
rows has the rows and as many trading days more as the model runs, on which the
refresh may be late.

**`ModelStack_proofs`**: `TypeCorrect`, `CleanNightsAlign`, `QuietStartsServe`,
`StackedOutOfFold`. `NightInv` says of a night under way which layers are already
of its base models; `LoadInv` of a load that began in quiet that what it has read
is what is on disk; `SeenInv` which rows an artifact of `train all` has seen.

- The first two assume `Restack`, the default (`scheduler.py:1588`); with it off
  the nightly job replaces base models under the old layers.
- The third assumes `Rows >= 143`: the pipeline pads a training part to 100 rows
  (`training/pipeline.py:242`), and below 143 the parts overlap. The bound is
  exact: TLC finds the overlap with 142.

**`Components_proofs`** proves six of the seven properties of `Components`.
A step of the whole is a step of each component or leaves its variables alone
(`StepIsOfTheComponents`), so each part needs the invariant of its own component;
`PartsInv` is their conjunction and `PartsHold` that it always holds.

- `StrategiesSound` (`StrategiesAreSound`): `GatesInv` bounds the active
  strategies and ties the tier to the weeks; `SignalsInv` says where the rows of
  insiders and the events come from, and that runs are numbered, so that two
  trades of one run were made under one avoid list; `PairInv` that the signals
  are two for each trade and one more while a position is open; `QuestionInv`
  that an answer is the rule's.
- `StoredDataStays` (`StoredDataHolds`): `MarketInv` says of a day's bars under
  both names of a symbol which were traded, and of the tick that its extremes were
  polled; `HealthInv` how old the newest row can be at each hour; the labels of
  two months agree just when the months lie in one window (`LabelOfWindow`). On
  the way from a provider to the bars, the factor a price is divided by is the one
  its provider multiplied it with (`WorthFollows`), and the groups without volume
  are the runs without volume (`RunsAre`).
- `DeskSound` (`DeskIsSound`): `DeskInv` keeps the equation of cash and shares
  through fills, oversold positions and slippage; a shadow run is a fold over the
  day's trades that stays within its exposure (`ShadowRunType`).
- `ScheduleSound` (`ScheduleHolds`) under `LateByLessThanADay`: the jobs of an
  evening at a minute each and all troubles together take less than a day,
  `Cardinality(Jobs) + MaxTroubles * Max(Durations) < 1440`. `BusySince` says that
  what is late has been so since a moment from which the thread was never idle, so
  lateness is bounded by the troubles; a job that is late by a day would lose one
  of its evenings, and the code has nothing against that. The run's instance is
  27 + 2 * 300 = 627.
- `DecisionsSound` (`DecisionsHold`): `BookInv` is the sector cap, kept by every
  assessment (`AssessKeeps`); a score is a weighted mean of its parts
  (`QuotientBetween`); the calendar of expiries is computed from the lengths of
  months and years (`LastThursdayIs`); the stopper's best loss is below all seen by
  less than the least improvement (`StopperInv`).
- `RecordsSound` (`RecordsHold`): the weights of labels are sums by groups
  (`SummedGroups`), the paths of a split are the choices of segments
  (`AsManyWith`), the trades of a backtest are those of a loop with an invariant of
  its own (`LoopInv`), the routes count the same trades in two groupings
  (`PartsOfGroups`), the pages are consecutive parts of one list (`RowsJoin`), and
  a cell of features is the last defined row before it (`FilledIs`).

The rules fold over sets and sequences. The library's induction theorems take an
operator, which the provers cannot instantiate; here induction is over sets of
numbers and of subsets instead (`NaturalSteps`, `SubsetSteps`: a set that holds the
least element and every next one holds all), and a fold is expanded to the
function it chooses, which `FoldExists` and `LoopExists` show to exist. From these
follow the sums and products every part is computed with (`SummedMoves`,
`SummedPart`, `MultipliedMoves`).

### Only model-checked

- Liveness, under fairness, and `ENABLED`: outside the prover's reach.
- `TrainingHolds`. Most of its parts sort or select from sequences (`SortSeq`,
  `SelectSeq`, `SetToSortSeq`) or join functions (`@@`), operators the prover's
  backends do not see into; the gym's books balance only where the divisions are
  whole, as they are for the prices of the run.
- The two runs of *Where the documents and the code differ* are counterexamples.

No module uses `RECURSIVE`.

## Not modelled

- I/O: HTTP clients and parsers of providers and collectors, PDF and HTML, login
  and sessions of the broker, the wording of messages, prompts, pages and
  reports, migrations beyond their tables and keys, the notebooks.
- Numbers: indicators, sentiment scores, statistics of risk, drift and
  calibration, option arithmetic, cointegration, Sharpe and similar ratios. Their
  inputs and dates are modelled where order or look-ahead is at stake.
- Learning: networks, boosters, the hidden Markov model and what a fit computes.
- Git beyond commits and their order: foreign commits leave the proof files alone,
  so a rebase has no conflict of its own but may fail, and a kill in the middle of
  git's own rebase leaves the branch as it was.
- Prices beyond what trips a level, partial fills, exchange holidays, and the
  profit of brackets in the live engine.
- Read-only routes and commands that only reshape what a modelled function
  returned, and demo data of the interface.

## What is left

An abstract record of trades (predicted, then closed once) that `PaperLedger`
without its manual requests implements, and theorems about sorted sequences, from
which the parts of `TrainingHolds` on ranking, reading order and batches would
follow.
