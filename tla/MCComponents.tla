------------------------------ MODULE MCComponents ------------------------------
(****************************************************************************)
(* The components that share no state with one another, each on a small     *)
(* instance: a run chooses a scene, and only that component moves.  The     *)
(* stateless rules are asked one question each.                             *)
(****************************************************************************)
EXTENDS PaperDesk, StrategyGates, JobSchedule, IntelSignals, MarketData,
        PairTrading, TradingGym, ModelVersions, OpsHealth, ExecutionPlanning,
        BacktestRules, DecisionRules, PublicRecord, Preprocessing, PooledTraining,
        RelationalStore, FeatureTiming, Monitors

VARIABLE scene

MCDeskTrades ==
    {[symbol |-> "A", side |-> "BUY", tradeable |-> TRUE, priced |-> TRUE, opens |-> TRUE],
     [symbol |-> "B", side |-> "SELL", tradeable |-> TRUE, priced |-> TRUE, opens |-> TRUE],
     [symbol |-> "B", side |-> "BUY", tradeable |-> TRUE, priced |-> TRUE, opens |-> FALSE],
     [symbol |-> "B", side |-> "BUY", tradeable |-> TRUE, priced |-> FALSE, opens |-> TRUE],
     [symbol |-> "B", side |-> "BUY", tradeable |-> FALSE, priced |-> TRUE, opens |-> TRUE]}

Filing(id, symbol, type, materiality, direction, filed, person) ==
    [id |-> id, symbol |-> symbol, type |-> type, materiality |-> materiality,
     direction |-> direction, trust |-> 80, filed |-> filed, person |-> person,
     traded |-> 2, value |-> 15]

MCFilings ==
    {Filing(1, "X", "default_or_delay", 4, 0, 1, ""), Filing(2, "X", "results_guidance", 3, 1, 2, ""),
     Filing(3, "Y", "insider_buy", 2, 1, 1, "p"), Filing(4, "Y", "insider_buy", 2, 1, 1, "")}

MCOtherScore == [s \in {"X", "Y"} |-> IF s = "X" THEN 45 ELSE 0]

Quote(high, low, last) == [high |-> high, low |-> low, last |-> last]

MCQuotes == {Quote(5, 3, 4), Quote(6, 3, 6), Quote(6, 0, 5), Quote(0, 2, 2), Quote(0, 0, 0)}

MCSectorOf == [s \in RiskSymbols |-> IF s \in {"a", "b", "c"} THEN "bank" ELSE "it"]
MCCorrelated == {<<"a", "d">>}

Paper(id, day, symbol, strategy, direction, confidence, flag, ret) ==
    [id |-> id, day |-> day, symbol |-> symbol, strategy |-> strategy, direction |-> direction,
     confidence |-> confidence, flag |-> flag, ret |-> ret]

MCPaperTrades ==
    {Paper(1, 0, "a", "s", 1, 50, <<>>, <<3>>), Paper(2, 0, "b", "s", -1, 55, <<>>, <<-2>>),
     Paper(3, 0, "b", "t", 1, 85, <<TRUE>>, <<-4>>), Paper(4, 6, "a", "t", -1, 65, <<FALSE>>, <<1>>),
     Paper(5, 6, "c", "s", 0, 75, <<TRUE>>, <<0>>), Paper(6, 7, "a", "s", 1, 65, <<TRUE>>, <<>>),
     Paper(7, 7, "b", "t", -1, 60, <<TRUE>>, <<>>), Paper(8, 7, "c", "s", -1, 90, <<FALSE>>, <<>>),
     Paper(9, 40, "a", "s", -1, 80, <<TRUE>>, <<-1>>), Paper(10, 40, "b", "t", 0, 40, <<>>, <<>>),
     Paper(11, 41, "c", "t", 1, 55, <<FALSE>>, <<5>>), Paper(12, 41, "c", "s", 1, 100, <<TRUE>>, <<0>>)}

MCCloses == [s \in {"a", "b", "c"} |-> IF s = "a" THEN <<4>> ELSE IF s = "b" THEN <<-3>> ELSE <<>>]

RulesQuestions ==
    BacktestQuestions \union DecisionQuestionSet \union RecordQuestions
        \union PreprocessingQuestions \union PooledQuestions \union StoreQuestions
        \union TimingQuestions \union MonitorQuestions

RulesAnswers ==
    BacktestAnswers \/ DecisionAnswers \/ RecordAnswers
        \/ PreprocessingAnswers \/ PooledAnswers \/ StoreAnswers
        \/ TimingAnswers \/ MonitorAnswers

Scenes == {"broker", "shadow", "gates", "schedule", "signals", "universe", "bars", "ticks",
           "pair", "gym", "versions", "health", "book", "question"}

Init ==
    /\ scene \in Scenes
    /\ DeskInit /\ GatesInit /\ ScheduleInit /\ SignalsInit /\ MarketInit
    /\ PairInit /\ GymInit /\ VersionsInit /\ HealthInit /\ BookInit
    /\ answer = <<>>
    /\ asked \in IF scene = "question" THEN GateQuestions \union PlanningQuestions \union RulesQuestions
                 ELSE {[topic |-> "none"]}

\* What the scenes move; each leaves the rest of it alone.
otherVars == <<pairVars, gymVars, versionVars, healthVars, bookVars>>
mainVars == <<deskVars, gatesVars, scheduleVars, sigVars, marketVars>>
allVars == <<mainVars, otherVars, questionVars>>

Next ==
    /\ UNCHANGED scene
    /\ \/ /\ scene = "broker" /\ BrokerNext
          /\ UNCHANGED <<gatesVars, scheduleVars, sigVars, marketVars, otherVars, questionVars>>
       \/ /\ scene = "shadow" /\ ShadowNext
          /\ UNCHANGED <<gatesVars, scheduleVars, sigVars, marketVars, otherVars, questionVars>>
       \/ /\ scene = "gates" /\ GatesNext
          /\ UNCHANGED <<deskVars, scheduleVars, sigVars, marketVars, otherVars, questionVars>>
       \/ /\ scene = "schedule" /\ ScheduleNext
          /\ UNCHANGED <<deskVars, gatesVars, sigVars, marketVars, otherVars, questionVars>>
       \/ /\ scene = "signals" /\ SignalsNext
          /\ UNCHANGED <<deskVars, gatesVars, scheduleVars, marketVars, otherVars, questionVars>>
       \/ /\ \/ scene = "universe" /\ UniverseNext
             \/ scene = "bars" /\ BarsNext
             \/ scene = "ticks" /\ TicksNext
          /\ UNCHANGED <<deskVars, gatesVars, scheduleVars, sigVars, otherVars, questionVars>>
       \/ /\ scene = "pair" /\ PairNext
          /\ UNCHANGED <<mainVars, gymVars, versionVars, healthVars, bookVars, questionVars>>
       \/ /\ scene = "gym" /\ GymNext
          /\ UNCHANGED <<mainVars, pairVars, versionVars, healthVars, bookVars, questionVars>>
       \/ /\ scene = "versions" /\ VersionsNext
          /\ UNCHANGED <<mainVars, pairVars, gymVars, healthVars, bookVars, questionVars>>
       \/ /\ scene = "health" /\ HealthHourPasses
          /\ UNCHANGED <<mainVars, pairVars, gymVars, versionVars, bookVars, questionVars>>
       \/ /\ scene = "book" /\ BookNext
          /\ UNCHANGED <<mainVars, pairVars, gymVars, versionVars, healthVars, questionVars>>
       \/ /\ scene = "question" /\ (AnswerPeriod \/ PlanningAnswers \/ RulesAnswers)
          /\ UNCHANGED <<mainVars, otherVars>>

Spec == Init /\ [][Next]_<<scene, allVars>>

--------------------------------------------------------------------------------
(* Properties: the parts are stated in the modules of the components. *)

\* The day's jobs come in an order that gives each what it needs, none is dropped, and
\* what is reported of the jobs, the bars and the predictions is what happened
\* (scheduler.py, data/quality.py, monitoring/).
ScheduleHolds ==
    /\ WhatItNeedsIsDone /\ LateNeverDropped /\ SummaryIsOfTheNewest
    /\ BadDaysAreReported /\ AlarmAndGateAgree /\ JudgedByTheNewestRow

\* Strategies live by what the reviews say of them, and what they sell and buy rests on
\* filings known before: no way to full capital is shorter than the weeks it takes, no
\* signal of a day uses the day's filings or contradicts a veto of its run, and the pairs
\* signal what their backtest trades (gates/, intel/signals, signals/pairs.py).
StrategiesAreSound ==
    /\ StrategyLifeIsSound
    /\ [](/\ NoLookAhead /\ VetoWithinARun /\ ClusterOfTwoFilings /\ TradesAreDatedByFilings
          /\ SignalsAreTheTrades)

\* What is stored stays true: the index of a past day never changes, prices nobody traded
\* at are marked, outcomes have one sign and quarters one label, a table is called stale
\* when its job has failed, and between a provider and the bars no request comes too soon,
\* no failure spreads and no price is made up (data/, intel/store.py, alembic/versions,
\* api/routes/ops.py).
StoredDataHolds ==
    /\ PastCompositionsStay
    /\ [](/\ FilledAreFlagged /\ RunningExtremes /\ OneConvention /\ LabelsFollowTheWindows
          /\ AlarmIsAboutAJob
          /\ AdjustedSeriesIsContinuous /\ FillsUseThePast /\ SuspensionsAreRuns
          /\ RequestsAreSpaced /\ OneFailureCostsOneSymbol)

\* What is stored for a model is what is read, and what is read is what it learns from: the
\* tables take a repeated call and give back what is newest, a dated record changes no day
\* before it, windows are batched once each and columns aligned by name, a model is asked as
\* it was trained, the version that serves is the one that was chosen, and a ranking puts
\* the best first (data/store.py, intel/store.py, features/, models/,
\* monitoring/retrainer.py, prediction/ranker.py, sectors/).
TrainingHolds ==
    /\ KeysAgree /\ RetryIsHarmless /\ NewestIsRead /\ OneTextIsEnough
    /\ LaterRecordsChangeNoDay /\ StreakIsTheLastRun
    /\ CalendarsAgree /\ ChainOrderDecidesTies
    /\ LoadersAgree /\ BatchesCoverWindows /\ FramesAreAligned
    /\ ServedAsTrained /\ StackSeesItsColumns /\ StatesAreNamedOnce
    /\ OneActiveVersion /\ ActiveKeepsItsArtifacts /\ GymBooksBalance
    /\ RankedAreTheBest /\ RecommendedLeadTheRanking

\* What is told of the past is true of it: labels, weights, splits and the filling of gaps
\* leak nothing from the future, the curve is that of the trades, the ranges of a simulation
\* compound to it, and every page and route tells the same of the same trades (features/,
\* labels/, backtest/, api/routes/).
RecordsHold ==
    /\ WinsAreCertain /\ DaysAreSharedOut /\ NoLeakBetweenSplits
    /\ CurveIsOfTheTrades /\ FoldsAreApart /\ RangeTelescopes /\ EveryTradeInOneBucket
    /\ RoutesAgreeOnAccuracy /\ NoLoserIsHidden /\ EveryDayHasItsTopPicks
    /\ RightDaysDoNotLose /\ PortfolioIsOfThePositions /\ PagesCoverTheList
    /\ GapsAreFilledFromBefore /\ NewestRowIsTrainedAndServedAlike

\* A decision stays within its limits: an overlay or a missing part only restrains, no
\* sequence of assessments fills a sector, a plan fits its window, and a network is restored
\* as near its best as it was left to learn (risk/, prediction/, signals/, execution/,
\* models/).
DecisionsHold ==
    /\ ShortsMirrorLongs /\ OverlayOnlyRestricts /\ ScoreIsBetweenItsParts
    /\ SectorCapHolds
    /\ PlannedTimesAreGood /\ SmallCapsFitTheWindow /\ NextExpiryIsTheFirst
    /\ RestoredIsNearBest
================================================================================
