----------------------------- MODULE MCLiveness -----------------------------
(***************************************************************************)
(* Three small instances side by side, for the liveness properties of the  *)
(* proof publisher, the live engine and the semi-auto runner.  One of them *)
(* runs, and the variables of the others rest; scene says which.  The      *)
(* variables that two modules have in common are shared.                   *)
(***************************************************************************)
EXTENDS ProofPublisher, Sequences

CONSTANTS s1, s2, p1, p2, p3

Symbol == {s1, s2}

VARIABLES
    scene,
    enabled, manuallyHalted, haltReasons, equity, peakEquity, currentDate, dailyExposure,
    orders, calls, net, gtts, restarts, placedPct, uncounted, tripped, panic,
    phase, toSend, pending, cursor, counter, lastUpdateId, inbox, messages, updates, confirmed,
    batches, ordered, resolved

liveOnly == <<enabled, haltReasons, equity, peakEquity, currentDate, dailyExposure, orders,
              calls, net, gtts, placedPct, uncounted, tripped, panic>>
semiOnly == <<phase, toSend, pending, cursor, counter, lastUpdateId, inbox, messages, updates,
              confirmed, batches, ordered, resolved>>
proofOnly == <<ledger, row, work, head, remote, pathVars, job, publishes, crashes, reported,
               torn>>
sceneVars == <<scene, manuallyHalted, restarts, liveOnly, semiOnly, vars>>

\* Two long signals without a bracket.
Long(symbol) == [symbol |-> symbol, direction |-> 1, sizePct |-> 5, price |-> 2,
                 bracketed |-> FALSE]
Longs == {Long(s) : s \in Symbol}
Levels == {93, 100}

Live == INSTANCE LiveExecution
    WITH Signal <- Longs, EquityLevel <- Levels,
         MaxPositions <- 2, MaxDailyExposure <- 20, DailyLossLimit <- 2, DrawdownHalt <- 6,
         InitialEquity <- 100, MaxPositionPct <- 5, MaxDay <- 1, MaxCalls <- 3,
         MaxRestarts <- 0, BrokerFaults <- FALSE

\* One list that is cut, one that starts with a plan over the cap.
Lists == {<<p1, p2, p3>>, <<p3, p1>>}

Semi == INSTANCE SemiAuto
    WITH Batch <- Lists, OverCap <- {p3}, MaxSignalsPerDay <- 2,
         BrokerFaults <- FALSE, MaxBatches <- 1, MaxUpdates <- 3, MaxRestarts <- 0

SceneInit ==
    /\ Init /\ Live!Init /\ Semi!Init
    /\ scene \in IF enabled THEN {"live"} ELSE {"live", "semi", "proof"}

\* A step of one instance; what only the others have stays.
InLive(A)  == scene = "live" /\ A /\ UNCHANGED <<scene, semiOnly, proofOnly>>
InSemi(A)  == scene = "semi" /\ A /\ UNCHANGED <<scene, today, liveOnly, proofOnly>>
InProof(A) == scene = "proof" /\ A
                /\ UNCHANGED <<scene, manuallyHalted, restarts, liveOnly, semiOnly>>

SceneNext == InLive(Live!Next) \/ InSemi(Semi!Next) \/ InProof(Next)

\* The fairness of the three modules.  As one of them runs for good, weak
\* fairness of a disjunction with one action of each is that of the action.
SceneSpec ==
    /\ SceneInit /\ [][SceneNext]_sceneVars
    /\ WF_sceneVars(InLive(Live!ExchangeFills) \/ InSemi(Semi!SendNext)
                \/ InProof(MidnightPasses))
    /\ WF_sceneVars(InLive(Live!ExecuteSignal(Long(s1))) \/ InSemi(Semi!EndSending)
                \/ InProof(RevealStep))
    /\ WF_sceneVars(InLive(Live!ExecuteSignal(Long(s2))) \/ InSemi(Semi!BeginExecuting)
                \/ InProof(GitStep))
    /\ WF_sceneVars(InSemi(Semi!ExecuteNext) \/ InProof(StoreRow))
    /\ WF_sceneVars(InSemi(Semi!EndExecuting) \/ InProof(WriteHash))
    /\ WF_sceneVars(InSemi(Semi!Poll) \/ InProof(StampHash))
    /\ WF_sceneVars(InSemi(Semi!HandleUpdate) \/ InProof(FinishPublish))

-----------------------------------------------------------------------------

\* When /panic finds no BUY still working and nobody resumes the engine, the
\* account ends without a long position (oms.py flatten_all, telegram.py
\* _cmd_panic).
SettledPanicFlattens == scene = "live" => Live!SettledPanicFlattens

\* A plan that stands approved when execute_approved begins is answered by
\* execute_plan, unless the user takes the approval back first.
ApprovedInTimeIsExecuted == scene = "semi" => Semi!ApprovedInTimeIsExecuted

\* Every proof row of publisher.py is revealed once it is old enough, although
\* commits and pushes fail and the process goes down.
DueProofsAreRevealed == scene = "proof" => EveryProofIsRevealed
=============================================================================
