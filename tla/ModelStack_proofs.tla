---------------------------- MODULE ModelStack_proofs ----------------------------
(****************************************************************************)
(* What a clean night leaves on disk, what a quiet start of the API serves  *)
(* and what train_all stacks on, for every bound on the artifacts and the   *)
(* jobs and for every choice of the operator's commands.                    *)
(****************************************************************************)
EXTENDS ModelStack, TLAPS

Versions == 0..(MaxSaves + 2)

\* The jobs a trainer can be running.
JobsOf(p) == IF p = "cli" THEN {"all"} \cup Models ELSE {"nightly", "weekly"}

Jobs == {"nightly", "weekly", "all"} \cup Models

ProcType == [job : {"none"} \cup Jobs, step : 0..8, phase : {"fit", "dump", "describe"},
             out : ArtifactType, own : [Models -> Versions], stack : [Models -> Versions]]

ApiType == [state : {"down", "loading", "up"}, next : 1..8, got : [Models -> ArtifactType],
            has : ArtifactType, quiet : BOOLEAN]

\* A trainer is idle, or at a step of the plan of a job that is its to run.
AtWork(p) == /\ proc[p].job \in JobsOf(p)
             /\ proc[p].step \in 1..Len(Plan(proc[p].job))

Typed ==
    /\ files \in [Models -> [body : ArtifactType, meta : ArtifactType]]
    /\ proc \in [Trainers -> ProcType]
    /\ \A p \in Trainers : proc[p] = Idle \/ AtWork(p)
    /\ \A p \in Trainers : proc[p].phase = "fit" => proc[p].out = Absent
    /\ record \in {"none", "clean", "promoted_with_error", "failed", "cut"}
    /\ foreign \in BOOLEAN
    /\ api \in ApiType
    /\ saves \in 0..MaxSaves /\ events \in Nat

--------------------------------------------------------------------------------
(* The plans, the artifacts and the rows. *)

\* Every job trains models of the stack, one after another.
LEMMA PlansOfModels ==
    ASSUME NEW job \in Jobs
    PROVE  /\ Plan(job) \in Seq(Models) /\ Len(Plan(job)) \in 1..8
           /\ \A i \in 1..Len(Plan(job)) : Plan(job)[i] \in Models
  <1>1. {"xgboost", "lstm", "tft", "regime", "gnn", "ensemble", "meta_labeling", "conformal"}
           = Models
    BY DEF Models, Required, Base, Learners
  <1>2. CASE job = "nightly"
    <2>1. Plan(job) = IF Restack THEN <<"xgboost", "ensemble", "meta_labeling", "conformal">>
                                 ELSE <<"xgboost">>
      BY <1>2 DEF Plan
    <2> QED
      BY <1>1, <2>1
  <1>3. CASE job = "weekly"
    <2>1. Plan(job) = <<"lstm", "tft">>
      BY <1>3 DEF Plan
    <2> QED
      BY <1>1, <2>1
  <1>4. CASE job = "all"
    <2>1. Plan(job) = <<"xgboost", "lstm", "tft", "regime", "gnn",
                        "ensemble", "meta_labeling", "conformal">>
      BY <1>4 DEF Plan
    <2> QED
      BY <1>1, <2>1
  <1>5. CASE job \in Models
    <2>1. job \notin {"nightly", "weekly", "all"}
      BY <1>1, <1>5
    <2>2. Plan(job) = <<job>>
      BY <2>1 DEF Plan
    <2> QED
      BY <1>5, <2>2
  <1> QED
    BY <1>2, <1>3, <1>4, <1>5 DEF Jobs

\* The nightly job with the restack, step by step.
LEMMA NightlyPlan ==
    ASSUME Restack
    PROVE  /\ Len(Plan("nightly")) = 4
           /\ Plan("nightly")[1] = "xgboost" /\ Plan("nightly")[2] = "ensemble"
           /\ Plan("nightly")[3] = "meta_labeling" /\ Plan("nightly")[4] = "conformal"
  <1>1. Plan("nightly") = <<"xgboost", "ensemble", "meta_labeling", "conformal">>
    BY DEF Plan
  <1> QED
    BY <1>1

LEMMA EmptyArtifacts == Absent \in ArtifactType /\ Broken \in ArtifactType
  <1>1. MaxSaves \in Nat /\ Rows \in Nat
    BY StackAssumption
  <1>2. Nothing \in [Models -> 0..(MaxSaves + 2)]
    BY <1>1 DEF Nothing
  <1>3. 0 \in 0..(MaxSaves + 2) /\ 0 \in 0..Rows
    BY <1>1
  <1> QED
    BY <1>2, <1>3 DEF Absent, Broken, Artifact, ArtifactType

LEMMA IdleIsTyped == Idle \in ProcType
  <1>1. Nothing \in [Models -> Versions]
    BY StackAssumption DEF Nothing, Versions
  <1> QED
    BY <1>1, EmptyArtifacts DEF Idle, ProcType

\* Where the two splits end, in rows.
LEMMA SplitEnds ==
    /\ ThreeWay(Rows, 15, 15, 20, 0).train.to \in 0..Rows
    /\ TwoWay(Rows, 20, 20).train.to \in 0..Rows
  <1>1. Rows \in Nat /\ Rows > 0
    BY StackAssumption
  <1>2. ASSUME NEW e \in Int PROVE Slice(Rows, 0, e).to \in 0..Rows
    BY <1>1 DEF Slice, Lesser, Greater
  <1>3. /\ (Rows * (100 - 15 - 15)) \div 100 - 0 \in Int
        /\ (Rows * (100 - 20)) \div 100 \in Int
        /\ (Rows * (100 - 20)) \div 100 - 20 \in Int
    BY <1>1
  <1>4. Greater((Rows * (100 - 15 - 15)) \div 100 - 0, MinTrainRows) \in Int
    BY <1>3 DEF Greater, MinTrainRows
  <1> DEFINE cut == (Rows * (100 - 20)) \div 100 - 20
             end == IF cut < MinTrainRows THEN (Rows * (100 - 20)) \div 100 ELSE cut
  <1>5. end \in Int
    BY <1>3
  <1>6. TwoWay(Rows, 20, 20).train = Slice(Rows, 0, end)
    BY DEF TwoWay
  <1>7. ThreeWay(Rows, 15, 15, 20, 0).train
          = Slice(Rows, 0, Greater((Rows * (100 - 15 - 15)) \div 100 - 0, MinTrainRows))
    BY DEF ThreeWay
  <1> HIDE DEF end
  <1> QED
    BY <1>2, <1>4, <1>5, <1>6, <1>7

LEMMA TrainEndIsARow ==
    ASSUME NEW p, NEW m PROVE TrainEnd(p, m) \in 0..Rows
  BY SplitEnds DEF TrainEnd

\* What a layer says it stands on is a version of every model.
LEMMA FittedOnVersions ==
    ASSUME Typed, NEW p \in Trainers, NEW m \in Models
    PROVE  FittedOn(p, m) \in [Models -> Versions]
  <1> DEFINE here == [n \in Models |-> IF n \in Inputs(p, m) \cup {"regime"}
                                       THEN files[n].body.v ELSE 0]
  <1>1. 0 \in Versions
    BY StackAssumption DEF Versions
  <1>2. \A n \in Models : files[n].body.v \in Versions
    BY DEF Typed, ArtifactType, Versions
  <1>3. here \in [Models -> Versions]
    BY <1>1, <1>2
  <1>4. proc[p].own \in [Models -> Versions] /\ proc[p].stack \in [Models -> Versions]
    BY DEF Typed, ProcType
  <1>5. Nothing \in [Models -> Versions]
    BY <1>1 DEF Nothing
  <1>6. \A n \in Models : proc[p].own[n] \in Versions /\ here[n] \in Versions
    BY <1>3, <1>4
  <1>7. FittedOn(p, m) =
          CASE m \in {"ensemble", "meta_labeling"} /\ ~(proc[p].job = "all") -> here
            [] m = "ensemble" /\ proc[p].job = "all" ->
                 [here EXCEPT !["xgboost"] = proc[p].own["xgboost"],
                              !["gnn"] = proc[p].own["gnn"]]
            [] m = "meta_labeling" /\ proc[p].job = "all" ->
                 [proc[p].stack EXCEPT !["ensemble"] = here["ensemble"]]
            [] OTHER -> Nothing
    BY DEF FittedOn
  <1>8. "ensemble" \in Models /\ "xgboost" \in Models /\ "gnn" \in Models
    BY DEF Models, Required, Base, Learners
  <1> HIDE DEF here
  <1>9. [here EXCEPT !["xgboost"] = proc[p].own["xgboost"],
                     !["gnn"] = proc[p].own["gnn"]] \in [Models -> Versions]
    BY <1>3, <1>6, <1>8
  <1>10. [proc[p].stack EXCEPT !["ensemble"] = here["ensemble"]] \in [Models -> Versions]
    BY <1>4, <1>6, <1>8
  <1>11. CASE m \in {"ensemble", "meta_labeling"} /\ ~(proc[p].job = "all")
    BY <1>3, <1>7, <1>11
  <1>12. CASE m = "ensemble" /\ proc[p].job = "all"
    BY <1>7, <1>9, <1>12
  <1>13. CASE m = "meta_labeling" /\ proc[p].job = "all"
    BY <1>7, <1>10, <1>13
  <1>14. CASE m \notin {"ensemble", "meta_labeling"}
    BY <1>5, <1>7, <1>14
  <1> QED
    BY <1>11, <1>12, <1>13, <1>14

--------------------------------------------------------------------------------
(* What each action does to the files, the trainers and the API. *)

\* A working trainer is at a model of the stack.
LEMMA AtAModel ==
    ASSUME Typed, NEW p \in Trainers, proc[p].job # "none"
    PROVE  /\ AtWork(p) /\ proc[p].job \in Jobs /\ Current(p) \in Models
           /\ Len(Plan(proc[p].job)) \in 1..8
  <1>1. proc[p] # Idle
    BY DEF Idle
  <1>2. AtWork(p)
    BY <1>1 DEF Typed
  <1>3. proc[p].job \in Jobs
    BY <1>2 DEF AtWork, JobsOf, Jobs
  <1> QED
    BY <1>2, <1>3, PlansOfModels DEF AtWork, Current

LEMMA LaterStep ==
    ASSUME NEW r \in ProcType, NEW n \in 0..8, NEW kept \in [Models -> Versions]
    PROVE  [r EXCEPT !.step = n, !.phase = "fit", !.out = Absent, !.own = kept] \in ProcType
  BY EmptyArtifacts DEF ProcType

\* Where a trainer goes when its model is saved or not: it is idle and the history
\* has its line, or it is at a later step of the same job with nothing fitted.  A
\* nightly job goes on after a save only, and stops clean after its last one.
LEMMA Advanced ==
    ASSUME Typed, NEW p \in Trainers, proc[p].job # "none",
           NEW saved \in BOOLEAN, NEW raised \in BOOLEAN,
           Advance(p, Current(p), saved, raised)
    PROVE  /\ \A q \in Trainers : q # p => proc'[q] = proc[q]
           /\ \/ /\ proc'[p] = Idle
                 /\ record' = IF proc[p].job = "nightly" THEN Recorded(Current(p), saved)
                                                         ELSE record
                 /\ proc[p].job = "nightly" /\ saved =>
                      proc[p].step = Len(Plan("nightly"))
              \/ /\ AtWork(p)' /\ proc'[p] \in ProcType
                 /\ proc'[p].job = proc[p].job /\ proc'[p].phase = "fit"
                 /\ proc'[p].out = Absent /\ record' = record
                 /\ proc'[p].own = IF saved THEN [proc[p].own EXCEPT ![Current(p)] = proc[p].out.v]
                                            ELSE proc[p].own
                 /\ proc[p].job = "nightly" => saved /\ proc'[p].step = proc[p].step + 1
           /\ proc' \in [Trainers -> ProcType]
  <1> DEFINE m == Current(p)
             next == NextStep(p, m, saved, raised)
             plan == Plan(proc[p].job)
             over == next > Len(plan)
             kept == IF saved THEN [proc[p].own EXCEPT ![m] = proc[p].out.v] ELSE proc[p].own
             moved == [proc[p] EXCEPT !.step = next, !.phase = "fit", !.out = Absent,
                                      !.own = kept]
  <1>1. /\ AtWork(p) /\ proc[p].job \in Jobs /\ m \in Models /\ Len(plan) \in 1..8
        /\ proc[p] \in ProcType
    BY AtAModel DEF Typed
  <1>2. proc \in [Trainers -> ProcType]
    BY DEF Typed
  <1>3. /\ proc' = [proc EXCEPT ![p] = IF over THEN Idle ELSE moved]
        /\ record' = IF over /\ proc[p].job = "nightly" THEN Recorded(m, saved) ELSE record
    BY DEF Advance
  <1>4. proc[p].step \in 1..Len(plan)
    BY <1>1 DEF AtWork
  <1>5. next \in Int /\ next > proc[p].step
        /\ (proc[p].job = "nightly" => next = IF saved THEN proc[p].step + 1 ELSE Len(plan) + 1)
    BY <1>1, <1>4 DEF NextStep
  <1>6. kept \in [Models -> Versions]
    BY <1>1 DEF ProcType, ArtifactType, Versions
  <1> HIDE DEF next, kept, plan
  <1>7. ~over => moved \in ProcType
    <2> DEFINE last == Len(plan)
    <2>1. last \in 1..8 /\ proc[p].step \in 1..last
      BY <1>1, <1>4
    <2>2. over <=> next > last
      OBVIOUS
    <2> HIDE DEF last, over
    <2>3. ~over => next \in 0..8
      BY <1>5, <2>1, <2>2
    <2> QED
      BY <1>1, <1>6, <2>3, LaterStep
  <1>8. proc'[p] = IF over THEN Idle ELSE moved
    BY <1>2, <1>3
  <1>9. ~over => moved.step \in 1..Len(plan)
    BY <1>1, <1>4, <1>5 DEF ProcType
  <1>10. ~over => AtWork(p)'
    BY <1>1, <1>8, <1>9 DEF AtWork, plan, ProcType
  <1>11. ~over => /\ moved.job = proc[p].job /\ moved.phase = "fit" /\ moved.out = Absent
                  /\ moved.own = kept /\ moved.step = next
    BY <1>1 DEF ProcType
  <1>12. proc' \in [Trainers -> ProcType]
    BY <1>2, <1>3, <1>7, IdleIsTyped
  <1>13. \A q \in Trainers : q # p => proc'[q] = proc[q]
    BY <1>2, <1>3
  <1>14. CASE over
    <2>1. proc[p].job = "nightly" /\ saved => proc[p].step = Len(plan)
      BY <1>1, <1>4, <1>5, <1>14
    <2>2. proc[p].job = "nightly" => plan = Plan("nightly")
      BY DEF plan
    <2> QED
      BY <1>3, <1>8, <1>12, <1>13, <1>14, <2>1, <2>2
  <1>15. CASE ~over
    <2>1. proc[p].job = "nightly" => saved /\ next = proc[p].step + 1
      BY <1>1, <1>4, <1>5, <1>15
    <2>2. record' = record
      BY <1>3, <1>15
    <2> HIDE DEF moved
    <2> QED
      BY <1>7, <1>8, <1>10, <1>11, <1>12, <1>13, <1>15, <2>1, <2>2 DEF kept
  <1> QED
    BY <1>14, <1>15

\* The other trainer does nothing, and this one keeps its place in its job.
Alone(p) == \A q \in Trainers : q # p => proc'[q] = proc[q]

Stays(p) == /\ proc'[p].job = proc[p].job /\ proc'[p].step = proc[p].step
            /\ proc'[p].own = proc[p].own /\ AtWork(p)'

FilesType == [Models -> [body : ArtifactType, meta : ArtifactType]]

\* Only the files of model m change.
Wrote(m, body, meta) ==
    /\ files'[m].body = body /\ files'[m].meta = meta
    /\ \A n \in Models : n # m => files'[n] = files[n]
    /\ files' \in FilesType

LEMMA FitEffect ==
    ASSUME Typed, NEW p \in Trainers, Fit(p)
    PROVE  /\ proc[p].job # "none" /\ proc[p].phase = "fit"
           /\ saves < MaxSaves /\ saves' = saves + 1 /\ saves + 3 \in Versions
           /\ Alone(p) /\ Stays(p) /\ proc' \in [Trainers -> ProcType]
           /\ proc'[p].phase = "dump"
           /\ proc'[p].out = Artifact(saves + 3, proc[p].job, FittedOn(p, Current(p)),
                                      TrainEnd(p, Current(p)))
           /\ Wrote(Current(p), Broken, files[Current(p)].meta)
           /\ foreign' = (foreign \/ proc[p].job # "nightly")
           /\ UNCHANGED <<record, api, events>>
  <1> DEFINE m == Current(p)
             out == Artifact(saves + 3, proc[p].job, FittedOn(p, m), TrainEnd(p, m))
  <1>1. /\ proc[p].job # "none" /\ proc[p].phase = "fit" /\ saves < MaxSaves
        /\ proc' = [proc EXCEPT ![p].phase = "dump", ![p].out = out,
                      ![p].stack = IF m = "ensemble" THEN FittedOn(p, m) ELSE @]
        /\ files' = [files EXCEPT ![m].body = Broken]
        /\ saves' = saves + 1
        /\ foreign' = (foreign \/ proc[p].job # "nightly")
        /\ UNCHANGED <<record, api, events>>
    BY DEF Fit
  <1>2. /\ AtWork(p) /\ proc[p].job \in Jobs /\ m \in Models
        /\ proc[p] \in ProcType /\ proc \in [Trainers -> ProcType]
        /\ files \in FilesType
    BY <1>1, AtAModel DEF Typed, FilesType
  <1>3. saves + 3 \in Versions
    BY <1>1, StackAssumption DEF Typed, Versions
  <1>4. FittedOn(p, m) \in [Models -> Versions] /\ TrainEnd(p, m) \in 0..Rows
    BY <1>2, FittedOnVersions, TrainEndIsARow
  <1> HIDE DEF m
  <1>5. out \in ArtifactType
    BY <1>2, <1>3, <1>4 DEF Artifact, ArtifactType, Versions, Jobs
  <1> HIDE DEF out
  <1>6. /\ proc'[p].job = proc[p].job /\ proc'[p].step = proc[p].step
        /\ proc'[p].own = proc[p].own /\ proc'[p].phase = "dump" /\ proc'[p].out = out
        /\ \A q \in Trainers : q # p => proc'[q] = proc[q]
    BY <1>1, <1>2 DEF ProcType
  <1>7. \A on \in [Models -> Versions] : [proc EXCEPT ![p].phase = "dump", ![p].out = out,
                                                   ![p].stack = on] \in [Trainers -> ProcType]
    BY <1>2, <1>5 DEF ProcType
  <1>8. (IF m = "ensemble" THEN FittedOn(p, m) ELSE proc[p].stack) \in [Models -> Versions]
    BY <1>2, <1>4 DEF ProcType
  <1>9. proc' \in [Trainers -> ProcType]
    BY <1>1, <1>7, <1>8
  <1>10. Wrote(m, Broken, files[m].meta)
    BY <1>1, <1>2, EmptyArtifacts DEF Wrote, FilesType
  <1>11. AtWork(p)'
    BY <1>2, <1>6 DEF AtWork
  <1> QED
    BY <1>1, <1>3, <1>6, <1>9, <1>10, <1>11 DEF Alone, Stays, m, out

LEMMA DumpEffect ==
    ASSUME Typed, NEW p \in Trainers, DumpFiles(p)
    PROVE  /\ proc[p].job # "none" /\ proc[p].phase = "dump"
           /\ Alone(p) /\ Stays(p) /\ proc' \in [Trainers -> ProcType]
           /\ proc'[p].phase = "describe" /\ proc'[p].out = proc[p].out
           /\ Wrote(Current(p), proc[p].out, files[Current(p)].meta)
           /\ UNCHANGED <<record, foreign, api, saves, events>>
  <1> DEFINE m == Current(p)
  <1>1. /\ proc[p].phase = "dump"
        /\ files' = [files EXCEPT ![m].body = proc[p].out]
        /\ proc' = [proc EXCEPT ![p].phase = "describe"]
        /\ UNCHANGED <<record, foreign, api, saves, events>>
    BY DEF DumpFiles
  <1>2. proc[p].job # "none"
    <2>1. proc[p] # Idle
      BY <1>1 DEF Idle
    <2>2. AtWork(p)
      BY <2>1 DEF Typed
    <2> QED
      BY <2>2 DEF AtWork, JobsOf, Models, Required, Base, Learners
  <1>3. /\ AtWork(p) /\ m \in Models
        /\ proc[p] \in ProcType /\ proc \in [Trainers -> ProcType]
        /\ files \in FilesType
    BY <1>2, AtAModel DEF Typed, FilesType
  <1> HIDE DEF m
  <1>4. /\ proc'[p].job = proc[p].job /\ proc'[p].step = proc[p].step
        /\ proc'[p].own = proc[p].own /\ proc'[p].phase = "describe"
        /\ proc'[p].out = proc[p].out
        /\ \A q \in Trainers : q # p => proc'[q] = proc[q]
        /\ proc' \in [Trainers -> ProcType]
    BY <1>1, <1>3 DEF ProcType
  <1>5. proc[p].out \in ArtifactType
    BY <1>3 DEF ProcType
  <1>6. Wrote(m, proc[p].out, files[m].meta)
    BY <1>1, <1>3, <1>5 DEF Wrote, FilesType
  <1>7. AtWork(p)'
    BY <1>3, <1>4 DEF AtWork
  <1> QED
    BY <1>1, <1>2, <1>4, <1>6, <1>7 DEF Alone, Stays, m

\* A trainer's model is saved, or not: it is idle with a line in the history, or
\* at a later step.
MovedOn(p, saved) ==
    /\ Alone(p) /\ proc' \in [Trainers -> ProcType]
    /\ \/ /\ proc'[p] = Idle
          /\ record' = IF proc[p].job = "nightly" THEN Recorded(Current(p), saved) ELSE record
          /\ proc[p].job = "nightly" /\ saved => proc[p].step = Len(Plan("nightly"))
       \/ /\ AtWork(p)' /\ record' = record
          /\ proc'[p].job = proc[p].job /\ proc'[p].phase = "fit" /\ proc'[p].out = Absent
          /\ proc'[p].own = IF saved THEN [proc[p].own EXCEPT ![Current(p)] = proc[p].out.v]
                                     ELSE proc[p].own
          /\ proc[p].job = "nightly" => saved /\ proc'[p].step = proc[p].step + 1

LEMMA DescribeEffect ==
    ASSUME Typed, NEW p \in Trainers, WriteMetadata(p)
    PROVE  /\ proc[p].job # "none" /\ proc[p].phase = "describe"
           /\ MovedOn(p, TRUE)
           /\ Wrote(Current(p), files[Current(p)].body, proc[p].out)
           /\ UNCHANGED <<foreign, api, saves, events>>
  <1> DEFINE m == Current(p)
  <1>1. /\ proc[p].phase = "describe"
        /\ files' = [files EXCEPT ![m].meta = proc[p].out]
        /\ Advance(p, Current(p), TRUE, FALSE)
        /\ UNCHANGED <<foreign, api, saves, events>>
    BY DEF WriteMetadata
  <1>2. proc[p].job # "none"
    <2>1. proc[p] # Idle
      BY <1>1 DEF Idle
    <2>2. AtWork(p)
      BY <2>1 DEF Typed
    <2> QED
      BY <2>2 DEF AtWork, JobsOf, Models, Required, Base, Learners
  <1>3. m \in Models /\ proc[p] \in ProcType /\ files \in FilesType
    BY <1>2, AtAModel DEF Typed, FilesType
  <1>4. MovedOn(p, TRUE)
    BY <1>1, <1>2, Advanced DEF MovedOn, Alone
  <1> HIDE DEF m
  <1>5. proc[p].out \in ArtifactType
    BY <1>3 DEF ProcType
  <1>6. Wrote(m, files[m].body, proc[p].out)
    BY <1>1, <1>3, <1>5 DEF Wrote, FilesType
  <1> QED
    BY <1>1, <1>2, <1>4, <1>6 DEF m

LEMMA FailEffect ==
    ASSUME Typed, NEW p \in Trainers, FitFails(p)
    PROVE  /\ proc[p].job # "none" /\ proc[p].phase = "fit"
           /\ MovedOn(p, FALSE)
           /\ UNCHANGED <<files, foreign, api, saves, events>>
  <1>1. PICK raised \in BOOLEAN : Advance(p, Current(p), FALSE, raised)
    BY DEF FitFails
  <1>2. /\ proc[p].job # "none" /\ proc[p].phase = "fit"
        /\ UNCHANGED <<files, foreign, api, saves, events>>
    BY DEF FitFails
  <1> QED
    BY <1>1, <1>2, Advanced DEF MovedOn, Alone

LEMMA KillEffect ==
    ASSUME Typed, NEW p \in Trainers, Killed(p)
    PROVE  /\ proc[p].job # "none" /\ Alone(p) /\ proc'[p] = Idle
           /\ proc' \in [Trainers -> ProcType]
           /\ record' = IF proc[p].job = "nightly" THEN "cut" ELSE record
           /\ events' = events + 1
           /\ UNCHANGED <<files, foreign, api, saves>>
  <1>1. proc[p].job # "none"
    <2>1. AtWork(p)
      BY DEF Killed, Typed
    <2> QED
      BY <2>1 DEF AtWork, JobsOf, Models, Required, Base, Learners
  <1> QED
    BY <1>1, IdleIsTyped DEF Killed, Typed, Alone

LEMMA StartEffect ==
    ASSUME Typed, NEW p \in Trainers, NEW job \in JobsOf(p), StartJob(p, job)
    PROVE  /\ proc[p] = Idle /\ Alone(p) /\ AtWork(p)'
           /\ proc' \in [Trainers -> ProcType]
           /\ proc'[p].job = job /\ proc'[p].step = 1 /\ proc'[p].phase = "fit"
           /\ proc'[p].out = Absent /\ proc'[p].own = Nothing
           /\ events' = events + 1
           /\ foreign' = IF job = "nightly" THEN proc["cli"] # Idle ELSE foreign
           /\ api' = IF api.state = "loading" THEN [api EXCEPT !.quiet = FALSE] ELSE api
           /\ UNCHANGED <<files, record, saves>>
  <1> DEFINE started == [Idle EXCEPT !.job = job, !.step = 1]
  <1>1. /\ proc[p] = Idle /\ proc' = [proc EXCEPT ![p] = started]
        /\ events' = events + 1
        /\ foreign' = IF job = "nightly" THEN proc["cli"] # Idle ELSE foreign
        /\ api' = IF api.state = "loading" THEN [api EXCEPT !.quiet = FALSE] ELSE api
        /\ UNCHANGED <<files, record, saves>>
    BY DEF StartJob
  <1>2. job \in Jobs /\ Len(Plan(job)) \in 1..8
    BY PlansOfModels DEF JobsOf, Jobs
  <1>3. /\ started.job = job /\ started.step = 1 /\ started.phase = "fit"
        /\ started.out = Absent /\ started.own = Nothing /\ started.stack = Nothing
    BY DEF Idle
  <1>4. started \in ProcType
    <2>1. /\ \A r \in ProcType, j \in Jobs : [r EXCEPT !.job = j] \in ProcType
          /\ \A r \in ProcType : [r EXCEPT !.step = 1] \in ProcType
      BY DEF ProcType
    <2>2. started = [[Idle EXCEPT !.job = job] EXCEPT !.step = 1]
      BY DEF Idle
    <2> HIDE DEF started
    <2> QED
      BY <1>2, <2>1, <2>2, IdleIsTyped
  <1>5. proc \in [Trainers -> ProcType]
    BY DEF Typed
  <1> HIDE DEF started
  <1>6. proc'[p] = started /\ Alone(p) /\ proc' \in [Trainers -> ProcType]
    BY <1>1, <1>4, <1>5 DEF Alone
  <1>7. AtWork(p)'
    <2>1. proc'[p].job = job /\ proc'[p].step = 1
      BY <1>3, <1>6
    <2>2. 1 \in 1..Len(Plan(job))
      BY <1>2
    <2> QED
      BY <2>1, <2>2 DEF AtWork
  <1> QED
    BY <1>1, <1>3, <1>6, <1>7

LEMMA LoadOrderIsOfModels ==
    /\ Len(LoadOrder) = 8 /\ LoadOrder[8] = "gnn" /\ LoadOrder[5] = "ensemble"
    /\ \A i \in 1..8 : LoadOrder[i] \in Models
    /\ \A i \in 1..7 : LoadOrder[i] # "gnn"
    /\ \A i \in 1..8 : LoadOrder[i] = "ensemble" => i = 5
    /\ \A m \in Models : \E i \in 1..8 : LoadOrder[i] = m
    /\ \A i, j \in 1..8 : LoadOrder[i] = LoadOrder[j] => i = j
  <1>1. {"xgboost", "lstm", "tft", "regime", "gnn", "ensemble", "meta_labeling", "conformal"}
           = Models
    BY DEF Models, Required, Base, Learners
  <1>2. /\ LoadOrder[1] = "xgboost" /\ LoadOrder[2] = "lstm" /\ LoadOrder[3] = "tft"
        /\ LoadOrder[4] = "regime" /\ LoadOrder[5] = "ensemble"
        /\ LoadOrder[6] = "meta_labeling" /\ LoadOrder[7] = "conformal"
        /\ LoadOrder[8] = "gnn" /\ Len(LoadOrder) = 8
    BY DEF LoadOrder
  <1>3. \A i \in 1..8 : i = 1 \/ i = 2 \/ i = 3 \/ i = 4 \/ i = 5 \/ i = 6 \/ i = 7 \/ i = 8
    OBVIOUS
  <1>4. \A i \in 1..8 : LoadOrder[i] \in Models
    BY <1>1, <1>2, <1>3
  <1>5. \A i \in 1..7 : LoadOrder[i] # "gnn"
    BY <1>2
  <1>6. \A i \in 1..8 : LoadOrder[i] = "ensemble" => i = 5
    BY <1>2, <1>3
  <1>7. \A m \in Models : \E i \in 1..8 : LoadOrder[i] = m
    <2>1. SUFFICES ASSUME NEW m \in Models PROVE \E i \in 1..8 : LoadOrder[i] = m
      OBVIOUS
    <2>2. \/ m = "xgboost" \/ m = "lstm" \/ m = "tft" \/ m = "regime" \/ m = "ensemble"
          \/ m = "meta_labeling" \/ m = "conformal" \/ m = "gnn"
      BY <1>1
    <2> QED
      BY <1>2, <2>2
  <1>8. \A i, j \in 1..8 : LoadOrder[i] = LoadOrder[j] => i = j
    BY <1>2, <1>3
  <1> QED
    BY <1>2, <1>4, <1>5, <1>6, <1>7, <1>8

LEMMA DownIsTyped == Down \in ApiType /\ [Down EXCEPT !.state = "loading"] \in ApiType
  <1>1. [m \in Models |-> Absent] \in [Models -> ArtifactType]
    BY EmptyArtifacts
  <1>2. \A b \in BOOLEAN, s \in {"down", "loading"} :
          [state |-> s, next |-> 1, got |-> [m \in Models |-> Absent], has |-> Absent,
           quiet |-> b] \in ApiType
    BY <1>1, EmptyArtifacts DEF ApiType
  <1>3. TRUE \in BOOLEAN
    OBVIOUS
  <1>4. Down \in ApiType
    BY <1>2, <1>3 DEF Down
  <1>5. \A a \in ApiType : [a EXCEPT !.state = "loading"] \in ApiType
    BY DEF ApiType
  <1> QED
    BY <1>4, <1>5

LEMMA BootEffect ==
    ASSUME Typed, Boot
    PROVE  /\ api.state # "loading" /\ api' \in ApiType
           /\ api'.state = "loading" /\ api'.next = 1 /\ api'.quiet = Quiet
           /\ events' = events + 1
           /\ UNCHANGED <<files, proc, record, foreign, saves>>
  <1>1. /\ api.state # "loading" /\ events' = events + 1
        /\ api' = [Down EXCEPT !.state = "loading", !.quiet = Quiet]
        /\ UNCHANGED <<files, proc, record, foreign, saves>>
    BY DEF Boot
  <1>2. \A b \in BOOLEAN : [Down EXCEPT !.state = "loading", !.quiet = b] \in ApiType
    <2>1. \A a \in ApiType, b \in BOOLEAN : [a EXCEPT !.quiet = b] \in ApiType
      BY DEF ApiType
    <2>2. \A b \in BOOLEAN : [Down EXCEPT !.state = "loading", !.quiet = b]
                               = [[Down EXCEPT !.state = "loading"] EXCEPT !.quiet = b]
      BY DEF Down
    <2> QED
      BY <2>1, <2>2, DownIsTyped
  <1>3. Quiet \in BOOLEAN
    BY DEF Quiet
  <1>4. api' \in ApiType
    BY <1>1, <1>2, <1>3
  <1>5. api'.state = "loading" /\ api'.next = 1
    BY <1>1 DEF Down
  <1>6. api'.quiet = Quiet
    <2>1. \A b : [Down EXCEPT !.state = "loading", !.quiet = b].quiet = b
      BY DEF Down
    <2> QED
      BY <1>1, <2>1
  <1> QED
    BY <1>1, <1>4, <1>5, <1>6

LEMMA LoadEffect ==
    ASSUME Typed, LoadModel
    PROVE  /\ api.state = "loading" /\ api.next \in 1..8 /\ api' \in ApiType
           /\ \/ api' = Down
              \/ /\ LoadOrder[api.next] = "gnn" \/ Readable(LoadOrder[api.next])
                 /\ api'.state = IF api.next = 8 THEN "up" ELSE "loading"
                 /\ api.next < 8 => api'.next = api.next + 1
                 /\ api'.quiet = api.quiet
                 /\ api'.got[LoadOrder[api.next]] = IF Readable(LoadOrder[api.next])
                                                    THEN files[LoadOrder[api.next]].body
                                                    ELSE Absent
                 /\ \A n \in Models : n # LoadOrder[api.next] => api'.got[n] = api.got[n]
                 /\ api'.has = IF api.next = 5 THEN files["ensemble"].meta ELSE api.has
           /\ UNCHANGED <<files, proc, record, foreign, saves, events>>
  <1> DEFINE m == LoadOrder[api.next]
             body == IF Readable(m) THEN files[m].body ELSE Absent
             has == IF m = "ensemble" THEN files[m].meta ELSE api.has
             next == IF api.next = 8 THEN 1 ELSE api.next + 1
             state == IF api.next = 8 THEN "up" ELSE api.state
             loaded == [api EXCEPT !.next = next, !.state = state, !.got[m] = body, !.has = has]
  <1>1. /\ api.state = "loading"
        /\ api' = IF m # "gnn" /\ ~Readable(m) THEN Down ELSE loaded
        /\ UNCHANGED <<files, proc, record, foreign, saves, events>>
    BY LoadOrderIsOfModels DEF LoadModel
  <1>2. api \in ApiType /\ api.next \in 1..8 /\ m \in Models
    BY LoadOrderIsOfModels DEF Typed, ApiType
  <1>3. (m = "ensemble") <=> (api.next = 5)
    BY <1>2, LoadOrderIsOfModels
  <1>4. body \in ArtifactType /\ has \in ArtifactType
    BY <1>2, EmptyArtifacts DEF Typed, ApiType, Models, Required, Base, Learners
  <1>5. next \in 1..8 /\ state \in {"down", "loading", "up"}
    BY <1>1, <1>2
  <1> HIDE DEF m, body, has, next, state
  <1>6. loaded \in ApiType
    <2>1. \A a \in ApiType, n \in 1..8, s \in {"down", "loading", "up"}, b \in ArtifactType,
             h \in ArtifactType :
             [a EXCEPT !.next = n, !.state = s, !.got[m] = b, !.has = h] \in ApiType
      BY <1>2 DEF ApiType
    <2> QED
      BY <1>2, <1>4, <1>5, <2>1
  <1>7. /\ loaded.next = next /\ loaded.state = state /\ loaded.has = has
        /\ loaded.quiet = api.quiet /\ loaded.got[m] = body
        /\ \A n \in Models : n # m => loaded.got[n] = api.got[n]
    BY <1>2 DEF ApiType
  <1> HIDE DEF loaded
  <1>8. CASE m # "gnn" /\ ~Readable(m)
    BY <1>1, <1>2, <1>8, DownIsTyped
  <1>9. CASE m = "gnn" \/ Readable(m)
    <2>1. api' = loaded
      BY <1>1, <1>9
    <2>2. state = (IF api.next = 8 THEN "up" ELSE "loading")
             /\ (api.next < 8 => next = api.next + 1)
      BY <1>1, <1>2 DEF state, next
    <2>3. has = IF api.next = 5 THEN files["ensemble"].meta ELSE api.has
      BY <1>3 DEF has
    <2> QED
      BY <1>1, <1>2, <1>6, <1>7, <1>9, <2>1, <2>2, <2>3 DEF m, body
  <1> QED
    BY <1>8, <1>9

--------------------------------------------------------------------------------
(* Types. *)

\* What a trainer step does, whichever it is: the other trainer is left alone, and
\* this one is idle or at a step of a plan.
TrainerStep(p) == Fit(p) \/ DumpFiles(p) \/ WriteMetadata(p) \/ FitFails(p) \/ Killed(p)

Start == \E p \in Trainers : \E job \in JobsOf(p) : StartJob(p, job)

LEMMA StepsOfNext ==
    ASSUME Next PROVE Start \/ (\E p \in Trainers : TrainerStep(p)) \/ Boot \/ LoadModel
  <1>1. "scheduler" \in Trainers /\ "cli" \in Trainers
    BY DEF Trainers
  <1>2. "nightly" \in JobsOf("scheduler") /\ "weekly" \in JobsOf("scheduler")
    BY DEF JobsOf
  <1>3. Commands \subseteq JobsOf("cli")
    BY StackAssumption DEF JobsOf
  <1>4. Nightly => Start
    BY <1>1, <1>2 DEF Nightly, Start
  <1>5. Weekly => Start
    BY <1>1, <1>2 DEF Weekly, Start
  <1>6. Command => Start
    BY <1>1, <1>3 DEF Command, Start
  <1> QED
    BY <1>4, <1>5, <1>6 DEF Next, TrainerStep

LEMMA TypedInit ==
    ASSUME Init PROVE Typed
  <1>1. Rows \in Nat /\ MaxSaves \in Nat
    BY StackAssumption
  <1>2. 0 \in Versions /\ 1 \in Versions /\ 2 \in Versions
    BY <1>1 DEF Versions
  <1>3. \A m \in Models : Shipped(m) \in ArtifactType
    BY <1>2, SplitEnds DEF Shipped, Artifact, ArtifactType, Versions
  <1>4. Orphan \in ArtifactType
    BY <1>2, SplitEnds DEF Orphan, Nothing, Artifact, ArtifactType, Versions
  <1>5. PICK last \in {Shipped("xgboost"), Orphan} :
          files = [m \in Models |-> LET a == IF m = "xgboost" THEN last ELSE Shipped(m)
                                    IN [body |-> a, meta |-> a]]
    BY DEF Init
  <1>6. last \in ArtifactType
    BY <1>3, <1>4 DEF Models, Required, Base, Learners
  <1>7. files \in FilesType
    BY <1>3, <1>5, <1>6 DEF FilesType
  <1>8. proc \in [Trainers -> ProcType] /\ \A p \in Trainers : proc[p] = Idle
    BY IdleIsTyped DEF Init
  <1>9. \A p \in Trainers : proc[p].out = Absent
    BY <1>8 DEF Idle
  <1>10. /\ record \in {"none", "clean", "promoted_with_error", "failed", "cut"}
         /\ api \in ApiType /\ saves \in 0..MaxSaves /\ events \in Nat
    BY <1>1, DownIsTyped DEF Init
  <1>11. foreign \in BOOLEAN
    BY DEF Init
  <1> QED
    BY <1>7, <1>8, <1>9, <1>10, <1>11 DEF Typed, FilesType

LEMMA TypedStep ==
    ASSUME Typed, [Next]_vars PROVE Typed'
  <1>1. CASE Start
    <2>1. PICK p \in Trainers : \E job \in JobsOf(p) : StartJob(p, job)
      BY <1>1 DEF Start
    <2>2. PICK job \in JobsOf(p) : StartJob(p, job)
      BY <2>1
    <2>3. /\ Alone(p) /\ AtWork(p)' /\ proc' \in [Trainers -> ProcType]
          /\ proc'[p].phase = "fit" /\ proc'[p].out = Absent
          /\ events' = events + 1
          /\ foreign' = IF job = "nightly" THEN proc["cli"] # Idle ELSE foreign
          /\ api' = IF api.state = "loading" THEN [api EXCEPT !.quiet = FALSE] ELSE api
          /\ UNCHANGED <<files, record, saves>>
      BY <2>2, StartEffect
    <2>4. api' \in ApiType
      BY <2>3 DEF Typed, ApiType
    <2>5. foreign' \in BOOLEAN
      BY <2>3 DEF Typed
    <2>6. \A q \in Trainers : /\ proc'[q] = Idle \/ AtWork(q)'
                              /\ proc'[q].phase = "fit" => proc'[q].out = Absent
      BY <2>3 DEF Alone, Typed, AtWork
    <2> QED
      BY <2>3, <2>4, <2>5, <2>6 DEF Typed
  <1>2. CASE \E p \in Trainers : TrainerStep(p)
    <2>1. PICK p \in Trainers : TrainerStep(p)
      BY <1>2
    <2>2. /\ Alone(p) /\ proc' \in [Trainers -> ProcType] /\ files' \in FilesType
          /\ proc'[p] = Idle \/ AtWork(p)'
          /\ proc'[p].phase = "fit" => proc'[p].out = Absent
          /\ record' \in {"none", "clean", "promoted_with_error", "failed", "cut"}
          /\ foreign' \in BOOLEAN /\ api' = api
          /\ saves' \in 0..MaxSaves /\ events' \in Nat
      <3>1. CASE Fit(p)
        <4>1. /\ Alone(p) /\ Stays(p) /\ proc' \in [Trainers -> ProcType]
              /\ files' \in FilesType /\ proc'[p].phase = "dump"
              /\ foreign' = (foreign \/ proc[p].job # "nightly")
              /\ UNCHANGED <<record, api, events>>
          BY <3>1, FitEffect DEF Wrote
        <4>2. saves' \in 0..MaxSaves
          BY <3>1, FitEffect, StackAssumption DEF Typed
        <4> QED
          BY <4>1, <4>2 DEF Stays, Typed
      <3>2. CASE DumpFiles(p)
        BY <3>2, DumpEffect DEF Typed, Stays, Wrote
      <3>3. ASSUME NEW saved \in BOOLEAN, MovedOn(p, saved)
            PROVE  /\ Alone(p) /\ proc' \in [Trainers -> ProcType]
                   /\ proc'[p] = Idle \/ AtWork(p)'
                   /\ proc'[p].phase = "fit" => proc'[p].out = Absent
                   /\ record' \in {"none", "clean", "promoted_with_error", "failed", "cut"}
        BY <3>3 DEF MovedOn, Recorded, Typed, Idle
      <3>4. CASE WriteMetadata(p)
        BY <3>3, <3>4, DescribeEffect DEF Typed, Wrote
      <3>5. CASE FitFails(p)
        BY <3>3, <3>5, FailEffect DEF Typed, FilesType
      <3>6. CASE Killed(p)
        BY <3>6, KillEffect DEF Typed, FilesType, Idle
      <3> QED
        BY <2>1, <3>1, <3>2, <3>4, <3>5, <3>6 DEF TrainerStep
    <2>3. \A q \in Trainers : /\ proc'[q] = Idle \/ AtWork(q)'
                              /\ proc'[q].phase = "fit" => proc'[q].out = Absent
      BY <2>2 DEF Alone, Typed, AtWork
    <2> QED
      BY <2>2, <2>3 DEF Typed, FilesType
  <1>3. CASE Boot
    BY <1>3, BootEffect DEF Typed, AtWork
  <1>4. CASE LoadModel
    BY <1>4, LoadEffect DEF Typed, AtWork
  <1>5. CASE UNCHANGED vars
    BY <1>5 DEF vars, Typed, AtWork
  <1> QED
    BY <1>1, <1>2, <1>3, <1>4, <1>5, StepsOfNext

\* Every variable keeps its full type: artifacts name versions that were written,
\* an idle trainer is Idle in every field and a working one is at a step of the
\* plan of a job it may run.
THEOREM TypesHold == Spec => []Typed
  <1>1. Init => Typed
    BY TypedInit
  <1>2. Typed /\ [Next]_vars => Typed'
    BY TypedStep
  <1> QED
    BY <1>1, <1>2, PTL DEF Spec

\* The files, the trainers' steps, the job history and the API's place in its load
\* order keep their shape (TypeOK), whatever jobs run, fail or are killed.
THEOREM TypeCorrect == Spec => []TypeOK
  <1>1. ASSUME Typed PROVE TypeOK
    <2>1. \A m \in Models : files[m].body \in ArtifactType /\ files[m].meta \in ArtifactType
      BY <1>1 DEF Typed
    <2>2. \A p \in Trainers : proc[p] = Idle \/ proc[p].step \in 1..Len(Plan(proc[p].job))
      BY <1>1 DEF Typed, AtWork
    <2>3. api.state \in {"down", "loading", "up"} /\ api.next \in 1..Len(LoadOrder)
      BY <1>1, LoadOrderIsOfModels DEF Typed, ApiType
    <2> QED
      BY <1>1, <2>1, <2>2, <2>3 DEF Typed, TypeOK
  <1> QED
    BY <1>1, TypesHold, PTL

--------------------------------------------------------------------------------
(* A clean night.  The restack fits each layer on what is on disk and writes it *)
(* over the old one; as long as no other job has written since the night began, *)
(* what a layer was fitted on is still there.                                   *)

\* The base models an artifact was fitted on are the ones on disk.
OnDisk(a) == \A n \in Base : a.on[n] = files[n].body.v

EnsembleStands ==
    /\ OnDisk(files["ensemble"].body) /\ files["ensemble"].body.on["gnn"] = 0
    /\ files["ensemble"].meta = files["ensemble"].body

MetaStands ==
    /\ OnDisk(files["meta_labeling"].body)
    /\ files["meta_labeling"].body.on["ensemble"] = files["ensemble"].body.v

Night == proc["scheduler"]

\* What a nightly job has put in place, step by step.
NightSoFar ==
    /\ Night.step = 2 /\ Night.phase # "fit" => OnDisk(Night.out) /\ Night.out.on["gnn"] = 0
    /\ Night.step = 2 /\ Night.phase = "describe" => files["ensemble"].body = Night.out
    /\ Night.step >= 3 => EnsembleStands
    /\ Night.step = 3 /\ Night.phase # "fit" =>
         OnDisk(Night.out) /\ Night.out.on["ensemble"] = files["ensemble"].body.v
    /\ Night.step = 3 /\ Night.phase = "describe" => files["meta_labeling"].body = Night.out
    /\ Night.step = 4 => MetaStands

NightInv ==
    ~foreign =>
      /\ proc["cli"].phase = "fit"
      /\ Night.job # "nightly" => Night.phase = "fit"
      /\ Night.job = "nightly" => NightSoFar
      /\ Night.job # "nightly" /\ record = "clean" => EnsembleStands /\ MetaStands

LEMMA ModelNames ==
    /\ Base \subseteq Models /\ {"ensemble", "meta_labeling", "conformal", "gnn"} \subseteq Models
    /\ "ensemble" \notin Base /\ "meta_labeling" \notin Base /\ "conformal" \notin Base
    /\ "gnn" \notin Base
    /\ "scheduler" \in Trainers /\ "cli" \in Trainers
    /\ \A p \in Trainers : p = "scheduler" \/ p = "cli"
    /\ "nightly" \notin JobsOf("cli") /\ "nightly" \notin Models
    /\ "none" \notin Jobs
  BY DEF Models, Required, Base, Learners, Trainers, JobsOf, Jobs

\* Files that stay keep what stands on them.
LEMMA StandsKept ==
    ASSUME UNCHANGED files
    PROVE  /\ \A a : OnDisk(a)' <=> (\A n \in Base : a'.on[n] = files[n].body.v)
           /\ EnsembleStands' <=> EnsembleStands
           /\ MetaStands' <=> MetaStands
  BY DEF OnDisk, EnsembleStands, MetaStands

\* A layer of the nightly restack is fitted on the base models on disk, without a
\* GNN; meta-labeling on the ensemble on disk too.
LEMMA NightlyFit ==
    ASSUME NEW p \in Trainers, proc[p].job = "nightly", NEW m \in {"ensemble", "meta_labeling"}
    PROVE  /\ \A n \in Base : FittedOn(p, m)[n] = files[n].body.v
           /\ m = "ensemble" => FittedOn(p, m)["gnn"] = 0
           /\ m = "meta_labeling" => FittedOn(p, m)["ensemble"] = files["ensemble"].body.v
  <1>1. FittedOn(p, m) = [n \in Models |-> IF n \in Inputs(p, m) \cup {"regime"}
                                           THEN files[n].body.v ELSE 0]
    BY DEF FittedOn
  <1>2. m = "ensemble" => Inputs(p, m) = Learners
    BY DEF Inputs
  <1>3. m = "meta_labeling" => Inputs(p, m) = Learners \cup {"ensemble"}
    BY DEF Inputs
  <1>4. \A n \in Base : n \in Inputs(p, m) \cup {"regime"} /\ n \in Models
    BY <1>2, <1>3 DEF Base, Models, Required, Learners
  <1>5. m = "ensemble" => "gnn" \notin Inputs(p, m) \cup {"regime"}
    BY <1>2 DEF Learners
  <1> QED
    BY <1>1, <1>3, <1>4, <1>5, ModelNames

\* A write to a model no layer stands on leaves the layers standing, and one to
\* meta-labeling the ensemble.
LEMMA WroteAbove ==
    ASSUME NEW m \in {"meta_labeling", "conformal"}, NEW body, NEW meta, Wrote(m, body, meta)
    PROVE  /\ \A n \in Base : files'[n] = files[n]
           /\ files'["ensemble"] = files["ensemble"]
           /\ EnsembleStands => EnsembleStands'
           /\ m = "conformal" /\ MetaStands => MetaStands'
  <1>1. /\ \A n \in Base : files'[n] = files[n]
        /\ files'["ensemble"] = files["ensemble"]
    BY ModelNames DEF Wrote
  <1>2. m = "conformal" => files'["meta_labeling"] = files["meta_labeling"]
    BY ModelNames DEF Wrote
  <1> QED
    BY <1>1, <1>2 DEF EnsembleStands, MetaStands, OnDisk

LEMMA NightlyAt ==
    ASSUME Restack, Typed, Night.job = "nightly"
    PROVE  /\ Night.step \in 1..4
           /\ Current("scheduler") = CASE Night.step = 1 -> "xgboost"
                                       [] Night.step = 2 -> "ensemble"
                                       [] Night.step = 3 -> "meta_labeling"
                                       [] Night.step = 4 -> "conformal"
  <1>1. Night # Idle /\ "scheduler" \in Trainers
    BY ModelNames DEF Idle, Night
  <1>2. AtWork("scheduler")
    BY <1>1 DEF Typed, Night
  <1>3. Night.step \in 1..4
    BY <1>2, NightlyPlan DEF AtWork, Night
  <1>4. Current("scheduler") = Plan("nightly")[Night.step]
    BY DEF Current, Night
  <1> QED
    BY <1>3, <1>4, NightlyPlan

\* The steps of a nightly job that nothing else writes beside.
LEMMA NightFit ==
    ASSUME Restack, Typed, NightInv, ~foreign, Night.job = "nightly", Fit("scheduler")
    PROVE  NightSoFar'
  <1> DEFINE p == "scheduler"
             m == Current(p)
  <1>1. p \in Trainers /\ NightSoFar /\ Night.step \in 1..4
    BY ModelNames, NightlyAt DEF NightInv
  <1>2. /\ Stays(p) /\ proc'[p].phase = "dump"
        /\ proc'[p].out.on = FittedOn(p, m)
        /\ Wrote(m, Broken, files[m].meta)
    <2>1. /\ Stays(p) /\ proc'[p].phase = "dump"
          /\ proc'[p].out = Artifact(saves + 3, proc[p].job, FittedOn(p, m), TrainEnd(p, m))
          /\ Wrote(m, Broken, files[m].meta)
      BY <1>1, FitEffect
    <2> QED
      BY <2>1 DEF Artifact
  <1>3. Night'.step = Night.step /\ Night'.phase = "dump" /\ Night'.out.on = FittedOn(p, m)
    BY <1>2 DEF Stays, Night
  <1>4. CASE Night.step = 1
    BY <1>3, <1>4 DEF NightSoFar
  <1>5. CASE Night.step = 2
    <2>1. m = "ensemble"
      BY <1>5, NightlyAt
    <2>2. \A n \in Base : files'[n] = files[n]
      BY <1>2, <2>1, ModelNames DEF Wrote
    <2>3. /\ \A n \in Base : FittedOn(p, m)[n] = files[n].body.v
          /\ FittedOn(p, m)["gnn"] = 0
      BY <1>1, <2>1, NightlyFit DEF Night
    <2>4. OnDisk(Night.out)' /\ Night'.out.on["gnn"] = 0
      BY <1>3, <2>2, <2>3 DEF OnDisk
    <2> QED
      BY <1>3, <1>5, <2>4 DEF NightSoFar
  <1>6. CASE Night.step = 3
    <2>1. m = "meta_labeling"
      BY <1>6, NightlyAt
    <2>2. /\ \A n \in Base : files'[n] = files[n]
          /\ files'["ensemble"] = files["ensemble"]
          /\ EnsembleStands'
      BY <1>1, <1>2, <1>6, <2>1, WroteAbove DEF NightSoFar
    <2>3. /\ \A n \in Base : FittedOn(p, m)[n] = files[n].body.v
          /\ FittedOn(p, m)["ensemble"] = files["ensemble"].body.v
      BY <1>1, <2>1, NightlyFit DEF Night
    <2>4. OnDisk(Night.out)' /\ Night'.out.on["ensemble"] = files'["ensemble"].body.v
      BY <1>3, <2>2, <2>3 DEF OnDisk
    <2> QED
      BY <1>3, <1>6, <2>2, <2>4 DEF NightSoFar
  <1>7. CASE Night.step = 4
    <2>1. m = "conformal"
      BY <1>7, NightlyAt
    <2>2. EnsembleStands' /\ MetaStands'
      BY <1>1, <1>2, <1>7, <2>1, WroteAbove DEF NightSoFar
    <2> QED
      BY <1>3, <1>7, <2>2 DEF NightSoFar
  <1> QED
    BY <1>1, <1>4, <1>5, <1>6, <1>7

LEMMA NightDump ==
    ASSUME Restack, Typed, NightInv, ~foreign, Night.job = "nightly", DumpFiles("scheduler")
    PROVE  NightSoFar'
  <1> DEFINE p == "scheduler"
             m == Current(p)
  <1>1. p \in Trainers /\ NightSoFar /\ Night.step \in 1..4
    BY ModelNames, NightlyAt DEF NightInv
  <1>2. /\ Stays(p) /\ proc[p].phase = "dump" /\ proc'[p].phase = "describe"
        /\ proc'[p].out = proc[p].out
        /\ Wrote(m, proc[p].out, files[m].meta)
    BY <1>1, DumpEffect
  <1>3. /\ Night'.step = Night.step /\ Night'.phase = "describe" /\ Night'.out = Night.out
        /\ Night.phase = "dump"
    BY <1>2 DEF Stays, Night
  <1>4. CASE Night.step = 1
    BY <1>3, <1>4 DEF NightSoFar
  <1>5. CASE Night.step = 2
    <2>1. m = "ensemble"
      BY <1>5, NightlyAt
    <2>2. /\ \A n \in Base : files'[n] = files[n]
          /\ files'["ensemble"].body = Night.out
      BY <1>2, <2>1, ModelNames DEF Wrote, Night
    <2>3. OnDisk(Night.out)' /\ Night'.out.on["gnn"] = 0
      BY <1>1, <1>3, <1>5, <2>2 DEF OnDisk, NightSoFar
    <2> QED
      BY <1>3, <1>5, <2>2, <2>3 DEF NightSoFar
  <1>6. CASE Night.step = 3
    <2>1. m = "meta_labeling"
      BY <1>6, NightlyAt
    <2>2. /\ \A n \in Base : files'[n] = files[n]
          /\ files'["ensemble"] = files["ensemble"]
          /\ EnsembleStands'
      BY <1>1, <1>2, <1>6, <2>1, WroteAbove DEF NightSoFar
    <2>3. files'["meta_labeling"].body = Night.out
      BY <1>2, <2>1 DEF Wrote, Night
    <2>4. OnDisk(Night.out)' /\ Night'.out.on["ensemble"] = files'["ensemble"].body.v
      BY <1>1, <1>3, <1>6, <2>2 DEF OnDisk, NightSoFar
    <2> QED
      BY <1>3, <1>6, <2>2, <2>3, <2>4 DEF NightSoFar
  <1>7. CASE Night.step = 4
    <2>1. m = "conformal"
      BY <1>7, NightlyAt
    <2>2. EnsembleStands' /\ MetaStands'
      BY <1>1, <1>2, <1>7, <2>1, WroteAbove DEF NightSoFar
    <2> QED
      BY <1>3, <1>7, <2>2 DEF NightSoFar
  <1> QED
    BY <1>1, <1>4, <1>5, <1>6, <1>7

LEMMA NightSaved ==
    ASSUME Restack, Typed, NightInv, ~foreign, Night.job = "nightly", WriteMetadata("scheduler")
    PROVE  \/ Night' = Idle /\ EnsembleStands' /\ MetaStands'
           \/ Night'.job = "nightly" /\ NightSoFar'
  <1> DEFINE p == "scheduler"
             m == Current(p)
  <1>1. p \in Trainers /\ NightSoFar /\ Night.step \in 1..4
    BY ModelNames, NightlyAt DEF NightInv
  <1>2. /\ MovedOn(p, TRUE) /\ proc[p].phase = "describe"
        /\ Wrote(m, files[m].body, proc[p].out)
    BY <1>1, DescribeEffect
  <1>3. \/ Night' = Idle /\ Night.step = 4
        \/ /\ Night'.job = "nightly" /\ Night'.phase = "fit" /\ Night'.step = Night.step + 1
           /\ Night'.step <= 4
    <2>1. AtWork(p)' /\ proc'[p].job = "nightly" => proc'[p].step \in 1..4
      BY NightlyPlan DEF AtWork
    <2> QED
      <3>1. proc[p].job = "nightly"
        BY DEF Night
      <3>2. CASE proc'[p] = Idle /\ proc[p].step = Len(Plan("nightly"))
        BY <3>2, NightlyPlan DEF Night
      <3>3. CASE /\ AtWork(p)' /\ proc'[p].job = "nightly" /\ proc'[p].phase = "fit"
                 /\ proc'[p].step = proc[p].step + 1
        BY <2>1, <3>3 DEF Night
      <3> QED
        BY <1>2, <3>1, <3>2, <3>3 DEF MovedOn
  <1>4. CASE Night.step = 1
    <2>1. Night'.job = "nightly" /\ Night'.phase = "fit" /\ Night'.step = 2
      BY <1>3, <1>4
    <2> QED
      BY <2>1 DEF NightSoFar
  <1>5. CASE Night.step = 2
    <2>1. m = "ensemble"
      BY <1>5, NightlyAt
    <2>2. /\ \A n \in Base : files'[n] = files[n]
          /\ files'["ensemble"].body = files["ensemble"].body
          /\ files'["ensemble"].meta = Night.out
      BY <1>2, <2>1, ModelNames DEF Wrote, Night
    <2>3. /\ OnDisk(Night.out) /\ Night.out.on["gnn"] = 0
          /\ files["ensemble"].body = Night.out
      BY <1>1, <1>2, <1>5 DEF NightSoFar, Night
    <2>4. EnsembleStands'
      BY <2>2, <2>3 DEF OnDisk, EnsembleStands
    <2>5. Night'.job = "nightly" /\ Night'.phase = "fit" /\ Night'.step = 3
      BY <1>3, <1>5
    <2> QED
      BY <2>4, <2>5 DEF NightSoFar
  <1>6. CASE Night.step = 3
    <2>1. m = "meta_labeling"
      BY <1>6, NightlyAt
    <2>2. /\ \A n \in Base : files'[n] = files[n]
          /\ files'["ensemble"] = files["ensemble"]
          /\ EnsembleStands'
      BY <1>1, <1>2, <1>6, <2>1, WroteAbove DEF NightSoFar
    <2>3. files'["meta_labeling"].body = Night.out
      BY <1>1, <1>2, <1>6, <2>1 DEF Wrote, Night, NightSoFar
    <2>4. OnDisk(Night.out) /\ Night.out.on["ensemble"] = files["ensemble"].body.v
      BY <1>1, <1>2, <1>6 DEF NightSoFar, Night
    <2>5. MetaStands'
      BY <2>2, <2>3, <2>4 DEF OnDisk, MetaStands
    <2>6. Night'.job = "nightly" /\ Night'.phase = "fit" /\ Night'.step = 4
      BY <1>3, <1>6
    <2> QED
      BY <2>2, <2>5, <2>6 DEF NightSoFar
  <1>7. CASE Night.step = 4
    <2>1. m = "conformal"
      BY <1>7, NightlyAt
    <2>2. EnsembleStands' /\ MetaStands'
      BY <1>1, <1>2, <1>7, <2>1, WroteAbove DEF NightSoFar
    <2>3. Night' = Idle
      BY <1>3, <1>7
    <2> QED
      BY <2>2, <2>3
  <1> QED
    BY <1>1, <1>4, <1>5, <1>6, <1>7

LEMMA NightStep ==
    ASSUME Restack, Typed, NightInv, [Next]_vars PROVE NightInv'
  <1> SUFFICES ASSUME ~foreign'
               PROVE  /\ proc'["cli"].phase = "fit"
                      /\ Night'.job # "nightly" => Night'.phase = "fit"
                      /\ Night'.job = "nightly" => NightSoFar'
                      /\ Night'.job # "nightly" /\ record' = "clean" =>
                           EnsembleStands' /\ MetaStands'
    BY DEF NightInv
  <1>1. CASE Start
    <2>1. PICK p \in Trainers : \E job \in JobsOf(p) : StartJob(p, job)
      BY <1>1 DEF Start
    <2>2. PICK job \in JobsOf(p) : StartJob(p, job)
      BY <2>1
    <2>3. /\ proc[p] = Idle /\ Alone(p)
          /\ proc'[p].job = job /\ proc'[p].step = 1 /\ proc'[p].phase = "fit"
          /\ foreign' = IF job = "nightly" THEN proc["cli"] # Idle ELSE foreign
          /\ files' = files /\ record' = record
      BY <2>2, StartEffect
    <2>4. (EnsembleStands' <=> EnsembleStands) /\ (MetaStands' <=> MetaStands)
      BY <2>3, StandsKept
    <2>5. CASE p = "cli"
      <3>1. ~foreign /\ Night' = Night
        BY <2>3, <2>5, ModelNames DEF Alone, Night
      <3>2. NightSoFar' <=> NightSoFar
        BY <2>3, <2>4, <3>1 DEF NightSoFar, OnDisk
      <3> QED
        BY <2>3, <2>4, <2>5, <3>1, <3>2 DEF NightInv
    <2>6. CASE p = "scheduler" /\ job = "nightly"
      <3>1. proc["cli"] = Idle /\ proc'["cli"] = proc["cli"]
        BY <2>3, <2>6, ModelNames DEF Alone
      <3>2. Night'.job = "nightly" /\ Night'.step = 1 /\ Night'.phase = "fit"
        BY <2>3, <2>6 DEF Night
      <3>3. NightSoFar'
        BY <3>2 DEF NightSoFar
      <3> QED
        BY <3>1, <3>2, <3>3 DEF Idle
    <2>7. CASE p = "scheduler" /\ job # "nightly"
      <3>1. ~foreign /\ proc'["cli"] = proc["cli"]
        BY <2>3, <2>7, ModelNames DEF Alone
      <3>2. Night'.job # "nightly" /\ Night'.phase = "fit" /\ Night.job # "nightly"
        BY <2>3, <2>7 DEF Night, Idle
      <3> QED
        BY <2>3, <2>4, <3>1, <3>2 DEF NightInv
    <2> QED
      BY <2>5, <2>6, <2>7, ModelNames
  <1>2. ASSUME TrainerStep("cli")
        PROVE  /\ proc'["cli"].phase = "fit" /\ Night' = Night /\ ~foreign
               /\ files' = files /\ record' = record
    <2>1. "cli" \in Trainers
      BY ModelNames
    <2>2. proc["cli"].job # "none" => proc["cli"].job # "nightly"
      BY <2>1, AtAModel, ModelNames DEF AtWork
    <2>3. ~Fit("cli")
      BY <2>1, <2>2, FitEffect
    <2>4. ~DumpFiles("cli")
      BY <2>1, DumpEffect DEF NightInv
    <2>5. ~WriteMetadata("cli")
      BY <2>1, DescribeEffect DEF NightInv
    <2>6. CASE FitFails("cli")
      <3>1. MovedOn("cli", FALSE) /\ files' = files /\ foreign' = foreign
            /\ proc["cli"].job # "none"
        BY <2>1, <2>6, FailEffect
      <3>2. proc'["cli"].phase = "fit" /\ record' = record /\ Alone("cli")
        <4>1. proc["cli"].job # "nightly" /\ Idle.phase = "fit"
          BY <2>2, <3>1 DEF Idle
        <4> QED
          BY <3>1, <4>1 DEF MovedOn
      <3> QED
        BY <3>1, <3>2, ModelNames DEF Alone, Night
    <2>7. CASE Killed("cli")
      <3>1. /\ Alone("cli") /\ proc'["cli"] = Idle /\ record' = record
            /\ files' = files /\ foreign' = foreign
        BY <2>1, <2>2, <2>7, KillEffect
      <3> QED
        BY <3>1, ModelNames DEF Alone, Night, Idle
    <2> QED
      BY <1>2, <2>3, <2>4, <2>5, <2>6, <2>7 DEF TrainerStep
  <1>3. CASE TrainerStep("cli")
    <2>1. /\ EnsembleStands' <=> EnsembleStands
          /\ MetaStands' <=> MetaStands
      BY <1>2, <1>3, StandsKept
    <2>2. NightSoFar' <=> NightSoFar
      BY <1>2, <1>3, <2>1 DEF NightSoFar, OnDisk
    <2> QED
      BY <1>2, <1>3, <2>1, <2>2 DEF NightInv
  <1>4. CASE TrainerStep("scheduler") /\ Night.job = "nightly"
    <2>1. "scheduler" \in Trainers /\ proc["scheduler"].job = "nightly"
      BY <1>4, ModelNames DEF Night
    <2>2. Alone("scheduler") => proc'["cli"] = proc["cli"]
      BY ModelNames DEF Alone
    <2>3. CASE Fit("scheduler")
      <3>1. ~foreign /\ proc'["cli"] = proc["cli"] /\ Night'.job = "nightly"
        BY <2>1, <2>2, <2>3, FitEffect DEF Stays, Night
      <3> QED
        BY <1>4, <2>3, <3>1, NightFit DEF NightInv
    <2>4. CASE DumpFiles("scheduler")
      <3>1. ~foreign /\ proc'["cli"] = proc["cli"] /\ Night'.job = "nightly"
        BY <2>1, <2>2, <2>4, DumpEffect DEF Stays, Night
      <3> QED
        BY <1>4, <2>4, <3>1, NightDump DEF NightInv
    <2>5. CASE WriteMetadata("scheduler")
      <3>1. ~foreign /\ proc'["cli"] = proc["cli"]
        BY <2>1, <2>2, <2>5, DescribeEffect DEF MovedOn
      <3>2. \/ Night' = Idle /\ EnsembleStands' /\ MetaStands'
            \/ Night'.job = "nightly" /\ NightSoFar'
        BY <1>4, <2>5, <3>1, NightSaved
      <3> QED
        BY <3>1, <3>2 DEF NightInv, Idle
    <2>6. CASE FitFails("scheduler")
      <3>1. ~foreign /\ MovedOn("scheduler", FALSE)
        BY <2>1, <2>6, FailEffect
      <3>2. /\ Night' = Idle /\ record' # "clean" /\ proc'["cli"] = proc["cli"]
        BY <2>1, <2>2, <3>1 DEF MovedOn, Night, Recorded
      <3> QED
        BY <3>1, <3>2 DEF NightInv, Idle
    <2>7. CASE Killed("scheduler")
      <3>1. ~foreign /\ Night' = Idle /\ record' # "clean" /\ proc'["cli"] = proc["cli"]
        BY <2>1, <2>2, <2>7, KillEffect DEF Night
      <3> QED
        BY <3>1 DEF NightInv, Idle
    <2> QED
      BY <1>4, <2>3, <2>4, <2>5, <2>6, <2>7 DEF TrainerStep
  <1>5. CASE TrainerStep("scheduler") /\ Night.job # "nightly"
    <2>1. "scheduler" \in Trainers /\ proc["scheduler"].job # "nightly"
      BY <1>5, ModelNames DEF Night
    <2>2. Alone("scheduler") => proc'["cli"] = proc["cli"]
      BY ModelNames DEF Alone
    <2>3. ~Fit("scheduler")
      BY <2>1, FitEffect
    <2>4. ~DumpFiles("scheduler")
      BY <2>1, DumpEffect DEF NightInv, Night
    <2>5. ~WriteMetadata("scheduler")
      BY <2>1, DescribeEffect DEF NightInv, Night
    <2>6. /\ ~foreign /\ files' = files /\ record' = record /\ proc'["cli"] = proc["cli"]
          /\ Night'.job # "nightly" /\ Night'.phase = "fit"
      <3>1. CASE FitFails("scheduler")
        <4>1. MovedOn("scheduler", FALSE) /\ files' = files /\ foreign' = foreign
          BY <2>1, <3>1, FailEffect
        <4> QED
          BY <2>1, <2>2, <4>1 DEF MovedOn, Night, Idle
      <3>2. CASE Killed("scheduler")
        <4>1. /\ Alone("scheduler") /\ proc'["scheduler"] = Idle /\ record' = record
              /\ files' = files /\ foreign' = foreign
          BY <2>1, <3>2, KillEffect
        <4> QED
          BY <2>2, <4>1 DEF Night, Idle
      <3> QED
        BY <1>5, <2>3, <2>4, <2>5, <3>1, <3>2 DEF TrainerStep
    <2>7. (EnsembleStands' <=> EnsembleStands) /\ (MetaStands' <=> MetaStands)
      BY <2>6, StandsKept
    <2> QED
      BY <1>5, <2>6, <2>7 DEF NightInv
  <1>6. CASE UNCHANGED <<files, proc, record, foreign>>
    <2>1. (EnsembleStands' <=> EnsembleStands) /\ (MetaStands' <=> MetaStands)
      BY <1>6, StandsKept
    <2>2. NightSoFar' <=> NightSoFar
      BY <1>6, <2>1 DEF NightSoFar, OnDisk, Night
    <2> QED
      BY <1>6, <2>1, <2>2 DEF NightInv, Night
  <1>7. Boot \/ LoadModel \/ UNCHANGED vars => UNCHANGED <<files, proc, record, foreign>>
    BY BootEffect, LoadEffect DEF vars
  <1> QED
    BY <1>1, <1>3, <1>4, <1>5, <1>6, <1>7, StepsOfNext, ModelNames

LEMMA NightAlways ==
    ASSUME Restack PROVE Spec => []NightInv
  <1>1. Init => NightInv
    <2>1. ASSUME Init
          PROVE  record = "none" /\ proc["cli"] = Idle /\ Night = Idle
      BY <2>1, ModelNames DEF Init, Night
    <2> QED
      BY <2>1 DEF NightInv, Idle
  <1>2. Typed /\ NightInv /\ [Next]_vars => NightInv'
    BY NightStep
  <1> QED
    BY <1>1, <1>2, TypesHold, PTL DEF Spec

\* With the restack on, as it is by default, a nightly job that the history shows
\* without an error, no other training since it began, leaves ensemble and
\* meta-labeling fitted on the base models on disk (NightsAreClean).
THEOREM CleanNightsAlign ==
    ASSUME Restack PROVE Spec => []NightsAreClean
  <1>1. ASSUME NightInv PROVE CleanNightIsAligned
    <2>1. SUFFICES ASSUME record = "clean", ~foreign, proc["scheduler"] = Idle
                   PROVE  AlignedStack([m \in Models |-> files[m].body])
      BY DEF CleanNightIsAligned
    <2>2. EnsembleStands /\ MetaStands
      BY <1>1, <2>1 DEF NightInv, Night, Idle
    <2>3. \A n \in Base \cup {"ensemble", "meta_labeling"} :
            [m \in Models |-> files[m].body][n] = files[n].body
      BY ModelNames
    <2> QED
      BY <2>2, <2>3 DEF AlignedStack, EnsembleStands, MetaStands, OnDisk
  <1> QED
    BY <1>1, NightAlways, TypeCorrect, PTL DEF NightsAreClean

--------------------------------------------------------------------------------
(* A quiet start.  Nothing is written while the models are read, so what is in  *)
(* memory is what the clean night left.                                         *)

\* What a loading API has read so far is what is on disk.
LoadedSoFar ==
    /\ \A j \in 1..(api.next - 1) : api.got[LoadOrder[j]] = files[LoadOrder[j]].body
    /\ api.next > 5 => api.has = files["ensemble"].meta

LoadInv ==
    /\ api.state = "loading" /\ api.quiet => Quiet /\ LoadedSoFar
    /\ QuietStartServesOneStack

\* The last of the models is read, the GNN or nothing in its place.
LEMMA LastLoaded ==
    ASSUME Restack, Typed, NightInv, LoadInv, LoadModel, api.quiet, api'.state = "up"
    PROVE  /\ AlignedStack(api'.got)
           /\ Stackable(api'.got["ensemble"], api'.has, api'.got["gnn"] # Absent)
  <1>1. /\ api.state = "loading" /\ api.next \in 1..8
        /\ api'.state = IF api.next = 8 THEN "up" ELSE "loading"
        /\ \A n \in Models : n # LoadOrder[api.next] => api'.got[n] = api.got[n]
        /\ api'.has = IF api.next = 5 THEN files["ensemble"].meta ELSE api.has
    <2>1. api' # Down
      BY DEF Down
    <2> QED
      BY <2>1, LoadEffect
  <1>2. api.next = 8 /\ LoadOrder[api.next] = "gnn"
    BY <1>1, LoadOrderIsOfModels
  <1>3. Quiet /\ LoadedSoFar
    BY <1>1 DEF LoadInv
  <1>4. \A n \in Models : n # "gnn" => api'.got[n] = files[n].body
    <2>1. SUFFICES ASSUME NEW n \in Models, n # "gnn" PROVE api'.got[n] = files[n].body
      OBVIOUS
    <2>2. PICK j \in 1..8 : LoadOrder[j] = n
      BY LoadOrderIsOfModels
    <2>3. j \in 1..7
      BY <2>1, <2>2, LoadOrderIsOfModels
    <2>4. api.got[n] = files[n].body
      BY <1>2, <1>3, <2>2, <2>3 DEF LoadedSoFar
    <2> QED
      BY <1>1, <1>2, <2>1, <2>4
  <1>5. api'.has = files["ensemble"].meta
    BY <1>1, <1>2, <1>3 DEF LoadedSoFar
  <1>6. EnsembleStands /\ MetaStands
    BY <1>3, ModelNames DEF Quiet, NightInv, Night, Idle
  <1>7. /\ \A n \in Base : api'.got[n] = files[n].body
        /\ api'.got["ensemble"] = files["ensemble"].body
        /\ api'.got["meta_labeling"] = files["meta_labeling"].body
    BY <1>4, ModelNames
  <1>8. AlignedStack(api'.got)
    BY <1>6, <1>7 DEF AlignedStack, EnsembleStands, MetaStands, OnDisk
  <1>9. Stackable(api'.got["ensemble"], api'.has, api'.got["gnn"] # Absent)
    BY <1>5, <1>6, <1>7 DEF Stackable, EnsembleStands
  <1> QED
    BY <1>8, <1>9

LEMMA LoadStep ==
    ASSUME Restack, Typed, NightInv, LoadInv, [Next]_vars PROVE LoadInv'
  <1>1. CASE LoadModel
    <2>1. UNCHANGED <<files, proc, record, foreign>>
      BY <1>1, LoadEffect
    <2>2. CASE api' = Down
      <3>1. api'.state = "down"
        BY <2>2 DEF Down
      <3> QED
        BY <3>1 DEF LoadInv, QuietStartServesOneStack
    <2>3. CASE api' # Down
      <3>1. /\ api.state = "loading" /\ api.next \in 1..8
            /\ LoadOrder[api.next] = "gnn" \/ Readable(LoadOrder[api.next])
            /\ api'.state = IF api.next = 8 THEN "up" ELSE "loading"
            /\ api.next < 8 => api'.next = api.next + 1
            /\ api'.quiet = api.quiet
            /\ api'.got[LoadOrder[api.next]] = IF Readable(LoadOrder[api.next])
                                               THEN files[LoadOrder[api.next]].body
                                               ELSE Absent
            /\ \A n \in Models : n # LoadOrder[api.next] => api'.got[n] = api.got[n]
            /\ api'.has = IF api.next = 5 THEN files["ensemble"].meta ELSE api.has
        BY <1>1, <2>3, LoadEffect
      <3>2. CASE api.next = 8
        <4>1. api'.state = "up"
          BY <3>1, <3>2
        <4> QED
          BY <1>1, <3>1, <4>1, LastLoaded DEF LoadInv, QuietStartServesOneStack
      <3>3. CASE api.next # 8
        <4>1. api.next \in 1..7 /\ api'.state = "loading" /\ api'.next = api.next + 1
          BY <3>1, <3>3
        <4>2. ASSUME api.quiet PROVE Quiet' /\ LoadedSoFar'
          <5>1. Quiet /\ LoadedSoFar
            BY <3>1, <4>2 DEF LoadInv
          <5>2. Quiet'
            BY <2>1, <5>1 DEF Quiet
          <5>3. api'.got[LoadOrder[api.next]] = files[LoadOrder[api.next]].body
            BY <3>1, <4>1, LoadOrderIsOfModels
          <5>4. ASSUME NEW j \in 1..api.next
                PROVE  api'.got[LoadOrder[j]] = files'[LoadOrder[j]].body
            <6>1. CASE j = api.next
              BY <2>1, <5>3, <6>1
            <6>2. CASE j # api.next
              <7>1. j \in 1..(api.next - 1) /\ j \in 1..8 /\ api.next \in 1..8
                BY <4>1, <6>2
              <7>2. LoadOrder[j] \in Models /\ LoadOrder[j] # LoadOrder[api.next]
                BY <6>2, <7>1, LoadOrderIsOfModels
              <7> QED
                BY <2>1, <3>1, <5>1, <7>1, <7>2 DEF LoadedSoFar
            <6> QED
              BY <6>1, <6>2
          <5>5. api'.next > 5 => api'.has = files'["ensemble"].meta
            BY <2>1, <3>1, <4>1, <5>1 DEF LoadedSoFar
          <5>6. 1..(api'.next - 1) = 1..api.next
            BY <4>1
          <5> QED
            BY <5>2, <5>4, <5>5, <5>6 DEF LoadedSoFar
        <4> QED
          BY <3>1, <4>1, <4>2 DEF LoadInv, QuietStartServesOneStack
      <3> QED
        BY <3>2, <3>3
    <2> QED
      BY <2>2, <2>3
  <1>2. CASE Boot
    <2>1. /\ api'.state = "loading" /\ api'.next = 1 /\ api'.quiet = Quiet
          /\ UNCHANGED <<files, proc, record, foreign>>
      BY <1>2, BootEffect
    <2>2. LoadedSoFar'
      BY <2>1 DEF LoadedSoFar
    <2>3. Quiet' <=> Quiet
      BY <2>1 DEF Quiet
    <2> QED
      BY <2>1, <2>2, <2>3 DEF LoadInv, QuietStartServesOneStack
  <1>3. CASE Start
    <2>1. PICK p \in Trainers : \E job \in JobsOf(p) : StartJob(p, job)
      BY <1>3 DEF Start
    <2>2. api' = IF api.state = "loading" THEN [api EXCEPT !.quiet = FALSE] ELSE api
      BY <2>1, StartEffect
    <2>3. CASE api.state = "loading"
      <3>1. api'.state = "loading" /\ ~api'.quiet
        BY <2>2, <2>3 DEF Typed, ApiType
      <3> QED
        BY <3>1 DEF LoadInv, QuietStartServesOneStack
    <2>4. CASE api.state # "loading"
      BY <2>2, <2>4 DEF LoadInv, QuietStartServesOneStack
    <2> QED
      BY <2>3, <2>4
  <1>4. CASE \E p \in Trainers : TrainerStep(p)
    <2>1. PICK p \in Trainers : TrainerStep(p)
      BY <1>4
    <2>2. api' = api
      BY <2>1, FitEffect, DumpEffect, DescribeEffect, FailEffect, KillEffect DEF TrainerStep
    <2>3. proc[p] # Idle
      <3>1. proc[p].job # "none"
        BY <2>1, FitEffect, DumpEffect, DescribeEffect, FailEffect, KillEffect DEF TrainerStep
      <3> QED
        BY <3>1 DEF Idle
    <2>4. ~(api.state = "loading" /\ api.quiet)
      BY <2>3 DEF LoadInv, Quiet
    <2> QED
      BY <2>2, <2>4 DEF LoadInv, QuietStartServesOneStack
  <1>5. CASE UNCHANGED vars
    BY <1>5 DEF vars, LoadInv, LoadedSoFar, Quiet, QuietStartServesOneStack
  <1> QED
    BY <1>1, <1>2, <1>3, <1>4, <1>5, StepsOfNext

\* An API that starts after such a night, with no training running or begun while
\* it loads, serves layers that fit the models under them and an ensemble that can
\* predict with them (QuietStartServesOneStack).
THEOREM QuietStartsServe ==
    ASSUME Restack PROVE Spec => []QuietStartServesOneStack
  <1>1. Init => LoadInv
    BY DEF Init, Down, LoadInv, QuietStartServesOneStack
  <1>2. Typed /\ NightInv /\ LoadInv /\ [Next]_vars => LoadInv'
    BY LoadStep
  <1>3. LoadInv => QuietStartServesOneStack
    BY DEF LoadInv
  <1> QED
    BY <1>1, <1>2, <1>3, TypesHold, NightAlways, PTL DEF Spec

--------------------------------------------------------------------------------
(* Out of fold.  A version stands for one artifact, so the rows it was trained   *)
(* on can be told from the version alone: the invariant keeps that map.          *)

ThreeEnd == ThreeWay(Rows, 15, 15, 20, 0).train.to

\* A version of XGBoost that stands for a training on the first of the three parts.
FullVersion(v, seen) == v = 0 \/ (v \in 1..(saves + 2) /\ seen[v] = ThreeEnd)

\* The learners on disk, and the XGBoost an ensemble of train_all was stacked on.
DiskSeen(seen) ==
    /\ \A m \in {"lstm", "tft"} :
         files[m].body.v # 0 => files[m].body.seen = ThreeEnd
    /\ files["xgboost"].body.v # 0 =>
         /\ files["xgboost"].body.v \in 1..(saves + 2)
         /\ files["xgboost"].body.seen = seen[files["xgboost"].body.v]
    /\ files["ensemble"].body.job = "all" =>
         FullVersion(files["ensemble"].body.on["xgboost"], seen)

\* What a trainer is about to write, and the XGBoost train_all keeps in memory.
MadeSeen(p, seen) ==
    /\ proc[p].phase # "fit" =>
         /\ proc[p].out.v \in 1..(saves + 2) /\ proc[p].out.job = proc[p].job
         /\ proc[p].out.seen = TrainEnd(p, Current(p))
         /\ Current(p) = "xgboost" => proc[p].out.seen = seen[proc[p].out.v]
         /\ Current(p) = "ensemble" /\ proc[p].job = "all" =>
              proc[p].out.on["xgboost"] = proc[p].own["xgboost"]
    /\ proc[p].job = "all" => FullVersion(proc[p].own["xgboost"], seen)

SeenBy(seen) == DiskSeen(seen) /\ \A p \in Trainers : MadeSeen(p, seen)

SeenInv == \E seen \in [Versions -> Nat] : SeenBy(seen)

\* With 143 rows or more the first part is not padded, and the rows that fit the
\* ensemble begin an embargo after it.
LEMMA PartsApart ==
    ASSUME Rows >= 143 PROVE ThreeEnd + Embargo <= OofStart
  <1> DEFINE raw == (Rows * (100 - 15 - 15)) \div 100 - 0
             oof == (Rows * (100 - 15)) \div 100
  <1>1. Rows \in Nat
    BY StackAssumption
  <1>2. /\ raw \in Int /\ oof \in Int
        /\ 100 * raw <= 70 * Rows /\ 70 * Rows < 100 * raw + 100
        /\ 100 * oof <= 85 * Rows /\ 85 * Rows < 100 * oof + 100
    BY <1>1
  <1>3. /\ ThreeEnd = Slice(Rows, 0, Greater(raw, MinTrainRows)).to
        /\ OofStart = Slice(Rows, Lesser(raw + 20, oof), oof).from
    BY DEF ThreeEnd, OofStart, ThreeWay
  <1> HIDE DEF raw, oof
  <1>4. raw >= 100 /\ raw + 20 <= oof /\ oof <= Rows
    BY <1>1, <1>2
  <1>5. ThreeEnd = raw
    BY <1>1, <1>2, <1>3, <1>4 DEF Slice, Greater, Lesser, MinTrainRows
  <1>6. OofStart = raw + 20
    BY <1>1, <1>2, <1>3, <1>4 DEF Slice, Greater, Lesser
  <1> QED
    BY <1>2, <1>5, <1>6 DEF Embargo

\* What is true of the versions stays true when nothing is written and a trainer
\* is idle, begins, or goes on with what it had.
LEMMA MadeKept ==
    ASSUME NEW p \in Trainers, NEW seen, MadeSeen(p, seen),
           saves' = saves, proc'[p] = proc[p]
    PROVE  MadeSeen(p, seen)'
  BY DEF MadeSeen, FullVersion, TrainEnd, Current

LEMMA MadeIdle ==
    ASSUME NEW p \in Trainers, NEW seen, proc'[p].phase = "fit",
           proc'[p].job = "all" => FullVersion(proc[p].own["xgboost"], seen)'
    PROVE  MadeSeen(p, seen)'
  BY DEF MadeSeen

LEMMA SeenFit ==
    ASSUME Typed, NEW p \in Trainers, Fit(p),
           NEW seen \in [Versions -> Nat], SeenBy(seen)
    PROVE  SeenInv'
  <1> DEFINE m == Current(p)
             end == TrainEnd(p, m)
             new == saves + 3
  <1>1. /\ saves \in Nat /\ saves' = saves + 1 /\ new \in Versions /\ Alone(p) /\ Stays(p)
        /\ proc'[p].phase = "dump"
        /\ proc'[p].out = Artifact(new, proc[p].job, FittedOn(p, m), end)
        /\ Wrote(m, Broken, files[m].meta)
        /\ proc[p].job # "none"
    BY FitEffect DEF Typed
  <1>2. end \in Nat /\ m \in Models
    BY <1>1, AtAModel, TrainEndIsARow, StackAssumption
  <1>3. proc'[p].out.v = new /\ proc'[p].out.job = proc[p].job
        /\ proc'[p].out.seen = end /\ proc'[p].out.on = FittedOn(p, m)
    BY <1>1 DEF Artifact
  <1>4. m = "ensemble" /\ proc[p].job = "all" =>
          FittedOn(p, m)["xgboost"] = proc[p].own["xgboost"]
    <2>1. SUFFICES ASSUME m = "ensemble", proc[p].job = "all"
                   PROVE  FittedOn(p, m)["xgboost"] = proc[p].own["xgboost"]
      OBVIOUS
    <2> DEFINE here == [n \in Models |-> IF n \in Inputs(p, m) \cup {"regime"}
                                         THEN files[n].body.v ELSE 0]
    <2>2. FittedOn(p, m) = [here EXCEPT !["xgboost"] = proc[p].own["xgboost"],
                                        !["gnn"] = proc[p].own["gnn"]]
      BY <2>1 DEF FittedOn
    <2>3. DOMAIN here = Models /\ "xgboost" \in Models
      BY DEF Models, Required, Base, Learners
    <2> HIDE DEF here
    <2> QED
      BY <2>2, <2>3
  <1>5. Current(p)' = m /\ TrainEnd(p, m)' = end
    BY <1>1 DEF Stays, Current, TrainEnd
  <1> HIDE DEF m, end
  <1>6. PICK next \in [Versions -> Nat] : next = [seen EXCEPT ![new] = end]
    BY <1>1, <1>2
  <1>7. next[new] = end /\ \A v \in 1..(saves + 2) : next[v] = seen[v]
    <2>1. \A v \in 1..(saves + 2) : v \in Versions /\ v # new
      BY <1>1, StackAssumption DEF Versions
    <2> QED
      BY <1>1, <1>6, <2>1
  <1>8. \A v \in 1..(saves + 2) : v \in 1..(saves' + 2)
    BY <1>1
  <1>9. new \in 1..(saves' + 2)
    BY <1>1
  <1> HIDE DEF new
  <1>10. \A v : FullVersion(v, seen) => v = 0 \/ (v \in 1..(saves' + 2) /\ next[v] = ThreeEnd)
    BY <1>7, <1>8 DEF FullVersion
  <1>11. ASSUME NEW n \in Models
         PROVE  files'[n].body = IF n = m THEN Broken ELSE files[n].body
    BY <1>1, <1>2 DEF Wrote
  <1>12. Broken.v = 0 /\ Broken.job = "broken"
    BY DEF Broken, Artifact
  <1>13. {"lstm", "tft", "xgboost", "ensemble"} \subseteq Models
    BY DEF Models, Required, Base, Learners
  <1>14. /\ \A n \in {"lstm", "tft"} :
              files'[n].body.v # 0 => files'[n].body.seen = ThreeEnd
         /\ files'["xgboost"].body.v # 0 =>
              /\ files'["xgboost"].body.v \in 1..(saves' + 2)
              /\ files'["xgboost"].body.seen = next[files'["xgboost"].body.v]
         /\ LET v == files'["ensemble"].body.on["xgboost"]
            IN files'["ensemble"].body.job = "all" =>
                 v = 0 \/ (v \in 1..(saves' + 2) /\ next[v] = ThreeEnd)
    BY <1>7, <1>8, <1>10, <1>11, <1>12, <1>13 DEF SeenBy, DiskSeen
  <1>15. ASSUME NEW q \in Trainers
         PROVE  /\ proc'[q].phase # "fit" =>
                     /\ proc'[q].out.v \in 1..(saves' + 2) /\ proc'[q].out.job = proc'[q].job
                     /\ proc'[q].out.seen = TrainEnd(q, Current(q))'
                     /\ Current(q)' = "xgboost" => proc'[q].out.seen = next[proc'[q].out.v]
                     /\ Current(q)' = "ensemble" /\ proc'[q].job = "all" =>
                          proc'[q].out.on["xgboost"] = proc'[q].own["xgboost"]
                /\ LET v == proc'[q].own["xgboost"]
                   IN proc'[q].job = "all" =>
                        v = 0 \/ (v \in 1..(saves' + 2) /\ next[v] = ThreeEnd)
    <2>1. CASE q = p
      BY <1>1, <1>3, <1>4, <1>5, <1>7, <1>9, <1>10, <2>1
         DEF SeenBy, MadeSeen, Stays, TrainEnd, end
    <2>2. CASE q # p
      <3>1. proc'[q] = proc[q]
        BY <1>1, <2>2 DEF Alone
      <3>2. Current(q)' = Current(q) /\ TrainEnd(q, Current(q))' = TrainEnd(q, Current(q))
        BY <3>1 DEF Current, TrainEnd
      <3> QED
        BY <1>7, <1>8, <1>10, <3>1, <3>2 DEF SeenBy, MadeSeen
    <2> QED
      BY <2>1, <2>2
  <1>16. SeenBy(next)'
    BY <1>14, <1>15 DEF SeenBy, DiskSeen, MadeSeen, FullVersion
  <1> QED
    BY <1>6, <1>16 DEF SeenInv

LEMMA SeenDump ==
    ASSUME Typed, NEW p \in Trainers, DumpFiles(p),
           NEW seen \in [Versions -> Nat], SeenBy(seen)
    PROVE  SeenInv'
  <1> DEFINE m == Current(p)
             out == proc[p].out
  <1>1. /\ proc[p].job # "none" /\ proc[p].phase = "dump" /\ Alone(p) /\ Stays(p)
        /\ proc'[p].phase = "describe" /\ proc'[p].out = out
        /\ Wrote(m, out, files[m].meta) /\ saves' = saves
    BY DumpEffect
  <1>2. /\ out.v \in 1..(saves + 2) /\ out.job = proc[p].job
        /\ out.seen = TrainEnd(p, m)
        /\ m = "xgboost" => out.seen = seen[out.v]
        /\ m = "ensemble" /\ proc[p].job = "all" =>
             FullVersion(out.on["xgboost"], seen)
    BY <1>1 DEF SeenBy, MadeSeen
  <1>3. {"lstm", "tft", "xgboost", "ensemble"} \subseteq Models
    BY DEF Models, Required, Base, Learners
  <1>4. m \in {"lstm", "tft"} => out.seen = ThreeEnd
    BY <1>2 DEF TrainEnd, ThreeEnd
  <1>5. \A n \in Models : files'[n].body = IF n = m THEN out ELSE files[n].body
    BY <1>1 DEF Wrote
  <1>6. MadeSeen(p, seen)'
    BY <1>1 DEF SeenBy, MadeSeen, Stays, FullVersion, TrainEnd, Current
  <1> HIDE DEF m, out
  <1>7. DiskSeen(seen)'
    BY <1>1, <1>2, <1>3, <1>4, <1>5 DEF SeenBy, DiskSeen, FullVersion
  <1>8. \A q \in Trainers : MadeSeen(q, seen)'
    BY <1>1, <1>6, MadeKept DEF Alone, SeenBy
  <1> QED
    BY <1>7, <1>8 DEF SeenInv, SeenBy

\* A trainer that goes on keeps the XGBoost of train_all as the reference it was,
\* or takes the one it has just saved.
LEMMA SeenMovedOn ==
    ASSUME Typed, NEW p \in Trainers, NEW saved \in BOOLEAN, MovedOn(p, saved),
           proc[p].job # "none", saved => proc[p].phase = "describe",
           UNCHANGED saves, NEW seen \in [Versions -> Nat], SeenBy(seen)
    PROVE  \A q \in Trainers : MadeSeen(q, seen)'
  <1>1. CASE proc'[p] = Idle
    <2>1. MadeSeen(p, seen)'
      BY <1>1 DEF MadeSeen, Idle
    <2> QED
      BY <2>1, MadeKept DEF MovedOn, Alone, SeenBy
  <1>2. CASE proc'[p] # Idle
    <2>1. /\ proc'[p].job = proc[p].job /\ proc'[p].phase = "fit"
          /\ proc'[p].own = IF saved THEN [proc[p].own EXCEPT ![Current(p)] = proc[p].out.v]
                                     ELSE proc[p].own
      BY <1>2 DEF MovedOn
    <2>2. proc[p].own \in [Models -> Versions] /\ "xgboost" \in Models
      BY DEF Typed, ProcType, Models, Required, Base, Learners
    <2>3. proc'[p].own["xgboost"] = IF saved /\ Current(p) = "xgboost"
                                    THEN proc[p].out.v ELSE proc[p].own["xgboost"]
      BY <2>1, <2>2
    <2>4. saved /\ Current(p) = "xgboost" /\ proc[p].job = "all" =>
            FullVersion(proc[p].out.v, seen)
      BY DEF SeenBy, MadeSeen, FullVersion, TrainEnd, ThreeEnd
    <2>5. proc[p].job = "all" => FullVersion(proc[p].own["xgboost"], seen)
      BY DEF SeenBy, MadeSeen
    <2>6. proc'[p].job = "all" => FullVersion(proc[p].own["xgboost"], seen)'
      BY <2>1, <2>3, <2>4, <2>5 DEF FullVersion
    <2>7. MadeSeen(p, seen)'
      BY <2>1, <2>6, MadeIdle
    <2> QED
      BY <2>7, MadeKept DEF MovedOn, Alone, SeenBy
  <1> QED
    BY <1>1, <1>2

LEMMA SeenStep ==
    ASSUME Typed, SeenInv, [Next]_vars PROVE SeenInv'
  <1>1. PICK seen \in [Versions -> Nat] : SeenBy(seen)
    BY DEF SeenInv
  <1>2. files' = files /\ saves' = saves => DiskSeen(seen)'
    BY <1>1 DEF SeenBy, DiskSeen, FullVersion
  <1>3. CASE Start
    <2>1. PICK p \in Trainers : \E job \in JobsOf(p) : StartJob(p, job)
      BY <1>3 DEF Start
    <2>2. /\ Alone(p) /\ proc'[p].phase = "fit" /\ proc'[p].own = Nothing
          /\ UNCHANGED <<files, saves>>
      BY <2>1, StartEffect
    <2>3. proc'[p].own["xgboost"] = 0
      BY <2>2 DEF Nothing, Models, Required, Base, Learners
    <2>4. MadeSeen(p, seen)'
      BY <2>2, <2>3 DEF MadeSeen, FullVersion
    <2>5. \A q \in Trainers : MadeSeen(q, seen)'
      BY <1>1, <2>2, <2>4, MadeKept DEF Alone, SeenBy
    <2> QED
      BY <1>2, <2>2, <2>5 DEF SeenInv, SeenBy
  <1>4. ASSUME NEW p \in Trainers, TrainerStep(p) PROVE SeenInv'
    <2>1. CASE Fit(p)
      BY <1>1, <2>1, SeenFit
    <2>2. CASE DumpFiles(p)
      BY <1>1, <2>2, SeenDump
    <2>3. CASE WriteMetadata(p)
      <3>1. /\ proc[p].job # "none" /\ proc[p].phase = "describe" /\ MovedOn(p, TRUE)
            /\ Wrote(Current(p), files[Current(p)].body, proc[p].out)
            /\ saves' = saves
        BY <2>3, DescribeEffect
      <3>2. \A n \in Models : files'[n].body = files[n].body
        BY <3>1 DEF Wrote
      <3>3. {"lstm", "tft", "xgboost", "ensemble"} \subseteq Models
        BY DEF Models, Required, Base, Learners
      <3>4. DiskSeen(seen)'
        BY <1>1, <3>1, <3>2, <3>3 DEF SeenBy, DiskSeen, FullVersion
      <3>5. \A q \in Trainers : MadeSeen(q, seen)'
        BY <1>1, <3>1, SeenMovedOn
      <3> QED
        BY <3>4, <3>5 DEF SeenInv, SeenBy
    <2>4. CASE FitFails(p)
      <3>1. proc[p].job # "none" /\ MovedOn(p, FALSE) /\ UNCHANGED <<files, saves>>
        BY <2>4, FailEffect
      <3>2. \A q \in Trainers : MadeSeen(q, seen)'
        BY <1>1, <3>1, SeenMovedOn
      <3> QED
        BY <1>2, <3>1, <3>2 DEF SeenInv, SeenBy
    <2>5. CASE Killed(p)
      <3>1. Alone(p) /\ proc'[p] = Idle /\ UNCHANGED <<files, saves>>
        BY <2>5, KillEffect
      <3>2. MadeSeen(p, seen)'
        BY <3>1 DEF MadeSeen, Idle
      <3>3. \A q \in Trainers : MadeSeen(q, seen)'
        BY <1>1, <3>1, <3>2, MadeKept DEF Alone, SeenBy
      <3> QED
        BY <1>2, <3>1, <3>3 DEF SeenInv, SeenBy
    <2> QED
      BY <1>4, <2>1, <2>2, <2>3, <2>4, <2>5 DEF TrainerStep
  <1>5. CASE UNCHANGED <<files, proc, saves>>
    <2>1. \A q \in Trainers : MadeSeen(q, seen)'
      BY <1>1, <1>5, MadeKept DEF SeenBy
    <2> QED
      BY <1>2, <1>5, <2>1 DEF SeenInv, SeenBy
  <1>6. Boot \/ LoadModel \/ UNCHANGED vars => UNCHANGED <<files, proc, saves>>
    BY BootEffect, LoadEffect DEF vars
  <1> QED
    BY <1>3, <1>4, <1>5, <1>6, StepsOfNext

LEMMA SeenInit ==
    ASSUME Init PROVE SeenInv
  <1> DEFINE seen == [v \in Versions |-> IF v = 1 THEN ThreeEnd ELSE TwoWay(Rows, 20, 20).train.to]
  <1>1. MaxSaves \in Nat /\ saves = 0 /\ \A p \in Trainers : proc[p] = Idle
    BY StackAssumption DEF Init
  <1>2. 1 \in Versions /\ 2 \in Versions /\ 1 \in 1..(saves + 2) /\ 2 \in 1..(saves + 2)
    BY <1>1 DEF Versions
  <1>3. seen \in [Versions -> Nat]
    BY SplitEnds DEF ThreeEnd
  <1>4. seen[1] = ThreeEnd /\ seen[2] = TwoWay(Rows, 20, 20).train.to
    BY <1>2
  <1> HIDE DEF seen
  <1>5. PICK last \in {Shipped("xgboost"), Orphan} :
          files = [m \in Models |-> LET a == IF m = "xgboost" THEN last ELSE Shipped(m)
                                    IN [body |-> a, meta |-> a]]
    BY DEF Init
  <1>6. {"lstm", "tft", "xgboost", "ensemble"} \subseteq Models
    BY DEF Models, Required, Base, Learners
  <1>7. /\ files["xgboost"].body = last /\ files["lstm"].body = Shipped("lstm")
        /\ files["tft"].body = Shipped("tft") /\ files["ensemble"].body = Shipped("ensemble")
    BY <1>5, <1>6
  <1>8. \A m : Shipped(m).seen = ThreeEnd /\ Shipped(m).v = 1
    BY DEF Shipped, Artifact, ThreeEnd
  <1>9. Orphan.v = 2 /\ Orphan.seen = TwoWay(Rows, 20, 20).train.to
    BY DEF Orphan, Artifact
  <1>10. Shipped("ensemble").on["xgboost"] = 1
    BY <1>6 DEF Shipped, Artifact, Base, Learners
  <1>11. DiskSeen(seen)
    <2>1. last.v \in 1..(saves + 2) /\ last.seen = seen[last.v]
      BY <1>2, <1>4, <1>8, <1>9
    <2> QED
      BY <1>2, <1>4, <1>7, <1>8, <1>10, <2>1 DEF DiskSeen, FullVersion
  <1>12. \A p \in Trainers : MadeSeen(p, seen)
    BY <1>1 DEF MadeSeen, Idle
  <1> QED
    BY <1>3, <1>11, <1>12 DEF SeenInv, SeenBy

\* From 143 rows on, the ensemble of train_all is fitted on rows that none of the
\* learners it stands on was trained on, an embargo apart, whatever a nightly
\* XGBoost, a standalone training or another train_all has written beside it
\* (TrainAllIsOutOfFold).
THEOREM StackedOutOfFold ==
    ASSUME Rows >= 143 PROVE Spec => []TrainAllIsOutOfFold
  <1>1. Init => SeenInv
    BY SeenInit
  <1>2. Typed /\ SeenInv /\ [Next]_vars => SeenInv'
    BY SeenStep
  <1>3. ASSUME SeenInv PROVE TrainAllIsOutOfFold
    <2>1. PICK seen \in [Versions -> Nat] : DiskSeen(seen)
      BY <1>3 DEF SeenInv, SeenBy
    <2>2. SUFFICES ASSUME files["ensemble"].body.job = "all", NEW m \in Learners,
                          files[m].body.v = files["ensemble"].body.on[m],
                          files[m].body.v # 0
                   PROVE  files[m].body.seen + Embargo <= OofStart
      BY DEF TrainAllIsOutOfFold, Unseen
    <2>3. files[m].body.seen = ThreeEnd
      BY <2>1, <2>2 DEF DiskSeen, FullVersion, Learners
    <2> QED
      BY <2>3, PartsApart
  <1> QED
    BY <1>1, <1>2, <1>3, TypesHold, PTL DEF Spec

=============================================================================
