------------------------------- MODULE ModelStack -------------------------------
(****************************************************************************)
(* The trained models on disk, the processes that retrain them and the API  *)
(* that loads them: training/pipeline.py, the retraining jobs of            *)
(* scheduler.py and services/model_registry.py.                             *)
(*                                                                          *)
(* Each model lives in <artifacts>/<name>/latest and is overwritten in      *)
(* place: its files are opened (and lost) first, then complete, and the     *)
(* metadata follows.  A trainer is a process: the scheduler (nightly and    *)
(* weekly jobs) or an operator's command line (train all, train one), and   *)
(* nothing keeps the two apart.                                             *)
(****************************************************************************)
EXTENDS TemporalSplit, FiniteSets, Sequences

CONSTANTS Rows,         \* rows of history behind each training
          MaxSaves,     \* bound on the artifacts written
          MaxEvents,    \* bound on the jobs started, trainers killed and starts of
                        \* the API, together
          Commands,     \* the jobs an operator starts from the command line
          Restack       \* ALPHAVEDHA_NIGHTLY_RESTACK

Learners == {"xgboost", "lstm", "tft"}
Base == Learners \cup {"regime"}
Required == Base \cup {"ensemble", "meta_labeling", "conformal"}
Models == Required \cup {"gnn"}
Trainers == {"scheduler", "cli"}

ASSUME StackAssumption ==
    /\ Rows \in Nat \ {0}
    /\ MaxSaves \in Nat /\ MaxEvents \in Nat
    /\ Commands \subseteq {"all"} \cup Models

VARIABLES files,      \* model -> [body, meta]: the artifact last written, per part
          proc,       \* trainer -> the job it is running
          record,     \* what the job history says of the last nightly retrain
          foreign,    \* another job wrote a model since the last nightly began
          api,        \* the API process: what it has loaded
          saves, events      \* bounded counters

vars == <<files, proc, record, foreign, api, saves, events>>

--------------------------------------------------------------------------------
(* Artifacts. *)

\* An artifact names what it was fitted on: the version of each model read and
\* the rows that trained it.
Artifact(v, job, on, seen) == [v |-> v, job |-> job, on |-> on, seen |-> seen]

Nothing == [m \in Models |-> 0]
Absent == Artifact(0, "none", Nothing, 0)

\* A file opened for writing and not complete: loading it raises.
Broken == Artifact(0, "broken", Nothing, 0)

Readable(m) == files[m].body \notin {Absent, Broken} /\ files[m].meta # Absent

Plan(job) ==
    CASE job = "nightly" -> IF Restack
                            THEN <<"xgboost", "ensemble", "meta_labeling", "conformal">>
                            ELSE <<"xgboost">>
      [] job = "weekly"  -> <<"lstm", "tft">>
      [] job = "all"     -> <<"xgboost", "lstm", "tft", "regime", "gnn",
                              "ensemble", "meta_labeling", "conformal">>
      [] OTHER           -> <<job>>

\* own: the versions this run has saved; stack: the learners that train_all keeps
\* in memory for the layers.
Idle == [job |-> "none", step |-> 0, phase |-> "fit", out |-> Absent,
         own |-> Nothing, stack |-> Nothing]

Current(p) == Plan(proc[p].job)[proc[p].step]

--------------------------------------------------------------------------------
(* Training one model. *)

\* A faulty variant: every training splits in two.
TrainEnd_TwoWay(p, m) == TwoWay(Rows, 20, 20).train.to

\* The row after the last one a model is trained on: train_xgboost splits in two,
\* every other training in three.
TrainEnd(p, m) ==
    IF m = "xgboost" /\ proc[p].job # "all" THEN TwoWay(Rows, 20, 20).train.to
                                           ELSE ThreeWay(Rows, 15, 15, 20, 0).train.to

OofStart == ThreeWay(Rows, 15, 15, 20, 0).oof.from

\* The models a fit reads from disk.  train_all keeps its own XGBoost in memory
\* and loads the sequence models once, for the ensemble.
Inputs(p, m) ==
    LET all == proc[p].job = "all"
    IN CASE m = "ensemble"      -> IF all THEN {"lstm", "tft"} ELSE Learners
         [] m = "meta_labeling" -> IF all THEN {"ensemble"} ELSE Learners \cup {"ensemble"}
         [] OTHER               -> {}

\* What a layer is fitted on.  A regime detector that is missing or fails is
\* replaced by uniform odds; only train_all passes a GNN, the one it trained.
FittedOn(p, m) ==
    LET here == [n \in Models |-> IF n \in Inputs(p, m) \cup {"regime"}
                                  THEN files[n].body.v ELSE 0]
        all  == proc[p].job = "all"
    IN CASE m \in {"ensemble", "meta_labeling"} /\ ~all -> here
         [] m = "ensemble" /\ all -> [here EXCEPT !["xgboost"] = proc[p].own["xgboost"],
                                                 !["gnn"] = proc[p].own["gnn"]]
         [] m = "meta_labeling" /\ all -> [proc[p].stack EXCEPT !["ensemble"] = here["ensemble"]]
         [] OTHER -> Nothing

\* An ensemble predicts only on the learners it was stacked on: a ridge of four
\* refuses three and the other way round (_active_models, _build_meta_features).
Stackable(ens, meta, gnn) == (ens.on["gnn"] # 0) <=> (meta.on["gnn"] # 0 /\ gnn)

\* Standalone LSTM and TFT choose their features by XGBoost's importances, a file
\* that stays from the first save on.
FitPossible(p, m) ==
    /\ \A n \in Inputs(p, m) : Readable(n)
    /\ m \in {"lstm", "tft"} /\ proc[p].job # "all" =>
         files["xgboost"].meta # Absent \/ Readable("xgboost")
    /\ m = "meta_labeling" =>
         Stackable(files["ensemble"].body, files["ensemble"].meta,
                   proc[p].job = "all" /\ proc[p].own["gnn"] # 0)

\* A faulty variant: the restack goes on when a layer was rejected.
NextStep_GoesOn(p, m, saved, raised) ==
    LET i    == proc[p].step
        last == Len(Plan(proc[p].job)) + 1
    IN IF i = 1 /\ ~saved THEN last ELSE i + 1

\* The step that follows step i of a job whose model i was saved or not; one past
\* the plan's length is the end.  A raised error ends every job but train_all,
\* which only lets the one of its XGBoost through.
NextStep(p, m, saved, raised) ==
    LET i    == proc[p].step
        last == Len(Plan(proc[p].job)) + 1
        own  == proc[p].own
    IN CASE proc[p].job = "nightly" -> IF saved THEN i + 1 ELSE last
         [] proc[p].job = "weekly"  -> IF raised THEN last ELSE i + 1
         [] proc[p].job = "all" /\ m = "xgboost"  -> IF saved THEN i + 1 ELSE last
         [] proc[p].job = "all" /\ m = "gnn"      ->
                IF own["lstm"] # 0 /\ own["tft"] # 0 THEN i + 1 ELSE i + 3
         [] proc[p].job = "all" /\ m = "ensemble" -> IF saved THEN i + 1 ELSE i + 2
         [] OTHER -> i + 1

\* What the job history shows of a nightly retrain that ended at model m.
Recorded(m, saved) ==
    IF saved THEN "clean" ELSE IF m = "xgboost" THEN "failed" ELSE "promoted_with_error"

\* The trainer moves on from model m: to the next one, or the job is over.
Advance(p, m, saved, raised) ==
    LET next == NextStep(p, m, saved, raised)
        over == next > Len(Plan(proc[p].job))
        kept == IF saved THEN [proc[p].own EXCEPT ![m] = proc[p].out.v] ELSE proc[p].own
    IN /\ proc' = [proc EXCEPT ![p] =
                     IF over THEN Idle
                     ELSE [@ EXCEPT !.step = next, !.phase = "fit", !.out = Absent,
                                    !.own = kept]]
       /\ record' = IF over /\ proc[p].job = "nightly" THEN Recorded(m, saved) ELSE record

--------------------------------------------------------------------------------
(* The trainers. *)

StartJob(p, job) ==
    /\ proc[p] = Idle /\ events < MaxEvents
    /\ proc' = [proc EXCEPT ![p] = [Idle EXCEPT !.job = job, !.step = 1]]
    /\ events' = events + 1
    /\ foreign' = IF job = "nightly" THEN proc["cli"] # Idle ELSE foreign
    /\ api' = IF api.state = "loading" THEN [api EXCEPT !.quiet = FALSE] ELSE api
    /\ UNCHANGED <<files, record, saves>>

\* A fit that succeeds and passes its gate (a collapsed XGBoost or ensemble is
\* rejected, and fails here) opens the model's files for writing.
Fit(p) ==
    LET m == Current(p)
    IN /\ proc[p].job # "none" /\ proc[p].phase = "fit" /\ saves < MaxSaves
       /\ FitPossible(p, m)
       /\ proc' = [proc EXCEPT ![p].phase = "dump",
                     ![p].out = Artifact(saves + 3, proc[p].job, FittedOn(p, m),
                                         TrainEnd(p, m)),
                     ![p].stack = IF m = "ensemble" THEN FittedOn(p, m) ELSE @]
       /\ files' = [files EXCEPT ![m].body = Broken]
       /\ saves' = saves + 1
       /\ foreign' = (foreign \/ proc[p].job # "nightly")
       /\ UNCHANGED <<record, api, events>>

\* The model's files are complete.
DumpFiles(p) ==
    /\ proc[p].phase = "dump"
    /\ files' = [files EXCEPT ![Current(p)].body = proc[p].out]
    /\ proc' = [proc EXCEPT ![p].phase = "describe"]
    /\ UNCHANGED <<record, foreign, api, saves, events>>

\* A faulty variant: metadata.json is written once and never replaced.
WriteMetadata_FirstOnly(p) ==
    /\ proc[p].phase = "describe"
    /\ files' = [files EXCEPT ![Current(p)].meta = IF @ = Absent THEN proc[p].out ELSE @]
    /\ Advance(p, Current(p), TRUE, FALSE)
    /\ UNCHANGED <<foreign, api, saves, events>>

\* metadata.json is written and the job goes on to its next model.
WriteMetadata(p) ==
    /\ proc[p].phase = "describe"
    /\ files' = [files EXCEPT ![Current(p)].meta = proc[p].out]
    /\ Advance(p, Current(p), TRUE, FALSE)
    /\ UNCHANGED <<foreign, api, saves, events>>

\* No artifact: no data, too few rows, a missing input, a collapsed model, or an
\* error.  Nothing is written.
FitFails(p) ==
    /\ proc[p].job # "none" /\ proc[p].phase = "fit"
    /\ \E raised \in BOOLEAN : Advance(p, Current(p), FALSE, raised)
    /\ UNCHANGED <<files, foreign, api, saves, events>>

\* A trainer is killed (out of memory, a deploy): what it wrote stays.
Killed(p) ==
    /\ proc[p] # Idle /\ events < MaxEvents
    /\ events' = events + 1
    /\ proc' = [proc EXCEPT ![p] = Idle]
    /\ record' = IF proc[p].job = "nightly" THEN "cut" ELSE record
    /\ UNCHANGED <<files, foreign, api, saves>>

--------------------------------------------------------------------------------
(* The API loads the models once, at its start. *)

LoadOrder == <<"xgboost", "lstm", "tft", "regime", "ensemble", "meta_labeling", "conformal", "gnn">>

\* quiet: it started in a quiet moment, and no training began while it loaded.
Down == [state |-> "down", next |-> 1, got |-> [m \in Models |-> Absent],
         has |-> Absent, quiet |-> TRUE]

\* models_available: metadata.json of every required model, nothing loaded.
ModelsAvailable == \A m \in Required : files[m].meta # Absent

\* No training runs, and the last one to have run was a nightly job the history
\* shows without an error.
Quiet == (\A p \in Trainers : proc[p] = Idle) /\ record = "clean" /\ ~foreign

Boot ==
    /\ api.state # "loading" /\ events < MaxEvents
    /\ ModelsAvailable
    /\ events' = events + 1
    /\ api' = [Down EXCEPT !.state = "loading", !.quiet = Quiet]
    /\ UNCHANGED <<files, proc, record, foreign, saves>>

\* One model is loaded.  A required one that cannot be read fails the start; the
\* GNN is skipped with a warning when it is missing or unreadable.
LoadModel ==
    LET m    == LoadOrder[api.next]
        last == api.next = Len(LoadOrder)
    IN /\ api.state = "loading"
       /\ api' = IF m # "gnn" /\ ~Readable(m) THEN Down
                 ELSE [api EXCEPT !.next = IF last THEN 1 ELSE @ + 1,
                                  !.state = IF last THEN "up" ELSE @,
                                  !.got[m] = IF Readable(m) THEN files[m].body ELSE Absent,
                                  !.has = IF m = "ensemble" THEN files[m].meta ELSE @]
       /\ UNCHANGED <<files, proc, record, foreign, saves, events>>

--------------------------------------------------------------------------------

\* A server set up by one train_all, its API not yet started.
Shipped(m) ==
    Artifact(1, "all", [n \in Models |->
                          IF m \in {"ensemble", "meta_labeling"}
                             /\ (n \in Base \/ n = "gnn" \/ (n = "ensemble" /\ m = "meta_labeling"))
                          THEN 1 ELSE 0],
             ThreeWay(Rows, 15, 15, 20, 0).train.to)

\* The XGBoost of a nightly job that was killed right after it.
Orphan == Artifact(2, "nightly", Nothing, TwoWay(Rows, 20, 20).train.to)

Init ==
    /\ \E last \in {Shipped("xgboost"), Orphan} :
          files = [m \in Models |->
                     LET a == IF m = "xgboost" THEN last ELSE Shipped(m)
                     IN [body |-> a, meta |-> a]]
    /\ saves = 0
    /\ proc = [p \in Trainers |-> Idle]
    /\ record = "none" /\ foreign = FALSE /\ api = Down
    /\ events = 0

Nightly == StartJob("scheduler", "nightly")
Weekly == StartJob("scheduler", "weekly")
Command == \E c \in Commands : StartJob("cli", c)

Next ==
    \/ Nightly \/ Weekly \/ Command
    \/ \E p \in Trainers : Fit(p)
    \/ \E p \in Trainers : DumpFiles(p)
    \/ \E p \in Trainers : WriteMetadata(p)
    \/ \E p \in Trainers : FitFails(p)
    \/ \E p \in Trainers : Killed(p)
    \/ Boot \/ LoadModel

Spec == Init /\ [][Next]_vars

--------------------------------------------------------------------------------
(* Properties. *)

ArtifactType == [v : 0..(MaxSaves + 2), job : {"none", "broken", "nightly", "weekly", "all"} \cup Models,
                 on : [Models -> 0..(MaxSaves + 2)], seen : 0..Rows]

\* Every variable keeps its shape: files in both parts, a trainer's step within
\* the plan of its job, the API's place in its load order.
TypeOK ==
    /\ \A m \in Models : files[m].body \in ArtifactType /\ files[m].meta \in ArtifactType
    /\ \A p \in Trainers : proc[p] = Idle \/ proc[p].step \in 1..Len(Plan(proc[p].job))
    /\ record \in {"none", "clean", "promoted_with_error", "failed", "cut"}
    /\ api.state \in {"down", "loading", "up"} /\ api.next \in 1..Len(LoadOrder)
    /\ foreign \in BOOLEAN

\* The layers were fitted on the very models they stand on.
AlignedStack(a) ==
    /\ \A n \in Base : a["ensemble"].on[n] = a[n].v /\ a["meta_labeling"].on[n] = a[n].v
    /\ a["meta_labeling"].on["ensemble"] = a["ensemble"].v

\* A nightly job that the history shows without an error, with no other training
\* since it began, has left no mixed stack behind: ensemble and meta-labeling on
\* disk were fitted on the base models on disk (scheduler.py:1525-1621).
CleanNightIsAligned ==
    record = "clean" /\ ~foreign /\ proc["scheduler"] = Idle =>
        AlignedStack([m \in Models |-> files[m].body])

\* An API started while nothing trains, after such a night, serves one stack: the
\* layers fit the models under them and the ensemble can predict with them,
\* whatever the server went through before (model_registry.py:312-389).
QuietStartServesOneStack ==
    api.state = "up" /\ api.quiet =>
        /\ AlignedStack(api.got)
        /\ Stackable(api.got["ensemble"], api.has, api.got["gnn"] # Absent)

\* Rows between the learners' training rows and the ones that fit the ensemble.
Embargo == 20

Unseen(m) == files[m].body.v = files["ensemble"].body.on[m] /\ files[m].body.v # 0
                => files[m].body.seen + Embargo <= OofStart

\* The ensemble of train_all is fitted on rows its learners never saw, an embargo
\* apart (pipeline.py:219-262).
TrainAllIsOutOfFold ==
    files["ensemble"].body.job = "all" => \A m \in Learners : Unseen(m)

\* What every state of the artifacts has, beside what is served and what a full training does.
NightsAreClean == TypeOK /\ CleanNightIsAligned
================================================================================
