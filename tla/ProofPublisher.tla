--------------------------- MODULE ProofPublisher ---------------------------
(***************************************************************************)
(* The daily proof of the predictions: verification/publisher.py, run by   *)
(* the scheduler.  The publish job hashes the day's paper trades, stores   *)
(* the hash and its payload in a row of prediction_proofs, writes and      *)
(* stamps the hash file, commits and pushes the proofs repository, and     *)
(* notes the commit in the row.  The reveal job puts the payloads of old   *)
(* proofs beside their hashes.  Each is a sequence of steps that can fail, *)
(* and between any two of them the process can go down or the API process  *)
(* can change the day's trades.  A payload is the number of the version of *)
(* the day's trades it holds, and its hash is written as that number: the  *)
(* hash of hasher.py depends on the trades alone, not on their order.      *)
(*                                                                         *)
(* A history of the repository is a line of commits, the publisher's own   *)
(* and those that others pushed to origin, which leave the proofs alone.   *)
(* The SHA of a commit stands for all that is below it, so it is written   *)
(* <<k, f>> with k own and f foreign commits up to it: a rebase puts the   *)
(* own commits on top of more foreign ones, and so under other SHAs.       *)
(***************************************************************************)
EXTENDS Integers, FiniteSets, Sequences

CONSTANTS
    MaxDay,        \* bound: the last day of the model
    MaxVersion,    \* bound: versions of one day's trades
    RevealAfter,   \* REVEAL_AFTER_DAYS
    MaxOthers,     \* bound: commits that others push to origin
    Faults,        \* the kinds of step that may fail
    MaxPublishes,  \* bound: runs of the publish job on one day
    RerunDays,     \* bound: the days on which it runs more than once
    MaxCrashes     \* bound: times the process goes down in a job

ASSUME ProofConfig ==
    /\ MaxDay \in Nat \ {0} /\ MaxVersion \in Nat \ {0}
    /\ RevealAfter \in Nat \ {0}
    /\ Faults \subseteq {"store", "file", "ots", "git", "push", "reread", "update"}
    /\ MaxPublishes \in Nat /\ MaxCrashes \in Nat /\ MaxOthers \in Nat

VARIABLES
    today,      \* the date in India
    ledger,     \* paper_trades: the version of each day's trades, 0 for none
    row,        \* prediction_proofs, by day; version 0 where there is no row
    work,       \* the files of the proofs repository
    head,       \* its last commit
    remote,     \* what origin has
    branch, origin,   \* the history of each: its last commit and all it has
    trees,      \* the hash files in each of the own commits, first to last
    replaced,   \* history: the commits that a rebase put others in place of
    job,        \* the running job and what it remembers
    publishes,  \* runs of the publish job per day
    crashes,
    reported,   \* history: the proofs the scheduler took for published
    torn        \* history: the days on which a rerun was broken off before the
                \* hash file was written, or failed to write it or the row

pathVars == <<branch, origin, trees, replaced>>
vars == <<today, ledger, row, work, head, remote, pathVars, job, publishes, crashes, reported,
          torn>>

Day == 1..MaxDay
Version == 0..MaxVersion
Stage == {"idle", "store", "file", "stamp", "payload", "commit", "push", "rebase", "repush",
          "finish"}

Sha == Nat \X (0..MaxOthers)
NoSha == <<0, 0>>
History == [tip: Sha, has: SUBSET Sha]

\* One file of each kind per day: proofs/<day>.sha256, .sha256.ots and .json.
Tree == [hash: [Day -> Version], ots: [Day -> Version], payload: [Day -> Version]]
Row  == [version: Version, commit: Sha, stamped: BOOLEAN, revealed: BOOLEAN]
NoRow == [version |-> 0, commit |-> NoSha, stamped |-> FALSE, revealed |-> FALSE]

Idle == [at |-> "idle", kind |-> "none", day |-> 1, version |-> 0, stored |-> FALSE,
         stamped |-> FALSE, commit |-> NoSha, pushed |-> FALSE, due |-> {}, done |-> {}]

TypeOK ==
    /\ today \in Day
    /\ ledger \in [Day -> Version]
    /\ row \in [Day -> Row]
    /\ work \in Tree /\ head \in Tree /\ remote \in Tree
    /\ branch \in History /\ origin \in History /\ replaced \subseteq Sha
    /\ trees \in Seq([Day -> Version])
    /\ job \in [at: Stage, kind: {"none", "publish", "reveal"}, day: 1..today, version: Version,
                stored: BOOLEAN, stamped: BOOLEAN, commit: Sha, pushed: BOOLEAN,
                due: SUBSET (1..(today - RevealAfter)), done: SUBSET (1..(today - RevealAfter))]
    /\ publishes \in [Day -> 0..MaxPublishes]
    /\ crashes \in 0..MaxCrashes
    /\ reported \subseteq [day: Day, version: Version, commit: Sha]
    /\ torn \subseteq 1..today

Init ==
    /\ today = 1
    /\ ledger = [d \in Day |-> 0]
    /\ row = [d \in Day |-> NoRow]
    /\ work = [hash |-> ledger, ots |-> ledger, payload |-> ledger]
    /\ head = work /\ remote = work
    /\ branch = [tip |-> NoSha, has |-> {}] /\ origin = branch
    /\ trees = <<>> /\ replaced = {}
    /\ job = Idle
    /\ publishes = [d \in Day |-> 0]
    /\ crashes = 0
    /\ reported = {} /\ torn = {}

Tear == torn' = IF publishes[job.day] > 1 THEN torn \union {job.day} ELSE torn

-----------------------------------------------------------------------------
(* publish_daily_proof *)

\* The trades are loaded and hashed; a day without trades is skipped.
BeginPublish ==
    /\ job = Idle
    /\ publishes[today] < MaxPublishes
    /\ today \in RerunDays \/ publishes[today] = 0
    /\ publishes' = [publishes EXCEPT ![today] = @ + 1]
    /\ ledger[today] # 0
    /\ job' = [Idle EXCEPT !.at = "store", !.kind = "publish", !.day = today,
                           !.version = ledger[today]]
    /\ UNCHANGED <<today, ledger, row, work, head, remote, pathVars,
                   crashes, reported, torn>>

\* A faulty variant: a row that is there already is left alone.
StoreRow_KeepFirst ==
    /\ job.at = "store"
    /\ \/ /\ row' = [row EXCEPT ![job.day].version = IF @ = 0 THEN job.version ELSE @]
          /\ job' = [job EXCEPT !.at = "file", !.stored = TRUE]
          /\ UNCHANGED torn
       \/ /\ "store" \in Faults
          /\ job' = [job EXCEPT !.at = "file"]
          /\ Tear
          /\ UNCHANGED row
    /\ UNCHANGED <<today, ledger, work, head, remote, pathVars, publishes, crashes, reported>>

\* _store_proof inserts the row; when there is one, _upsert_proof replaces its
\* hash and payload and leaves the rest of it.  Both may fail.
StoreRow ==
    /\ job.at = "store"
    /\ \/ /\ row' = [row EXCEPT ![job.day].version = job.version]
          /\ job' = [job EXCEPT !.at = "file", !.stored = TRUE]
          /\ UNCHANGED torn
       \/ /\ "store" \in Faults
          /\ job' = [job EXCEPT !.at = "file"]
          /\ Tear
          /\ UNCHANGED row
    /\ UNCHANGED <<today, ledger, work, head, remote, pathVars, publishes, crashes, reported>>

\* _write_proof_file; an OSError skips the rest of the repository's steps.
WriteHash ==
    /\ job.at = "file"
    /\ \/ /\ work' = [work EXCEPT !.hash[job.day] = job.version]
          /\ job' = [job EXCEPT !.at = "stamp"]
          /\ UNCHANGED torn
       \/ /\ "file" \in Faults
          /\ job' = [job EXCEPT !.at = "finish"]
          /\ Tear
          /\ UNCHANGED work
    /\ UNCHANGED <<today, ledger, row, head, remote, pathVars, publishes, crashes, reported>>

\* _ots_stamp: a stamp file that is there already is taken as it is.
StampHash ==
    /\ job.at = "stamp"
    /\ \/ /\ work' = [work EXCEPT !.ots[job.day] = IF @ = 0 THEN work.hash[job.day] ELSE @]
          /\ job' = [job EXCEPT !.at = "commit", !.stamped = TRUE]
       \/ /\ "ots" \in Faults
          /\ work.ots[job.day] = 0
          /\ job' = [job EXCEPT !.at = "commit"]
          /\ UNCHANGED work
    /\ UNCHANGED <<today, ledger, row, head, remote, pathVars, publishes,
                   crashes, reported, torn>>

\* The summary of the run that the scheduler looks at.
Proof == [day |-> job.day, version |-> job.version, commit |-> job.commit]

\* A faulty variant: the success of the push is not looked at.
FinishPublish_AnyCommit ==
    /\ job.at = "finish"
    /\ job.kind = "publish"
    /\ \/ row' = IF job.stored
                 THEN [row EXCEPT ![job.day].commit = IF job.commit # NoSha THEN job.commit ELSE @,
                                  ![job.day].stamped = @ \/ job.stamped]
                 ELSE row
       \/ "update" \in Faults /\ UNCHANGED row
    /\ reported' = IF job.commit # NoSha
                   THEN reported \union {Proof}
                   ELSE reported
    /\ job' = Idle
    /\ UNCHANGED <<today, ledger, work, head, remote, pathVars, publishes, crashes, torn>>

\* _update_proof_publication notes the commit and the stamp in the row, and
\* run_prediction_hash counts the job a success when the status is published.
FinishPublish ==
    /\ job.at = "finish"
    /\ job.kind = "publish"
    /\ \/ row' = IF job.stored
                 THEN [row EXCEPT ![job.day].commit = IF job.commit # NoSha THEN job.commit ELSE @,
                                  ![job.day].stamped = @ \/ job.stamped]
                 ELSE row
       \/ "update" \in Faults /\ UNCHANGED row
    /\ reported' = IF job.commit # NoSha /\ job.pushed
                   THEN reported \union {Proof}
                   ELSE reported
    /\ job' = Idle
    /\ UNCHANGED <<today, ledger, work, head, remote, pathVars, publishes, crashes, torn>>

-----------------------------------------------------------------------------
(* reveal_due_proofs *)

\* Faulty variants: the age of the proof is not asked; only the proofs that
\* become due today are taken.
DueRows_AnyAge == {d \in Day : row[d].version # 0 /\ ~row[d].revealed}

DueRows_OnTheDay ==
    {d \in Day : row[d].version # 0 /\ ~row[d].revealed /\ d = today - RevealAfter}

\* _load_due_unrevealed.
DueRows ==
    {d \in Day : row[d].version # 0 /\ ~row[d].revealed /\ d <= today - RevealAfter}

BeginReveal ==
    /\ job = Idle
    /\ DueRows # {}
    /\ job' = [Idle EXCEPT !.at = "payload", !.kind = "reveal", !.due = DueRows]
    /\ UNCHANGED <<today, ledger, row, work, head, remote, pathVars, publishes,
                   crashes, reported, torn>>

\* The payloads are written in the order of their days; an OSError ends the
\* job.  Nobody changes the rows of past days meanwhile.
WritePayload ==
    /\ job.at = "payload"
    /\ LET d == CHOOSE x \in job.due : \A y \in job.due : x <= y
       IN  \/ /\ work' = [work EXCEPT !.payload[d] = row[d].version]
              /\ job' = [job EXCEPT !.due = @ \ {d}, !.done = @ \union {d},
                                    !.at = IF job.due = {d} THEN "commit" ELSE "payload"]
           \/ /\ "file" \in Faults
              /\ job' = Idle
              /\ UNCHANGED work
    /\ UNCHANGED <<today, ledger, row, head, remote, pathVars, publishes,
                   crashes, reported, torn>>

\* _mark_revealed, whatever became of the commit and the push.
FinishReveal ==
    /\ job.at = "finish"
    /\ job.kind = "reveal"
    /\ \/ row' = [d \in Day |-> IF d \in job.done THEN [row[d] EXCEPT !.revealed = TRUE]
                                ELSE row[d]]
       \/ "update" \in Faults /\ UNCHANGED row
    /\ job' = Idle
    /\ UNCHANGED <<today, ledger, work, head, remote, pathVars, publishes,
                   crashes, reported, torn>>

-----------------------------------------------------------------------------
(* _git_commit_and_push, in both jobs *)

\* git commit, of the files as they are; without a change there is none.
MakeCommit ==
    IF work = head
    THEN UNCHANGED <<head, branch, trees>>
    ELSE LET new == <<branch.tip[1] + 1, branch.tip[2]>>
         IN  /\ head' = work
             /\ trees' = Append(trees, work.hash)
             /\ branch' = [tip |-> new, has |-> branch.has \union {new}]

\* git add -A takes every file there is, and rev-parse tells the SHA; a command
\* that fails, before the commit or after it, leaves the job without a SHA and
\* without a push.
Commit ==
    /\ job.at = "commit"
    /\ \/ /\ MakeCommit
          /\ job' = [job EXCEPT !.at = "push", !.commit = branch'.tip]
       \/ /\ "git" \in Faults
          /\ MakeCommit \/ UNCHANGED <<head, branch, trees>>
          /\ job' = [job EXCEPT !.at = "finish"]
    /\ UNCHANGED <<today, ledger, row, work, remote, origin, replaced, publishes, crashes,
                   reported, torn>>

\* _push_head sends every commit there is.  Origin takes them only on top of
\* all that it has.
PushHead ==
    /\ origin.has \subseteq branch.has
    /\ origin' = branch /\ remote' = head

PushFails ==
    /\ "push" \in Faults \/ ~(origin.has \subseteq branch.has)
    /\ UNCHANGED <<origin, remote>>

Push ==
    /\ job.at = "push"
    /\ \/ PushHead /\ job' = [job EXCEPT !.at = "finish", !.pushed = TRUE]
       \/ PushFails /\ job' = [job EXCEPT !.at = "rebase"]
    /\ UNCHANGED <<today, ledger, row, work, head, branch, trees, replaced, publishes, crashes,
                   reported, torn>>

\* _rebase_onto_origin: the own commits that origin lacks are made anew on top of
\* what it has.  When fetch or rebase fails, the branch stays as it was.
Rebase ==
    /\ job.at = "rebase"
    /\ \/ LET own == (origin.tip[1] + 1)..branch.tip[1]
          IN  /\ branch' = [tip |-> <<branch.tip[1], origin.tip[2]>>,
                            has |-> origin.has \union (own \X {origin.tip[2]})]
              /\ replaced' = replaced \union (branch.has \ branch'.has)
              /\ job' = [job EXCEPT !.at = "repush"]
       \/ /\ "push" \in Faults
          /\ job' = [job EXCEPT !.at = "finish"]
          /\ UNCHANGED <<branch, replaced>>
    /\ UNCHANGED <<today, ledger, row, work, head, remote, origin, trees, publishes, crashes,
                   reported, torn>>

\* A faulty variant: the SHA that was read before the rebase is kept.
Repush_OldSha ==
    /\ job.at = "repush"
    /\ \/ PushHead /\ job' = [job EXCEPT !.at = "finish", !.pushed = TRUE]
       \/ PushFails /\ job' = [job EXCEPT !.at = "finish"]
    /\ UNCHANGED <<today, ledger, row, work, head, branch, trees, replaced, publishes, crashes,
                   reported, torn>>

\* The second push.  After it the SHA is read again; the old one is kept when
\* that fails.
Repush ==
    /\ job.at = "repush"
    /\ \E sha \in {branch.tip} \union (IF "reread" \in Faults THEN {job.commit} ELSE {}) :
          \/ PushHead /\ job' = [job EXCEPT !.at = "finish", !.commit = sha, !.pushed = TRUE]
          \/ PushFails /\ job' = [job EXCEPT !.at = "finish", !.commit = sha]
    /\ UNCHANGED <<today, ledger, row, work, head, branch, trees, replaced, publishes, crashes,
                   reported, torn>>

-----------------------------------------------------------------------------
(* The world around the jobs *)

\* The prediction job, a script or POST /paper/predict stores trades of today:
\* store_paper_trade inserts them, or overwrites what they predicted.
TradesChange ==
    /\ ledger[today] < MaxVersion
    /\ ledger' = [ledger EXCEPT ![today] = @ + 1]
    /\ UNCHANGED <<today, row, work, head, remote, pathVars, job, publishes,
                   crashes, reported, torn>>

\* Somebody else pushes a commit to origin, the first README among them.
OthersPush ==
    /\ origin.tip[2] < MaxOthers
    /\ LET new == <<origin.tip[1], origin.tip[2] + 1>>
       IN  origin' = [tip |-> new, has |-> origin.has \union {new}]
    /\ UNCHANGED <<today, ledger, row, work, head, remote, branch, trees, replaced, job,
                   publishes, crashes, reported, torn>>

\* The jobs end on the day they begin.
MidnightPasses ==
    /\ job = Idle
    /\ today < MaxDay
    /\ today' = today + 1
    /\ UNCHANGED <<ledger, row, work, head, remote, pathVars, job, publishes,
                   crashes, reported, torn>>

\* The process goes down in a job: the files and the row stay as they are.
Crash ==
    /\ job # Idle
    /\ crashes < MaxCrashes
    /\ crashes' = crashes + 1
    /\ job' = Idle
    /\ IF job.at \in {"store", "file"} THEN Tear ELSE UNCHANGED torn
    /\ UNCHANGED <<today, ledger, row, work, head, remote, pathVars, publishes, reported>>

PublishStep == BeginPublish \/ StoreRow \/ WriteHash \/ StampHash \/ FinishPublish
RevealStep == BeginReveal \/ WritePayload \/ FinishReveal
GitStep == Commit \/ Push \/ Rebase \/ Repush
WorldStep == TradesChange \/ OthersPush \/ MidnightPasses \/ Crash

Next == PublishStep \/ RevealStep \/ GitStep \/ WorldStep

Spec == Init /\ [][Next]_vars

\* Days pass, a job that has begun takes its next step, and the scheduler
\* starts the reveal job every day.
FairSpec ==
    /\ Spec
    /\ WF_vars(MidnightPasses)
    /\ WF_vars(RevealStep) /\ WF_vars(GitStep)
    /\ WF_vars(StoreRow) /\ WF_vars(WriteHash) /\ WF_vars(StampHash) /\ WF_vars(FinishPublish)

-----------------------------------------------------------------------------
(* What the publisher keeps *)

\* The publisher as its readers see it: the trades of each day, and of the
\* repository what has been pushed.
Promised == INSTANCE CommitReveal
    WITH clock <- today, made <- ledger, sealed <- remote.hash, opened <- remote.payload,
         spoilt <- torn

\* Whatever fails, is broken off or is run again, and however late a push gets
\* through, the public repository behaves as CommitReveal: a day is sealed by its
\* own trades, is not opened before its time, and neither its seal nor its payload
\* changes after that (publisher.py, and the header of its verify.py).
KeepsThePromise == Promised!Spec

\* verify.py finds no mismatch at the remote: where a day's payload and hash
\* are both there, the hash is the payload's, though the one comes from the
\* database row and the other was written weeks before, and also when the
\* publish job ran again on changed trades.  Only a rerun that loses one of its
\* two writes leaves a pair that does not fit.
RevealVerifies ==
    \A d \in Day \ torn : (remote.payload[d] # 0 /\ remote.hash[d] # 0)
                        => remote.payload[d] = remote.hash[d]

\* The commit a row names holds the hash of that row, and so does the last
\* commit, as long as the publish job runs once on a day.  The repository still
\* has it, unless a rebase put another in its place; that happens only to commits
\* that were never at origin.  And what was counted as published is at origin
\* under the SHA that the run told, so long as that can be read after a rebase.
RecordedCommitHolds ==
    /\ \A d \in Day : row[d].commit # NoSha /\ publishes[d] = 1 =>
            /\ trees[row[d].commit[1]][d] = row[d].version
            /\ head.hash[d] = row[d].version
            /\ row[d].commit \in branch.has \union replaced
    /\ replaced \intersect origin.has = {}
    /\ "reread" \notin Faults => \A p \in reported : p.commit \in origin.has

\* A publish job that the scheduler counts as a success has put its hash, or
\* that of a later run, where the public will look for it.
ReportedIsPublished == \A p \in reported : remote.hash[p.day] >= p.version

\* Every proof in the database is revealed once it is old enough, although
\* the process may go down between the payload file and the mark in the row.
EveryProofIsRevealed ==
    \A d \in 1..(MaxDay - RevealAfter) : row[d].version # 0 ~> row[d].revealed
=============================================================================
