----------------------- MODULE ProofPublisher_proofs -----------------------
(***************************************************************************)
(* Proofs about ProofPublisher, for any number of days, versions, runs and *)
(* crashes, and whichever steps may fail.                                  *)
(***************************************************************************)
EXTENDS ProofPublisher, WellFoundedInduction, TLAPS

-----------------------------------------------------------------------------
(* The inductive invariant, in its named parts *)

\* What the running job remembers fits what it has done: the publish job works
\* on today's trades, and the reveal job has payloads left to write while it writes
\* them.
JobSound ==
    /\ job.kind = "none" => job.at = "idle"
    /\ job.kind = "publish" =>
        /\ job.at \in {"store", "file", "stamp", "commit", "push", "rebase", "repush",
                       "finish"}
        /\ job.day = today /\ job.version # 0 /\ publishes[today] # 0
        /\ job.version <= ledger[today]
    /\ job.kind = "reveal" =>
           job.at \in {"payload", "commit", "push", "rebase", "repush", "finish"}
    /\ job.at = "payload" => job.due # {}
    /\ job.pushed => job.at = "finish"

HasCommitted == job.at \in {"push", "rebase", "repush"} \/ job.commit # NoSha \/ job.pushed

\* How far the publish job has come with the day's hash.
HashFollowsJob ==
    job.kind = "publish" =>
        /\ job.stored => row[today].version = job.version
        /\ job.at \in {"stamp", "commit"} \/ HasCommitted => work.hash[today] = job.version
        /\ HasCommitted => head.hash[today] = job.version
        /\ job.pushed => remote.hash[today] = job.version

\* The first run of the publish job finds no row and no hash of its day; a
\* later run that has missed its row has torn the day.
FirstRun ==
    /\ \A d \in Day : publishes[d] = 0 =>
           row[d].version = 0 /\ row[d].commit = NoSha /\ work.hash[d] = 0
    /\ job.kind = "publish" =>
        /\ publishes[today] = 1 => row[today].commit = NoSha
        /\ job.at \in {"store", "file"} /\ publishes[today] = 1 => work.hash[today] = 0
        /\ job.at \in {"store", "file"} /\ publishes[today] = 1 /\ ~job.stored
               => row[today].version = 0
        /\ job.at = "file" /\ publishes[today] # 1 /\ ~job.stored => today \in torn

\* The two histories are bounded by their last commits; what only the branch has
\* are own commits after the last one that origin has, and origin is never behind
\* in commits of others.  A rebase replaces commits by others with more below them.
PathsFit ==
    /\ branch.tip[1] = Len(trees)
    /\ origin.tip[1] <= branch.tip[1] /\ branch.tip[2] <= origin.tip[2]
    /\ branch.tip = NoSha \/ branch.tip \in branch.has
    /\ origin.tip = NoSha \/ origin.tip \in origin.has
    /\ \A c \in branch.has : c[1] <= branch.tip[1] /\ c[2] <= branch.tip[2]
    /\ \A c \in origin.has : c[1] <= origin.tip[1] /\ c[2] <= origin.tip[2]
    /\ \A c \in branch.has \ origin.has : c[1] > origin.tip[1]
    /\ \A c \in replaced : c[2] < branch.tip[2]
    /\ \A c \in replaced : c \notin branch.has /\ c \notin origin.has

\* The last own commit is of the last committed files.
TreesFit ==
    \A d \in Day : head.hash[d] = IF trees = <<>> THEN 0 ELSE trees[Len(trees)][d]

\* The commit is in the branch or was replaced, and it holds that hash.
Names(sha, d, version) ==
    /\ sha \in branch.has \union replaced
    /\ sha[1] \in 1..Len(trees)
    /\ trees[sha[1]][d] = version

\* The SHA that a publish job has read names a commit with its hash; it is the
\* last one before the push, and at origin after it.
JobNames ==
    /\ job.kind = "publish" /\ job.commit # NoSha => Names(job.commit, today, job.version)
    /\ job.at = "push" => job.commit = branch.tip
    /\ "reread" \notin Faults /\ job.pushed /\ job.commit # NoSha => job.commit \in origin.has
    /\ "reread" \notin Faults => \A p \in reported : p.commit \in origin.has

\* The commit noted in the row of a day published once holds the row's hash, and
\* that is the day's hash, in the files and in the last commit.
CommitNoted ==
    \A d \in Day : row[d].commit # NoSha /\ publishes[d] = 1 =>
        /\ Names(row[d].commit, d, row[d].version)
        /\ work.hash[d] = row[d].version
        /\ head.hash[d] = row[d].version

\* No copy of the repository is behind a proof counted as published, and none
\* of those is ahead of the trades, nor of a publish job that is running.
ReportedIsKept ==
    \A p \in reported :
        /\ p.version <= ledger[p.day]
        /\ job.kind = "publish" /\ job.day = p.day => p.version <= job.version
        /\ work.hash[p.day] >= p.version
        /\ head.hash[p.day] >= p.version
        /\ remote.hash[p.day] >= p.version

\* Outside the publish job's two writes, the row and the file of a day that no
\* rerun has torn hold the same trades where both are there.
Settled(d) ==
    \/ job.kind = "publish" /\ job.day = d /\ job.at \in {"store", "file"}
    \/ row[d].version # 0 /\ work.hash[d] # 0 => row[d].version = work.hash[d]

\* A payload is only of a day old enough, whose row and hash no longer change.
PayloadIsPast(tree) ==
    \A d \in Day : tree.payload[d] # 0 =>
        /\ d <= today - RevealAfter
        /\ tree.payload[d] = row[d].version
        /\ tree.hash[d] = work.hash[d]

\* No copy is ahead of the one it was made from: trades, row and files, last
\* commit, remote; and nobody trades tomorrow.
CopiesFollow ==
    /\ \A d \in Day :
        /\ ledger[d] # 0 => d <= today
        /\ row[d].version <= ledger[d] /\ work.hash[d] <= ledger[d]
        /\ head.hash[d] <= work.hash[d] /\ remote.hash[d] <= head.hash[d]
        /\ remote.payload[d] # 0 => head.payload[d] # 0
        /\ head.payload[d] # 0 => work.payload[d] # 0
    /\ job.kind = "publish" => work.hash[today] <= job.version
    /\ \A d \in job.due : row[d].version # 0

PublisherInv ==
    /\ HashFollowsJob
    /\ FirstRun
    /\ PathsFit /\ TreesFit /\ JobNames
    /\ CommitNoted
    /\ ReportedIsKept
    /\ \A d \in Day \ torn : Settled(d)
    /\ PayloadIsPast(work) /\ PayloadIsPast(head) /\ PayloadIsPast(remote)
    /\ CopiesFollow

-----------------------------------------------------------------------------
(* Types and the control of the jobs *)

\* Every set of natural numbers that is not empty has a least element.
LEMMA LeastNatural ==
    ASSUME NEW T \in SUBSET Nat, T # {}
    PROVE  \E x \in T : \A y \in T : x <= y
  <1> DEFINE Less == {pair \in Nat \X Nat : pair[1] < pair[2]}
  <1>1. IsWellFoundedOn(Less, Nat)
    BY NatLessThanWellFounded DEF OpToRel
  <1>2. \E x \in T : \A y \in T : <<y, x>> \notin Less
    <2> HIDE DEF Less
    <2> QED
      BY <1>1, WFMin
  <1>3. ASSUME NEW x \in T, NEW y \in T, <<y, x>> \notin Less
        PROVE  x <= y
    <2>1. x \in Nat /\ y \in Nat /\ ~(y < x)
      BY <1>3
    <2> QED
      BY <2>1
  <1> QED
    BY <1>2, <1>3

\* The next payload the reveal job writes is one of those it has to write.
LEMMA NextDueIsDue ==
    ASSUME TypeOK, job.due # {}
    PROVE  (CHOOSE x \in job.due : \A y \in job.due : x <= y) \in job.due
  <1>1. job.due \in SUBSET Nat
    BY ProofConfig DEF TypeOK, Day
  <1> QED
    BY <1>1, LeastNatural

-----------------------------------------------------------------------------
(* The steps, field by field *)

\* A job record: the range of the variable job on a day.
JobType(day) ==
    [at: Stage, kind: {"none", "publish", "reveal"}, day: 1..day, version: Version,
     stored: BOOLEAN, stamped: BOOLEAN, commit: Sha, pushed: BOOLEAN,
     due: SUBSET (1..(day - RevealAfter)), done: SUBSET (1..(day - RevealAfter))]

\* The job goes on with the same run on the same day and the same trades.
SameRun ==
    /\ job'.kind = job.kind /\ job'.day = job.day /\ job'.version = job.version
    /\ job'.due = job.due

LEMMA JobFacts ==
    ASSUME TypeOK
    PROVE  /\ job \in JobType(today) /\ Idle \in JobType(today)
           /\ job.day \in Day /\ job.version \in Version /\ today \in Day
           /\ job.commit \in Sha /\ NoSha \in Sha
  <1>1. NoSha \in Sha
    BY ProofConfig DEF NoSha, Sha
  <1> QED
    BY <1>1, ProofConfig DEF TypeOK, JobType, Day, Version, Idle, Stage

\* Setting one field of one day's row.
LEMMA RowFields ==
    ASSUME TypeOK, NEW d \in Day, NEW entry \in Row,
           row' = [row EXCEPT ![d] = entry]
    PROVE  row' \in [Day -> Row] /\ row'[d] = entry /\ \A e \in Day \ {d} : row'[e] = row[e]
  BY DEF TypeOK

\* Where the counters and the hashes of a day live, and what Idle is.
LEMMA Ranges ==
    ASSUME TypeOK
    PROVE  /\ today \in Day /\ job.day \in Day /\ job.version \in Nat
           /\ \A d \in Day : /\ ledger[d] \in Nat /\ publishes[d] \in Nat
                            /\ row[d].version \in Nat /\ row[d].commit \in Sha
                            /\ work.hash[d] \in Nat /\ head.hash[d] \in Nat
                            /\ remote.hash[d] \in Nat
           /\ \A p \in reported : p.day \in Day /\ p.version \in Nat
           /\ Day \subseteq Nat
           /\ Idle.kind = "none" /\ Idle.due = {} /\ Idle.commit = NoSha /\ ~Idle.pushed
  <1>1. Version \subseteq Nat /\ Day \subseteq Nat /\ 0..MaxPublishes \subseteq Nat
    BY ProofConfig DEF Day, Version
  <1>2. \A d \in Day : row[d] \in Row
    BY DEF TypeOK
  <1>3. \A d \in Day : /\ row[d].version \in Nat /\ row[d].commit \in Sha
                       /\ ledger[d] \in Nat /\ publishes[d] \in Nat
    BY <1>1, <1>2 DEF TypeOK, Row
  <1>4. \A d \in Day : work.hash[d] \in Nat /\ head.hash[d] \in Nat /\ remote.hash[d] \in Nat
    BY <1>1 DEF TypeOK, Tree
  <1>5. \A p \in reported : p.day \in Day /\ p.version \in Nat
    BY <1>1 DEF TypeOK
  <1> QED
    BY <1>1, <1>3, <1>4, <1>5, JobFacts DEF Idle

LEMMA BeginPublishEffect ==
    ASSUME TypeOK, BeginPublish
    PROVE  /\ TypeOK'
           /\ job = Idle /\ job'.at = "store" /\ job'.kind = "publish" /\ job'.day = today
           /\ job'.version = ledger[today] /\ ledger[today] # 0
           /\ ~job'.stored /\ job'.commit = NoSha /\ ~job'.pushed /\ job'.due = {}
           /\ publishes'[today] = publishes[today] + 1
           /\ \A d \in Day \ {today} : publishes'[d] = publishes[d]
           /\ UNCHANGED <<today, ledger, row, work, head, remote, pathVars, reported, torn>>
  <1>1. job' \in JobType(today)
    <2>1. today \in 1..today /\ ledger[today] \in Version /\ "store" \in Stage
      BY JobFacts DEF TypeOK, Day, Stage
    <2>2. job' = [Idle EXCEPT !.at = "store", !.kind = "publish", !.day = today,
                              !.version = ledger[today]]
      BY DEF BeginPublish
    <2> QED
      BY <2>1, <2>2, JobFacts DEF JobType
  <1>2. /\ publishes' \in [Day -> 0..MaxPublishes]
        /\ publishes'[today] = publishes[today] + 1
        /\ \A d \in Day \ {today} : publishes'[d] = publishes[d]
    <2>1. /\ publishes \in [Day -> 0..MaxPublishes] /\ today \in Day
          /\ publishes[today] < MaxPublishes
          /\ publishes' = [publishes EXCEPT ![today] = @ + 1]
      BY DEF BeginPublish, TypeOK
    <2> QED
      BY <2>1, ProofConfig
  <1> QED
    BY <1>1, <1>2 DEF BeginPublish, TypeOK, Idle, JobType, pathVars

LEMMA StoreRowEffect ==
    ASSUME TypeOK, StoreRow
    PROVE  /\ TypeOK'
           /\ job.at = "store" /\ job'.at = "file" /\ SameRun
           /\ job'.commit = job.commit /\ job'.pushed = job.pushed
           /\ \/ job'.stored /\ row'[job.day].version = job.version /\ torn' = torn
              \/ job'.stored = job.stored /\ row' = row /\ Tear
           /\ row'[job.day].commit = row[job.day].commit
           /\ \A d \in Day \ {job.day} : row'[d] = row[d]
           /\ UNCHANGED <<today, ledger, work, head, remote, pathVars, publishes, reported>>
  <1> DEFINE entry == [row[job.day] EXCEPT !.version = job.version]
  <1>1. entry \in Row /\ entry.version = job.version /\ entry.commit = row[job.day].commit
    BY JobFacts DEF TypeOK, Row
  <1>2. \/ /\ row' = [row EXCEPT ![job.day] = entry]
           /\ job' = [job EXCEPT !.at = "file", !.stored = TRUE]
           /\ torn' = torn
        \/ /\ row' = row
           /\ job' = [job EXCEPT !.at = "file"]
           /\ Tear
    BY DEF StoreRow
  <1>3. /\ job.at = "store"
        /\ UNCHANGED <<today, ledger, work, head, remote, pathVars, publishes, crashes,
                       reported>>
    BY DEF StoreRow
  <1> HIDE DEF entry
  <1>4. /\ row' \in [Day -> Row] /\ row'[job.day].commit = row[job.day].commit
        /\ \A d \in Day \ {job.day} : row'[d] = row[d]
        /\ row' = row \/ row'[job.day].version = job.version
    BY <1>1, <1>2, JobFacts, RowFields DEF TypeOK
  <1>5. job' \in JobType(today') /\ torn' \subseteq 1..today'
    BY <1>2, <1>3, JobFacts DEF JobType, Stage, Tear, TypeOK
  <1>6. TypeOK'
    BY <1>3, <1>4, <1>5 DEF TypeOK, JobType, pathVars
  <1>7. job'.at = "file" /\ SameRun /\ job'.commit = job.commit /\ job'.pushed = job.pushed
    BY <1>2, JobFacts DEF JobType, SameRun
  <1>8. \/ job'.stored /\ row'[job.day].version = job.version /\ torn' = torn
        \/ job'.stored = job.stored /\ row' = row /\ Tear
    <2>1. CASE row' = [row EXCEPT ![job.day] = entry]
               /\ job' = [job EXCEPT !.at = "file", !.stored = TRUE]
               /\ torn' = torn
      BY <1>1, <2>1, JobFacts, RowFields DEF JobType
    <2>2. CASE row' = row /\ job' = [job EXCEPT !.at = "file"] /\ Tear
      BY <2>2, JobFacts DEF JobType
    <2> QED
      BY <1>2, <2>1, <2>2
  <1> QED
    BY <1>3, <1>4, <1>6, <1>7, <1>8

LEMMA WriteHashEffect ==
    ASSUME TypeOK, WriteHash
    PROVE  /\ TypeOK'
           /\ job.at = "file" /\ SameRun /\ job'.stored = job.stored
           /\ job'.commit = job.commit /\ job'.pushed = job.pushed
           /\ \/ job'.at = "stamp" /\ work'.hash[job.day] = job.version /\ torn' = torn
              \/ job'.at = "finish" /\ work' = work /\ Tear
           /\ \A d \in Day \ {job.day} : work'.hash[d] = work.hash[d]
           /\ work'.payload = work.payload
           /\ UNCHANGED <<today, ledger, row, head, remote, pathVars, publishes, reported>>
  <1> DEFINE hash == [work.hash EXCEPT ![job.day] = job.version]
  <1>1. /\ hash \in [Day -> Version] /\ hash[job.day] = job.version
        /\ \A d \in Day \ {job.day} : hash[d] = work.hash[d]
    BY JobFacts DEF TypeOK, Tree
  <1>2. \/ /\ work' = [work EXCEPT !.hash = hash]
           /\ job' = [job EXCEPT !.at = "stamp"]
           /\ torn' = torn
        \/ /\ work' = work
           /\ job' = [job EXCEPT !.at = "finish"]
           /\ Tear
    BY DEF WriteHash
  <1>3. /\ job.at = "file"
        /\ UNCHANGED <<today, ledger, row, head, remote, pathVars, publishes, crashes,
                       reported>>
    BY DEF WriteHash
  <1> HIDE DEF hash
  <1>4. /\ work' \in Tree /\ work'.payload = work.payload
        /\ \A d \in Day \ {job.day} : work'.hash[d] = work.hash[d]
    BY <1>1, <1>2 DEF TypeOK, Tree
  <1>5. job' \in JobType(today') /\ torn' \subseteq 1..today'
    BY <1>2, <1>3, JobFacts DEF JobType, Stage, Tear, TypeOK
  <1>6. TypeOK'
    BY <1>3, <1>4, <1>5 DEF TypeOK, JobType, pathVars
  <1>7. /\ SameRun /\ job'.stored = job.stored
        /\ job'.commit = job.commit /\ job'.pushed = job.pushed
    BY <1>2, JobFacts DEF JobType, SameRun
  <1>8. \/ job'.at = "stamp" /\ work'.hash[job.day] = job.version /\ torn' = torn
        \/ job'.at = "finish" /\ work' = work /\ Tear
    <2>1. CASE work' = [work EXCEPT !.hash = hash]
               /\ job' = [job EXCEPT !.at = "stamp"] /\ torn' = torn
      BY <1>1, <2>1, JobFacts DEF JobType, TypeOK, Tree
    <2>2. CASE work' = work /\ job' = [job EXCEPT !.at = "finish"] /\ Tear
      BY <2>2, JobFacts DEF JobType
    <2> QED
      BY <1>2, <2>1, <2>2
  <1> QED
    BY <1>3, <1>4, <1>6, <1>7, <1>8

LEMMA StampHashEffect ==
    ASSUME TypeOK, StampHash
    PROVE  /\ TypeOK'
           /\ job.at = "stamp" /\ job'.at = "commit" /\ SameRun /\ job'.stored = job.stored
           /\ job'.commit = job.commit /\ job'.pushed = job.pushed
           /\ work'.hash = work.hash /\ work'.payload = work.payload
           /\ UNCHANGED <<today, ledger, row, head, remote, pathVars, publishes,
                          reported, torn>>
  <1> DEFINE ots == [work.ots EXCEPT ![job.day] = IF @ = 0 THEN work.hash[job.day] ELSE @]
  <1>1. ots \in [Day -> Version]
    BY JobFacts DEF TypeOK, Tree
  <1>2. \/ /\ work' = [work EXCEPT !.ots = ots]
           /\ job' = [job EXCEPT !.at = "commit", !.stamped = TRUE]
        \/ /\ work' = work
           /\ job' = [job EXCEPT !.at = "commit"]
    BY DEF StampHash
  <1>3. /\ job.at = "stamp"
        /\ UNCHANGED <<today, ledger, row, head, remote, pathVars, publishes, crashes,
                       reported, torn>>
    BY DEF StampHash
  <1> HIDE DEF ots
  <1>4. work' \in Tree /\ work'.hash = work.hash /\ work'.payload = work.payload
    BY <1>1, <1>2 DEF TypeOK, Tree
  <1>5. job' \in JobType(today')
    BY <1>2, <1>3, JobFacts DEF JobType, Stage
  <1>6. TypeOK'
    BY <1>3, <1>4, <1>5 DEF TypeOK, JobType, pathVars
  <1>7. /\ job'.at = "commit" /\ SameRun /\ job'.stored = job.stored
        /\ job'.commit = job.commit /\ job'.pushed = job.pushed
    BY <1>2, JobFacts DEF JobType, SameRun
  <1> QED
    BY <1>3, <1>4, <1>6, <1>7

LEMMA FinishPublishEffect ==
    ASSUME TypeOK, FinishPublish
    PROVE  /\ TypeOK'
           /\ job.at = "finish" /\ job.kind = "publish" /\ job' = Idle
           /\ row'[job.day].version = row[job.day].version
           /\ \/ row'[job.day].commit = row[job.day].commit
              \/ job.stored /\ job.commit # NoSha /\ row'[job.day].commit = job.commit
           /\ \A d \in Day \ {job.day} : row'[d] = row[d]
           /\ \/ reported' = reported
              \/ /\ job.pushed /\ job.commit # NoSha
                 /\ reported' = reported \union {Proof}
           /\ UNCHANGED <<today, ledger, work, head, remote, pathVars, publishes, torn>>
  <1> DEFINE sha == IF job.commit # NoSha THEN job.commit ELSE row[job.day].commit
             entry == [row[job.day] EXCEPT !.commit = IF job.commit # NoSha THEN job.commit ELSE @,
                                           !.stamped = @ \/ job.stamped]
  <1>1. /\ entry \in Row /\ entry.version = row[job.day].version
        /\ entry.commit = IF job.commit # NoSha THEN job.commit ELSE row[job.day].commit
    <2>1. row[job.day] \in Row /\ job.version \in Version /\ job.stamped \in BOOLEAN
      BY JobFacts DEF TypeOK, JobType
    <2>2. sha \in Sha
      BY <2>1, JobFacts DEF Row
    <2>3. entry = [row[job.day] EXCEPT !.commit = sha, !.stamped = @ \/ job.stamped]
      BY <2>1 DEF Row
    <2> HIDE DEF sha, entry
    <2>4. entry \in Row /\ entry.version = row[job.day].version /\ entry.commit = sha
      BY <2>1, <2>2, <2>3 DEF Row
    <2> QED
      BY <2>4 DEF sha
  <1>2. \/ row' = row
        \/ job.stored /\ row' = [row EXCEPT ![job.day] = entry]
    BY DEF FinishPublish
  <1>3. /\ job.at = "finish" /\ job.kind = "publish" /\ job' = Idle
        /\ reported' = IF job.commit # NoSha /\ job.pushed THEN reported \union {Proof} ELSE reported
        /\ UNCHANGED <<today, ledger, work, head, remote, pathVars, publishes, crashes, torn>>
    BY DEF FinishPublish
  <1> HIDE DEF entry
  <1>4. /\ row' \in [Day -> Row]
        /\ \A d \in Day \ {job.day} : row'[d] = row[d]
        /\ row'[job.day].version = row[job.day].version
        /\ \/ row'[job.day].commit = row[job.day].commit
           \/ job.stored /\ job.commit # NoSha /\ row'[job.day].commit = job.commit
    BY <1>1, <1>2, JobFacts, RowFields DEF TypeOK
  <1>5. Proof \in [day: Day, version: Version, commit: Sha]
    BY JobFacts DEF Proof
  <1>6. TypeOK'
    <2> QED
      BY <1>3, <1>4, <1>5, JobFacts DEF TypeOK, JobType, pathVars
  <1> QED
    BY <1>3, <1>4, <1>6

LEMMA BeginRevealEffect ==
    ASSUME TypeOK, BeginReveal
    PROVE  /\ TypeOK'
           /\ job = Idle
           /\ job'.at = "payload" /\ job'.kind = "reveal" /\ job'.due # {} /\ ~job'.pushed
           /\ \A d \in job'.due : row[d].version # 0
           /\ UNCHANGED <<today, ledger, row, work, head, remote, pathVars, publishes,
                          reported, torn>>
  <1>1. DueRows \subseteq 1..(today - RevealAfter) /\ DueRows # {}
    BY ProofConfig DEF BeginReveal, DueRows, TypeOK, Day
  <1>2. /\ job = Idle
        /\ job' = [Idle EXCEPT !.at = "payload", !.kind = "reveal", !.due = DueRows]
        /\ UNCHANGED <<today, ledger, row, work, head, remote, pathVars, publishes, crashes,
                       reported, torn>>
    BY DEF BeginReveal
  <1>3. job' \in JobType(today')
    BY <1>1, <1>2, JobFacts DEF JobType, Stage
  <1>4. /\ job'.at = "payload" /\ job'.kind = "reveal" /\ job'.due # {} /\ ~job'.pushed
        /\ \A d \in job'.due : row[d].version # 0
    BY <1>1, <1>2, JobFacts DEF JobType, DueRows, Idle
  <1> QED
    BY <1>2, <1>3, <1>4 DEF TypeOK, JobType, pathVars

LEMMA WritePayloadEffect ==
    ASSUME TypeOK, JobSound, WritePayload
    PROVE  /\ TypeOK'
           /\ job.kind = "reveal" /\ ~job'.pushed
           /\ \/ job' = Idle /\ work' = work
              \/ /\ job'.kind = "reveal" /\ job'.at \in {"payload", "commit"}
                 /\ job'.at = "payload" => job'.due # {}
                 /\ work'.hash = work.hash
                 /\ \A e \in Day : \/ work'.payload[e] = work.payload[e]
                                  \/ /\ e <= today - RevealAfter
                                     /\ e \in job.due
                                     /\ work'.payload[e] = row[e].version
                 /\ job'.due \subseteq job.due
           /\ UNCHANGED <<today, ledger, row, head, remote, pathVars, publishes,
                          reported, torn>>
  <1> DEFINE d == CHOOSE x \in job.due : \A y \in job.due : x <= y
             payload == [work.payload EXCEPT ![d] = row[d].version]
             after == [job EXCEPT !.due = @ \ {d}, !.done = @ \union {d},
                                  !.at = IF job.due = {d} THEN "commit" ELSE "payload"]
  <1>1. job.kind = "reveal" /\ job.due # {} /\ ~job.pushed
    <2>1. job.at = "payload"
      BY DEF WritePayload
    <2> QED
      BY <2>1, JobFacts DEF JobSound, JobType
  <1>2. \/ work' = [work EXCEPT !.payload = payload] /\ job' = after
        \/ work' = work /\ job' = Idle
    BY DEF WritePayload
  <1>3. UNCHANGED <<today, ledger, row, head, remote, pathVars, publishes, crashes,
                    reported, torn>>
    BY DEF WritePayload
  <1>4. d \in job.due
    BY <1>1, NextDueIsDue
  <1> HIDE DEF d
  <1>5. d \in Day /\ d <= today - RevealAfter /\ d \in 1..(today - RevealAfter)
    BY <1>4, JobFacts, ProofConfig DEF TypeOK, Day
  <1>6. payload \in [Day -> Version]
    BY <1>5 DEF TypeOK, Tree, Row
  <1>7. /\ after \in JobType(today) /\ after.kind = job.kind /\ after.pushed = job.pushed
        /\ after.at \in {"payload", "commit"}
        /\ after.at = "payload" => after.due # {}
        /\ after.due \subseteq job.due
    <2> DEFINE at == IF job.due = {d} THEN "commit" ELSE "payload"
    <2>1. at \in Stage /\ at \in {"payload", "commit"} /\ (at = "payload" => job.due # {d})
      BY DEF Stage
    <2>2. /\ job.due \ {d} \in SUBSET (1..(today - RevealAfter))
          /\ job.done \union {d} \in SUBSET (1..(today - RevealAfter))
      BY <1>5, JobFacts DEF JobType
    <2>3. after = [job EXCEPT !.due = @ \ {d}, !.done = @ \union {d}, !.at = at]
      OBVIOUS
    <2> HIDE DEF at, after
    <2>4. /\ after \in JobType(today) /\ after.kind = job.kind /\ after.pushed = job.pushed
          /\ after.at = at /\ after.due = job.due \ {d}
      BY <2>1, <2>2, <2>3, JobFacts DEF JobType
    <2> QED
      BY <1>1, <1>4, <2>1, <2>4
  <1> HIDE DEF payload, after
  <1>8. TypeOK'
    <2>1. work' \in Tree
      BY <1>2, <1>6 DEF TypeOK, Tree
    <2>2. job' \in JobType(today)
      BY <1>2, <1>7, JobFacts
    <2> QED
      BY <1>3, <2>1, <2>2 DEF TypeOK, JobType, pathVars
  <1>9. CASE work' = [work EXCEPT !.payload = payload] /\ job' = after
    <2>1. work'.hash = work.hash /\ work'.payload = payload
      BY <1>9 DEF TypeOK, Tree
    <2>2. \A e \in Day : \/ work'.payload[e] = work.payload[e]
                         \/ /\ e <= today - RevealAfter /\ e \in job.due
                            /\ work'.payload[e] = row[e].version
      BY <1>4, <1>5, <2>1 DEF payload, TypeOK, Tree
    <2>3. /\ job'.kind = "reveal" /\ job'.at \in {"payload", "commit"} /\ ~job'.pushed
          /\ job'.at = "payload" => job'.due # {}
          /\ job'.due \subseteq job.due
      BY <1>1, <1>7, <1>9
    <2> QED
      BY <1>1, <1>3, <1>8, <2>1, <2>2, <2>3
  <1>10. CASE work' = work /\ job' = Idle
    BY <1>1, <1>3, <1>8, <1>10 DEF Idle
  <1> QED
    BY <1>2, <1>9, <1>10

LEMMA FinishRevealEffect ==
    ASSUME TypeOK, FinishReveal
    PROVE  /\ TypeOK'
           /\ job.at = "finish" /\ job' = Idle
           /\ \A d \in Day : row'[d].version = row[d].version /\ row'[d].commit = row[d].commit
           /\ UNCHANGED <<today, ledger, work, head, remote, pathVars, publishes,
                          reported, torn>>
  <1>1. \A d \in Day : /\ [row[d] EXCEPT !.revealed = TRUE] \in Row
                       /\ [row[d] EXCEPT !.revealed = TRUE].version = row[d].version
                       /\ [row[d] EXCEPT !.revealed = TRUE].commit = row[d].commit
    BY DEF TypeOK, Row
  <1>2. /\ job.at = "finish" /\ job' = Idle
        /\ \/ row' = [d \in Day |-> IF d \in job.done THEN [row[d] EXCEPT !.revealed = TRUE]
                                    ELSE row[d]]
           \/ row' = row
        /\ UNCHANGED <<today, ledger, work, head, remote, pathVars, publishes, crashes,
                       reported, torn>>
    BY DEF FinishReveal
  <1> DEFINE entry(d) == [row[d] EXCEPT !.revealed = TRUE]
  <1>3. \A d \in Day : row'[d] = entry(d) \/ row'[d] = row[d]
    BY <1>2
  <1>4. row' \in [Day -> Row]
    <2>1. CASE row' = row
      BY <2>1 DEF TypeOK
    <2>2. CASE row' = [d \in Day |-> IF d \in job.done THEN entry(d) ELSE row[d]]
      <3>1. \A d \in Day : entry(d) \in Row /\ row[d] \in Row
        BY <1>1 DEF TypeOK
      <3> HIDE DEF entry
      <3> QED
        BY <2>2, <3>1
    <2> QED
      BY <1>2, <2>1, <2>2
  <1>5. \A d \in Day : row'[d].version = row[d].version /\ row'[d].commit = row[d].commit
    <2>1. \A d \in Day : entry(d).version = row[d].version /\ entry(d).commit = row[d].commit
      BY <1>1
    <2> HIDE DEF entry
    <2> QED
      BY <1>3, <2>1
  <1>6. TypeOK'
    BY <1>2, <1>4, JobFacts DEF TypeOK, JobType, pathVars
  <1> QED
    BY <1>2, <1>5, <1>6

LEMMA MakeCommitEffect ==
    ASSUME TypeOK, MakeCommit
    PROVE  /\ head' = work /\ head' \in Tree /\ branch' \in History
           /\ trees' \in Seq([Day -> Version])
           /\ \/ UNCHANGED <<branch, trees>> /\ head = work
              \/ /\ branch'.tip = <<branch.tip[1] + 1, branch.tip[2]>>
                 /\ branch'.has = branch.has \union {branch'.tip}
                 /\ trees' = Append(trees, work.hash)
  <1> DEFINE new == <<branch.tip[1] + 1, branch.tip[2]>>
  <1>1. /\ branch \in History /\ trees \in Seq([Day -> Version]) /\ work \in Tree
        /\ work.hash \in [Day -> Version]
    BY DEF TypeOK, Tree
  <1>2. new \in Sha
    BY <1>1, ProofConfig DEF History, Sha
  <1>3. CASE work = head
    BY <1>1, <1>3 DEF MakeCommit
  <1>4. CASE work # head
    <2>1. /\ head' = work /\ trees' = Append(trees, work.hash)
          /\ branch' = [tip |-> new, has |-> branch.has \union {new}]
      BY <1>4 DEF MakeCommit
    <2> HIDE DEF new
    <2>2. branch' \in History /\ branch'.tip = new /\ branch'.has = branch.has \union {new}
      BY <1>1, <1>2, <2>1 DEF History
    <2>3. trees' \in Seq([Day -> Version])
      BY <1>1, <2>1
    <2> QED
      BY <1>1, <2>1, <2>2, <2>3 DEF new
  <1> QED
    BY <1>3, <1>4

LEMMA CommitEffect ==
    ASSUME TypeOK, Commit
    PROVE  /\ TypeOK'
           /\ job.at = "commit" /\ SameRun /\ job'.stored = job.stored
           /\ job'.pushed = job.pushed
           /\ \/ job'.at = "push" /\ job'.commit = branch'.tip /\ head' = work /\ MakeCommit
              \/ job'.at = "finish" /\ job'.commit = job.commit /\ head' \in {head, work}
           /\ MakeCommit \/ UNCHANGED <<head, branch, trees>>
           /\ UNCHANGED <<today, ledger, row, work, remote, origin, replaced, publishes,
                          reported,
                          torn>>
  <1>1. /\ job.at = "commit"
        /\ \/ job' = [job EXCEPT !.at = "push", !.commit = branch'.tip] /\ MakeCommit
           \/ /\ job' = [job EXCEPT !.at = "finish"]
              /\ MakeCommit \/ UNCHANGED <<head, branch, trees>>
        /\ UNCHANGED <<today, ledger, row, work, remote, origin, replaced, publishes, crashes,
                       reported, torn>>
    BY DEF Commit
  <1>2. /\ head' \in Tree /\ branch' \in History /\ trees' \in Seq([Day -> Version])
        /\ head' \in {head, work} /\ (MakeCommit => head' = work)
    BY <1>1, MakeCommitEffect DEF TypeOK
  <1>3. branch'.tip \in Sha
    BY <1>2 DEF History
  <1>4. job' \in JobType(today')
    BY <1>1, <1>3, JobFacts DEF JobType, Stage
  <1>5. TypeOK'
    BY <1>1, <1>2, <1>4 DEF TypeOK, JobType
  <1>6. /\ SameRun /\ job'.stored = job.stored /\ job'.pushed = job.pushed
        /\ \/ job'.at = "push" /\ job'.commit = branch'.tip /\ MakeCommit
           \/ job'.at = "finish" /\ job'.commit = job.commit
    BY <1>1, JobFacts DEF JobType, SameRun
  <1> QED
    BY <1>1, <1>2, <1>5, <1>6

LEMMA PushEffect ==
    ASSUME TypeOK, Push
    PROVE  /\ TypeOK'
           /\ job.at = "push" /\ SameRun /\ job'.stored = job.stored
           /\ job'.commit = job.commit
           /\ \/ job'.at = "finish" /\ job'.pushed /\ PushHead /\ remote' = head
              \/ job'.at = "rebase" /\ job'.pushed = job.pushed /\ UNCHANGED <<origin, remote>>
           /\ remote' \in {head, remote}
           /\ UNCHANGED <<today, ledger, row, work, head, branch, trees, replaced, publishes,
                          reported, torn>>
  <1>1. /\ job.at = "push"
        /\ \/ PushHead /\ job' = [job EXCEPT !.at = "finish", !.pushed = TRUE]
           \/ UNCHANGED <<origin, remote>> /\ job' = [job EXCEPT !.at = "rebase"]
        /\ UNCHANGED <<today, ledger, row, work, head, branch, trees, replaced, publishes, crashes,
                       reported, torn>>
    BY DEF Push, PushFails
  <1>2. /\ job' \in JobType(today') /\ remote' \in Tree /\ origin' \in History
        /\ remote' \in {head, remote}
    BY <1>1, JobFacts DEF JobType, Stage, TypeOK, PushHead
  <1>3. TypeOK'
    BY <1>1, <1>2 DEF TypeOK, JobType
  <1>4. /\ SameRun /\ job'.stored = job.stored /\ job'.commit = job.commit
        /\ \/ job'.at = "finish" /\ job'.pushed /\ PushHead
           \/ job'.at = "rebase" /\ job'.pushed = job.pushed /\ UNCHANGED <<origin, remote>>
    BY <1>1, JobFacts DEF JobType, SameRun
  <1> QED
    BY <1>1, <1>2, <1>3, <1>4 DEF PushHead

LEMMA RebaseEffect ==
    ASSUME TypeOK, Rebase
    PROVE  /\ TypeOK'
           /\ job.at = "rebase" /\ SameRun /\ job'.stored = job.stored
           /\ job'.commit = job.commit /\ job'.pushed = job.pushed
           /\ \/ /\ job'.at = "repush"
                 /\ branch'.tip = <<branch.tip[1], origin.tip[2]>>
                 /\ branch'.has = origin.has
                        \union (((origin.tip[1] + 1)..branch.tip[1]) \X {origin.tip[2]})
                 /\ replaced' = replaced \union (branch.has \ branch'.has)
              \/ job'.at = "finish" /\ UNCHANGED <<branch, replaced>>
           /\ UNCHANGED <<today, ledger, row, work, head, remote, origin, trees, publishes,
                          reported, torn>>
  <1> DEFINE own == (origin.tip[1] + 1)..branch.tip[1]
             tip == <<branch.tip[1], origin.tip[2]>>
             has == origin.has \union (own \X {origin.tip[2]})
  <1>1. /\ job.at = "rebase"
        /\ \/ /\ branch' = [tip |-> tip, has |-> has]
              /\ replaced' = replaced \union (branch.has \ branch'.has)
              /\ job' = [job EXCEPT !.at = "repush"]
           \/ job' = [job EXCEPT !.at = "finish"] /\ UNCHANGED <<branch, replaced>>
        /\ UNCHANGED <<today, ledger, row, work, head, remote, origin, trees, publishes, crashes,
                       reported, torn>>
    BY DEF Rebase
  <1>2. /\ branch \in History /\ origin \in History /\ replaced \subseteq Sha
        /\ branch.tip \in Sha /\ origin.tip \in Sha /\ branch.has \subseteq Sha
        /\ origin.has \subseteq Sha
    BY DEF TypeOK, History
  <1>3. tip \in Sha /\ has \subseteq Sha
    BY <1>2 DEF Sha
  <1> HIDE DEF tip, has
  <1>4. job' \in JobType(today') /\ branch' \in History /\ replaced' \subseteq Sha
    BY <1>1, <1>2, <1>3, JobFacts DEF JobType, Stage, History
  <1>5. TypeOK'
    BY <1>1, <1>4 DEF TypeOK, JobType
  <1>6. /\ SameRun /\ job'.stored = job.stored /\ job'.commit = job.commit
        /\ job'.pushed = job.pushed
        /\ \/ /\ job'.at = "repush" /\ branch'.tip = tip /\ branch'.has = has
              /\ replaced' = replaced \union (branch.has \ branch'.has)
           \/ job'.at = "finish" /\ UNCHANGED <<branch, replaced>>
    BY <1>1, JobFacts DEF JobType, SameRun
  <1> QED
    BY <1>1, <1>5, <1>6 DEF tip, has

LEMMA RepushEffect ==
    ASSUME TypeOK, Repush
    PROVE  /\ TypeOK'
           /\ job.at = "repush" /\ job'.at = "finish" /\ SameRun /\ job'.stored = job.stored
           /\ job'.commit = branch.tip \/ ("reread" \in Faults /\ job'.commit = job.commit)
           /\ \/ job'.pushed /\ PushHead /\ remote' = head
              \/ job'.pushed = job.pushed /\ UNCHANGED <<origin, remote>>
           /\ remote' \in {head, remote}
           /\ UNCHANGED <<today, ledger, row, work, head, branch, trees, replaced, publishes,
                          reported, torn>>
  <1>1. PICK sha \in {branch.tip} \union (IF "reread" \in Faults THEN {job.commit} ELSE {}) :
           \/ PushHead /\ job' = [job EXCEPT !.at = "finish", !.commit = sha, !.pushed = TRUE]
           \/ /\ UNCHANGED <<origin, remote>>
              /\ job' = [job EXCEPT !.at = "finish", !.commit = sha]
    BY DEF Repush, PushFails
  <1>2. /\ job.at = "repush"
        /\ UNCHANGED <<today, ledger, row, work, head, branch, trees, replaced, publishes, crashes,
                       reported, torn>>
    BY DEF Repush
  <1>3. /\ sha \in Sha
        /\ sha = branch.tip \/ ("reread" \in Faults /\ sha = job.commit)
    BY <1>1, JobFacts DEF TypeOK, History
  <1>4. /\ job' \in JobType(today') /\ remote' \in Tree /\ origin' \in History
        /\ remote' \in {head, remote}
    BY <1>1, <1>2, <1>3, JobFacts DEF JobType, Stage, TypeOK, PushHead
  <1>5. TypeOK'
    BY <1>2, <1>4 DEF TypeOK, JobType
  <1>6. /\ job'.at = "finish" /\ SameRun /\ job'.stored = job.stored /\ job'.commit = sha
        /\ \/ job'.pushed /\ PushHead
           \/ job'.pushed = job.pushed /\ UNCHANGED <<origin, remote>>
    BY <1>1, JobFacts DEF JobType, SameRun
  <1> QED
    BY <1>2, <1>3, <1>4, <1>5, <1>6 DEF PushHead

\* The world's steps leave the files and the rows alone.
OthersCame ==
    /\ origin'.tip = <<origin.tip[1], origin.tip[2] + 1>>
    /\ origin'.has = origin.has \union {origin'.tip}

LEMMA WorldEffect ==
    ASSUME TypeOK, WorldStep
    PROVE  /\ TypeOK'
           /\ origin' = origin \/ OthersCame
           /\ \A d \in Day : ledger'[d] \in Nat /\ ledger'[d] >= ledger[d]
           /\ today' \in Nat /\ today' >= today
           /\ \/ job' = job /\ torn' = torn /\ (today' = today \/ job = Idle)
              \/ /\ job' = Idle /\ today' = today
                 /\ torn' = torn \/ Tear
                 /\ job.at \in {"store", "file"} => Tear
           /\ UNCHANGED <<row, work, head, remote, branch, trees, replaced, publishes,
                          reported>>
  <1>0. today \in Nat /\ \A d \in Day : ledger[d] \in Nat
    BY Ranges
  <1>reflexive. today >= today /\ \A d \in Day : ledger[d] >= ledger[d]
    BY <1>0
  <1>1. CASE TradesChange
    <2>1. ledger' \in [Day -> Version] /\ \A d \in Day : ledger'[d] >= ledger[d]
      <3>1. ledger \in [Day -> Version] /\ today \in Day
        BY DEF TypeOK
      <3>2. ledger' = [ledger EXCEPT ![today] = @ + 1] /\ ledger[today] < MaxVersion
        BY <1>1 DEF TradesChange
      <3> QED
        BY <3>1, <3>2, ProofConfig DEF Version
    <2>2. UNCHANGED <<today, row, work, head, remote, pathVars, job, publishes, crashes,
                      reported, torn>>
      BY <1>1 DEF TradesChange
    <2>3. TypeOK'
      BY <2>1, <2>2 DEF TypeOK, Day, pathVars
    <2>4. /\ \A d \in Day : ledger'[d] \in Nat /\ ledger'[d] >= ledger[d]
          /\ today' \in Nat /\ today' >= today
      <3>1. Version \subseteq Nat
        BY ProofConfig DEF Version
      <3> QED
        BY <1>0, <1>reflexive, <2>1, <2>2, <3>1
    <2> QED
      BY <2>2, <2>3, <2>4 DEF pathVars
  <1>2. CASE MidnightPasses
    <2>1. /\ job = Idle /\ today' \in Day /\ today' >= today
          /\ UNCHANGED <<ledger, row, work, head, remote, pathVars, job, publishes, crashes,
                         reported, torn>>
      BY <1>2, ProofConfig DEF MidnightPasses, TypeOK, Day
    <2>2. job' \in JobType(today') /\ torn' \subseteq 1..today'
      BY <2>1, ProofConfig DEF TypeOK, JobType, Day, Idle, Stage, Version
    <2>3. TypeOK'
      BY <2>1, <2>2 DEF TypeOK, JobType, pathVars
    <2>4. /\ \A d \in Day : ledger'[d] \in Nat /\ ledger'[d] >= ledger[d]
          /\ today' \in Nat /\ today' >= today
      BY <1>0, <1>reflexive, <2>1, Ranges
    <2> QED
      BY <2>1, <2>3, <2>4 DEF pathVars
  <1>3. CASE Crash
    <2>1. /\ job' = Idle /\ crashes' \in 0..MaxCrashes
          /\ job.at \in {"store", "file"} => Tear
          /\ torn' = torn \/ Tear
          /\ UNCHANGED <<today, ledger, row, work, head, remote, pathVars, publishes, reported>>
      BY <1>3, ProofConfig DEF Crash, TypeOK
    <2>2. torn' \subseteq 1..today
      BY <2>1 DEF Tear, TypeOK
    <2>3. TypeOK'
      BY <2>1, <2>2, JobFacts DEF TypeOK, JobType, pathVars
    <2>4. /\ \A d \in Day : ledger'[d] \in Nat /\ ledger'[d] >= ledger[d]
          /\ today' \in Nat /\ today' >= today
      BY <1>0, <1>reflexive, <2>1
    <2> QED
      BY <2>1, <2>3, <2>4 DEF pathVars
  <1>4. CASE OthersPush
    <2> DEFINE new == <<origin.tip[1], origin.tip[2] + 1>>
    <2>1. /\ origin' = [tip |-> new, has |-> origin.has \union {new}]
          /\ UNCHANGED <<today, ledger, row, work, head, remote, branch, trees, replaced, job,
                         publishes, crashes, reported, torn>>
      BY <1>4 DEF OthersPush
    <2>2. new \in Sha
      BY <1>4, ProofConfig DEF OthersPush, TypeOK, History, Sha
    <2> HIDE DEF new
    <2>3. origin' \in History
      BY <2>1, <2>2 DEF TypeOK, History
    <2>4. TypeOK'
      BY <2>1, <2>3 DEF TypeOK
    <2>5. OthersCame
      BY <2>1 DEF OthersCame, new
    <2> QED
      BY <1>0, <1>reflexive, <2>1, <2>4, <2>5
  <1> QED
    BY <1>1, <1>2, <1>3, <1>4 DEF WorldStep

-----------------------------------------------------------------------------
(* Types and control *)

LEMMA InitControl == ASSUME Init PROVE TypeOK /\ JobSound
  <1>1. /\ 1 \in Day /\ 0 \in Version /\ 0 \in 0..MaxPublishes /\ 0 \in 0..MaxCrashes
    BY ProofConfig DEF Day, Version
  <1>6. NoSha \in Sha
    BY ProofConfig DEF NoSha, Sha
  <1>2. [d \in Day |-> 0] \in [Day -> Version] /\ [d \in Day |-> NoRow] \in [Day -> Row]
    BY <1>1, <1>6 DEF Row, NoRow
  <1>3. job \in JobType(today)
    BY <1>1, <1>6, ProofConfig DEF Init, JobType, Idle, Stage
  <1>7. branch \in History /\ origin \in History /\ replaced \subseteq Sha
    BY <1>6 DEF Init, History
  <1>8. trees \in Seq([Day -> Version])
    BY DEF Init
  <1>4. TypeOK
    BY <1>1, <1>2, <1>3, <1>7, <1>8 DEF Init, TypeOK, Tree, JobType
  <1>5. JobSound
    BY DEF Init, JobSound, Idle
  <1> QED
    BY <1>4, <1>5

LEMMA NextControl ==
    ASSUME TypeOK, JobSound, [Next]_vars
    PROVE  TypeOK' /\ JobSound'
  <1> USE DEF JobSound
  <1>0. /\ ledger \in [Day -> Version] /\ publishes \in [Day -> 0..MaxPublishes]
        /\ today \in Day /\ job.version \in Version /\ Idle.kind = "none" /\ Idle.at = "idle"
        /\ Version \subseteq Nat /\ Idle.pushed = FALSE
    BY JobFacts DEF TypeOK, Idle, Version
  <1>1. CASE BeginPublish
    BY <1>0, <1>1, BeginPublishEffect, ProofConfig DEF Version
  <1>2. CASE StoreRow
    BY <1>2, StoreRowEffect DEF SameRun
  <1>3. CASE WriteHash
    BY <1>3, WriteHashEffect DEF SameRun
  <1>4. CASE StampHash
    BY <1>4, StampHashEffect DEF SameRun
  <1>5. CASE FinishPublish
    BY <1>0, <1>5, FinishPublishEffect
  <1>6. CASE BeginReveal
    BY <1>6, BeginRevealEffect
  <1>7. CASE WritePayload
    BY <1>0, <1>7, WritePayloadEffect
  <1>8. CASE FinishReveal
    BY <1>0, <1>8, FinishRevealEffect
  <1>9. CASE Commit
    BY <1>9, CommitEffect DEF SameRun
  <1>10. CASE Push
    BY <1>10, PushEffect DEF SameRun
  <1>11. CASE Rebase
    BY <1>11, RebaseEffect DEF SameRun
  <1>12. CASE Repush
    BY <1>12, RepushEffect DEF SameRun
  <1>13. CASE WorldStep
    <2>1. /\ TypeOK' /\ ledger'[today] >= ledger[today] /\ publishes' = publishes
          /\ (job' = job /\ (today' = today \/ job = Idle)) \/ job' = Idle
      BY <1>0, <1>13, WorldEffect
    <2>2. ledger'[today] \in Nat /\ ledger[today] \in Nat
      <3>1. ledger' \in [Day -> Version]
        BY <2>1 DEF TypeOK
      <3> QED
        BY <1>0, <3>1
    <2>3. CASE job' = job /\ today' = today
      <3>1. ASSUME job.kind = "publish" PROVE job.version <= ledger'[today']
        <4>1. job.version <= ledger[today] /\ job.version \in Nat
          BY <1>0, <3>1
        <4> QED
          BY <2>1, <2>2, <2>3, <4>1
      <3> QED
        BY <2>1, <2>3, <3>1
    <2>4. CASE job' = Idle
      BY <1>0, <2>1, <2>4
    <2> QED
      BY <1>0, <2>1, <2>3, <2>4
  <1>14. CASE UNCHANGED vars
    BY <1>14 DEF vars, pathVars, TypeOK
  <1> QED
    BY <1>1, <1>2, <1>3, <1>4, <1>5, <1>6, <1>7, <1>8, <1>9, <1>10, <1>11, <1>12,
       <1>13, <1>14
    DEF Next, PublishStep, RevealStep, GitStep

\* Every reachable state of the publisher is well typed: in particular a job
\* works on a day that has come, and the reveal job takes only proofs that are
\* REVEAL_AFTER_DAYS old.
THEOREM TypeCorrect == Spec => []TypeOK
  <1>1. Spec => [](TypeOK /\ JobSound)
    BY InitControl, NextControl, PTL DEF Spec
  <1> QED
    BY <1>1, PTL

-----------------------------------------------------------------------------
(* The invariant, part by part *)

LEMMA Control == Spec => [](TypeOK /\ JobSound)
  BY InitControl, NextControl, PTL DEF Spec

\* Only the publish job stores rows and writes hash files, and only of today.
LEMMA WriterPublishes ==
    ASSUME TypeOK, JobSound, job.at \in {"store", "file", "stamp"}
    PROVE  job.kind = "publish" /\ job.day = today /\ publishes[today] # 0 /\ job.version # 0
  <1>1. job.kind \in {"none", "publish", "reveal"}
    BY JobFacts DEF JobType
  <1> QED
    BY <1>1 DEF JobSound

LEMMA HashFollowsJobKept ==
    ASSUME TypeOK, JobSound, HashFollowsJob, [Next]_vars
    PROVE  HashFollowsJob'
  <1> USE DEF HashFollowsJob, JobSound, HasCommitted
  <1>1. CASE BeginPublish
    BY <1>1, BeginPublishEffect
  <1>2. CASE StoreRow
    BY <1>2, StoreRowEffect DEF SameRun
  <1>3. CASE WriteHash
    BY <1>3, WriteHashEffect DEF SameRun
  <1>4. CASE StampHash
    BY <1>4, StampHashEffect DEF SameRun
  <1>5. CASE FinishPublish
    BY <1>5, FinishPublishEffect, Ranges
  <1>6. CASE BeginReveal
    BY <1>6, BeginRevealEffect, Ranges
  <1>7. CASE WritePayload
    BY <1>7, WritePayloadEffect, Ranges
  <1>8. CASE FinishReveal
    BY <1>8, FinishRevealEffect, Ranges
  <1>9. CASE Commit
    BY <1>9, CommitEffect DEF SameRun
  <1>10. CASE Push
    BY <1>10, PushEffect DEF SameRun
  <1>11. CASE Rebase
    BY <1>11, RebaseEffect DEF SameRun
  <1>12. CASE Repush
    BY <1>12, RepushEffect DEF SameRun
  <1>13. CASE WorldStep
    BY <1>13, WorldEffect, Ranges
  <1>14. CASE UNCHANGED vars
    BY <1>14 DEF vars
  <1> QED
    BY <1>1, <1>2, <1>3, <1>4, <1>5, <1>6, <1>7, <1>8, <1>9, <1>10, <1>11, <1>12,
       <1>13, <1>14
    DEF Next, PublishStep, RevealStep, GitStep

\* The histories are typed, and those of a rebase's pieces.
LEMMA PathRanges ==
    ASSUME TypeOK
    PROVE  /\ branch.tip \in Sha /\ origin.tip \in Sha
           /\ branch.has \subseteq Sha /\ origin.has \subseteq Sha /\ replaced \subseteq Sha
           /\ branch.tip[1] \in Nat /\ branch.tip[2] \in Nat
           /\ origin.tip[1] \in Nat /\ origin.tip[2] \in Nat
           /\ trees \in Seq([Day -> Version]) /\ Len(trees) \in Nat
           /\ \A c \in Sha : c[1] \in Nat /\ c[2] \in Nat /\ c = <<c[1], c[2]>>
  <1>1. branch \in History /\ origin \in History /\ replaced \subseteq Sha
    BY DEF TypeOK
  <1>2. \A c \in Sha : c[1] \in Nat /\ c[2] \in Nat /\ c = <<c[1], c[2]>>
    BY ProofConfig DEF Sha
  <1>3. trees \in Seq([Day -> Version]) /\ Len(trees) \in Nat
    BY DEF TypeOK
  <1> QED
    BY <1>1, <1>2, <1>3 DEF History

\* The publish and the reveal job leave the histories alone outside their git
\* steps.
LEMMA PathsRest ==
    ASSUME TypeOK, PublishStep \/ RevealStep \/ UNCHANGED vars
    PROVE  UNCHANGED <<branch, origin, trees, replaced, head>>
  BY DEF PublishStep, RevealStep, BeginPublish, StoreRow, WriteHash, StampHash, FinishPublish,
         BeginReveal, WritePayload, FinishReveal, pathVars, vars

LEMMA PathsFitKept ==
    ASSUME TypeOK, PathsFit, [Next]_vars
    PROVE  PathsFit'
  <1> USE PathRanges
  <1>1. CASE PublishStep \/ RevealStep \/ UNCHANGED vars
    BY <1>1, PathsRest DEF PathsFit
  <1>2. CASE Commit
    <2>1. /\ UNCHANGED <<origin, replaced>>
          /\ \/ UNCHANGED <<branch, trees>>
             \/ /\ branch'.tip = <<branch.tip[1] + 1, branch.tip[2]>>
                /\ branch'.has = branch.has \union {branch'.tip}
                /\ trees' = Append(trees, work.hash)
      BY <1>2, CommitEffect, MakeCommitEffect
    <2>2. CASE UNCHANGED <<branch, trees>>
      BY <2>1, <2>2 DEF PathsFit
    <2>3. CASE /\ branch'.tip = <<branch.tip[1] + 1, branch.tip[2]>>
               /\ branch'.has = branch.has \union {branch'.tip}
               /\ trees' = Append(trees, work.hash)
      <3>1. /\ branch'.tip[1] = branch.tip[1] + 1 /\ branch'.tip[2] = branch.tip[2]
            /\ Len(trees') = Len(trees) + 1
        BY <2>3
      <3>2. \A c \in branch'.has : c \in branch.has \/ c = branch'.tip
        BY <2>3
      <3>3. branch'.tip \notin replaced /\ branch'.tip \notin origin.has
        BY <3>1 DEF PathsFit
      <3> QED
        BY <2>1, <2>3, <3>1, <3>2, <3>3 DEF PathsFit
    <2> QED
      BY <2>1, <2>2, <2>3
  <1>3. CASE Push \/ Repush
    <2>1. /\ UNCHANGED <<branch, trees, replaced>>
          /\ origin' = origin \/ (origin' = branch /\ origin.has \subseteq branch.has)
      BY <1>3, PushEffect, RepushEffect DEF PushHead
    <2> QED
      BY <2>1 DEF PathsFit
  <1>4. CASE Rebase
    <2>1. UNCHANGED <<origin, trees>>
      BY <1>4, RebaseEffect
    <2>2. CASE UNCHANGED <<branch, replaced>>
      BY <2>1, <2>2 DEF PathsFit
    <2>3. CASE /\ branch'.tip = <<branch.tip[1], origin.tip[2]>>
               /\ branch'.has = origin.has
                      \union (((origin.tip[1] + 1)..branch.tip[1]) \X {origin.tip[2]})
               /\ replaced' = replaced \union (branch.has \ branch'.has)
      <3>1. branch'.tip[1] = branch.tip[1] /\ branch'.tip[2] = origin.tip[2]
        BY <2>3
      <3>2. ASSUME NEW c \in branch'.has, c \notin origin.has
            PROVE  c[1] > origin.tip[1] /\ c[1] <= branch.tip[1] /\ c[2] = origin.tip[2]
        BY <2>3, <3>2
      <3>3. ASSUME NEW c \in branch.has \ branch'.has
            PROVE  c[2] < origin.tip[2]
        <4>1. /\ c \in Sha /\ c \notin origin.has
              /\ c \notin ((origin.tip[1] + 1)..branch.tip[1]) \X {origin.tip[2]}
          BY <2>3, <3>3
        <4>2. /\ c[1] > origin.tip[1] /\ c[1] <= branch.tip[1]
              /\ c[2] <= branch.tip[2] /\ branch.tip[2] <= origin.tip[2]
          BY <3>3, <4>1 DEF PathsFit
        <4>3. c[1] \in (origin.tip[1] + 1)..branch.tip[1] /\ c = <<c[1], c[2]>>
          BY <4>1, <4>2
        <4>4. c[2] # origin.tip[2]
          BY <4>1, <4>3
        <4> QED
          BY <4>1, <4>2, <4>4
      <3>4. branch'.tip = NoSha \/ branch'.tip \in branch'.has
        <4>1. CASE origin.tip[1] = branch.tip[1]
          <5>1. branch'.tip = origin.tip
            BY <2>3, <4>1
          <5> QED
            BY <2>3, <5>1 DEF PathsFit
        <4>2. CASE origin.tip[1] # branch.tip[1]
          <5>1. branch.tip[1] \in (origin.tip[1] + 1)..branch.tip[1]
            BY <4>2 DEF PathsFit
          <5> QED
            BY <2>3, <5>1
        <4> QED
          BY <4>1, <4>2
      <3>5. \A c \in branch'.has : c[1] <= branch'.tip[1] /\ c[2] <= branch'.tip[2]
        <4>1. \A c \in origin.has : c[1] <= branch'.tip[1] /\ c[2] <= branch'.tip[2]
          BY <3>1 DEF PathsFit
        <4> QED
          BY <3>1, <3>2, <4>1
      <3>6. \A c \in replaced' : c[2] < branch'.tip[2] /\ c \notin branch'.has /\ c \notin origin.has
        <4>1. \A c \in replaced : c[2] < branch'.tip[2] /\ c \notin origin.has
          BY <3>1 DEF PathsFit
        <4>2. \A c \in replaced : c \notin branch'.has
          BY <3>1, <3>2, <4>1
        <4>3. \A c \in branch.has \ branch'.has :
                  c[2] < branch'.tip[2] /\ c \notin branch'.has /\ c \notin origin.has
          BY <2>3, <3>1, <3>3
        <4> QED
          BY <2>3, <4>1, <4>2, <4>3
      <3>7. /\ branch'.tip[1] = Len(trees) /\ origin.tip[1] <= branch'.tip[1]
            /\ branch'.tip[2] <= origin.tip[2]
            /\ origin.tip = NoSha \/ origin.tip \in origin.has
            /\ \A c \in origin.has : c[1] <= origin.tip[1] /\ c[2] <= origin.tip[2]
        BY <3>1 DEF PathsFit
      <3> QED
        BY <2>1, <3>2, <3>4, <3>5, <3>6, <3>7 DEF PathsFit
    <2> QED
      BY <1>4, <2>2, <2>3, RebaseEffect
  <1>5. CASE WorldStep
    <2>1. UNCHANGED <<branch, trees, replaced>> /\ (origin' = origin \/ OthersCame)
      BY <1>5, WorldEffect
    <2>2. CASE OthersCame
      <3>1. /\ origin'.tip[1] = origin.tip[1] /\ origin'.tip[2] = origin.tip[2] + 1
            /\ origin'.has = origin.has \union {origin'.tip}
        BY <2>2 DEF OthersCame
      <3>2. origin'.tip \notin replaced
        BY <3>1 DEF PathsFit
      <3> QED
        BY <2>1, <3>1, <3>2 DEF PathsFit
    <2> QED
      BY <2>1, <2>2 DEF PathsFit
  <1> QED
    BY <1>1, <1>2, <1>3, <1>4, <1>5 DEF Next, GitStep

\* No commit is lost: it stays in the branch or is noted as replaced, stays at
\* origin, and keeps its files.
LEMMA PathsGrow ==
    ASSUME TypeOK, [Next]_vars
    PROVE  /\ branch.has \union replaced \subseteq branch'.has \union replaced'
           /\ origin.has \subseteq origin'.has
           /\ Len(trees) <= Len(trees')
           /\ \A k \in 1..Len(trees) : trees'[k] = trees[k]
  <1> USE PathRanges
  <1>1. CASE PublishStep \/ RevealStep \/ UNCHANGED vars
    BY <1>1, PathsRest
  <1>2. CASE Commit
    <2>1. /\ UNCHANGED <<origin, replaced>>
          /\ \/ UNCHANGED <<branch, trees>>
             \/ /\ branch'.has = branch.has \union {branch'.tip}
                /\ trees' = Append(trees, work.hash)
      BY <1>2, CommitEffect, MakeCommitEffect
    <2>2. work.hash \in [Day -> Version]
      BY DEF TypeOK, Tree
    <2> QED
      BY <2>1, <2>2
  <1>3. CASE Push \/ Repush
    BY <1>3, PushEffect, RepushEffect DEF PushHead
  <1>4. CASE Rebase
    BY <1>4, RebaseEffect
  <1>5. CASE WorldStep
    BY <1>5, WorldEffect DEF OthersCame
  <1> QED
    BY <1>1, <1>2, <1>3, <1>4, <1>5 DEF Next, GitStep

LEMMA TreesFitKept ==
    ASSUME TypeOK, TreesFit, [Next]_vars
    PROVE  TreesFit'
  <1> USE PathRanges
  <1>1. CASE PublishStep \/ RevealStep \/ UNCHANGED vars
    BY <1>1, PathsRest DEF TreesFit
  <1>2. CASE Commit
    <2>1. \/ UNCHANGED <<head, trees>>
          \/ head' = work /\ trees' = Append(trees, work.hash)
      BY <1>2, CommitEffect, MakeCommitEffect
    <2>2. CASE head' = work /\ trees' = Append(trees, work.hash)
      <3>1. work.hash \in [Day -> Version]
        BY DEF TypeOK, Tree
      <3>2. trees' # <<>> /\ trees'[Len(trees')] = work.hash
        BY <2>2, <3>1
      <3> QED
        BY <2>2, <3>2 DEF TreesFit
    <2> QED
      BY <2>1, <2>2 DEF TreesFit
  <1>3. CASE Push \/ Repush \/ Rebase \/ WorldStep
    BY <1>3, PushEffect, RepushEffect, RebaseEffect, WorldEffect DEF TreesFit
  <1> QED
    BY <1>1, <1>2, <1>3 DEF Next, GitStep

\* A commit that is named stays so.
LEMMA NamesKept ==
    ASSUME TypeOK, [Next]_vars, NEW sha, NEW d, NEW version, Names(sha, d, version)
    PROVE  Names(sha, d, version)'
  BY PathsGrow, PathRanges, NextControl DEF Names

\* The last commit of a job that has committed is named.
LEMMA TipNamed ==
    ASSUME TypeOK, PathsFit, TreesFit, NEW d \in Day, branch.tip # NoSha, head.hash[d] # 0
    PROVE  Names(branch.tip, d, head.hash[d])
  <1>1. trees # <<>> /\ trees[Len(trees)][d] = head.hash[d]
    BY DEF TreesFit
  <1>2. branch.tip \in branch.has /\ branch.tip[1] = Len(trees)
    BY DEF PathsFit
  <1>3. Len(trees) \in 1..Len(trees)
    BY <1>1, PathRanges
  <1> QED
    BY <1>1, <1>2, <1>3 DEF Names

LEMMA JobNamesKept ==
    ASSUME TypeOK, JobSound, HashFollowsJob, PathsFit, TreesFit, JobNames, [Next]_vars
    PROVE  JobNames'
  <1>0. TypeOK' /\ JobSound' /\ HashFollowsJob' /\ PathsFit' /\ TreesFit'
    BY NextControl, HashFollowsJobKept, PathsFitKept, TreesFitKept
  <1>1. /\ origin.has \subseteq origin'.has
        /\ \A sha, d, version : Names(sha, d, version) => Names(sha, d, version)'
    BY PathsGrow, NamesKept
  <1>2. CASE BeginPublish
    <2>1. job'.at = "store" /\ job'.commit = NoSha /\ UNCHANGED <<reported, branch>>
      BY <1>2, BeginPublishEffect DEF pathVars
    <2> QED
      BY <1>1, <2>1 DEF JobNames
  <1>3. CASE StoreRow \/ WriteHash \/ StampHash
    <2>1. /\ job'.at \in {"file", "stamp", "commit", "finish"} /\ SameRun
          /\ job'.commit = job.commit /\ job'.pushed = job.pushed
          /\ today' = today /\ reported' = reported
      BY <1>3, StoreRowEffect, WriteHashEffect, StampHashEffect
    <2> QED
      BY <1>1, <2>1 DEF JobNames, SameRun
  <1>4. CASE FinishPublish
    <2>1. /\ job' = Idle /\ Idle.kind = "none" /\ Idle.at = "idle" /\ Idle.commit = NoSha
          /\ \/ reported' = reported
             \/ /\ job.pushed /\ job.commit # NoSha
                /\ reported' = reported \union {Proof}
      BY <1>4, FinishPublishEffect DEF Idle
    <2>2. Proof.commit = job.commit
      BY DEF Proof
    <2> QED
      BY <1>1, <2>1, <2>2 DEF JobNames
  <1>5. CASE RevealStep
    <2>1. /\ job'.kind \in {"none", "reveal"} /\ job'.at \in {"idle", "payload", "commit"}
          /\ job'.commit # NoSha /\ job'.pushed => job'.commit = job.commit /\ job.pushed
          /\ reported' = reported
      <3>1. CASE BeginReveal
        <4>1. job' = [Idle EXCEPT !.at = "payload", !.kind = "reveal", !.due = DueRows]
          BY <3>1 DEF BeginReveal
        <4> QED
          BY <3>1, <4>1, BeginRevealEffect DEF Idle
      <3>2. CASE WritePayload
        <4>1. \/ job' = Idle
              \/ job'.commit = job.commit /\ job'.pushed = job.pushed
          BY <3>2, JobFacts DEF WritePayload, JobType
        <4> QED
          BY <3>2, <4>1, WritePayloadEffect DEF Idle
      <3>3. CASE FinishReveal
        BY <3>3, FinishRevealEffect DEF Idle
      <3> QED
        BY <1>5, <3>1, <3>2, <3>3 DEF RevealStep
    <2> QED
      BY <1>1, <2>1 DEF JobNames
  <1>6. CASE Commit
    <2>1. /\ SameRun /\ job'.pushed = job.pushed /\ today' = today /\ reported' = reported
          /\ \/ job'.at = "push" /\ job'.commit = branch'.tip
             \/ job'.at = "finish" /\ job'.commit = job.commit
          /\ job.at = "commit"
      BY <1>6, CommitEffect
    <2>2. ASSUME job'.at = "push", job.kind = "publish", job'.commit # NoSha
          PROVE  Names(job.commit, today, job.version)'
      <3>1. /\ job'.kind = "publish" /\ job'.version = job.version /\ job.version # 0
            /\ head'.hash[today] = job.version /\ today \in Day /\ branch'.tip # NoSha
            /\ job'.commit = branch'.tip
        BY <1>0, <2>1, <2>2, JobFacts DEF SameRun, JobSound, HashFollowsJob, HasCommitted
      <3>2. /\ branch'.tip \in branch'.has /\ branch'.tip[1] \in 1..Len(trees')
            /\ trees'[branch'.tip[1]][today] = job.version
        <4>1. trees' # <<>> /\ trees'[Len(trees')][today] = head'.hash[today]
          BY <1>0, <3>1 DEF TreesFit
        <4>2. branch'.tip \in branch'.has /\ branch'.tip[1] = Len(trees')
          BY <1>0, <3>1 DEF PathsFit
        <4>3. Len(trees') \in 1..Len(trees')
          <5>1. trees' \in Seq([Day -> Version])
            BY <1>0 DEF TypeOK
          <5> QED
            BY <4>1, <5>1
        <4> QED
          BY <3>1, <4>1, <4>2, <4>3
      <3>3. today' = today
        BY <2>1
      <3> QED
        BY <3>1, <3>2, <3>3 DEF Names
    <2>3. ~job.pushed
      BY <2>1 DEF JobSound
    <2> QED
      BY <1>1, <2>1, <2>2, <2>3 DEF JobNames, SameRun
  <1>7. CASE Push
    <2>1. /\ SameRun /\ job'.commit = job.commit /\ job.at = "push" /\ job'.at # "push"
          /\ today' = today /\ reported' = reported /\ branch' = branch
          /\ \/ job'.pushed /\ origin' = branch
             \/ job'.pushed = job.pushed
      BY <1>7, PushEffect DEF PushHead
    <2>2. job.commit = branch.tip
      BY <2>1 DEF JobNames
    <2> QED
      BY <1>0, <1>1, <2>1, <2>2 DEF JobNames, SameRun, PathsFit
  <1>8. CASE Rebase
    <2>1. /\ SameRun /\ job'.commit = job.commit /\ job'.at # "push" /\ job'.pushed = job.pushed
          /\ today' = today /\ reported' = reported
      BY <1>8, RebaseEffect
    <2> QED
      BY <1>1, <2>1 DEF JobNames, SameRun
  <1>9. CASE Repush
    <2>1. /\ SameRun /\ job.at = "repush" /\ job'.at = "finish"
          /\ job'.commit = branch.tip \/ ("reread" \in Faults /\ job'.commit = job.commit)
          /\ today' = today /\ reported' = reported /\ branch' = branch /\ head' = head
      BY <1>9, RepushEffect
    <2>2. ASSUME job.kind = "publish", job'.commit # NoSha
          PROVE  Names(job.commit, today, job.version)'
      <3>1. CASE job'.commit = job.commit
        BY <1>1, <2>1, <2>2, <3>1 DEF JobNames, SameRun
      <3>2. CASE job'.commit = branch.tip
        <4>1. /\ job'.version = job.version /\ job.version # 0 /\ head.hash[today] = job.version
              /\ today \in Day
          BY <2>1, <2>2, JobFacts DEF SameRun, JobSound, HashFollowsJob, HasCommitted
        <4>2. Names(branch.tip, today, job.version)
          BY <2>2, <3>2, <4>1, TipNamed
        <4> QED
          BY <1>1, <2>1, <3>2, <4>1, <4>2
      <3> QED
        BY <2>1, <3>1, <3>2
    <2>3. ASSUME "reread" \notin Faults, job'.pushed, job'.commit # NoSha
          PROVE  job'.commit \in origin'.has
      <3>1. job'.commit = branch.tip /\ branch.tip \in branch.has
        BY <2>1, <2>3 DEF PathsFit
      <3>2. CASE PushHead
        BY <3>1, <3>2 DEF PushHead
      <3>3. CASE job'.pushed = job.pushed
        BY <2>1, <2>3, <3>1, <3>3 DEF JobSound, HashFollowsJob
      <3> QED
        BY <1>9, <3>2, <3>3, RepushEffect
    <2> QED
      BY <1>1, <2>1, <2>2, <2>3 DEF JobNames, SameRun
  <1>10. CASE WorldStep
    <2>1. /\ reported' = reported /\ branch' = branch
          /\ \/ job' = job /\ (today' = today \/ job = Idle)
             \/ job' = Idle
          /\ Idle.kind = "none" /\ Idle.at = "idle" /\ Idle.commit = NoSha
      BY <1>10, WorldEffect DEF Idle
    <2> QED
      BY <1>1, <2>1 DEF JobNames
  <1>11. CASE UNCHANGED vars
    BY <1>11, <1>1 DEF vars, pathVars, JobNames
  <1> QED
    BY <1>2, <1>3, <1>4, <1>5, <1>6, <1>7, <1>8, <1>9, <1>10, <1>11
    DEF Next, PublishStep, GitStep

LEMMA FirstRunKept ==
    ASSUME TypeOK, JobSound, FirstRun, [Next]_vars
    PROVE  FirstRun'
  <1> USE DEF FirstRun, JobSound
  <1>1. CASE BeginPublish
    BY <1>1, BeginPublishEffect, Ranges
  <1>2. CASE StoreRow
    BY <1>2, StoreRowEffect, WriterPublishes, Ranges DEF SameRun, Tear
  <1>3. CASE WriteHash
    BY <1>3, WriteHashEffect, WriterPublishes, Ranges DEF SameRun
  <1>4. CASE StampHash
    BY <1>4, StampHashEffect DEF SameRun
  <1>5. CASE FinishPublish
    BY <1>5, FinishPublishEffect, Ranges
  <1>6. CASE BeginReveal
    BY <1>6, BeginRevealEffect, Ranges
  <1>7. CASE WritePayload
    BY <1>7, WritePayloadEffect, Ranges
  <1>8. CASE FinishReveal
    BY <1>8, FinishRevealEffect, Ranges
  <1>9. CASE Commit
    BY <1>9, CommitEffect DEF SameRun
  <1>10. CASE Push
    BY <1>10, PushEffect DEF SameRun
  <1>11. CASE Rebase
    BY <1>11, RebaseEffect DEF SameRun
  <1>12. CASE Repush
    BY <1>12, RepushEffect DEF SameRun
  <1>13. CASE WorldStep
    BY <1>13, WorldEffect, Ranges
  <1>14. CASE UNCHANGED vars
    BY <1>14 DEF vars
  <1> QED
    BY <1>1, <1>2, <1>3, <1>4, <1>5, <1>6, <1>7, <1>8, <1>9, <1>10, <1>11, <1>12,
       <1>13, <1>14
    DEF Next, PublishStep, RevealStep, GitStep

LEMMA CommitNotedKept ==
    ASSUME TypeOK, JobSound, HashFollowsJob, FirstRun, JobNames, CommitNoted, [Next]_vars
    PROVE  CommitNoted'
  <1> USE DEF CommitNoted
  <1>0. \A sha, d, version : Names(sha, d, version) => Names(sha, d, version)'
    BY NamesKept
  <1>1. CASE BeginPublish
    BY <1>0, <1>1, BeginPublishEffect, Ranges DEF FirstRun
  <1>2. CASE StoreRow
    BY <1>0, <1>2, StoreRowEffect, WriterPublishes, Ranges DEF FirstRun, JobSound
  <1>3. CASE WriteHash
    BY <1>0, <1>3, WriteHashEffect, WriterPublishes, Ranges DEF FirstRun, JobSound
  <1>4. CASE StampHash
    BY <1>0, <1>4, StampHashEffect
  <1>5. CASE FinishPublish
    BY <1>0, <1>5, FinishPublishEffect, Ranges DEF HashFollowsJob, JobSound, FirstRun, JobNames, HasCommitted
  <1>6. CASE BeginReveal
    BY <1>0, <1>6, BeginRevealEffect
  <1>7. CASE WritePayload
    BY <1>0, <1>7, WritePayloadEffect
  <1>8. CASE FinishReveal
    BY <1>0, <1>8, FinishRevealEffect
  <1>9. CASE Commit
    BY <1>0, <1>9, CommitEffect
  <1>10. CASE Push
    BY <1>0, <1>10, PushEffect
  <1>11. CASE Rebase
    BY <1>0, <1>11, RebaseEffect
  <1>12. CASE Repush
    BY <1>0, <1>12, RepushEffect
  <1>13. CASE WorldStep
    BY <1>0, <1>13, WorldEffect
  <1>14. CASE UNCHANGED vars
    BY <1>0, <1>14 DEF vars
  <1> QED
    BY <1>1, <1>2, <1>3, <1>4, <1>5, <1>6, <1>7, <1>8, <1>9, <1>10, <1>11, <1>12,
       <1>13, <1>14
    DEF Next, PublishStep, RevealStep, GitStep

LEMMA ReportedIsKeptKept ==
    ASSUME TypeOK, JobSound, HashFollowsJob, ReportedIsKept, [Next]_vars
    PROVE  ReportedIsKept'
  <1> USE DEF ReportedIsKept
  <1>1. CASE BeginPublish
    BY <1>1, BeginPublishEffect, Ranges
  <1>2. CASE StoreRow
    BY <1>2, StoreRowEffect DEF SameRun
  <1>3. CASE WriteHash
    BY <1>3, WriteHashEffect, WriterPublishes, Ranges DEF SameRun
  <1>4. CASE StampHash
    BY <1>4, StampHashEffect DEF SameRun
  <1>5. CASE FinishPublish
    BY <1>5, FinishPublishEffect, Ranges DEF HashFollowsJob, JobSound, HasCommitted, Proof
  <1>6. CASE BeginReveal
    BY <1>6, BeginRevealEffect, Ranges
  <1>7. CASE WritePayload
    BY <1>7, WritePayloadEffect, Ranges
  <1>8. CASE FinishReveal
    BY <1>8, FinishRevealEffect, Ranges
  <1>9. CASE Commit
    BY <1>9, CommitEffect DEF SameRun
  <1>10. CASE Push
    BY <1>10, PushEffect DEF SameRun
  <1>11. CASE Rebase
    BY <1>11, RebaseEffect DEF SameRun
  <1>12. CASE Repush
    BY <1>12, RepushEffect DEF SameRun
  <1>13. CASE WorldStep
    BY <1>13, WorldEffect, Ranges
  <1>14. CASE UNCHANGED vars
    BY <1>14 DEF vars
  <1> QED
    BY <1>1, <1>2, <1>3, <1>4, <1>5, <1>6, <1>7, <1>8, <1>9, <1>10, <1>11, <1>12,
       <1>13, <1>14
    DEF Next, PublishStep, RevealStep, GitStep

LEMMA SettledKept ==
    ASSUME TypeOK, JobSound, HashFollowsJob, FirstRun, \A d \in Day \ torn : Settled(d),
           [Next]_vars
    PROVE  (\A d \in Day \ torn : Settled(d))'
  <1> USE DEF Settled
  <1>1. CASE BeginPublish
    BY <1>1, BeginPublishEffect, Ranges
  <1>2. CASE StoreRow
    BY <1>2, StoreRowEffect, WriterPublishes DEF SameRun, Tear
  <1>3. CASE WriteHash
    BY <1>3, WriteHashEffect, WriterPublishes, Ranges DEF SameRun, Tear, HashFollowsJob, FirstRun
  <1>4. CASE StampHash
    BY <1>4, StampHashEffect DEF SameRun
  <1>5. CASE FinishPublish
    BY <1>5, FinishPublishEffect, Ranges
  <1>6. CASE BeginReveal
    BY <1>6, BeginRevealEffect, Ranges
  <1>7. CASE WritePayload
    BY <1>7, WritePayloadEffect, Ranges
  <1>8. CASE FinishReveal
    BY <1>8, FinishRevealEffect, Ranges
  <1>9. CASE Commit
    BY <1>9, CommitEffect DEF SameRun
  <1>10. CASE Push
    BY <1>10, PushEffect DEF SameRun
  <1>11. CASE Rebase
    BY <1>11, RebaseEffect DEF SameRun
  <1>12. CASE Repush
    BY <1>12, RepushEffect DEF SameRun
  <1>13. CASE WorldStep
    BY <1>13, WorldEffect, WriterPublishes, Ranges DEF Tear, FirstRun
  <1>14. CASE UNCHANGED vars
    BY <1>14 DEF vars
  <1> QED
    BY <1>1, <1>2, <1>3, <1>4, <1>5, <1>6, <1>7, <1>8, <1>9, <1>10, <1>11, <1>12,
       <1>13, <1>14
    DEF Next, PublishStep, RevealStep, GitStep

LEMMA PayloadIsPastKept ==
    ASSUME TypeOK, JobSound, [Next]_vars,
           PayloadIsPast(work), PayloadIsPast(head), PayloadIsPast(remote)
    PROVE  PayloadIsPast(work)' /\ PayloadIsPast(head)' /\ PayloadIsPast(remote)'
  <1> USE DEF PayloadIsPast
  <1>1. CASE BeginPublish
    BY <1>1, BeginPublishEffect
  <1>2. CASE StoreRow
    BY <1>2, StoreRowEffect, WriterPublishes, Ranges, ProofConfig
  <1>3. CASE WriteHash
    BY <1>3, WriteHashEffect, WriterPublishes, Ranges, ProofConfig
  <1>4. CASE StampHash
    BY <1>4, StampHashEffect
  <1>5. CASE FinishPublish
    BY <1>5, FinishPublishEffect
  <1>6. CASE BeginReveal
    BY <1>6, BeginRevealEffect
  <1>7. CASE WritePayload
    BY <1>7, WritePayloadEffect, ProofConfig, Ranges
  <1>8. CASE FinishReveal
    BY <1>8, FinishRevealEffect
  <1>9. CASE Commit
    BY <1>9, CommitEffect
  <1>10. CASE Push
    BY <1>10, PushEffect
  <1>11. CASE Rebase
    BY <1>11, RebaseEffect
  <1>12. CASE Repush
    BY <1>12, RepushEffect
  <1>13. CASE WorldStep
    BY <1>13, WorldEffect, Ranges, ProofConfig
  <1>14. CASE UNCHANGED vars
    BY <1>14 DEF vars
  <1> QED
    BY <1>1, <1>2, <1>3, <1>4, <1>5, <1>6, <1>7, <1>8, <1>9, <1>10, <1>11, <1>12,
       <1>13, <1>14
    DEF Next, PublishStep, RevealStep, GitStep

LEMMA CopiesFollowKept ==
    ASSUME TypeOK, JobSound, HashFollowsJob, CopiesFollow, [Next]_vars
    PROVE  CopiesFollow'
  <1> USE DEF CopiesFollow
  <1>1. CASE BeginPublish
    BY <1>1, BeginPublishEffect, Ranges
  <1>2. CASE StoreRow
    <2>1. \A d \in Day : row'[d].version <= ledger[d]
      BY <1>2, StoreRowEffect, WriterPublishes, Ranges DEF JobSound
    <2>2. \A d \in Day : row[d].version # 0 => row'[d].version # 0
      BY <1>2, StoreRowEffect, WriterPublishes
    <2>3. job'.due \subseteq Day
      BY <1>2, StoreRowEffect, JobFacts, ProofConfig DEF SameRun, JobType, Day
    <2> QED
      BY <1>2, <2>1, <2>2, <2>3, StoreRowEffect DEF SameRun
  <1>3. CASE WriteHash
    <2>1. job.kind = "publish" /\ job.day = today /\ job.version <= ledger[today]
      BY <1>3, WriteHashEffect, WriterPublishes DEF JobSound
    <2>2. work'.hash[today] \in {work.hash[today], job.version}
      BY <1>3, <2>1, WriteHashEffect
    <2>3. /\ work'.hash[today] <= job.version /\ work'.hash[today] <= ledger[today]
          /\ head.hash[today] <= work'.hash[today]
      BY <2>1, <2>2, Ranges
    <2>4. \A d \in Day : /\ work'.hash[d] <= ledger[d] /\ head.hash[d] <= work'.hash[d]
                         /\ work'.payload[d] = work.payload[d]
      BY <1>3, <2>1, <2>3, WriteHashEffect
    <2> QED
      BY <1>3, <2>3, <2>4, WriteHashEffect DEF SameRun
  <1>4. CASE StampHash
    BY <1>4, StampHashEffect DEF SameRun
  <1>5. CASE FinishPublish
    <2>1. \A d \in Day : row'[d].version = row[d].version
      BY <1>5, FinishPublishEffect
    <2> QED
      BY <1>5, <2>1, FinishPublishEffect, Ranges
  <1>6. CASE BeginReveal
    BY <1>6, BeginRevealEffect
  <1>7. CASE WritePayload
    <2>1. \A d \in Day : work.payload[d] # 0 => work'.payload[d] # 0
      BY <1>7, WritePayloadEffect
    <2>2. \A d \in job'.due : row[d].version # 0
      BY <1>7, WritePayloadEffect, Ranges
    <2> QED
      BY <1>7, <2>1, <2>2, WritePayloadEffect, Ranges
  <1>8. CASE FinishReveal
    BY <1>8, FinishRevealEffect, Ranges
  <1>9. CASE Commit
    <2>1. \A d \in Day : /\ head'.hash[d] <= work.hash[d] /\ remote.hash[d] <= head'.hash[d]
                         /\ remote.payload[d] # 0 => head'.payload[d] # 0
                         /\ head'.payload[d] # 0 => work.payload[d] # 0
      BY <1>9, CommitEffect, Ranges
    <2> QED
      BY <1>9, <2>1, CommitEffect DEF SameRun
  <1>10. CASE Push
    BY <1>10, PushEffect, Ranges DEF SameRun
  <1>11. CASE Rebase
    BY <1>11, RebaseEffect, Ranges DEF SameRun
  <1>12. CASE Repush
    BY <1>12, RepushEffect, Ranges DEF SameRun
  <1>13. CASE WorldStep
    <2>1. /\ \A d \in Day : ledger'[d] \in Nat /\ ledger'[d] >= ledger[d]
          /\ UNCHANGED <<row, work, head, remote>>
          /\ (job' = job /\ (today' = today \/ job = Idle)) \/ job' = Idle
      BY <1>13, WorldEffect
    <2>2. \A d \in Day : row[d].version <= ledger'[d] /\ work.hash[d] <= ledger'[d]
      BY <2>1, Ranges
    <2>3. \A d \in Day : ledger'[d] # 0 => d <= today'
      <3>1. CASE TradesChange
        <4>1. /\ today' = today /\ ledger \in [Day -> Version] /\ today \in Day
              /\ ledger' = [ledger EXCEPT ![today] = @ + 1]
          BY <3>1 DEF TradesChange, TypeOK
        <4>2. \A d \in Day \ {today} : ledger'[d] = ledger[d]
          BY <4>1
        <4> QED
          BY <4>1, <4>2, Ranges
      <3>2. CASE MidnightPasses
        <4>1. ledger' = ledger /\ today' = today + 1
          BY <3>2 DEF MidnightPasses
        <4> QED
          BY <4>1, Ranges
      <3>3. CASE Crash \/ OthersPush
        BY <3>3 DEF Crash, OthersPush
      <3> QED
        BY <1>13, <3>1, <3>2, <3>3 DEF WorldStep
    <2>4. /\ job'.kind = "publish" => work.hash[today'] <= job'.version
          /\ \A d \in job'.due : row[d].version # 0
      BY <2>1, Ranges
    <2> QED
      BY <2>1, <2>2, <2>3, <2>4
  <1>14. CASE UNCHANGED vars
    BY <1>14 DEF vars
  <1> QED
    BY <1>1, <1>2, <1>3, <1>4, <1>5, <1>6, <1>7, <1>8, <1>9, <1>10, <1>11, <1>12,
       <1>13, <1>14
    DEF Next, PublishStep, RevealStep, GitStep

LEMMA InitPublisher == ASSUME Init PROVE PublisherInv
  <1>1. \A d \in Day : /\ row[d].version = 0 /\ row[d].commit = NoSha /\ ledger[d] = 0
                       /\ work.hash[d] = 0 /\ work.payload[d] = 0
    BY DEF Init, NoRow
  <1>2. job.kind = "none" /\ job.due = {} /\ head = work /\ remote = work /\ reported = {}
    BY DEF Init, Idle
  <1>3. PathsFit
    BY DEF Init, PathsFit, NoSha
  <1>4. TreesFit /\ JobNames
    BY <1>1, <1>2 DEF Init, TreesFit, JobNames, Idle
  <1> QED
    BY <1>1, <1>2, <1>3, <1>4
    DEF PublisherInv, HashFollowsJob, FirstRun, CommitNoted, ReportedIsKept, Settled, PayloadIsPast,
        CopiesFollow

LEMMA NextPublisher ==
    ASSUME TypeOK, JobSound, PublisherInv, [Next]_vars
    PROVE  PublisherInv'
  <1>1. HashFollowsJob' /\ FirstRun'
    BY HashFollowsJobKept, FirstRunKept DEF PublisherInv
  <1>6. PathsFit' /\ TreesFit' /\ JobNames'
    BY PathsFitKept, TreesFitKept, JobNamesKept DEF PublisherInv
  <1>2. CommitNoted' /\ ReportedIsKept'
    BY CommitNotedKept, ReportedIsKeptKept DEF PublisherInv
  <1>3. (\A d \in Day \ torn : Settled(d))'
    BY SettledKept DEF PublisherInv
  <1>4. PayloadIsPast(work)' /\ PayloadIsPast(head)' /\ PayloadIsPast(remote)'
    BY PayloadIsPastKept DEF PublisherInv
  <1>5. CopiesFollow'
    BY CopiesFollowKept DEF PublisherInv
  <1> QED
    BY <1>1, <1>2, <1>3, <1>4, <1>5, <1>6 DEF PublisherInv

LEMMA Invariance == Spec => [](TypeOK /\ JobSound /\ PublisherInv)
  <1>1. TypeOK /\ JobSound /\ PublisherInv /\ [Next]_vars => PublisherInv'
    BY NextPublisher
  <1> QED
    BY Control, InitPublisher, <1>1, PTL DEF Spec

-----------------------------------------------------------------------------
(* What the publisher keeps *)

\* verify.py finds every revealed payload of the remote to be the one its hash
\* was published for, whatever step failed or was broken off, except where a
\* rerun of the publish job lost one of its two writes.
THEOREM RevealsVerify == Spec => []RevealVerifies
  <1>1. ASSUME TypeOK, JobSound, PublisherInv PROVE RevealVerifies
    <2> SUFFICES ASSUME NEW d \in Day \ torn, remote.payload[d] # 0, remote.hash[d] # 0
                 PROVE  remote.payload[d] = remote.hash[d]
      BY DEF RevealVerifies
    <2>1. /\ d <= today - RevealAfter /\ remote.payload[d] = row[d].version
          /\ remote.hash[d] = work.hash[d]
      BY <1>1 DEF PublisherInv, PayloadIsPast
    <2>2. ~(job.kind = "publish" /\ job.day = d)
      BY <1>1, <2>1, Ranges, ProofConfig DEF JobSound
    <2>3. row[d].version # 0 /\ work.hash[d] # 0 => row[d].version = work.hash[d]
      BY <1>1, <2>2 DEF PublisherInv, Settled
    <2> QED
      BY <2>1, <2>3
  <1> QED
    BY Invariance, <1>1, PTL

\* The commit that the row of a day published once names was made, holds the hash
\* of that row, and is in the branch unless a rebase replaced it; no rebase replaces
\* a commit that origin has, and what was counted as published is at origin under
\* the SHA that was told.
THEOREM RecordedCommitsHold == Spec => []RecordedCommitHolds
  <1>1. ASSUME TypeOK, PublisherInv PROVE RecordedCommitHolds
    <2>1. ASSUME NEW d \in Day, row[d].commit # NoSha, publishes[d] = 1
          PROVE  /\ trees[row[d].commit[1]][d] = row[d].version
                 /\ head.hash[d] = row[d].version
                 /\ row[d].commit \in branch.has \union replaced
      BY <1>1, <2>1 DEF PublisherInv, CommitNoted, Names
    <2>2. replaced \intersect origin.has = {}
      BY <1>1 DEF PublisherInv, PathsFit
    <2>3. "reread" \notin Faults => \A p \in reported : p.commit \in origin.has
      BY <1>1 DEF PublisherInv, JobNames
    <2> QED
      BY <2>1, <2>2, <2>3 DEF RecordedCommitHolds
  <1> QED
    BY Invariance, <1>1, PTL

\* What the scheduler counts as published is at the remote, in that version or
\* a later one, whatever fails afterwards.
THEOREM ReportedIsThere == Spec => []ReportedIsPublished
  <1>1. PublisherInv => ReportedIsPublished
    BY DEF PublisherInv, ReportedIsKept, ReportedIsPublished
  <1> QED
    BY Invariance, <1>1, PTL

\* ProofPublisher implements CommitReveal: what readers of the repository see is
\* sealed by the trades of its day, opened in time, and then left alone, whatever
\* step of the two jobs fails, is broken off or is run again.
THEOREM PromiseKept == Spec => KeepsThePromise
  <1>1. Init => Promised!Init
    BY DEF Init, Promised!Init
  <1>2. ASSUME TypeOK, JobSound, PublisherInv, RevealVerifies', [Next]_vars
        PROVE  Promised!Next \/ UNCHANGED Promised!vars
    <2> USE DEF Promised!vars, Promised!Next
    <2>1. CASE BeginPublish \/ StoreRow \/ WriteHash \/ Crash
      <3>1. /\ UNCHANGED <<today, ledger, remote>>
            /\ torn' = torn \/ torn' = torn \union {today}
        BY <1>2, <2>1, BeginPublishEffect, StoreRowEffect, WriteHashEffect, WriterPublishes,
           WorldEffect DEF Tear, Crash, WorldStep
      <3> QED
        BY <3>1 DEF Promised!Spoil
    <2>2. CASE StampHash \/ FinishPublish \/ RevealStep \/ Commit \/ Rebase \/ OthersPush
      BY <1>2, <2>2, StampHashEffect, FinishPublishEffect, BeginRevealEffect, WritePayloadEffect,
         FinishRevealEffect, CommitEffect, RebaseEffect DEF RevealStep, OthersPush
    <2>3. CASE TradesChange
      BY <2>3 DEF TradesChange, Promised!Predict
    <2>4. CASE MidnightPasses
      BY <2>4 DEF MidnightPasses, Promised!DayPasses
    <2>5. CASE Push \/ Repush
      <3>1. /\ remote' = head \/ remote' = remote
            /\ UNCHANGED <<today, ledger, torn>>
        BY <1>2, <2>5, PushEffect, RepushEffect
      <3>2. CASE remote' = head
        <4>1. ASSUME NEW d \in Day, head.hash[d] # remote.hash[d]
              PROVE  /\ remote.payload[d] = 0 /\ d <= today
                     /\ remote.hash[d] < head.hash[d] /\ head.hash[d] <= ledger[d]
          <5>1. /\ remote.hash[d] <= head.hash[d] /\ head.hash[d] <= work.hash[d]
                /\ work.hash[d] <= ledger[d]
                /\ ledger[d] # 0 => d <= today
            BY <1>2 DEF PublisherInv, CopiesFollow
          <5>0. /\ remote.hash[d] \in Nat /\ head.hash[d] \in Nat /\ work.hash[d] \in Nat
                /\ ledger[d] \in Nat
            BY <1>2, Ranges
          <5>2. remote.hash[d] < head.hash[d] /\ head.hash[d] <= ledger[d] /\ ledger[d] # 0
            BY <4>1, <5>0, <5>1
          <5>3. remote.payload[d] # 0 => remote.hash[d] = head.hash[d]
            BY <1>2 DEF PublisherInv, CopiesFollow, PayloadIsPast
          <5>4. remote.payload[d] = 0
            BY <4>1, <5>3
          <5> QED
            BY <5>1, <5>2, <5>4
        <4>2. ASSUME NEW d \in Day, head.payload[d] # remote.payload[d]
              PROVE  /\ remote.payload[d] = 0 /\ d <= today - RevealAfter
                     /\ 0 < head.payload[d] /\ head.payload[d] <= ledger[d]
                     /\ \/ head.hash[d] = head.payload[d] \/ head.hash[d] = 0
                        \/ d \in torn
          <5>1. remote.payload[d] # 0 =>
                    head.payload[d] # 0 /\ remote.payload[d] = row[d].version
            BY <1>2 DEF PublisherInv, CopiesFollow, PayloadIsPast
          <5>2. head.payload[d] # 0 =>
                    /\ head.payload[d] = row[d].version /\ d <= today - RevealAfter
                    /\ row[d].version <= ledger[d]
            BY <1>2 DEF PublisherInv, CopiesFollow, PayloadIsPast
          <5>3. remote.payload[d] = 0 /\ head.payload[d] # 0
            BY <4>2, <5>1, <5>2
          <5>4. d \in torn \/ head.hash[d] = 0 \/ head.hash[d] = head.payload[d]
            BY <1>2, <3>1, <3>2, <5>3 DEF RevealVerifies
          <5> QED
            BY <1>2, <5>2, <5>3, <5>4, Ranges
        <4> QED
          BY <3>1, <3>2, <4>1, <4>2 DEF Promised!Publish, Promised!Seals, Promised!Opens
      <3> QED
        BY <3>1, <3>2
    <2>6. CASE UNCHANGED vars
      BY <2>6 DEF vars
    <2> QED
      BY <1>2, <2>1, <2>2, <2>3, <2>4, <2>5, <2>6 DEF Next, PublishStep, GitStep, WorldStep
  <1> QED
    BY Invariance, RevealsVerify, <1>1, <1>2, PTL DEF Spec, Promised!Spec, KeepsThePromise

=============================================================================
