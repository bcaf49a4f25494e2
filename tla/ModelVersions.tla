----------------------------- MODULE ModelVersions -----------------------------
(****************************************************************************)
(* RetrainingManager (monitoring/retrainer.py): model versions, each with a *)
(* directory of artifacts, registered as shadow, promoted to active, which  *)
(* retires the active one, and removed with their directories when they are *)
(* beyond keep_versions.  A version's directory is named after it.          *)
(****************************************************************************)
EXTENDS Integers, Sequences, SequencesExt, FiniteSetsExt

CONSTANTS VersionIds,     \* the names a training run may give its version
          KeepVersions,
          MaxVersions     \* bound: registrations

ASSUME VersionAssumption == KeepVersions \in Nat /\ MaxVersions \in Nat

VARIABLES versions,    \* the manager's list, in the order of registration
          artifacts,   \* the directories that exist
          born,        \* registrations so far, the clock of created_at
          reused       \* history: a name was given a second time

versionVars == <<versions, artifacts, born, reused>>

HasStatus(status) == {i \in DOMAIN versions : versions[i].status = status}

\* The training run has written the directory before it registers it.
RegisterVersion(id) ==
    /\ born < MaxVersions
    /\ versions' = Append(versions, [id |-> id, status |-> "shadow", at |-> born])
    /\ artifacts' = artifacts \union {id}
    /\ born' = born + 1
    /\ reused' = (reused \/ \E i \in DOMAIN versions : versions[i].id = id)

\* The first version of that name must be a shadow.
PromoteVersion(id) ==
    /\ \E i \in DOMAIN versions : versions[i].id = id
    /\ LET i == Min({j \in DOMAIN versions : versions[j].id = id})
       IN  /\ versions[i].status = "shadow"
           /\ versions' = [j \in DOMAIN versions |->
                IF j = i THEN [versions[j] EXCEPT !.status = "active"]
                ELSE IF versions[j].status = "active"
                       THEN [versions[j] EXCEPT !.status = "retired"]
                       ELSE versions[j]]
    /\ UNCHANGED <<artifacts, born, reused>>

Others == DOMAIN versions \ HasStatus("active")

\* The newest of the versions that are not active.
KeptOthers == {i \in Others : Cardinality({j \in Others : versions[j].at > versions[i].at})
                                < KeepVersions}

Removed == Others \ KeptOthers

\* The list becomes the active version, then the kept others, newest first.
CleanupOldVersions ==
    /\ artifacts' = artifacts \ {versions[i].id : i \in Removed}
    /\ LET actives == SetToSortSeq(HasStatus("active"), <)
           others  == SetToSortSeq(KeptOthers, LAMBDA i, j : versions[i].at > versions[j].at)
           order   == actives \o others
       IN  versions' = [k \in DOMAIN order |-> versions[order[k]]]
    /\ UNCHANGED <<born, reused>>

VersionsInit == versions = <<>> /\ artifacts = {} /\ born = 0 /\ reused = FALSE

VersionsNext ==
    \/ \E id \in VersionIds : RegisterVersion(id) \/ PromoteVersion(id)
    \/ CleanupOldVersions

--------------------------------------------------------------------------------
(* Properties. *)

\* At most one version serves, in whatever order versions are registered, promoted and
\* cleaned up (promote_version).
OneActiveVersion == Cardinality(HasStatus("active")) <= 1

\* The version that serves keeps its artifacts, as long as no name is given twice: a
\* cleanup removes the directory of an old version by its path (cleanup_old_versions).
ActiveKeepsItsArtifacts ==
    ~reused => \A i \in HasStatus("active") : versions[i].id \in artifacts

================================================================================
