---------------------------- MODULE CommitReveal ----------------------------
(***************************************************************************)
(* What the proofs repository promises its readers, without its jobs, rows *)
(* and files: the predictions of a day are made on that day and sealed for *)
(* all to see, the seal is only ever replaced by that of newer predictions *)
(* of the day, and it is opened when it is RevealAfter days old.  From then on *)
(* the day is closed: seal and content stay, and they fit.  A day on which *)
(* a second publication lost a part is spoilt, and its content may be      *)
(* other than the seal says; nothing after midnight spoils a day.          *)
(***************************************************************************)
EXTENDS Integers

CONSTANTS Day, RevealAfter

VARIABLES
    clock,   \* the day it is
    made,    \* how often the predictions of a day have been made
    sealed,  \* the predictions the public seal of a day is of, 0 for none
    opened,  \* the predictions shown to the public, 0 for none
    spoilt   \* the days on which a publication was torn

vars == <<clock, made, sealed, opened, spoilt>>

Init ==
    /\ clock = 1
    /\ made = [d \in Day |-> 0]
    /\ sealed = [d \in Day |-> 0] /\ opened = [d \in Day |-> 0]
    /\ spoilt = {}

DayPasses ==
    /\ clock' = clock + 1
    /\ UNCHANGED <<made, sealed, opened, spoilt>>

\* Only the predictions of the day change.
Predict ==
    /\ made' = [made EXCEPT ![clock] = @ + 1]
    /\ UNCHANGED <<clock, sealed, opened, spoilt>>

Spoil ==
    /\ spoilt' = spoilt \union {clock}
    /\ UNCHANGED <<clock, made, sealed, opened>>

\* The seal of a day that is not open comes to be of newer predictions of it.
Seals(d) ==
    /\ opened[d] = 0 /\ d <= clock
    /\ sealed[d] < sealed'[d] /\ sealed'[d] <= made[d]

\* A day old enough is opened: what is shown was made on that day, and it is
\* what was sealed, unless the day is spoilt or its seal was never written.
Opens(d) ==
    /\ opened[d] = 0 /\ d <= clock - RevealAfter
    /\ 0 < opened'[d] /\ opened'[d] <= made[d]
    /\ sealed'[d] = opened'[d] \/ sealed'[d] = 0 \/ d \in spoilt

\* One push shows what any number of days have to show.
Publish ==
    /\ \A d \in Day : sealed'[d] # sealed[d] => Seals(d)
    /\ \A d \in Day : opened'[d] # opened[d] => Opens(d)
    /\ UNCHANGED <<clock, made, spoilt>>

Next == DayPasses \/ Predict \/ Spoil \/ Publish

Spec == Init /\ [][Next]_vars
=============================================================================
