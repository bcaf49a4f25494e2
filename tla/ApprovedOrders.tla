--------------------------- MODULE ApprovedOrders ---------------------------
(***************************************************************************)
(* What semi-automatic execution promises, without its lists, polls,       *)
(* phases and restarts: plans are shown under a label, the user approves   *)
(* labels, and a plan becomes an order at most once, only under an         *)
(* approved label, and never while trading is halted.  A label is the      *)
(* callback id of a button: two plans may carry the same one, since the    *)
(* ids start anew with the process.                                        *)
(***************************************************************************)
EXTENDS Naturals, Sequences

VARIABLES
    shown,     \* the labels of the plans shown to the user, in order
    approved,  \* the labels an Approve has been pressed for
    halted,    \* whether trading is halted by hand
    orders     \* the plans that became orders, by their place in shown

vars == <<shown, approved, halted, orders>>

Init == shown = <<>> /\ approved = {} /\ halted = FALSE /\ orders = <<>>

\* One more plan is shown, under any label.
Show ==
    /\ Len(shown') = Len(shown) + 1
    /\ shown' = Append(shown, shown'[Len(shown')])
    /\ UNCHANGED <<approved, halted, orders>>

Approve(plan) ==
    /\ approved' = approved \union {shown[plan]}
    /\ UNCHANGED <<shown, halted, orders>>

SetHalt ==
    /\ halted' = ~halted
    /\ UNCHANGED <<shown, approved, orders>>

Order(plan) ==
    /\ ~halted
    /\ shown[plan] \in approved
    /\ \A i \in DOMAIN orders : orders[i] # plan
    /\ orders' = Append(orders, plan)
    /\ UNCHANGED <<shown, approved, halted>>

Next ==
    \/ Show
    \/ \E plan \in DOMAIN shown : Approve(plan) \/ Order(plan)
    \/ SetHalt

Spec == Init /\ [][Next]_vars
=============================================================================
