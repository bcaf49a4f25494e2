-------------------------- MODULE SemiAuto_proofs ---------------------------
(***************************************************************************)
(* Proofs about SemiAuto, for every list of plans, every cap and any       *)
(* number of lists, updates and restarts.                                  *)
(***************************************************************************)
EXTENDS SemiAuto, WellFoundedInduction, SequenceTheorems, TLAPS

-----------------------------------------------------------------------------
(* The operators the actions are built from *)

\* Every set of natural numbers that is not empty has a least element.
LEMMA LeastNatural ==
    ASSUME NEW T \in SUBSET Nat, T # {}
    PROVE  \E x \in T : \A y \in T : x <= y
  <1> DEFINE Less == {pair \in Nat \X Nat : pair[1] < pair[2]}
  <1>1. IsWellFoundedOn(Less, Nat)
    BY NatLessThanWellFounded DEF OpToRel
  <1>2. \E x \in T : \A y \in T : <<y, x>> \notin Less
    <2> HIDE DEF Less
    <2> QED
      BY <1>1, WFMin
  <1>3. ASSUME NEW x \in T, NEW y \in T, <<y, x>> \notin Less
        PROVE  x <= y
    <2>1. x \in Nat /\ y \in Nat
      OBVIOUS
    <2>2. ~(y < x)
      BY <1>3, <2>1
    <2> QED
      BY <2>1, <2>2
  <1> QED
    BY <1>2, <1>3

\* NextApproved, when it points into the list, points at an approved entry at
\* the cursor or after it.
LEMMA NextApprovedIsApproved ==
    ASSUME TypeOK, NextApproved <= Len(pending)
    PROVE  /\ NextApproved \in cursor..Len(pending)
           /\ pending[NextApproved].status = "approved"
  <1> DEFINE approved == {i \in cursor..Len(pending) : pending[i].status = "approved"}
  <1>1. cursor \in Nat /\ Len(pending) \in Nat
    BY DEF TypeOK
  <1>2. CASE approved = {}
    <2>1. NextApproved = Len(pending) + 1
      BY <1>2 DEF NextApproved
    <2> QED
      BY <1>1, <2>1
  <1>3. CASE approved # {}
    <2>1. approved \in SUBSET Nat
      BY <1>1
    <2>2. \E i \in approved : \A j \in approved : i <= j
      BY <1>3, <2>1, LeastNatural
    <2>3. NextApproved = CHOOSE i \in approved : \A j \in approved : i <= j
      BY <1>3 DEF NextApproved
    <2>4. NextApproved \in approved
      BY <2>2, <2>3
    <2> QED
      BY <2>4
  <1> QED
    BY <1>2, <1>3

\* Passing entries by changes nothing of them but the status, and no status
\* to approved.
LEMMA ExpiredBeforeKeeps ==
    ASSUME TypeOK, NEW k
    PROVE  /\ ExpiredBefore(k) \in Seq(PendingApproval)
           /\ Len(ExpiredBefore(k)) = Len(pending)
           /\ DOMAIN ExpiredBefore(k) = DOMAIN pending
           /\ \A i \in DOMAIN pending :
                /\ ExpiredBefore(k)[i].message = pending[i].message
                /\ ExpiredBefore(k)[i].callbackId = pending[i].callbackId
                /\ ExpiredBefore(k)[i].status = "approved" => pending[i].status = "approved"
  <1>1. /\ pending \in Seq(PendingApproval)
        /\ DOMAIN pending = 1..Len(pending) /\ Len(pending) \in Nat
        /\ \A i \in DOMAIN pending : pending[i] \in PendingApproval
    BY DEF TypeOK
  <1>2. ASSUME NEW i \in DOMAIN pending
        PROVE  LET entry == ExpiredBefore(k)[i]
               IN  /\ entry \in PendingApproval
                   /\ entry.message = pending[i].message
                   /\ entry.callbackId = pending[i].callbackId
                   /\ entry.status = "approved" => pending[i].status = "approved"
    <2>1. pending[i] \in PendingApproval
      BY <1>1, <1>2
    <2>2. ExpiredBefore(k)[i] = pending[i]
             \/ ExpiredBefore(k)[i] = [pending[i] EXCEPT !.status = "expired"]
      BY <1>2 DEF ExpiredBefore
    <2> QED
      BY <2>1, <2>2 DEF PendingApproval, ApprovalStatus
  <1>3. /\ DOMAIN ExpiredBefore(k) = 1..Len(pending)
        /\ ExpiredBefore(k) = [i \in 1..Len(pending) |-> ExpiredBefore(k)[i]]
    BY <1>1 DEF ExpiredBefore
  <1>4. ExpiredBefore(k) \in Seq(PendingApproval)
    BY <1>1, <1>2, <1>3
  <1>5. Len(ExpiredBefore(k)) = Len(pending)
    BY <1>1, <1>3, <1>4
  <1> QED
    BY <1>1, <1>2, <1>3, <1>4, <1>5

-----------------------------------------------------------------------------
(* The inductive invariant *)

\* What the poller still has to handle is what the user has sent, and presses
\* are of messages of the chat.
InboxInv ==
    /\ inbox \in Seq(Update)
    /\ \A k \in DOMAIN inbox : \E j \in DOMAIN updates : inbox[k] = updates[j]
    /\ \A j \in DOMAIN updates :
            updates[j].kind \in {"approve", "deny"} => updates[j].message \in DOMAIN messages

\* The entries of the list are messages in the order they were sent, each with
\* the id of its buttons, and the approved ones have been approved.
ListInv ==
    /\ \A i, j \in DOMAIN pending : i < j => pending[i].message < pending[j].message
    /\ \A i \in DOMAIN pending :
            /\ pending[i].callbackId = messages[pending[i].message]
            /\ pending[i].status = "approved" => pending[i].callbackId \in ApprovedLabels

\* No entry the runner has still to pass has become an order.
CursorInv ==
    /\ phase # "executing" => cursor = 1
    /\ phase # "idle" =>
            \A i \in DOMAIN pending :
                i >= cursor => \A k \in DOMAIN ordered : ordered[k] # pending[i].message

\* Within one life of the process the ids are the numbers of the messages.
IdsInv ==
    /\ restarts \in Nat
    /\ restarts = 0 => /\ counter = Len(messages)
                       /\ \A m \in DOMAIN messages : messages[m] = m

\* Within one life of the process the inbox is the part of the user's updates
\* that follows the handled ones, and the manual flag is as they say.
HaltInv ==
    restarts = 0 => /\ lastUpdateId \in confirmed..Len(updates)
                    /\ Len(inbox) <= lastUpdateId
                    /\ \A k \in DOMAIN inbox : inbox[k] = updates[Handled + k]
                    /\ HaltInForce => manuallyHalted

IInv == TypeOK /\ InboxInv /\ ListInv /\ CursorInv /\ IdsInv /\ HaltInv

LEMMA InitIInv == Init => IInv
  <1> SUFFICES ASSUME Init PROVE IInv
    OBVIOUS
  <1>1. TypeOK
    <2>1. \A S : <<>> \in Seq(S)
      OBVIOUS
    <2>2. Len(<<>>) = 0
      OBVIOUS
    <2>3. /\ cursor \in 1..(Len(pending) + 1)
          /\ counter \in 0..Len(messages)
          /\ Len(inbox) <= Len(updates) - confirmed
          /\ confirmed \in 0..Len(updates)
      BY <2>2 DEF Init
    <2> QED
      BY <2>1, <2>3 DEF Init, TypeOK, Phase
  <1>2. InboxInv /\ ListInv /\ CursorInv /\ IdsInv
    BY DEF Init, InboxInv, ListInv, CursorInv, IdsInv
  <1>3. HaltInv
    BY DEF Init, HaltInv, HaltInForce, Handled
  <1> QED
    BY <1>1, <1>2, <1>3 DEF IInv

\* What the types say of the lengths.
LEMMA Lengths ==
    ASSUME IInv
    PROVE  /\ Len(pending) \in Nat /\ DOMAIN pending = 1..Len(pending)
           /\ Len(messages) \in Nat /\ DOMAIN messages = 1..Len(messages)
           /\ Len(updates) \in Nat /\ DOMAIN updates = 1..Len(updates)
           /\ Len(ordered) \in Nat /\ DOMAIN ordered = 1..Len(ordered)
           /\ Len(inbox) \in Nat /\ DOMAIN inbox = 1..Len(inbox)
           /\ cursor \in 1..(Len(pending) + 1)
           /\ confirmed \in Nat /\ lastUpdateId \in Nat
           /\ \A i \in DOMAIN pending : pending[i] \in PendingApproval
           /\ \A i \in DOMAIN pending : pending[i].message \in DOMAIN messages
  <1>1. /\ pending \in Seq(PendingApproval) /\ messages \in Seq(Nat \ {0})
        /\ updates \in Seq(Update) /\ ordered \in Seq(DOMAIN messages)
        /\ inbox \in Seq(Update)
        /\ cursor \in 1..(Len(pending) + 1)
        /\ confirmed \in 0..Len(updates)
        /\ lastUpdateId \in confirmed..Len(updates) \/ lastUpdateId = 0
    BY DEF IInv, TypeOK, InboxInv
  <1>2. /\ Len(pending) \in Nat /\ DOMAIN pending = 1..Len(pending)
        /\ Len(messages) \in Nat /\ DOMAIN messages = 1..Len(messages)
        /\ Len(updates) \in Nat /\ DOMAIN updates = 1..Len(updates)
        /\ Len(ordered) \in Nat /\ DOMAIN ordered = 1..Len(ordered)
        /\ Len(inbox) \in Nat /\ DOMAIN inbox = 1..Len(inbox)
        /\ \A i \in DOMAIN pending : pending[i] \in PendingApproval
    BY <1>1
  <1>3. \A i \in DOMAIN pending : pending[i].message \in DOMAIN messages
    BY <1>2 DEF PendingApproval
  <1> QED
    BY <1>1, <1>2, <1>3

-----------------------------------------------------------------------------
(* What the steps do to the list, the chat and the updates *)

\* SendNext leaves the list alone, or adds a new last message to it.
LEMMA SendNextSends ==
    ASSUME IInv, SendNext
    PROVE  \/ UNCHANGED <<counter, messages, pending>>
           \/ LET n == Len(messages) + 1 IN
              /\ counter' = counter + 1
              /\ messages' \in Seq(Nat \ {0})
              /\ messages' = Append(messages, counter')
              /\ Len(messages') = n /\ DOMAIN messages' = 1..n
              /\ \A m \in 1..Len(messages) : messages'[m] = messages[m]
              /\ messages'[n] = counter'
              /\ Len(pending') = Len(pending) + 1
              /\ \A i \in 1..Len(pending) : pending'[i] = pending[i]
              /\ pending'[Len(pending) + 1] =
                    [message |-> n, callbackId |-> counter', status |-> "pending"]
              /\ pending' \in Seq(PendingApproval')
  <1> DEFINE n == Len(messages) + 1
             entry == [message |-> n, callbackId |-> counter', status |-> "pending"]
  <1> SUFFICES ASSUME Head(toSend) \notin OverCap
               PROVE  /\ counter' = counter + 1
                      /\ messages' \in Seq(Nat \ {0})
                      /\ messages' = Append(messages, counter')
                      /\ Len(messages') = n /\ DOMAIN messages' = 1..n
                      /\ \A m \in 1..Len(messages) : messages'[m] = messages[m]
                      /\ messages'[n] = counter'
                      /\ Len(pending') = Len(pending) + 1
                      /\ \A i \in 1..Len(pending) : pending'[i] = pending[i]
                      /\ pending'[Len(pending) + 1] = entry
                      /\ pending' \in Seq(PendingApproval')
    BY DEF SendNext
  <1>1. /\ messages \in Seq(Nat \ {0}) /\ pending \in Seq(PendingApproval)
        /\ counter \in 0..Len(messages) /\ Len(messages) \in Nat
        /\ DOMAIN messages = 1..Len(messages)
    BY Lengths DEF IInv, TypeOK
  <1>2. /\ counter' = counter + 1
        /\ messages' = Append(messages, counter')
        /\ pending' = Append(pending, [message |-> Len(messages'), callbackId |-> counter',
                                        status |-> "pending"])
    BY DEF SendNext
  <1>3. counter' \in Nat \ {0}
    BY <1>1, <1>2
  <1>4. /\ messages' \in Seq(Nat \ {0})
        /\ Len(messages') = n /\ DOMAIN messages' = 1..n
        /\ \A m \in 1..Len(messages) : messages'[m] = messages[m]
        /\ messages'[n] = counter'
    BY <1>1, <1>2, <1>3
  <1>5. PendingApproval \subseteq PendingApproval'
    BY <1>1, <1>4 DEF PendingApproval
  <1>6. entry \in PendingApproval'
    BY <1>1, <1>3, <1>4 DEF PendingApproval, ApprovalStatus
  <1>7. pending \in Seq(PendingApproval') /\ pending' = Append(pending, entry)
    BY <1>1, <1>2, <1>4, <1>5
  <1>8. /\ pending' \in Seq(PendingApproval')
        /\ Len(pending') = Len(pending) + 1
        /\ \A i \in 1..Len(pending) : pending'[i] = pending[i]
        /\ pending'[Len(pending) + 1] = entry
    <2> HIDE DEF entry
    <2> QED
      BY <1>6, <1>7
  <1> QED
    BY <1>2, <1>4, <1>8

\* ExecuteNext and ExecuteRaises order the entry NextApproved points at or
\* nothing, and leave the entries as they were but for the expired ones.
LEMMA ExecutionSteps ==
    ASSUME IInv, ExecuteNext \/ ExecuteRaises
    PROVE  /\ phase = "executing"
           /\ NextApproved \in cursor..Len(pending)
           /\ pending[NextApproved].status = "approved"
           /\ pending' = ExpiredBefore(NextApproved)
           /\ resolved' \subseteq resolved \union {pending[NextApproved].message}
           /\ \/ UNCHANGED ordered
              \/ ~manuallyHalted /\ ordered' = Append(ordered, pending[NextApproved].message)
           /\ \/ phase' = phase /\ cursor' = NextApproved + 1
              \/ phase' = "idle" /\ cursor' = 1
           /\ UNCHANGED <<counter, manuallyHalted, lastUpdateId, inbox, messages, updates,
                          confirmed, restarts>>
  <1>1. NextApproved <= Len(pending)
    BY DEF ExecuteNext, ExecuteRaises
  <1>2. /\ NextApproved \in cursor..Len(pending)
        /\ pending[NextApproved].status = "approved"
    BY <1>1, NextApprovedIsApproved DEF IInv
  <1> QED
    BY <1>2 DEF ExecuteNext, ExecuteRaises, worldVars

\* A press changes the status of the entries with its callback id, and nothing
\* else of the list.
LEMMA PressKeeps ==
    ASSUME IInv, NEW update, update.kind \in {"approve", "deny"}, ProcessCallback(update)
    PROVE  /\ pending' \in Seq(PendingApproval)
           /\ Len(pending') = Len(pending) /\ DOMAIN pending' = DOMAIN pending
           /\ \A i \in DOMAIN pending :
                /\ pending'[i].message = pending[i].message
                /\ pending'[i].callbackId = pending[i].callbackId
                /\ pending'[i].status = "approved" =>
                        \/ pending[i].status = "approved"
                        \/ /\ update.kind = "approve"
                           /\ pending[i].callbackId = messages[update.message]
  <1>1. /\ DOMAIN pending = 1..Len(pending) /\ Len(pending) \in Nat
        /\ \A i \in DOMAIN pending : pending[i] \in PendingApproval
    BY Lengths
  <1>2. ASSUME NEW i \in DOMAIN pending
        PROVE  /\ pending'[i] \in PendingApproval
               /\ pending'[i].message = pending[i].message
               /\ pending'[i].callbackId = pending[i].callbackId
               /\ pending'[i].status = "approved" =>
                        \/ pending[i].status = "approved"
                        \/ /\ update.kind = "approve"
                           /\ pending[i].callbackId = messages[update.message]
    <2> DEFINE answer == IF update.kind = "approve" THEN "approved" ELSE "denied"
    <2>1. pending[i] \in PendingApproval
      BY <1>1, <1>2
    <2>2. \/ pending'[i] = pending[i]
          \/ /\ pending[i].callbackId = messages[update.message]
             /\ pending'[i] = [pending[i] EXCEPT !.status = answer]
      BY <1>2 DEF ProcessCallback
    <2>3. answer \in ApprovalStatus /\ (answer = "approved" => update.kind = "approve")
      BY DEF ApprovalStatus
    <2> HIDE DEF answer
    <2> QED
      BY <2>1, <2>2, <2>3 DEF PendingApproval
  <1>3. /\ DOMAIN pending' = 1..Len(pending)
        /\ pending' = [i \in 1..Len(pending) |-> pending'[i]]
    BY <1>1 DEF ProcessCallback
  <1>4. pending' \in Seq(PendingApproval)
    BY <1>1, <1>2, <1>3
  <1>5. Len(pending') = Len(pending)
    BY <1>1, <1>3, <1>4
  <1> QED
    BY <1>1, <1>2, <1>3, <1>4, <1>5

\* HandleUpdate takes the head of the inbox: a press the user made, or a
\* command, which leaves the list alone.
LEMMA UpdateHandled ==
    ASSUME IInv, HandleUpdate
    PROVE  /\ Len(inbox) > 0
           /\ inbox' \in Seq(Update) /\ Len(inbox') = Len(inbox) - 1
           /\ \A k \in 1..Len(inbox') : inbox'[k] = inbox[k + 1]
           /\ \E j \in DOMAIN updates : inbox[1] = updates[j]
           /\ \/ /\ inbox[1].kind \in {"approve", "deny"}
                 /\ ProcessCallback(inbox[1])
              \/ /\ inbox[1].kind \in {"halt", "resume"}
                 /\ manuallyHalted' = (inbox[1].kind = "halt")
                 /\ UNCHANGED pending
           /\ UNCHANGED <<phase, cursor, counter, lastUpdateId, messages, updates, confirmed,
                          restarts, ordered, resolved>>
  <1>1. inbox \in Seq(Update) /\ inbox # <<>>
    BY DEF IInv, InboxInv, HandleUpdate
  <1>2. /\ Len(inbox) > 0 /\ Head(inbox) = inbox[1] /\ inbox[1] \in Update
        /\ Tail(inbox) \in Seq(Update) /\ Len(Tail(inbox)) = Len(inbox) - 1
        /\ \A k \in 1..Len(Tail(inbox)) : Tail(inbox)[k] = inbox[k + 1]
        /\ 1 \in DOMAIN inbox
    BY <1>1
  <1>3. inbox[1].kind \in {"approve", "deny", "halt", "resume"}
    BY <1>2 DEF Update
  <1>4. \E j \in DOMAIN updates : inbox[1] = updates[j]
    BY <1>2 DEF IInv, InboxInv
  <1> QED
    BY <1>2, <1>3, <1>4 DEF HandleUpdate, HandleCommand, worldVars, historyVars

\* Poll fetches what follows the updates the bot knows to be handled.
LEMMA PollFetches ==
    ASSUME IInv, Poll
    PROVE  \E seen \in Nat :
              /\ seen = IF lastUpdateId > confirmed THEN lastUpdateId ELSE confirmed
              /\ inbox = <<>>
              /\ confirmed' = seen /\ seen < Len(updates)
              /\ inbox' \in Seq(Update) /\ Len(inbox') = Len(updates) - seen
              /\ \A k \in 1..Len(inbox') : inbox'[k] = updates[seen + k]
              /\ lastUpdateId' = Len(updates)
              /\ UNCHANGED <<phase, pending, cursor, counter, manuallyHalted, messages,
                             updates, restarts, ordered, resolved>>
  <1> DEFINE seen == IF lastUpdateId > confirmed THEN lastUpdateId ELSE confirmed
  <1>1. updates \in Seq(Update) /\ Len(updates) \in Nat /\ seen \in Nat
    BY Lengths DEF IInv, TypeOK
  <1>2. /\ inbox = <<>> /\ seen < Len(updates) /\ confirmed' = seen
        /\ inbox' = SubSeq(updates, seen + 1, Len(updates))
        /\ lastUpdateId' = Len(updates)
        /\ UNCHANGED <<phase, pending, cursor, counter, manuallyHalted, messages,
                       updates, restarts, ordered, resolved>>
    BY DEF Poll, historyVars
  <1> HIDE DEF seen
  <1>3. /\ inbox' \in Seq(Update) /\ Len(inbox') = Len(updates) - seen
        /\ \A k \in 1..Len(inbox') : inbox'[k] = updates[seen + k]
    BY <1>1, <1>2
  <1> QED
    BY <1>1, <1>2, <1>3 DEF seen

\* UserActs adds an update, of a message of the chat if it is a press.
LEMMA UserAdds ==
    ASSUME IInv, UserActs
    PROVE  /\ updates' \in Seq(Update) /\ Len(updates') = Len(updates) + 1
           /\ DOMAIN updates' = 1..(Len(updates) + 1)
           /\ \A j \in 1..Len(updates) : updates'[j] = updates[j]
           /\ updates'[Len(updates) + 1].kind \in {"approve", "deny"} =>
                    updates'[Len(updates) + 1].message \in DOMAIN messages
           /\ UNCHANGED <<phase, pending, cursor, counter, manuallyHalted, lastUpdateId, inbox,
                          messages, confirmed, restarts, ordered, resolved>>
  <1>1. PICK update \in [kind: {"approve", "deny"}, message: DOMAIN messages]
                          \union [kind: {"halt", "resume"}, message: {0}] :
              updates' = Append(updates, update)
    BY DEF UserActs
  <1>2. DOMAIN messages \subseteq Nat \ {0}
    BY Lengths
  <1>3. /\ update \in Update
        /\ update.kind \in {"approve", "deny"} => update.message \in DOMAIN messages
    BY <1>1, <1>2 DEF Update
  <1>4. updates \in Seq(Update) /\ Len(updates) \in Nat
    BY Lengths DEF IInv, TypeOK
  <1>5. /\ updates' \in Seq(Update) /\ Len(updates') = Len(updates) + 1
        /\ DOMAIN updates' = 1..(Len(updates) + 1)
        /\ \A j \in 1..Len(updates) : updates'[j] = updates[j]
        /\ updates'[Len(updates) + 1] = update
    BY <1>1, <1>3, <1>4
  <1> QED
    BY <1>3, <1>5 DEF UserActs, processVars, historyVars

\* The steps that leave the chat, the updates and the orders alone, and keep the
\* list or drop it.
LEMMA QuietSteps ==
    ASSUME IInv, BeginSending \/ EndSending \/ BeginExecuting \/ Restart \/ UNCHANGED vars
    PROVE  /\ UNCHANGED <<messages, updates, confirmed, ordered, resolved>>
           /\ \/ UNCHANGED <<counter, manuallyHalted, lastUpdateId, inbox, restarts>>
              \/ /\ counter' = 0 /\ manuallyHalted' = FALSE /\ lastUpdateId' = 0
                 /\ inbox' = <<>> /\ restarts' = restarts + 1
           /\ \/ pending' = pending /\ cursor' = cursor /\ (phase' # "idle" => phase # "idle")
              \/ pending' = <<>> /\ cursor' = 1
           /\ phase' \in Phase
           /\ phase' # "executing" => cursor' = 1
  <1>1. phase \in Phase /\ (phase # "executing" => cursor = 1)
    BY DEF IInv, TypeOK, CursorInv
  <1>2. CASE BeginSending
    BY <1>1, <1>2 DEF BeginSending, Phase, worldVars
  <1>3. CASE EndSending
    BY <1>1, <1>3 DEF EndSending, Phase, worldVars, historyVars
  <1>4. CASE BeginExecuting
    BY <1>1, <1>4 DEF BeginExecuting, Phase, worldVars, historyVars
  <1>5. CASE Restart
    BY <1>1, <1>5 DEF Restart, Phase, worldVars
  <1>6. CASE UNCHANGED vars
    BY <1>1, <1>6 DEF vars, processVars, worldVars, historyVars
  <1> QED
    BY <1>2, <1>3, <1>4, <1>5, <1>6

\* EndExecuting passes the rest of the list.
LEMMA ExecutionEnds ==
    ASSUME IInv, EndExecuting
    PROVE  /\ pending' = ExpiredBefore(NextApproved)
           /\ phase' = "idle" /\ cursor' = 1
           /\ UNCHANGED <<counter, manuallyHalted, lastUpdateId, inbox, messages, updates,
                          confirmed, restarts, ordered, resolved>>
  BY DEF EndExecuting, worldVars, historyVars

-----------------------------------------------------------------------------
(* Every step keeps the invariant, one conjunct at a time *)

LEMMA TypeStep ==
    ASSUME IInv, [Next]_vars
    PROVE  TypeOK'
  <1>1. /\ pending \in Seq(PendingApproval) /\ messages \in Seq(Nat \ {0})
        /\ updates \in Seq(Update) /\ ordered \in Seq(DOMAIN messages)
        /\ resolved \subseteq DOMAIN messages
        /\ phase \in Phase /\ counter \in 0..Len(messages) /\ manuallyHalted \in BOOLEAN
        /\ confirmed \in 0..Len(updates)
        /\ lastUpdateId \in confirmed..Len(updates) \/ lastUpdateId = 0
        /\ Len(inbox) <= Len(updates) - confirmed
    BY DEF IInv, TypeOK
  <1>3. UNCHANGED messages => PendingApproval' = PendingApproval
    BY DEF PendingApproval
  <1>4. CASE BeginSending \/ EndSending \/ BeginExecuting \/ Restart \/ UNCHANGED vars
    <2>1. /\ UNCHANGED <<messages, updates, confirmed, ordered, resolved>>
          /\ \/ pending' = pending /\ cursor' = cursor
             \/ pending' = <<>> /\ cursor' = 1
          /\ phase' \in Phase
          /\ \/ UNCHANGED <<counter, manuallyHalted, lastUpdateId, inbox>>
             \/ /\ counter' = 0 /\ manuallyHalted' = FALSE /\ lastUpdateId' = 0
                /\ inbox' = <<>>
      BY <1>4, QuietSteps
    <2>2. PendingApproval' = PendingApproval
      BY <1>3, <2>1
    <2>3. pending' \in Seq(PendingApproval') /\ cursor' \in 1..(Len(pending') + 1)
      <3>1. CASE pending' = pending /\ cursor' = cursor
        BY <1>1, <2>2, <3>1, Lengths
      <3>2. CASE pending' = <<>> /\ cursor' = 1
        BY <3>2
      <3> QED
        BY <2>1, <3>1, <3>2
    <2>4. /\ Len(inbox') <= Len(updates') - confirmed'
          /\ counter' \in 0..Len(messages') /\ manuallyHalted' \in BOOLEAN
          /\ lastUpdateId' \in confirmed'..Len(updates') \/ lastUpdateId' = 0
      <3>1. CASE /\ counter' = 0 /\ manuallyHalted' = FALSE /\ lastUpdateId' = 0
                 /\ inbox' = <<>>
        <4>1. Len(inbox') = 0 /\ Len(messages') = Len(messages)
          BY <2>1, <3>1
        <4>2. 0 <= Len(updates') - confirmed'
          BY <1>1, <2>1, Lengths
        <4>3. 0 \in 0..Len(messages)
          BY Lengths
        <4> QED
          BY <3>1, <4>1, <4>2, <4>3
      <3>2. CASE UNCHANGED <<counter, manuallyHalted, lastUpdateId, inbox>>
        BY <1>1, <2>1, <3>2
      <3> QED
        BY <2>1, <3>1, <3>2
    <2>5. /\ messages' \in Seq(Nat \ {0}) /\ updates' \in Seq(Update)
          /\ ordered' \in Seq(DOMAIN messages') /\ resolved' \subseteq DOMAIN messages'
          /\ confirmed' \in 0..Len(updates')
      BY <1>1, <2>1
    <2> QED
      BY <2>1, <2>3, <2>4, <2>5 DEF TypeOK
  <1>5. CASE SendNext
    <2>1. UNCHANGED <<phase, cursor, manuallyHalted, lastUpdateId, inbox, updates, confirmed,
                      ordered, resolved>>
      BY <1>5 DEF SendNext, historyVars
    <2>2. CASE UNCHANGED <<counter, messages, pending>>
      BY <1>1, <1>3, <2>1, <2>2, Lengths DEF TypeOK
    <2>3. CASE ~UNCHANGED <<counter, messages, pending>>
      <3>1. DOMAIN messages \subseteq DOMAIN messages'
        BY <1>5, <2>3, Lengths, SendNextSends
      <3>2. ordered' \in Seq(DOMAIN messages') /\ resolved' \subseteq DOMAIN messages'
        BY <1>1, <2>1, <3>1
      <3>3. /\ messages' \in Seq(Nat \ {0}) /\ pending' \in Seq(PendingApproval')
            /\ Len(pending') = Len(pending) + 1 /\ Len(messages') = Len(messages) + 1
            /\ counter' = counter + 1
        BY <1>5, <2>3, SendNextSends
      <3>4. cursor' \in 1..(Len(pending') + 1) /\ counter' \in 0..Len(messages')
        BY <1>1, <2>1, <3>3, Lengths
      <3>5. /\ phase' \in Phase /\ manuallyHalted' \in BOOLEAN
            /\ confirmed' \in 0..Len(updates') /\ updates' \in Seq(Update)
            /\ lastUpdateId' \in confirmed'..Len(updates') \/ lastUpdateId' = 0
            /\ Len(inbox') <= Len(updates') - confirmed'
        BY <1>1, <2>1
      <3> QED
        BY <3>2, <3>3, <3>4, <3>5 DEF TypeOK
    <2> QED
      BY <2>2, <2>3
  <1>6. CASE ExecuteNext \/ ExecuteRaises
    <2>1. pending' \in Seq(PendingApproval') /\ Len(pending') = Len(pending)
      BY <1>3, <1>6, ExecutionSteps, ExpiredBeforeKeeps DEF IInv
    <2>2. pending[NextApproved].message \in DOMAIN messages
      BY <1>6, ExecutionSteps, Lengths
    <2>3. ordered' \in Seq(DOMAIN messages) /\ resolved' \subseteq DOMAIN messages
      <3>1. /\ resolved' \subseteq resolved \union {pending[NextApproved].message}
            /\ \/ ordered' = ordered
               \/ ordered' = Append(ordered, pending[NextApproved].message)
        BY <1>6, ExecutionSteps
      <3>2. Append(ordered, pending[NextApproved].message) \in Seq(DOMAIN messages)
        BY <1>1, <2>2
      <3> QED
        BY <1>1, <2>2, <3>1, <3>2
    <2>4. cursor' \in 1..(Len(pending) + 1) /\ phase' \in Phase
      BY <1>1, <1>6, ExecutionSteps, Lengths DEF Phase
    <2> QED
      BY <1>1, <1>6, <2>1, <2>3, <2>4, ExecutionSteps DEF TypeOK
  <1>7. CASE EndExecuting
    <2>1. pending' \in Seq(PendingApproval') /\ Len(pending') = Len(pending)
      BY <1>3, <1>7, ExecutionEnds, ExpiredBeforeKeeps DEF IInv
    <2> QED
      BY <1>1, <1>7, <2>1, ExecutionEnds, Lengths DEF TypeOK, Phase
  <1>8. CASE Poll
    <2>0. PICK seen \in Nat :
            /\ confirmed' = seen /\ seen < Len(updates)
            /\ Len(inbox') = Len(updates) - seen
            /\ lastUpdateId' = Len(updates)
            /\ UNCHANGED <<phase, pending, cursor, counter, manuallyHalted, messages,
                           updates, ordered, resolved>>
      BY <1>8, PollFetches
    <2>1. /\ confirmed' \in 0..Len(updates) /\ lastUpdateId' = Len(updates)
          /\ Len(inbox') <= Len(updates) - confirmed'
          /\ UNCHANGED <<phase, pending, cursor, counter, manuallyHalted, messages,
                         updates, ordered, resolved>>
      BY <2>0, Lengths
    <2>2. lastUpdateId' \in confirmed'..Len(updates')
      BY <2>1, Lengths
    <2>3. pending' \in Seq(PendingApproval') /\ cursor' \in 1..(Len(pending') + 1)
      BY <1>1, <1>3, <2>1, Lengths
    <2> QED
      BY <1>1, <2>1, <2>2, <2>3 DEF TypeOK
  <1>9. CASE HandleUpdate
    <2>1. pending' \in Seq(PendingApproval') /\ Len(pending') = Len(pending)
      BY <1>1, <1>3, <1>9, UpdateHandled, PressKeeps
    <2>2. manuallyHalted' \in BOOLEAN
      BY <1>1, <1>9, UpdateHandled DEF ProcessCallback
    <2> QED
      BY <1>1, <1>9, <2>1, <2>2, UpdateHandled, Lengths DEF TypeOK
  <1>10. CASE UserActs
    BY <1>1, <1>3, <1>10, UserAdds, Lengths DEF TypeOK
  <1> QED
    BY <1>4, <1>5, <1>6, <1>7, <1>8, <1>9, <1>10 DEF Next

LEMMA InboxStep ==
    ASSUME IInv, [Next]_vars
    PROVE  InboxInv'
  <1>1. /\ inbox \in Seq(Update)
        /\ \A k \in DOMAIN inbox : \E j \in DOMAIN updates : inbox[k] = updates[j]
        /\ \A j \in DOMAIN updates :
                updates[j].kind \in {"approve", "deny"} => updates[j].message \in DOMAIN messages
    BY DEF IInv, InboxInv
  <1>2. CASE UNCHANGED <<messages, updates>> /\ inbox' = <<>>
    BY <1>1, <1>2 DEF InboxInv
  <1>3. CASE UNCHANGED <<messages, updates, inbox>>
    BY <1>1, <1>3 DEF InboxInv
  <1>4. CASE SendNext
    <2>1. UNCHANGED <<updates, inbox>> /\ DOMAIN messages \subseteq DOMAIN messages'
      BY <1>4, SendNextSends, Lengths DEF SendNext
    <2> QED
      BY <1>1, <2>1 DEF InboxInv
  <1>5. CASE Poll
    <2>1. PICK seen \in Nat :
            /\ seen < Len(updates)
            /\ inbox' \in Seq(Update) /\ Len(inbox') = Len(updates) - seen
            /\ \A k \in 1..Len(inbox') : inbox'[k] = updates[seen + k]
            /\ UNCHANGED <<messages, updates>>
      BY <1>5, PollFetches
    <2>2. DOMAIN inbox' = 1..Len(inbox')
      BY <2>1
    <2>3. \A k \in DOMAIN inbox' : seen + k \in DOMAIN updates'
      BY <2>1, <2>2, Lengths
    <2> QED
      BY <1>1, <2>1, <2>2, <2>3 DEF InboxInv
  <1>6. CASE HandleUpdate
    <2>1. /\ inbox' \in Seq(Update) /\ Len(inbox') = Len(inbox) - 1
          /\ \A k \in 1..Len(inbox') : inbox'[k] = inbox[k + 1]
          /\ UNCHANGED <<messages, updates>>
      BY <1>6, UpdateHandled
    <2>2. DOMAIN inbox' = 1..Len(inbox')
      BY <2>1
    <2>3. \A k \in DOMAIN inbox' : k + 1 \in DOMAIN inbox
      BY <2>1, <2>2, Lengths
    <2> QED
      BY <1>1, <2>1, <2>2, <2>3 DEF InboxInv
  <1>7. CASE UserActs
    <2>1. /\ DOMAIN updates' = 1..(Len(updates) + 1)
          /\ \A j \in 1..Len(updates) : updates'[j] = updates[j]
          /\ updates'[Len(updates) + 1].kind \in {"approve", "deny"} =>
                    updates'[Len(updates) + 1].message \in DOMAIN messages
          /\ UNCHANGED <<inbox, messages>>
      BY <1>7, UserAdds
    <2>2. \A j \in DOMAIN updates' : j \in DOMAIN updates \/ j = Len(updates) + 1
      BY <2>1, Lengths
    <2>3. \A j \in DOMAIN updates : j \in DOMAIN updates' /\ updates'[j] = updates[j]
      BY <2>1, Lengths
    <2> QED
      BY <1>1, <2>1, <2>2, <2>3 DEF InboxInv
  <1>8. CASE ExecuteNext \/ ExecuteRaises \/ EndExecuting
    BY <1>3, <1>8, ExecutionSteps, ExecutionEnds
  <1>9. CASE BeginSending \/ EndSending \/ BeginExecuting \/ Restart \/ UNCHANGED vars
    BY <1>2, <1>3, <1>9, QuietSteps
  <1> QED
    BY <1>4, <1>5, <1>6, <1>7, <1>8, <1>9 DEF Next

\* Labels stay approved, for messages and updates are only added to.
LEMMA LabelsStay ==
    ASSUME IInv, [Next]_vars
    PROVE  /\ ApprovedLabels \subseteq ApprovedLabels'
           /\ DOMAIN messages \subseteq DOMAIN messages'
           /\ \A m \in DOMAIN messages : messages'[m] = messages[m]
           /\ DOMAIN updates \subseteq DOMAIN updates'
           /\ \A j \in DOMAIN updates : updates'[j] = updates[j]
  <1>1. /\ DOMAIN messages \subseteq DOMAIN messages'
        /\ \A m \in DOMAIN messages : messages'[m] = messages[m]
    <2>1. CASE SendNext
      BY <2>1, SendNextSends, Lengths
    <2>2. CASE UNCHANGED messages
      BY <2>2
    <2> QED
      BY <2>1, <2>2, QuietSteps, ExecutionSteps, ExecutionEnds, PollFetches, UpdateHandled, UserAdds
         DEF Next
  <1>2. /\ DOMAIN updates \subseteq DOMAIN updates'
        /\ \A j \in DOMAIN updates : updates'[j] = updates[j]
    <2>1. CASE UserActs
      BY <2>1, UserAdds, Lengths
    <2>2. CASE UNCHANGED updates
      BY <2>2
    <2>3. CASE SendNext
      BY <2>3 DEF SendNext
    <2> QED
      BY <2>1, <2>2, <2>3, QuietSteps, ExecutionSteps, ExecutionEnds, PollFetches, UpdateHandled
         DEF Next
  <1>3. ASSUME NEW j \in DOMAIN updates, updates[j].kind = "approve"
        PROVE  /\ updates'[j].kind = "approve"
               /\ messages'[updates'[j].message] = messages[updates[j].message]
    <2>1. updates[j].message \in DOMAIN messages
      BY <1>3 DEF IInv, InboxInv
    <2> QED
      BY <1>1, <1>2, <1>3, <2>1
  <1> QED
    BY <1>1, <1>2, <1>3 DEF ApprovedLabels

LEMMA ListStep ==
    ASSUME IInv, [Next]_vars
    PROVE  ListInv'
  <1>1. /\ \A i, j \in DOMAIN pending : i < j => pending[i].message < pending[j].message
        /\ \A i \in DOMAIN pending :
                /\ pending[i].callbackId = messages[pending[i].message]
                /\ pending[i].status = "approved" => pending[i].callbackId \in ApprovedLabels
                /\ pending[i].message \in DOMAIN messages
    BY Lengths DEF IInv, ListInv
  <1>2. ASSUME DOMAIN pending' = DOMAIN pending,
               \A i \in DOMAIN pending :
                    /\ pending'[i].message = pending[i].message
                    /\ pending'[i].callbackId = pending[i].callbackId
                    /\ pending'[i].status = "approved" =>
                            \/ pending[i].status = "approved"
                            \/ pending[i].callbackId \in ApprovedLabels
        PROVE  ListInv'
    BY <1>1, <1>2, LabelsStay DEF ListInv
  <1>3. CASE pending' = <<>>
    BY <1>3 DEF ListInv
  <1>4. CASE UNCHANGED pending
    BY <1>2, <1>4
  <1>5. CASE SendNext /\ ~UNCHANGED pending
    <2>1. /\ messages'[Len(messages) + 1] = counter'
          /\ Len(pending') = Len(pending) + 1
          /\ \A i \in 1..Len(pending) : pending'[i] = pending[i]
          /\ pending'[Len(pending) + 1] =
                [message |-> Len(messages) + 1, callbackId |-> counter', status |-> "pending"]
          /\ pending' \in Seq(PendingApproval')
      BY <1>5, SendNextSends
    <2>2. /\ DOMAIN pending' = 1..(Len(pending) + 1)
          /\ \A i \in DOMAIN pending' : i \in DOMAIN pending \/ i = Len(pending) + 1
          /\ \A i \in DOMAIN pending : pending'[i] = pending[i] /\ i < Len(pending) + 1
      BY <2>1, Lengths
    <2>3. \A i \in DOMAIN pending : pending[i].message < Len(messages) + 1
      BY <1>1, Lengths
    <2>4. \A i, j \in DOMAIN pending' : i < j => pending'[i].message < pending'[j].message
      <3> TAKE i, j \in DOMAIN pending'
      <3> HAVE i < j
      <3>1. i \in DOMAIN pending
        BY <2>2, Lengths
      <3>2. CASE j \in DOMAIN pending
        BY <1>1, <2>2, <3>1, <3>2
      <3>3. CASE j = Len(pending) + 1
        <4>1. pending'[i].message = pending[i].message
          BY <2>2, <3>1
        <4>2. pending'[j].message = Len(messages) + 1
          BY <2>1, <3>3
        <4> QED
          BY <2>3, <3>1, <4>1, <4>2
      <3> QED
        BY <2>2, <3>2, <3>3
    <2>5. ASSUME NEW i \in DOMAIN pending'
          PROVE  /\ pending'[i].callbackId = messages'[pending'[i].message]
                 /\ pending'[i].status = "approved" => pending'[i].callbackId \in ApprovedLabels'
      <3>1. CASE i \in DOMAIN pending
        <4>1. pending'[i] = pending[i]
          BY <2>2, <3>1
        <4> QED
          BY <1>1, <3>1, <4>1, LabelsStay
      <3>2. CASE i = Len(pending) + 1
        BY <2>1, <3>2
      <3> QED
        BY <2>2, <2>5, <3>1, <3>2
    <2> QED
      BY <2>4, <2>5 DEF ListInv
  <1>6. CASE ExecuteNext \/ ExecuteRaises \/ EndExecuting
    <2>1. pending' = ExpiredBefore(NextApproved)
      BY <1>6, ExecutionSteps, ExecutionEnds
    <2> QED
      BY <1>2, <2>1, ExpiredBeforeKeeps DEF IInv
  <1>7. CASE HandleUpdate /\ ~UNCHANGED pending
    <2>1. /\ inbox[1].kind \in {"approve", "deny"}
          /\ ProcessCallback(inbox[1])
          /\ \E j \in DOMAIN updates : inbox[1] = updates[j]
      BY <1>7, UpdateHandled
    <2>2. inbox[1].kind = "approve" => messages[inbox[1].message] \in ApprovedLabels
      BY <2>1 DEF ApprovedLabels
    <2> QED
      BY <1>2, <2>1, <2>2, PressKeeps
  <1>8. CASE BeginSending \/ EndSending \/ BeginExecuting \/ Restart \/ UNCHANGED vars
    BY <1>3, <1>4, <1>8, QuietSteps
  <1>9. Poll \/ UserActs => UNCHANGED pending
    BY PollFetches, UserAdds
  <1> QED
    BY <1>4, <1>5, <1>6, <1>7, <1>8, <1>9 DEF Next

LEMMA CursorStep ==
    ASSUME IInv, [Next]_vars
    PROVE  CursorInv'
  <1>1. /\ phase # "executing" => cursor = 1
        /\ phase # "idle" =>
              \A i \in DOMAIN pending :
                  i >= cursor => \A k \in DOMAIN ordered : ordered[k] # pending[i].message
    BY DEF IInv, CursorInv
  <1>2. ASSUME UNCHANGED <<phase, cursor, ordered>>, DOMAIN pending' = DOMAIN pending,
               \A i \in DOMAIN pending : pending'[i].message = pending[i].message
        PROVE  CursorInv'
    BY <1>1, <1>2 DEF CursorInv
  <1>3. CASE phase' = "idle" /\ cursor' = 1
    BY <1>3 DEF CursorInv
  <1>4. CASE BeginSending \/ EndSending \/ BeginExecuting \/ Restart \/ UNCHANGED vars
    <2>1. /\ UNCHANGED ordered
          /\ \/ pending' = pending /\ cursor' = cursor /\ (phase' # "idle" => phase # "idle")
             \/ pending' = <<>> /\ cursor' = 1
          /\ phase' # "executing" => cursor' = 1
      BY <1>4, QuietSteps
    <2> QED
      BY <1>1, <2>1 DEF CursorInv
  <1>5. CASE SendNext
    <2>1. UNCHANGED <<phase, cursor, ordered>> /\ phase = "sending" /\ cursor = 1
      BY <1>1, <1>5 DEF SendNext, historyVars
    <2>2. CASE UNCHANGED pending
      BY <1>2, <2>1, <2>2
    <2>3. CASE ~UNCHANGED pending
      <3>1. /\ Len(pending') = Len(pending) + 1 /\ pending' \in Seq(PendingApproval')
            /\ \A i \in 1..Len(pending) : pending'[i] = pending[i]
            /\ pending'[Len(pending) + 1].message = Len(messages) + 1
        BY <1>5, <2>3, SendNextSends
      <3>2. \A i \in DOMAIN pending' : i \in DOMAIN pending \/ i = Len(pending) + 1
        BY <3>1, Lengths
      <3>3. \A k \in DOMAIN ordered : ordered[k] # Len(messages) + 1
        <4>1. ordered \in Seq(DOMAIN messages)
          BY DEF IInv, TypeOK
        <4>2. \A k \in DOMAIN ordered : ordered[k] \in DOMAIN messages
          BY <4>1
        <4> QED
          BY <4>2, Lengths
      <3>4. ASSUME NEW i \in DOMAIN pending'
            PROVE  \A k \in DOMAIN ordered : ordered[k] # pending'[i].message
        <4>1. CASE i \in DOMAIN pending
          <5>1. pending'[i] = pending[i] /\ i >= cursor
            BY <2>1, <3>1, <4>1, Lengths
          <5> QED
            BY <1>1, <2>1, <4>1, <5>1
        <4> QED
          BY <3>1, <3>2, <3>3, <3>4, <4>1
      <3> QED
        BY <2>1, <3>4 DEF CursorInv
    <2> QED
      BY <2>2, <2>3
  <1>6. CASE ExecuteNext \/ ExecuteRaises
    <2> DEFINE n == NextApproved
    <2>1. /\ phase = "executing" /\ n \in cursor..Len(pending)
          /\ pending' = ExpiredBefore(n)
          /\ \/ UNCHANGED ordered
             \/ ordered' = Append(ordered, pending[n].message)
          /\ \/ phase' = phase /\ cursor' = n + 1
             \/ phase' = "idle" /\ cursor' = 1
      BY <1>6, ExecutionSteps
    <2>2. /\ DOMAIN pending' = DOMAIN pending
          /\ \A i \in DOMAIN pending : pending'[i].message = pending[i].message
      BY <2>1, ExpiredBeforeKeeps DEF IInv
    <2> HIDE DEF n
    <2>3. n \in DOMAIN pending /\ cursor \in Nat /\ n >= cursor
      BY <2>1, Lengths
    <2>4. ordered \in Seq(DOMAIN messages) /\ pending[n].message \in DOMAIN messages
      BY <2>3, Lengths DEF IInv, TypeOK
    <2>5. \A k \in DOMAIN ordered' :
              \/ k \in DOMAIN ordered /\ ordered'[k] = ordered[k]
              \/ ordered'[k] = pending[n].message
      BY <2>1, <2>4
    <2>6. ASSUME phase' = "executing", NEW i \in DOMAIN pending, i >= n + 1,
                 NEW k \in DOMAIN ordered'
          PROVE  ordered'[k] # pending[i].message
      <3>1. i \in Nat /\ i > n /\ i >= cursor
        BY <2>3, <2>6, Lengths
      <3>2. pending[n].message < pending[i].message
        BY <2>3, <2>6, <3>1 DEF IInv, ListInv
      <3>3. pending[n].message # pending[i].message
        <4>1. pending[n].message \in Nat /\ pending[i].message \in Nat
          BY <2>3, <2>6, Lengths
        <4> QED
          BY <3>2, <4>1
      <3>4. k \in DOMAIN ordered => ordered[k] # pending[i].message
        BY <1>1, <2>1, <2>6, <3>1
      <3> QED
        BY <2>5, <2>6, <3>3, <3>4
    <2>7. CASE phase' = phase /\ cursor' = n + 1
      BY <2>1, <2>2, <2>6, <2>7 DEF CursorInv
    <2> QED
      BY <1>3, <2>1, <2>7
  <1>7. CASE HandleUpdate
    <2>1. /\ DOMAIN pending' = DOMAIN pending
          /\ \A i \in DOMAIN pending : pending'[i].message = pending[i].message
      BY <1>7, UpdateHandled, PressKeeps
    <2> QED
      BY <1>2, <1>7, <2>1, UpdateHandled
  <1>8. CASE Poll \/ UserActs
    BY <1>2, <1>8, PollFetches, UserAdds
  <1>9. CASE EndExecuting
    BY <1>3, <1>9, ExecutionEnds
  <1> QED
    BY <1>4, <1>5, <1>6, <1>7, <1>8, <1>9 DEF Next

LEMMA IdsStep ==
    ASSUME IInv, [Next]_vars
    PROVE  IdsInv'
  <1>1. /\ restarts \in Nat
        /\ restarts = 0 => /\ counter = Len(messages)
                           /\ \A m \in DOMAIN messages : messages[m] = m
    BY DEF IInv, IdsInv
  <1>2. CASE UNCHANGED <<restarts, counter, messages>>
    BY <1>1, <1>2 DEF IdsInv
  <1>3. CASE restarts' = restarts + 1
    <2>1. restarts' \in Nat /\ restarts' # 0
      BY <1>1, <1>3
    <2> QED
      BY <2>1 DEF IdsInv
  <1>4. CASE SendNext /\ ~UNCHANGED <<counter, messages, pending>>
    <2>1. /\ counter' = counter + 1
          /\ Len(messages') = Len(messages) + 1 /\ DOMAIN messages' = 1..(Len(messages) + 1)
          /\ \A m \in 1..Len(messages) : messages'[m] = messages[m]
          /\ messages'[Len(messages) + 1] = counter'
      BY <1>4, SendNextSends
    <2>2. restarts' = restarts
      BY <1>4 DEF SendNext, historyVars
    <2>3. \A m \in DOMAIN messages' : m \in 1..Len(messages) \/ m = Len(messages) + 1
      BY <2>1, Lengths
    <2> QED
      BY <1>1, <2>1, <2>2, <2>3, Lengths DEF IdsInv
  <1>5. CASE SendNext /\ UNCHANGED <<counter, messages, pending>>
    BY <1>2, <1>5 DEF SendNext, historyVars
  <1>6. CASE BeginSending \/ EndSending \/ BeginExecuting \/ Restart \/ UNCHANGED vars
    BY <1>2, <1>3, <1>6, QuietSteps
  <1>7. CASE ExecuteNext \/ ExecuteRaises \/ EndExecuting
    BY <1>2, <1>7, ExecutionSteps, ExecutionEnds
  <1>8. CASE Poll \/ HandleUpdate \/ UserActs
    <2>1. UNCHANGED <<restarts, counter, messages>>
      BY <1>8 DEF Poll, HandleUpdate, UserActs, worldVars, processVars, historyVars
    <2> QED
      BY <1>2, <2>1
  <1> QED
    BY <1>4, <1>5, <1>6, <1>7, <1>8 DEF Next

LEMMA HaltStep ==
    ASSUME IInv, [Next]_vars
    PROVE  HaltInv'
  <1> SUFFICES ASSUME restarts' = 0 PROVE HaltInv'
    BY DEF HaltInv
  <1>1. CASE /\ restarts = 0
             /\ UNCHANGED <<lastUpdateId, inbox, updates, manuallyHalted, confirmed>>
    BY <1>1 DEF IInv, HaltInv, HaltInForce, Handled
  <1>2. ASSUME ~Restart PROVE restarts = 0
    <2>1. UNCHANGED restarts
      BY <1>2, ExecutionSteps, ExecutionEnds, PollFetches, UpdateHandled, UserAdds
         DEF Next, BeginSending, SendNext, EndSending, BeginExecuting, vars, historyVars
    <2> QED
      BY <2>1
  <1>3. CASE Restart
    <2>1. restarts' = restarts + 1 /\ restarts \in Nat
      BY <1>3 DEF Restart, IInv, IdsInv
    <2> QED
      BY <2>1
  <1>4. CASE BeginSending \/ SendNext \/ EndSending \/ BeginExecuting \/ UNCHANGED vars
    <2>1. UNCHANGED <<lastUpdateId, inbox, updates, manuallyHalted, confirmed, restarts>>
      BY <1>4 DEF BeginSending, SendNext, EndSending, BeginExecuting, vars, processVars,
                  worldVars, historyVars
    <2> QED
      BY <1>1, <2>1
  <1>5. CASE ExecuteNext \/ ExecuteRaises \/ EndExecuting
    <2>1. UNCHANGED <<lastUpdateId, inbox, updates, manuallyHalted, confirmed, restarts>>
      BY <1>5, ExecutionSteps, ExecutionEnds
    <2> QED
      BY <1>1, <2>1
  <1>6. CASE /\ restarts = 0 /\ (Poll \/ HandleUpdate \/ UserActs)
    <2>1. /\ lastUpdateId \in confirmed..Len(updates) /\ Len(inbox) <= lastUpdateId
          /\ \A k \in DOMAIN inbox : inbox[k] = updates[Handled + k]
          /\ HaltInForce => manuallyHalted
          /\ Handled = lastUpdateId - Len(inbox) /\ Handled \in Nat
      BY <1>6, Lengths DEF IInv, HaltInv, Handled
    <2>2. CASE Poll
      <3>1. PICK seen \in Nat :
              /\ seen = IF lastUpdateId > confirmed THEN lastUpdateId ELSE confirmed
              /\ inbox = <<>>
              /\ confirmed' = seen /\ seen < Len(updates)
              /\ inbox' \in Seq(Update) /\ Len(inbox') = Len(updates) - seen
              /\ \A k \in 1..Len(inbox') : inbox'[k] = updates[seen + k]
              /\ lastUpdateId' = Len(updates)
              /\ UNCHANGED <<manuallyHalted, updates>>
        BY <2>2, PollFetches
      <3>2. seen = lastUpdateId /\ Len(inbox) = 0
        <4>1. Len(inbox) = 0
          BY <3>1
        <4> QED
          BY <2>1, <3>1, <4>1, Lengths
      <3>3. Handled' = seen /\ Handled = seen
        BY <2>1, <3>1, <3>2, Lengths DEF Handled
      <3>4. HaltInForce' = HaltInForce
        BY <3>1, <3>3 DEF HaltInForce
      <3>5. /\ lastUpdateId' \in confirmed'..Len(updates') /\ Len(inbox') <= lastUpdateId'
            /\ DOMAIN inbox' = 1..Len(inbox')
        BY <3>1, Lengths
      <3> QED
        BY <2>1, <3>1, <3>3, <3>4, <3>5 DEF HaltInv
    <2>3. CASE HandleUpdate
      <3>1. /\ Len(inbox) > 0 /\ Len(inbox') = Len(inbox) - 1 /\ inbox' \in Seq(Update)
            /\ \A k \in 1..Len(inbox') : inbox'[k] = inbox[k + 1]
            /\ UNCHANGED <<lastUpdateId, updates, confirmed>>
            /\ \/ inbox[1].kind \in {"approve", "deny"} /\ ProcessCallback(inbox[1])
               \/ /\ inbox[1].kind \in {"halt", "resume"}
                  /\ manuallyHalted' = (inbox[1].kind = "halt")
        BY <2>3, UpdateHandled
      <3>2. Handled' = Handled + 1
        BY <2>1, <3>1, Lengths DEF Handled
      <3>3. inbox[1] = updates[Handled + 1]
        <4>1. 1 \in DOMAIN inbox
          BY <3>1, Lengths
        <4> QED
          BY <2>1, <4>1
      <3>4. \A k \in DOMAIN inbox' : inbox'[k] = updates'[Handled' + k]
        <4> TAKE k \in DOMAIN inbox'
        <4>1. k \in 1..Len(inbox') /\ k + 1 \in DOMAIN inbox /\ k \in Nat
          BY <3>1, Lengths
        <4>2. inbox'[k] = updates[Handled + (k + 1)]
          BY <2>1, <3>1, <4>1
        <4>3. Handled + (k + 1) = Handled' + k
          BY <2>1, <3>2, <4>1
        <4> QED
          BY <3>1, <4>2, <4>3
      <3>5. HaltInForce' => manuallyHalted'
        <4>1. SUFFICES ASSUME NEW i \in 1..(Handled + 1), updates[i].kind = "halt",
                              \A j \in (i + 1)..(Handled + 1) : updates[j].kind # "resume"
                       PROVE  manuallyHalted'
          BY <3>1, <3>2 DEF HaltInForce
        <4>2. CASE i = Handled + 1
          BY <3>1, <3>3, <4>1, <4>2
        <4>3. CASE i # Handled + 1
          <5>1. /\ i \in 1..Handled
                /\ Handled + 1 \in (i + 1)..(Handled + 1)
                /\ \A j \in (i + 1)..Handled : j \in (i + 1)..(Handled + 1)
            BY <2>1, <4>3
          <5>2. manuallyHalted
            BY <2>1, <4>1, <5>1 DEF HaltInForce
          <5>3. inbox[1].kind # "resume"
            BY <3>3, <4>1, <5>1
          <5> QED
            BY <3>1, <5>2, <5>3 DEF ProcessCallback
        <4> QED
          BY <4>2, <4>3
      <3>6. lastUpdateId' \in confirmed'..Len(updates') /\ Len(inbox') <= lastUpdateId'
        BY <2>1, <3>1, Lengths
      <3> QED
        BY <3>4, <3>5, <3>6 DEF HaltInv
    <2>4. CASE UserActs
      <3>1. /\ Len(updates') = Len(updates) + 1
            /\ \A j \in 1..Len(updates) : updates'[j] = updates[j]
            /\ UNCHANGED <<manuallyHalted, lastUpdateId, inbox, confirmed>>
        BY <2>4, UserAdds
      <3>2. Handled' = Handled
        BY <3>1 DEF Handled
      <3>3. \A j \in 1..Handled : updates'[j] = updates[j]
        BY <2>1, <3>1, Lengths
      <3>4. \A k \in DOMAIN inbox' : inbox'[k] = updates'[Handled' + k]
        <4> TAKE k \in DOMAIN inbox'
        <4>1. k \in DOMAIN inbox /\ Handled + k \in 1..Len(updates)
          BY <2>1, <3>1, Lengths
        <4> QED
          BY <2>1, <3>1, <3>2, <4>1
      <3>5. HaltInForce' => HaltInForce
        <4>1. SUFFICES ASSUME NEW i \in 1..Handled, updates'[i].kind = "halt",
                              \A j \in (i + 1)..Handled : updates'[j].kind # "resume"
                       PROVE  HaltInForce
          BY <3>2 DEF HaltInForce
        <4>2. updates[i].kind = "halt"
          BY <3>3, <4>1
        <4>3. ASSUME NEW j \in (i + 1)..Handled
              PROVE  updates[j].kind # "resume"
          <5>1. j \in 1..Handled
            BY <2>1, <4>3
          <5> QED
            BY <3>3, <4>1, <5>1
        <4> QED
          BY <4>2, <4>3 DEF HaltInForce
      <3>6. lastUpdateId' \in confirmed'..Len(updates') /\ Len(inbox') <= lastUpdateId'
        BY <2>1, <3>1, Lengths
      <3> QED
        BY <2>1, <3>1, <3>4, <3>5, <3>6 DEF HaltInv
    <2> QED
      BY <1>6, <2>2, <2>3, <2>4
  <1> QED
    BY <1>2, <1>3, <1>4, <1>5, <1>6 DEF Next, Restart, Poll, HandleUpdate, UserActs

THEOREM Invariance == Spec => []IInv
  <1>1. IInv /\ [Next]_vars => IInv'
    BY TypeStep, InboxStep, ListStep, CursorStep, IdsStep, HaltStep DEF IInv
  <1> QED
    BY InitIInv, <1>1, PTL DEF Spec

-----------------------------------------------------------------------------
(* The theorems *)

\* The types of SemiAuto hold, whatever is sent, pressed and restarted.
THEOREM TypeCorrect == Spec => []TypeOK
  <1>1. IInv => TypeOK
    BY DEF IInv
  <1> QED
    BY Invariance, <1>1, PTL

\* Only ExecuteNext and ExecuteRaises add an order, one of an entry that stands
\* approved, that no order was made of, and while nothing is halted by hand.
LEMMA OrderAdded ==
    ASSUME IInv, [Next]_vars
    PROVE  \/ UNCHANGED ordered
           \/ \E m \in DOMAIN messages :
                /\ ~manuallyHalted
                /\ messages[m] \in ApprovedLabels
                /\ \A k \in DOMAIN ordered : ordered[k] # m
                /\ ordered' = Append(ordered, m)
                /\ UNCHANGED <<messages, updates, manuallyHalted, restarts>>
  <1>1. CASE ExecuteNext \/ ExecuteRaises
    <2> DEFINE n == NextApproved
    <2>1. /\ phase = "executing" /\ n \in cursor..Len(pending)
          /\ pending[n].status = "approved"
          /\ \/ UNCHANGED ordered
             \/ ~manuallyHalted /\ ordered' = Append(ordered, pending[n].message)
          /\ UNCHANGED <<messages, updates, manuallyHalted, restarts>>
      BY <1>1, ExecutionSteps
    <2> HIDE DEF n
    <2>2. n \in DOMAIN pending /\ n >= cursor
      BY <2>1, Lengths
    <2>3. /\ pending[n].message \in DOMAIN messages
          /\ messages[pending[n].message] \in ApprovedLabels
      BY <2>1, <2>2, Lengths DEF IInv, ListInv
    <2>4. \A k \in DOMAIN ordered : ordered[k] # pending[n].message
      BY <2>1, <2>2 DEF IInv, CursorInv
    <2> QED
      BY <2>1, <2>3, <2>4
  <1>2. CASE SendNext
    BY <1>2 DEF SendNext, historyVars
  <1> QED
    BY <1>1, <1>2, QuietSteps, ExecutionEnds, PollFetches, UpdateHandled, UserAdds DEF Next

\* No message becomes two orders, however buttons are pressed again, updates
\* delivered again and the process restarted.
THEOREM OrderedOnce == Spec => []OneOrderPerMessage
  <1>1. Init => OneOrderPerMessage
    BY DEF Init, OneOrderPerMessage
  <1>2. IInv /\ OneOrderPerMessage /\ [Next]_vars => OneOrderPerMessage'
    <2> SUFFICES ASSUME IInv, OneOrderPerMessage, [Next]_vars
                 PROVE  OneOrderPerMessage'
      OBVIOUS
    <2>1. CASE UNCHANGED ordered
      BY <2>1 DEF OneOrderPerMessage
    <2>2. CASE ~UNCHANGED ordered
      <3>1. PICK m \in DOMAIN messages :
                /\ \A k \in DOMAIN ordered : ordered[k] # m
                /\ ordered' = Append(ordered, m)
        BY <2>2, OrderAdded
      <3>2. ordered \in Seq(DOMAIN messages)
        BY DEF IInv, TypeOK
      <3>3. \A k \in DOMAIN ordered' :
                \/ k \in DOMAIN ordered /\ ordered'[k] = ordered[k]
                \/ k = Len(ordered) + 1 /\ ordered'[k] = m
        BY <3>1, <3>2
      <3> QED
        BY <3>1, <3>3 DEF OneOrderPerMessage
    <2> QED
      BY <2>1, <2>2
  <1> QED
    BY Invariance, <1>1, <1>2, PTL DEF Spec

\* As long as the process runs, the Approve button of the very message was
\* pressed for every order.
THEOREM OrderedIsApproved == Spec => []OrdersAreApproved
  <1>1. Init => OrdersAreApproved
    BY DEF Init, OrdersAreApproved
  <1>2. IInv /\ IInv' /\ OrdersAreApproved /\ [Next]_vars => OrdersAreApproved'
    <2> SUFFICES ASSUME IInv, IInv', OrdersAreApproved, [Next]_vars, restarts' = 0,
                        NEW k \in DOMAIN ordered'
                 PROVE  \E i \in DOMAIN updates' :
                            updates'[i] = [kind |-> "approve", message |-> ordered'[k]]
      BY DEF OrdersAreApproved, ApprovedByUser
    <2>1. restarts = 0
      <3>1. restarts' = restarts \/ restarts' = restarts + 1
        BY QuietSteps, ExecutionSteps, ExecutionEnds, PollFetches, UpdateHandled, UserAdds
           DEF Next, SendNext, historyVars
      <3> QED
        BY <3>1 DEF IInv, IdsInv
    <2>2. ASSUME NEW m, ApprovedByUser(m)
          PROVE  \E i \in DOMAIN updates' :
                    updates'[i] = [kind |-> "approve", message |-> m]
      BY <2>2, LabelsStay DEF ApprovedByUser
    <2>3. CASE UNCHANGED ordered
      BY <2>1, <2>2, <2>3 DEF OrdersAreApproved
    <2>4. CASE ~UNCHANGED ordered
      <3>1. PICK m \in DOMAIN messages :
                /\ messages[m] \in ApprovedLabels
                /\ ordered' = Append(ordered, m)
        BY <2>4, OrderAdded
      <3>2. ordered \in Seq(DOMAIN messages)
        BY DEF IInv, TypeOK
      <3>3. \/ k \in DOMAIN ordered /\ ordered'[k] = ordered[k]
            \/ ordered'[k] = m
        BY <3>1, <3>2
      <3>4. ApprovedByUser(m)
        <4>1. PICK j \in DOMAIN updates :
                updates[j].kind = "approve" /\ messages[m] = messages[updates[j].message]
          BY <3>1 DEF ApprovedLabels
        <4>2. updates[j].message \in DOMAIN messages
          BY <4>1 DEF IInv, InboxInv
        <4>3. updates[j].message = m
          BY <2>1, <3>1, <4>1, <4>2 DEF IInv, IdsInv
        <4>4. updates[j] \in Update
          <5>1. updates \in Seq(Update)
            BY DEF IInv, TypeOK
          <5> QED
            BY <5>1
        <4>5. updates[j] = [kind |-> "approve", message |-> m]
          BY <4>1, <4>3, <4>4 DEF Update
        <4> QED
          BY <4>5 DEF ApprovedByUser
      <3> QED
        BY <2>1, <2>2, <3>3, <3>4 DEF OrdersAreApproved
    <2> QED
      BY <2>3, <2>4
  <1> QED
    BY Invariance, <1>1, <1>2, PTL DEF Spec

\* As long as the process runs, no plan becomes an order between a /halt and
\* the /resume that follows it.
THEOREM HaltStops == Spec => HaltStopsTheBatch
  <1>1. IInv /\ [Next]_vars => [restarts = 0 /\ HaltInForce => UNCHANGED ordered]_vars
    <2> SUFFICES ASSUME IInv, [Next]_vars, restarts = 0, HaltInForce
                 PROVE  UNCHANGED ordered
      OBVIOUS
    <2>1. manuallyHalted
      BY DEF IInv, HaltInv
    <2> QED
      BY <2>1, OrderAdded
  <1> QED
    BY Invariance, <1>1, PTL DEF Spec, HaltStopsTheBatch

\* SemiAuto implements ApprovedOrders: every step shows a plan, approves a
\* label, makes one order that is owed to the user, halts or resumes, or does
\* none of these.
THEOREM PromiseKept == Spec => KeepsThePromise
  <1>1. Init => Promised!Init
    BY DEF Init, Promised!Init, ApprovedLabels
  <1>2. IInv /\ IInv' /\ [Next]_vars => [Promised!Next]_(Promised!vars)
    <2> SUFFICES ASSUME IInv, IInv', [Next]_vars
                 PROVE  Promised!Next \/ UNCHANGED Promised!vars
      OBVIOUS
    <2>1. CASE UNCHANGED <<messages, updates, manuallyHalted, ordered>>
      BY <2>1 DEF Promised!vars, ApprovedLabels
    <2>2. CASE /\ UNCHANGED <<messages, updates, ordered>>
               /\ manuallyHalted' # manuallyHalted
      <3>1. UNCHANGED ApprovedLabels
        BY <2>2 DEF ApprovedLabels
      <3>2. manuallyHalted \in BOOLEAN /\ manuallyHalted' \in BOOLEAN
        BY DEF IInv, TypeOK
      <3>3. manuallyHalted' = ~manuallyHalted
        BY <2>2, <3>2
      <3> QED
        BY <2>2, <3>1, <3>3 DEF Promised!Next, Promised!SetHalt
    <2>3. CASE SendNext /\ ~UNCHANGED messages
      <3>1. /\ messages' = Append(messages, counter')
            /\ Len(messages') = Len(messages) + 1
            /\ messages'[Len(messages')] = counter'
            /\ UNCHANGED <<updates, manuallyHalted, ordered>>
        BY <2>3, SendNextSends DEF SendNext, historyVars
      <3>2. ApprovedLabels' = ApprovedLabels
        <4>1. \A j \in DOMAIN updates : updates[j].kind = "approve" =>
                    messages'[updates[j].message] = messages[updates[j].message]
          BY LabelsStay DEF IInv, InboxInv
        <4> QED
          BY <3>1, <4>1 DEF ApprovedLabels
      <3> QED
        BY <3>1, <3>2 DEF Promised!Next, Promised!Show
    <2>4. CASE ~UNCHANGED ordered
      <3>1. PICK m \in DOMAIN messages :
                /\ ~manuallyHalted
                /\ messages[m] \in ApprovedLabels
                /\ \A k \in DOMAIN ordered : ordered[k] # m
                /\ ordered' = Append(ordered, m)
                /\ UNCHANGED <<messages, updates, manuallyHalted>>
        BY <2>4, OrderAdded
      <3>2. UNCHANGED ApprovedLabels
        BY <3>1 DEF ApprovedLabels
      <3> QED
        BY <3>1, <3>2 DEF Promised!Next, Promised!Order
    <2>5. CASE UserActs
      <3>1. /\ Len(updates') = Len(updates) + 1
            /\ DOMAIN updates' = 1..(Len(updates) + 1)
            /\ \A j \in 1..Len(updates) : updates'[j] = updates[j]
            /\ updates'[Len(updates) + 1].kind \in {"approve", "deny"} =>
                    updates'[Len(updates) + 1].message \in DOMAIN messages
            /\ UNCHANGED <<messages, manuallyHalted, ordered>>
        BY <2>5, UserAdds
      <3> DEFINE new == updates'[Len(updates) + 1]
      <3>2. \A j \in DOMAIN updates' : j \in DOMAIN updates \/ j = Len(updates) + 1
        BY <3>1, Lengths
      <3>3. Len(updates) + 1 \in DOMAIN updates' /\ DOMAIN updates \subseteq DOMAIN updates'
        BY <3>1, Lengths
      <3>4. CASE new.kind = "approve"
        <4>1. ApprovedLabels' = ApprovedLabels \union {messages[new.message]}
          BY <3>1, <3>2, <3>3, <3>4, LabelsStay DEF ApprovedLabels
        <4> QED
          BY <3>1, <3>4, <4>1 DEF Promised!Next, Promised!Approve
      <3>5. CASE new.kind # "approve"
        <4>1. ApprovedLabels' = ApprovedLabels
          BY <3>1, <3>2, <3>3, <3>5, LabelsStay DEF ApprovedLabels
        <4> QED
          BY <3>1, <4>1 DEF Promised!vars
      <3> QED
        BY <3>4, <3>5
    <2>6. ASSUME ~UserActs, UNCHANGED ordered, ~(SendNext /\ ~UNCHANGED messages)
          PROVE  UNCHANGED <<messages, updates, ordered>>
      BY <2>6, QuietSteps, ExecutionSteps, ExecutionEnds, PollFetches, UpdateHandled
         DEF Next, SendNext
    <2> QED
      BY <2>1, <2>2, <2>3, <2>4, <2>5, <2>6
  <1> QED
    BY Invariance, <1>1, <1>2, PTL DEF Spec, Promised!Spec, KeepsThePromise
=============================================================================
