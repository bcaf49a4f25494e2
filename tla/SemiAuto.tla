------------------------------ MODULE SemiAuto ------------------------------
(***************************************************************************)
(* Telegram-approved execution: SemiAutoRunner (execution/semi_auto.py)    *)
(* and the polling side of TelegramBot (execution/telegram.py) in one      *)
(* asyncio process, and the Telegram servers and the user outside it.      *)
(* The runner suspends only while it sends a message, so a step of it runs *)
(* from one send to the next; the poller handles one update per step.      *)
(* The source has both halves and no loop that joins them: the poller here *)
(* hands a button press to process_callback and a command to               *)
(* handle_command, on the list send_for_approval returned, which the usage *)
(* note of SemiAutoRunner passes to execute_approved once.                 *)
(***************************************************************************)
EXTENDS Integers, Sequences, FiniteSets

CONSTANTS
    Batch,             \* the lists of plans the runner may be given
    OverCap,           \* the plans whose value exceeds position_cap
    MaxSignalsPerDay,  \* max_signals_per_day
    BrokerFaults,      \* whether execute_plan may raise
    MaxBatches,        \* bound: calls of send_for_approval
    MaxUpdates,        \* bound: updates the user causes
    MaxRestarts        \* bound: restarts of the process

ASSUME SemiAutoConfig ==
    /\ MaxSignalsPerDay \in Nat
    /\ BrokerFaults \in BOOLEAN
    /\ MaxBatches \in Nat /\ MaxUpdates \in Nat /\ MaxRestarts \in Nat

VARIABLES
    (* the process *)
    phase,           \* what the runner's task is at
    toSend,          \* plans send_for_approval has still to send
    pending,         \* the list of PendingApproval
    cursor,          \* position of execute_approved in that list
    counter,         \* _counter of the runner
    manuallyHalted,  \* the kill switch's manual flag
    lastUpdateId,    \* _last_update_id of the bot
    inbox,           \* updates of the last poll that are not handled yet
    (* the world *)
    messages,        \* the approval messages of the chat: their callback ids
    updates,         \* what the user has sent to the bot, in order
    confirmed,       \* the updates Telegram will not deliver again
    (* bounds and history *)
    batches, restarts,
    ordered,         \* the messages whose plan became an order, in order
    resolved         \* the messages whose plan execute_plan has answered

processVars == <<phase, toSend, pending, cursor, counter, manuallyHalted, lastUpdateId, inbox>>
worldVars == <<messages, updates, confirmed>>
historyVars == <<batches, restarts, ordered, resolved>>
vars == <<processVars, worldVars, historyVars>>

Phase == {"idle", "sending", "polling", "executing"}
ApprovalStatus == {"pending", "approved", "denied", "expired"}
Update == [kind: {"approve", "deny"}, message: Nat \ {0}]
            \union [kind: {"halt", "resume"}, message: {0}]
PendingApproval == [message: DOMAIN messages, callbackId: Nat, status: ApprovalStatus]

TypeOK ==
    /\ phase \in Phase
    /\ pending \in Seq(PendingApproval)
    /\ cursor \in 1..(Len(pending) + 1)
    /\ counter \in 0..Len(messages)
    /\ manuallyHalted \in BOOLEAN
    /\ lastUpdateId \in confirmed..Len(updates) \/ lastUpdateId = 0
    /\ Len(inbox) <= Len(updates) - confirmed
    /\ messages \in Seq(Nat \ {0})
    /\ updates \in Seq(Update)
    /\ confirmed \in 0..Len(updates)
    /\ ordered \in Seq(DOMAIN messages)
    /\ resolved \subseteq DOMAIN messages

Init ==
    /\ phase = "idle" /\ toSend = <<>> /\ pending = <<>> /\ cursor = 1 /\ counter = 0
    /\ manuallyHalted = FALSE /\ lastUpdateId = 0 /\ inbox = <<>>
    /\ messages = <<>> /\ updates = <<>> /\ confirmed = 0
    /\ batches = 0 /\ restarts = 0 /\ ordered = <<>> /\ resolved = {}

-----------------------------------------------------------------------------
(* The runner *)

\* send_for_approval begins: the list is cut at max_signals_per_day.
BeginSending ==
    /\ phase = "idle"
    /\ batches < MaxBatches
    /\ batches' = batches + 1
    /\ \E plans \in Batch :
        toSend' = SubSeq(plans, 1, IF Len(plans) <= MaxSignalsPerDay
                                   THEN Len(plans) ELSE MaxSignalsPerDay)
    /\ pending' = <<>>
    /\ phase' = "sending"
    /\ UNCHANGED <<cursor, counter, manuallyHalted, lastUpdateId, inbox, worldVars,
                   restarts, ordered, resolved>>

\* A faulty variant: the callback ids are numbered anew in every list.
SendNext_IdPerList ==
    /\ phase = "sending"
    /\ toSend # <<>>
    /\ toSend' = Tail(toSend)
    /\ IF Head(toSend) \in OverCap
       THEN UNCHANGED <<counter, messages, pending>>
       ELSE /\ counter' = Len(pending) + 1
            /\ messages' = Append(messages, counter')
            /\ pending' = Append(pending, [message |-> Len(messages'), callbackId |-> counter',
                                           status |-> "pending"])
    /\ UNCHANGED <<phase, cursor, manuallyHalted, lastUpdateId, inbox, updates, confirmed,
                   historyVars>>

\* A plan over the cap is dropped; any other gets the next callback id, a
\* message with its buttons, and a place in the list.
SendNext ==
    /\ phase = "sending"
    /\ toSend # <<>>
    /\ toSend' = Tail(toSend)
    /\ IF Head(toSend) \in OverCap
       THEN UNCHANGED <<counter, messages, pending>>
       ELSE /\ counter' = counter + 1
            /\ messages' = Append(messages, counter')
            /\ pending' = Append(pending, [message |-> Len(messages'), callbackId |-> counter',
                                           status |-> "pending"])
    /\ UNCHANGED <<phase, cursor, manuallyHalted, lastUpdateId, inbox, updates, confirmed,
                   historyVars>>

\* The list is returned: from now on a button press can find its entry.
EndSending ==
    /\ phase = "sending"
    /\ toSend = <<>>
    /\ phase' = "polling"
    /\ UNCHANGED <<toSend, pending, cursor, counter, manuallyHalted, lastUpdateId, inbox,
                   worldVars, historyVars>>

BeginExecuting ==
    /\ phase = "polling"
    /\ phase' = "executing"
    /\ UNCHANGED <<toSend, pending, cursor, counter, manuallyHalted, lastUpdateId, inbox,
                   worldVars, historyVars>>

\* A faulty variant: the entry at the cursor is stepped over.
NextApproved_OneTooFar ==
    LET approved == {i \in (cursor + 1)..Len(pending) : pending[i].status = "approved"}
    IN  IF approved = {} THEN Len(pending) + 1
        ELSE CHOOSE i \in approved : \A j \in approved : i <= j

\* The first approved entry from the cursor on, or one past the end.
NextApproved ==
    LET approved == {i \in cursor..Len(pending) : pending[i].status = "approved"}
    IN  IF approved = {} THEN Len(pending) + 1
        ELSE CHOOSE i \in approved : \A j \in approved : i <= j

\* What execute_approved leaves behind when it passes the entries before k.
ExpiredBefore(k) ==
    [i \in DOMAIN pending |->
        IF i \in cursor..(k - 1) /\ pending[i].status = "pending"
        THEN [pending[i] EXCEPT !.status = "expired"] ELSE pending[i]]

\* A faulty variant: the kill switch is not asked again within a batch.
ExecuteNext_Ungated ==
    /\ phase = "executing"
    /\ NextApproved <= Len(pending)
    /\ pending' = ExpiredBefore(NextApproved)
    /\ cursor' = NextApproved + 1
    /\ resolved' = resolved \union {pending[NextApproved].message}
    /\ \/ UNCHANGED ordered
       \/ ordered' = Append(ordered, pending[NextApproved].message)
    /\ UNCHANGED <<phase, toSend, counter, manuallyHalted, lastUpdateId, inbox, worldVars,
                   batches, restarts>>

\* One stretch of execute_approved: it passes denied and unanswered entries
\* and executes the next approved one.  The kill switch blocks when manually
\* halted, and may block for a reason outside this module.
ExecuteNext ==
    /\ phase = "executing"
    /\ NextApproved <= Len(pending)
    /\ pending' = ExpiredBefore(NextApproved)
    /\ cursor' = NextApproved + 1
    /\ resolved' = resolved \union {pending[NextApproved].message}
    /\ \/ UNCHANGED ordered
       \/ ~manuallyHalted /\ ordered' = Append(ordered, pending[NextApproved].message)
    /\ UNCHANGED <<phase, toSend, counter, manuallyHalted, lastUpdateId, inbox, worldVars,
                   batches, restarts>>

\* execute_plan raises, the order having reached the broker or not, and the
\* exception ends execute_approved.
ExecuteRaises ==
    /\ BrokerFaults
    /\ phase = "executing"
    /\ NextApproved <= Len(pending)
    /\ pending' = ExpiredBefore(NextApproved)
    /\ phase' = "idle"
    /\ cursor' = 1
    /\ \/ UNCHANGED ordered
       \/ ~manuallyHalted /\ ordered' = Append(ordered, pending[NextApproved].message)
    /\ UNCHANGED <<toSend, counter, manuallyHalted, lastUpdateId, inbox, worldVars,
                   batches, restarts, resolved>>

EndExecuting ==
    /\ phase = "executing"
    /\ NextApproved > Len(pending)
    /\ pending' = ExpiredBefore(NextApproved)
    /\ phase' = "idle"
    /\ cursor' = 1
    /\ UNCHANGED <<toSend, counter, manuallyHalted, lastUpdateId, inbox, worldVars,
                   historyVars>>

-----------------------------------------------------------------------------
(* The poller *)

\* A faulty variant: the poll asks for everything again.
Poll_NoOffset ==
    /\ inbox = <<>>
    /\ LET seen == IF lastUpdateId > confirmed THEN lastUpdateId ELSE confirmed
       IN  /\ seen < Len(updates)
           /\ confirmed' = seen
           /\ inbox' = updates
    /\ lastUpdateId' = Len(updates)
    /\ UNCHANGED <<phase, toSend, pending, cursor, counter, manuallyHalted, messages, updates,
                   historyVars>>

\* get_updates: the offset it sends confirms the updates of earlier polls,
\* and the answer holds everything after them.
Poll ==
    /\ inbox = <<>>
    /\ LET seen == IF lastUpdateId > confirmed THEN lastUpdateId ELSE confirmed
       IN  /\ seen < Len(updates)
           /\ confirmed' = seen
           /\ inbox' = SubSeq(updates, seen + 1, Len(updates))
    /\ lastUpdateId' = Len(updates)
    /\ UNCHANGED <<phase, toSend, pending, cursor, counter, manuallyHalted, messages, updates,
                   historyVars>>

\* A faulty variant: a press is taken for the oldest entry without an answer.
ProcessCallback_OldestPending(update) ==
    /\ pending' = [i \in DOMAIN pending |->
            IF /\ phase # "sending" /\ pending[i].status = "pending"
               /\ \A j \in 1..(i - 1) : pending[j].status # "pending"
            THEN [pending[i] EXCEPT
                    !.status = IF update.kind = "approve" THEN "approved" ELSE "denied"]
            ELSE pending[i]]
    /\ UNCHANGED manuallyHalted

\* process_callback: the entry with the callback id takes the new status,
\* whatever its status was.  While the list is being built nobody has it.
ProcessCallback(update) ==
    /\ pending' = [i \in DOMAIN pending |->
            IF phase # "sending" /\ pending[i].callbackId = messages[update.message]
            THEN [pending[i] EXCEPT
                    !.status = IF update.kind = "approve" THEN "approved" ELSE "denied"]
            ELSE pending[i]]
    /\ UNCHANGED manuallyHalted

\* _cmd_halt and _cmd_resume, as far as the manual flag goes.
HandleCommand(update) ==
    /\ manuallyHalted' = (update.kind = "halt")
    /\ UNCHANGED pending

HandleUpdate ==
    /\ inbox # <<>>
    /\ inbox' = Tail(inbox)
    /\ IF Head(inbox).kind \in {"approve", "deny"}
       THEN ProcessCallback(Head(inbox))
       ELSE HandleCommand(Head(inbox))
    /\ UNCHANGED <<phase, toSend, cursor, counter, lastUpdateId, worldVars, historyVars>>

-----------------------------------------------------------------------------
(* The user, and the process going down *)

\* The user presses a button of any message of the chat, or sends a command.
UserActs ==
    /\ Len(updates) < MaxUpdates
    /\ \E update \in [kind: {"approve", "deny"}, message: DOMAIN messages]
                        \union [kind: {"halt", "resume"}, message: {0}] :
            updates' = Append(updates, update)
    /\ UNCHANGED <<processVars, messages, confirmed, historyVars>>

\* Everything in memory is lost; the chat and Telegram's queue are not.
Restart ==
    /\ restarts < MaxRestarts
    /\ restarts' = restarts + 1
    /\ phase' = "idle" /\ toSend' = <<>> /\ pending' = <<>> /\ cursor' = 1 /\ counter' = 0
    /\ manuallyHalted' = FALSE /\ lastUpdateId' = 0 /\ inbox' = <<>>
    /\ UNCHANGED <<worldVars, batches, ordered, resolved>>

Next ==
    \/ BeginSending \/ SendNext \/ EndSending
    \/ BeginExecuting \/ ExecuteNext \/ ExecuteRaises \/ EndExecuting
    \/ Poll \/ HandleUpdate
    \/ UserActs
    \/ Restart

Spec == Init /\ [][Next]_vars

\* The tasks of the process keep running: a send that fails returns None, so
\* no step of the runner or the poller waits for ever.
FairSpec ==
    /\ Spec
    /\ WF_vars(SendNext) /\ WF_vars(EndSending)
    /\ WF_vars(BeginExecuting) /\ WF_vars(ExecuteNext) /\ WF_vars(EndExecuting)
    /\ WF_vars(Poll) /\ WF_vars(HandleUpdate)

-----------------------------------------------------------------------------
(* What the runner keeps *)

ApprovedByUser(m) == \E i \in DOMAIN updates : updates[i] = [kind |-> "approve", message |-> m]

\* As long as the process runs, a plan becomes an order only if the user pressed
\* Approve on the message of that very plan, however messages, polls and
\* executions interleave.
OrdersAreApproved == restarts = 0 => \A i \in DOMAIN ordered : ApprovedByUser(ordered[i])

\* One message is at most one order: a button pressed again, an update
\* delivered again or a restart does not execute its plan a second time.
OneOrderPerMessage == \A i, j \in DOMAIN ordered : ordered[i] = ordered[j] => i = j

\* The updates handled so far, and whether the last command among them that
\* concerns the manual halt is a /halt.
Handled == lastUpdateId - Len(inbox)
HaltInForce ==
    \E i \in 1..Handled :
        /\ updates[i].kind = "halt"
        /\ \A j \in (i + 1)..Handled : updates[j].kind # "resume"

\* As long as the process runs: once /halt has been handled, also between two
\* plans of a running batch, no further plan becomes an order until a /resume
\* has been.
HaltStopsTheBatch == [][restarts = 0 /\ HaltInForce => UNCHANGED ordered]_vars

\* An entry never keeps its last press to itself: a plan that stands approved
\* when the execution begins is answered by execute_plan, unless the user
\* takes the approval back first.
ApprovedInTimeIsExecuted ==
    \A m \in 1..(MaxBatches * MaxSignalsPerDay) :
        (phase = "polling" /\ \E i \in DOMAIN pending :
                pending[i].message = m /\ pending[i].status = "approved")
            ~> \/ m \in resolved
               \/ \E i \in DOMAIN updates : updates[i] = [kind |-> "deny", message |-> m]

-----------------------------------------------------------------------------
(* What the runner promises *)

\* The labels the user has approved, whatever message the button was under.
ApprovedLabels ==
    {messages[updates[i].message] : i \in {j \in DOMAIN updates : updates[j].kind = "approve"}}

Promised == INSTANCE ApprovedOrders
    WITH shown <- messages, approved <- ApprovedLabels, halted <- manuallyHalted,
         orders <- ordered

\* The runner with its lists, polls and restarts behaves as ApprovedOrders: a
\* plan is ordered once, under a label somebody approved, and not while
\* trading is halted by hand.
KeepsThePromise == Promised!Spec
=============================================================================
