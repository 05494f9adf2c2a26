----------------------------- MODULE Fulfillment -----------------------------
(***************************************************************************)
(* The fulfilment status of orders: the Ghost Ops commands of              *)
(* app/services/ops_automation.py, the notification tasks they spawn       *)
(* (app/services/fulfillment_notifications.py), the order.ready job of     *)
(* app/jobs/handlers.py, and the payment and chat code that writes the     *)
(* same document.                                                          *)
(*                                                                         *)
(* The status lives in orders.details, a JSON column.  Every writer reads  *)
(* the whole document, waits, and writes the whole document back; nothing  *)
(* checks that it is still the one that was read.  Only the payment CAS    *)
(* has a guard, on payment_status and payment_version.                     *)
(***************************************************************************)
EXTENDS Integers, Sequences, FiniteSets

CONSTANTS
    Orders,       \* orders, created by create_pending_order
    Admins,       \* senders of ops commands; the session lock keeps one turn each
    Tasks,        \* BOUND: notification tasks alive at once
    Writers,      \* payment handlers and chat turns at work on an order
    AuditKeep,    \* entries kept in ops_audit (200)
    Targets,      \* BOUND: the commands considered, named by their target status
    Kinds,        \* BOUND: the kinds of writers considered
    MaxVersion,   \* BOUND: payment transitions of an order
    MaxInFlight,  \* BOUND: documents read and not yet written back, at once
    NoOrder       \* the order of an idle process

ASSUME FulfillmentAssumption ==
    /\ AuditKeep \in Nat
    /\ MaxVersion \in Nat
    /\ Targets \subseteq {"sourcing_approved", "runner_assigned", "sourcing_in_progress",
                    "quality_check", "packing", "ready_for_dispatch",
                    "out_for_delivery", "delivered", "issue_pending", "cancelled"}
    /\ Kinds \subseteq {"paid", "failed", "cancelled", "timeout", "cancel", "resend", "touch"}
    /\ NoOrder \notin Orders

VARIABLES
    order,     \* the table: payment_status, payment_version, details
    admin,     \* per admin, the command being handled
    task,      \* per task, the notification being sent
    writer,    \* per payment handler or chat turn, what it has read
    ready,     \* per order, the order.ready job
    been,      \* history: the stages of Chain an order was ever committed at
    sent,      \* history: <<order, status>> of the messages customers got
    acked      \* history: commands confirmed to the admins, counted to AuditKeep

vars == <<order, admin, task, writer, ready, been, sent, acked>>

-----------------------------------------------------------------------------
(* What is stored *)

Canonical == {"pending_payment", "brief_received", "awaiting_confirmation",
              "sourcing_approved", "runner_assigned", "sourcing_in_progress",
              "quality_check", "packing", "ready_for_dispatch",
              "out_for_delivery", "delivered", "issue_pending", "cancelled"}

\* Written by the payment transitions and by order.ready, outside the table.
Foreign == {"preparing", "ready", "failed", "timeout"}

Statuses == Canonical \cup Foreign

Normalize(s) == IF s \in Canonical THEN s ELSE "pending_payment"

PayStatuses == {"pending", "paid", "failed", "cancelled", "timeout"}

\* _CUSTOMER_MESSAGES
Announced == {"ready_for_dispatch", "out_for_delivery"}

Details == [status : Statuses, notified : SUBSET Announced, audit : 0 .. AuditKeep]

OrderType == [pay : PayStatuses, version : Nat, details : Details]

Blank == [status |-> "pending_payment", notified |-> {}, audit |-> 0]

-----------------------------------------------------------------------------
(* The transition table *)

Intake == {"pending_payment", "brief_received", "awaiting_confirmation"}
Underway == {"sourcing_approved", "runner_assigned", "sourcing_in_progress",
             "quality_check", "packing", "ready_for_dispatch"}

\* The table has no row for the intake statuses, and no command for them.
Commands == Underway \cup {"out_for_delivery", "delivered", "issue_pending", "cancelled"}

\* Mutant: an order may be delivered straight from the ready shelf.
AllowedFromShelf ==
    [t \in Commands |->
        CASE t = "sourcing_approved"    -> Intake \cup {"issue_pending"}
          [] t = "runner_assigned"      -> {"sourcing_approved"}
          [] t = "sourcing_in_progress" -> {"runner_assigned", "sourcing_approved"}
          [] t = "quality_check"        -> {"sourcing_in_progress"}
          [] t = "packing"              -> {"quality_check"}
          [] t = "ready_for_dispatch"   -> {"packing"}
          [] t = "out_for_delivery"     -> {"ready_for_dispatch"}
          [] t = "delivered"            -> {"ready_for_dispatch", "out_for_delivery"}
          [] t = "issue_pending"        -> Intake \cup Underway \cup {"out_for_delivery"}
          [] t = "cancelled"            -> Intake \cup Underway \cup {"issue_pending"}]

AllowedFrom ==
    [t \in Commands |->
        CASE t = "sourcing_approved"    -> Intake \cup {"issue_pending"}
          [] t = "runner_assigned"      -> {"sourcing_approved"}
          [] t = "sourcing_in_progress" -> {"runner_assigned", "sourcing_approved"}
          [] t = "quality_check"        -> {"sourcing_in_progress"}
          [] t = "packing"              -> {"quality_check"}
          [] t = "ready_for_dispatch"   -> {"packing"}
          [] t = "out_for_delivery"     -> {"ready_for_dispatch"}
          [] t = "delivered"            -> {"out_for_delivery"}
          [] t = "issue_pending"        -> Intake \cup Underway \cup {"out_for_delivery"}
          [] t = "cancelled"            -> Intake \cup Underway \cup {"issue_pending"}]

\* Mutant: an order may be accepted again whatever its status.
CheckTransitionLax(s, t) ==
    Normalize(s) = t \/ t = "sourcing_approved" \/ Normalize(s) \in AllowedFrom[t]

CheckTransition(s, t) == Normalize(s) = t \/ Normalize(s) \in AllowedFrom[t]

\* The stages every delivered order goes through; runner_assigned may be skipped.
Chain == <<"sourcing_approved", "sourcing_in_progress", "quality_check", "packing",
           "ready_for_dispatch", "out_for_delivery", "delivered">>

Stages == {Chain[i] : i \in 1 .. Len(Chain)}

-----------------------------------------------------------------------------
(* Processes *)

NoAdmin == [pc |-> "idle", order |-> NoOrder, read |-> Blank,
            target |-> "sourcing_approved"]
NoTask  == [pc |-> "idle", order |-> NoOrder, read |-> Blank,
            target |-> "out_for_delivery"]
NoWrite == [pc |-> "idle", order |-> NoOrder, read |-> Blank,
            kind |-> "touch", version |-> 0]
NoJob   == [pc |-> "none", read |-> Blank]

\* What a writer does with the details it read.
Transitions == PayStatuses \ {"pending"}
AllKinds == Transitions \cup {"cancel", "resend", "touch"}

AdminType  == [pc : {"idle", "read", "flushed"}, order : Orders \cup {NoOrder},
               read : Details, target : Commands]
TaskType   == [pc : {"idle", "created", "read", "sent"}, order : Orders \cup {NoOrder},
               read : Details, target : Announced]
WriterType == [pc : {"idle", "read"}, order : Orders \cup {NoOrder}, read : Details,
               kind : AllKinds, version : Nat]
JobType    == [pc : {"none", "queued", "read", "written"}, read : Details]

\* The row lock: taken by the flush, held until the command's commit.
Unlocked(o) == \A a \in Admins : ~ (admin[a].pc = "flushed" /\ admin[a].order = o)

InFlight == {a \in Admins : admin[a].pc # "idle"}
       \cup {k \in Tasks : task[k].pc \in {"read", "sent"}}
       \cup {o \in Orders : ready[o].pc = "read"}
       \cup {w \in Writers : writer[w].pc = "read"}

Room == Cardinality(InFlight) < MaxInFlight

\* A committed write of the details of o.
Write(o, pay, version, details) ==
    /\ order' = [order EXCEPT ![o] =
                    [pay |-> pay, version |-> version, details |-> details]]
    /\ been' = [been EXCEPT ![o] = @ \cup ({details.status} \cap Stages)]

WriteDetails(o, details) == Write(o, order[o].pay, order[o].version, details)

Init ==
    /\ order = [o \in Orders |-> [pay |-> "pending", version |-> 0, details |-> Blank]]
    /\ admin = [a \in Admins |-> NoAdmin]
    /\ task = [k \in Tasks |-> NoTask]
    /\ writer = [w \in Writers |-> NoWrite]
    /\ ready = [o \in Orders |-> NoJob]
    /\ been = [o \in Orders |-> {}]
    /\ sent = {}
    /\ acked = [o \in Orders |-> 0]

-----------------------------------------------------------------------------
(* Ghost Ops commands *)

\* find_order_by_public_reference and _check_transition; an illegal
\* transition is answered with an error and changes nothing.
OpsRead(a, o, t) ==
    /\ admin[a].pc = "idle"
    /\ Room
    /\ CheckTransition(order[o].details.status, t)
    /\ admin' = [admin EXCEPT ![a] =
                    [pc |-> "read", order |-> o, read |-> order[o].details,
                     target |-> t]]
    /\ UNCHANGED <<order, task, writer, ready, been, sent, acked>>

OneMore(n) == IF n < AuditKeep THEN n + 1 ELSE n

Notifies(r) == Normalize(r.read.status) # r.target /\ r.target \in Announced

\* The document the command commits: status and audit entry over what it read.
Commanded(r) == [status |-> r.target, notified |-> r.read.notified,
                 audit |-> OneMore(r.read.audit)]

\* _set_fulfillment: the flush takes the row lock and the notification task is
\* created, before the commit.
OpsFlush(a) ==
    LET r == admin[a] IN
    /\ r.pc = "read"
    /\ Unlocked(r.order)
    /\ admin' = [admin EXCEPT ![a].pc = "flushed"]
    /\ IF Notifies(r)
         THEN \E k \in Tasks :
                /\ task[k].pc = "idle"
                /\ task' = [task EXCEPT ![k] =
                              [pc |-> "created", order |-> r.order,
                               read |-> Blank, target |-> r.target]]
         ELSE UNCHANGED task
    /\ UNCHANGED <<order, writer, ready, been, sent, acked>>

\* _append_ops_audit, db.commit() and the confirmation to the admin.
OpsCommit(a) ==
    LET r == admin[a] IN
    /\ r.pc = "flushed"
    /\ WriteDetails(r.order, Commanded(r))
    /\ acked' = [acked EXCEPT ![r.order] = OneMore(@)]
    /\ admin' = [admin EXCEPT ![a] = NoAdmin]
    /\ UNCHANGED <<task, writer, ready, sent>>

\* The turn dies before its commit; the transaction is rolled back, the task
\* it created is not.
OpsAbort(a) ==
    /\ admin[a].pc # "idle"
    /\ admin' = [admin EXCEPT ![a] = NoAdmin]
    /\ UNCHANGED <<order, task, writer, ready, been, sent, acked>>

-----------------------------------------------------------------------------
(* Notification tasks *)

\* The task's own session reads the last committed row, which need not be the
\* command's yet.
NotifyRead(k) ==
    LET r == task[k] IN
    /\ r.pc = "created"
    /\ Room
    /\ IF r.target \in order[r.order].details.notified
         THEN task' = [task EXCEPT ![k] = NoTask]
         ELSE task' = [task EXCEPT ![k].pc = "read", ![k].read = order[r.order].details]
    /\ UNCHANGED <<order, admin, writer, ready, been, sent, acked>>

NotifySend(k) ==
    LET r == task[k] IN
    /\ r.pc = "read"
    /\ sent' = sent \cup {<<r.order, r.target>>}
    /\ task' = [task EXCEPT ![k].pc = "sent"]
    /\ UNCHANGED <<order, admin, writer, ready, been, acked>>

Flagged(r) == [r.read EXCEPT !.notified = @ \cup {r.target}]

NotifyCommit(k) ==
    LET r == task[k] IN
    /\ r.pc = "sent"
    /\ Unlocked(r.order)
    /\ WriteDetails(r.order, Flagged(r))
    /\ task' = [task EXCEPT ![k] = NoTask]
    /\ UNCHANGED <<admin, writer, ready, sent, acked>>

\* Every exception ends the task; so does a restart.
NotifyFails(k) ==
    /\ task[k].pc # "idle"
    /\ task' = [task EXCEPT ![k] = NoTask]
    /\ UNCHANGED <<order, admin, writer, ready, been, sent, acked>>

-----------------------------------------------------------------------------
(* The order.ready job, queued with the payment *)

ReadyRead(o) ==
    /\ ready[o].pc = "queued"
    /\ Room
    /\ IF order[o].pay = "paid"
         THEN ready' = [ready EXCEPT ![o] = [pc |-> "read", read |-> order[o].details]]
         ELSE ready' = [ready EXCEPT ![o] = NoJob]
    /\ UNCHANGED <<order, admin, task, writer, been, sent, acked>>

ReadyCommit(o) ==
    /\ ready[o].pc = "read"
    /\ Unlocked(o)
    /\ WriteDetails(o, [ready[o].read EXCEPT !.status = "ready"])
    /\ ready' = [ready EXCEPT ![o] = [pc |-> "written", read |-> Blank]]
    /\ UNCHANGED <<admin, task, writer, sent, acked>>

ReadySend(o) ==
    /\ ready[o].pc = "written"
    /\ ready' = [ready EXCEPT ![o] = NoJob]
    /\ UNCHANGED <<order, admin, task, writer, been, sent, acked>>

\* send_failed, a dead worker or a passed deadline: the queue runs the whole job
\* again or gives it up.
ReadyFails(o) ==
    /\ ready[o].pc # "none"
    /\ \E pc \in {"queued", "none"} :
         ready' = [ready EXCEPT ![o] = [pc |-> pc, read |-> Blank]]
    /\ UNCHANGED <<order, admin, task, writer, been, sent, acked>>

-----------------------------------------------------------------------------
(* Payments and chat turns *)

\* A payment transition may start from any status its caller lists; resend and
\* cancel look for a pending order; touch is a write of other fields only
\* (ensure_order_tracking, open_hazina_desk_issue).
Sources(kind) ==
    CASE kind = "paid" -> PayStatuses \ {"paid"}
      [] kind \in {"failed", "timeout", "cancelled", "cancel", "resend"} -> {"pending"}
      [] kind = "touch" -> PayStatuses

WriterRead(w, o, kind) ==
    /\ writer[w].pc = "idle"
    /\ Room
    /\ order[o].pay \in Sources(kind)
    /\ writer' = [writer EXCEPT ![w] =
                    [pc |-> "read", order |-> o, read |-> order[o].details,
                     kind |-> kind, version |-> IF kind \in {"resend", "touch"} THEN 0 ELSE order[o].version]]
    /\ UNCHANGED <<order, admin, task, ready, been, sent, acked>>

\* The compare-and-set of _transition_payment_status.
Swaps(r) ==
    /\ order[r.order].pay \in Sources(r.kind)
    /\ order[r.order].version = r.version
    /\ r.version < MaxVersion

StatusOf(kind) == IF kind = "paid" THEN "preparing" ELSE kind

Transition(w) ==
    LET r == writer[w] IN
    /\ r.pc = "read"
    /\ r.kind \in Transitions
    /\ Unlocked(r.order)
    /\ Swaps(r)
    /\ Write(r.order, r.kind, r.version + 1, [r.read EXCEPT !.status = StatusOf(r.kind)])
    /\ ready' = IF r.kind = "paid" /\ ready[r.order].pc = "none"
                  THEN [ready EXCEPT ![r.order].pc = "queued"]
                  ELSE ready
    /\ writer' = [writer EXCEPT ![w] = NoWrite]
    /\ UNCHANGED <<admin, task, sent, acked>>

\* _cancel_pending_order_reply: customer_cancelled_at is flushed with the
\* details before the compare-and-set, and committed whatever that returns.
CancelCommit(w) ==
    LET r == writer[w] IN
    /\ r.pc = "read"
    /\ r.kind = "cancel"
    /\ Unlocked(r.order)
    /\ IF Swaps(r)
         THEN Write(r.order, "cancelled", r.version + 1, [r.read EXCEPT !.status = "cancelled"])
         ELSE WriteDetails(r.order, r.read)
    /\ writer' = [writer EXCEPT ![w] = NoWrite]
    /\ UNCHANGED <<admin, task, ready, sent, acked>>

\* request_order_payment, after the provider has answered, and the writes of
\* other fields: no look at the row they replace.
BlindCommit(w) ==
    LET r == writer[w] IN
    /\ r.pc = "read"
    /\ r.kind \in {"resend", "touch"}
    /\ Unlocked(r.order)
    /\ WriteDetails(r.order,
          IF r.kind = "resend" THEN [r.read EXCEPT !.status = "pending_payment"] ELSE r.read)
    /\ writer' = [writer EXCEPT ![w] = NoWrite]
    /\ UNCHANGED <<admin, task, ready, sent, acked>>

\* The compare-and-set lost, the provider failed, or the process died.
WriterGivesUp(w) ==
    /\ writer[w].pc = "read"
    /\ writer' = [writer EXCEPT ![w] = NoWrite]
    /\ UNCHANGED <<order, admin, task, ready, been, sent, acked>>

-----------------------------------------------------------------------------
OpsNext == \E a \in Admins :
    \/ \E o \in Orders, t \in Targets : OpsRead(a, o, t)
    \/ OpsFlush(a)
    \/ OpsCommit(a)
    \/ OpsAbort(a)

TaskNext == \E k \in Tasks :
    NotifyRead(k) \/ NotifySend(k) \/ NotifyCommit(k) \/ NotifyFails(k)

ReadyNext == \E o \in Orders :
    ReadyRead(o) \/ ReadyCommit(o) \/ ReadySend(o) \/ ReadyFails(o)

WriterNext == \E w \in Writers :
    \/ \E o \in Orders, kind \in Kinds : WriterRead(w, o, kind)
    \/ Transition(w)
    \/ CancelCommit(w)
    \/ BlindCommit(w)
    \/ WriterGivesUp(w)

Next == OpsNext \/ TaskNext \/ ReadyNext \/ WriterNext

Spec == Init /\ [][Next]_vars

-----------------------------------------------------------------------------
(* Properties *)

\* The table, the processes and the job keep their types.
TypeOK ==
    /\ order \in [Orders -> OrderType]
    /\ admin \in [Admins -> AdminType]
    /\ task \in [Tasks -> TaskType]
    /\ writer \in [Writers -> WriterType]
    /\ ready \in [Orders -> JobType]
    /\ been \in [Orders -> SUBSET Stages]
    /\ sent \in SUBSET (Orders \X Announced)
    /\ acked \in [Orders -> 0 .. AuditKeep]

\* No order is delivered that was not dispatched, dispatched that was not ready,
\* and so on back to its approval, although concurrent writers of the document
\* overwrite one another: each stage reached was preceded, some time before, by
\* the stage the transition table puts before it.
StagesInOrder == \A o \in Orders : \A i \in 1 .. Len(Chain) - 1 :
    Chain[i + 1] \in been[o] => Chain[i] \in been[o]

\* An order marked as announced was announced: the flag that keeps the
\* notification from being sent again is in the row, or in a document that is
\* about to become the row, only after the message went out.
FlaggedWasSent ==
    \A o \in Orders : \A s \in order[o].details.notified : <<o, s>> \in sent

\* A customer about to be told to pick up an order has paid for it: the payment
\* order.ready read, two transactions ago, has not been undone since by a
\* failure, a cancellation or a timeout that read the order before it was paid.
PickupIsPaid == \A o \in Orders :
    ready[o].pc \in {"read", "written"} => order[o].pay = "paid"

\* The document o's row is replaced with is based on a document that is no
\* longer there.
Overwrites(o) ==
    \/ \E a \in Admins : /\ admin[a].pc = "flushed" /\ admin[a].order = o
                          /\ admin'[a].pc = "idle"
                          /\ admin[a].read # order[o].details
    \/ \E k \in Tasks :  /\ task[k].pc = "sent" /\ task[k].order = o
                          /\ task'[k].pc = "idle"
                          /\ task[k].read # order[o].details
    \/ ready[o].pc = "read" /\ ready'[o].pc = "written" /\ ready[o].read # order[o].details
    \/ \E w \in Writers : /\ writer[w].pc = "read" /\ writer[w].order = o
                           /\ writer'[w].pc = "idle"
                           /\ writer[w].read # order[o].details

\* The statuses written without a look at the present one: by the payment
\* transitions, by order.ready, and by the resend from chat.
Unconditional == Foreign \cup {"cancelled", "pending_payment"}

TableKept(o) ==
    LET was == order[o].details.status
        is  == order'[o].details.status
    IN  \/ is = was
        \/ is \in Commands /\ Normalize(was) \in AllowedFrom[is]
        \/ is \in Unconditional /\ UNCHANGED <<admin, task>>

AuditKept(o) ==
    order[o].details.audit >= acked[o] => order'[o].details.audit >= acked'[o]

\* Until a document replaces a newer one, every change of the status follows the
\* table of transitions or is one of the unconditional writes, and what an admin was
\* told is done is in the audit (docs/SYSTEM.md:469, "Audit log per command"):
\* neither a notification over the current document, nor a refused command, a
\* failed commit or a transition of the payment breaks either.
OnlyOverwritesHarm == [][\A o \in Orders : Overwrites(o) \/ (TableKept(o) /\ AuditKept(o))]_vars
=============================================================================
