------------------------------ MODULE Payments ------------------------------
(***************************************************************************)
(* The payment status of orders: app/api/payments.py, the payment jobs of  *)
(* app/jobs/handlers.py, and the chat paths that start, resend and cancel  *)
(* a payment (app/services/cafe_automation.py, app/channels/base.py).      *)
(*                                                                         *)
(* A process is a request handler, a chat turn or a job handler.  Each     *)
(* reads the order in a session, waits (for the provider, for WhatsApp, or *)
(* for the database) and then writes.  Status changes go through           *)
(* _transition_payment_status, an UPDATE guarded by the status and the     *)
(* version the process read; the checkout reference is written unguarded.  *)
(*                                                                         *)
(* The provider is external: it opens a checkout when asked, the customer  *)
(* pays or declines it on the phone, and its notices are delivered late,   *)
(* repeatedly, in any order or never.                                      *)
(***************************************************************************)
EXTENDS Integers, FiniteSets

CONSTANTS
    Orders,    \* orders, created pending by create_pending_order
    Refs,      \* BOUND: the checkouts the provider may ever open
    Procs,     \* concurrent requests, chat turns and job handlers
    Provider,  \* "daraja" or "intasend"
    MaxPolls,  \* polls per checkout before the poller gives up (12)
    NoOrder,   \* owner of a checkout that was never opened
    NoRef      \* NULL in mpesa_checkout_id

ASSUME ConstantsAssumption ==
    /\ Provider \in {"daraja", "intasend"}
    /\ MaxPolls \in Nat \ {0}
    /\ NoOrder \notin Orders
    /\ NoRef \notin Refs

VARIABLES
    order,    \* the table: payment_status, payment_version, mpesa_checkout_id
    owner,    \* provider: the order each checkout was opened for
    notices,  \* provider: the results <<checkout, result>> it announces
    claimed,  \* redis: idempotency keys of the callbacks
    jobs,     \* jobs of the three kinds that carry an order id, still to be run
    proc,     \* per process, where it is and what it has read
    fate      \* history: what became of the charge of each checkout

vars == <<order, owner, notices, claimed, jobs, proc, fate>>

Unpaid   == {"pending", "failed", "cancelled", "timeout"}
Statuses == Unpaid \cup {"paid"}

\* ResultCode 0, 1032 and the rest for Daraja; COMPLETE and FAILED for IntaSend.
Declines == IF Provider = "daraja" THEN {"failed", "cancelled"} ELSE {"failed"}
Results  == Declines \cup {"paid"}

OrderType == [status : Statuses, version : Nat, ref : Refs \cup {NoRef}]

JobType ==
         [kind : {"followup"}, order : Orders, ref : Refs]
    \cup [kind : {"poll"}, order : Orders, ref : Refs, n : 1 .. MaxPolls]
    \cup [kind : {"ready"}, order : Orders]

Fates == {"open", "recorded", "unknown", "already", "refused", "conflict", "crash"}

\* pc names what the process waits for; n is the poll_count of a poll,
\* and drop the jobs a resend will cancel.
ProcType ==
    [pc : {"idle", "stk_sent", "chat_read", "chat_again", "chat_sent",
           "cancel_read", "claimed", "read", "fetched", "poll_again",
           "nudged", "rechecked"},
     order : Orders \cup {NoOrder}, ref : Refs \cup {NoRef},
     status : Statuses, version : Nat,
     result : Results \cup {"open"}, n : 0 .. MaxPolls, drop : SUBSET JobType]

TypeOK ==
    /\ order \in [Orders -> OrderType]
    /\ owner \in [Refs -> Orders \cup {NoOrder}]
    /\ notices \subseteq Refs \X Results
    /\ claimed \subseteq Refs \X (Results \cup {"any"})
    /\ jobs \subseteq JobType
    /\ proc \in [Procs -> ProcType]
    /\ fate \in [Refs -> Fates]

\* A process that has not read the order, and one that has just read it.
Knows(pc, o, c, result, n) ==
    [pc |-> pc, order |-> o, ref |-> c, status |-> "pending", version |-> 0,
     result |-> result, n |-> n, drop |-> {}]

Reads(pc, o, c, result, n) ==
    [pc |-> pc, order |-> o, ref |-> c, status |-> order[o].status,
     version |-> order[o].version, result |-> result, n |-> n, drop |-> {}]

Idle == Knows("idle", NoOrder, NoRef, "open", 0)

Init ==
    /\ order = [o \in Orders |-> [status |-> "pending", version |-> 0, ref |-> NoRef]]
    /\ owner = [c \in Refs |-> NoOrder]
    /\ notices = {}
    /\ claimed = {}
    /\ jobs = {}
    /\ proc = [p \in Procs |-> Idle]
    /\ fate = [c \in Refs |-> "open"]

-----------------------------------------------------------------------------
(* The guarded write                                                       *)

\* Mutant: the decision is taken on the row as it was read.
WinsOnSnapshot(p, from) == proc[p].status \in from

\* _transition_payment_status: the status is checked twice, in the session's
\* copy and in the WHERE clause together with the version.
Wins(p, from) ==
    LET o == proc[p].order IN
    /\ proc[p].status \in from
    /\ order[o].status \in from
    /\ order[o].version = proc[p].version

Moved(p, status) == [order EXCEPT ![proc[p].order].status = status,
                                  ![proc[p].order].version = @ + 1]

Becomes(p, state) == proc' = [proc EXCEPT ![p] = state]

Goes(p, pc) == Becomes(p, [proc[p] EXCEPT !.pc = pc])

Ends(p) == Becomes(p, Idle)

\* A charge that is not recorded, and why; once recorded it stays so.
Missed(c, why) == [fate EXCEPT ![c] = IF @ = "recorded" THEN @ ELSE why]

-----------------------------------------------------------------------------
(* POST /stk-push                                                          *)

\* The provider opens a checkout for the order.
Open(o, c) ==
    /\ owner[c] = NoOrder
    /\ owner' = [owner EXCEPT ![c] = o]

\* The order is read and the provider asked; the answer takes its time.
StkRequest(p, o, c) ==
    /\ proc[p].pc = "idle"
    /\ order[o].status # "paid"
    /\ Open(o, c)
    /\ Becomes(p, Reads("stk_sent", o, c, "open", 0))
    /\ UNCHANGED <<order, notices, claimed, jobs, fate>>

\* The answer is lost after the checkout was opened.
StkAnswerLost(p, o, c) ==
    /\ proc[p].pc = "idle"
    /\ order[o].status # "paid"
    /\ Open(o, c)
    /\ UNCHANGED <<order, notices, claimed, jobs, proc, fate>>

FirstJob(o, c) ==
    IF Provider = "intasend" THEN [kind |-> "poll", order |-> o, ref |-> c, n |-> 1]
                             ELSE [kind |-> "followup", order |-> o, ref |-> c]

StkCommit(p) ==
    LET o == proc[p].order  c == proc[p].ref IN
    /\ proc[p].pc = "stk_sent"
    /\ \/ /\ Wins(p, Unpaid)
          /\ order' = [Moved(p, "pending") EXCEPT ![o].ref = c]
          /\ jobs' = jobs \cup {FirstJob(o, c)}
       \/ /\ ~Wins(p, Unpaid)
          /\ UNCHANGED <<order, jobs>>
    /\ Ends(p)
    /\ UNCHANGED <<owner, notices, claimed, fate>>

-----------------------------------------------------------------------------
(* Payment from a chat turn: request_order_payment, alone or as a resend   *)

ChatRead(p, o) ==
    /\ proc[p].pc = "idle"
    /\ order[o].status = "pending"
    /\ Becomes(p, Knows("chat_read", o, NoRef, "open", 0))
    /\ UNCHANGED <<order, owner, notices, claimed, jobs, fate>>

JobsOf(o) == {j \in jobs : j.order = o}

\* A resend first selects the queued jobs of the order to cancel; the repeat
\* of an order that is still pending, or a resend while they run, selects none.
Selections(p) == IF proc[p].pc = "chat_read" THEN {{}, JobsOf(proc[p].order)}
                                             ELSE {proc[p].drop}

ChatSend(p, c) ==
    /\ proc[p].pc \in {"chat_read", "chat_again"}
    /\ Open(proc[p].order, c)
    /\ \E drop \in Selections(p) :
           Becomes(p, [proc[p] EXCEPT !.pc = "chat_sent", !.ref = c, !.drop = drop])
    /\ UNCHANGED <<order, notices, claimed, jobs, fate>>

\* The provider call raises, with or without a checkout opened.  The first
\* error is retried once; a timeout, a refusal or the second error ends the
\* turn, whose other writes are committed.
ChatSendFails(p) ==
    /\ proc[p].pc \in {"chat_read", "chat_again"}
    /\ UNCHANGED owner \/ \E c \in Refs : Open(proc[p].order, c)
    /\ \E drop \in Selections(p) :
           \/ /\ proc[p].pc = "chat_read"
              /\ Becomes(p, [proc[p] EXCEPT !.pc = "chat_again", !.drop = drop])
              /\ UNCHANGED jobs
           \/ /\ jobs' = jobs \ drop
              /\ Ends(p)
    /\ UNCHANGED <<order, notices, claimed, fate>>

\* The reference is written whatever the order has become, and no version
\* moves.  The poll is queued in a savepoint that may be rolled back.
ChatCommit(p) ==
    LET o == proc[p].order  c == proc[p].ref IN
    /\ proc[p].pc = "chat_sent"
    /\ order' = [order EXCEPT ![o].ref = c]
    /\ \E polls \in {{}, {FirstJob(o, c)}} :
           /\ Provider # "intasend" => polls = {}
           /\ jobs' = (jobs \ proc[p].drop) \cup polls
    /\ Ends(p)
    /\ UNCHANGED <<owner, notices, claimed, fate>>

CancelRead(p, o) ==
    /\ proc[p].pc = "idle"
    /\ order[o].status = "pending"
    /\ Becomes(p, Reads("cancel_read", o, NoRef, "open", 0))
    /\ UNCHANGED <<order, owner, notices, claimed, jobs, fate>>

CancelCommit(p) ==
    /\ proc[p].pc = "cancel_read"
    /\ \/ /\ Wins(p, {"pending"})
          /\ order' = Moved(p, "cancelled")
          /\ \E drop \in {{}, JobsOf(proc[p].order)} : jobs' = jobs \ drop
       \/ /\ ~Wins(p, {"pending"})
          /\ UNCHANGED <<order, jobs>>
    /\ Ends(p)
    /\ UNCHANGED <<owner, notices, claimed, fate>>

-----------------------------------------------------------------------------
(* The provider                                                            *)

Answered(c, results) == \E s \in results : <<c, s>> \in notices

\* A declined IntaSend invoice can still be paid; a Daraja prompt cannot.
Charge(c) ==
    /\ owner[c] # NoOrder
    /\ ~Answered(c, IF Provider = "daraja" THEN Results ELSE {"paid"})
    /\ notices' = notices \cup {<<c, "paid">>}
    /\ UNCHANGED <<order, owner, claimed, jobs, proc, fate>>

Decline(c, s) ==
    /\ owner[c] # NoOrder
    /\ ~Answered(c, Results)
    /\ s \in Declines
    /\ notices' = notices \cup {<<c, s>>}
    /\ UNCHANGED <<order, owner, claimed, jobs, proc, fate>>

-----------------------------------------------------------------------------
(* Callbacks                                                               *)

\* mpesa:cb:<checkout>, or <provider>:cb:<reference>:<status>.
Key(c, s) == IF Provider = "daraja" THEN <<c, "any">> ELSE <<c, s>>

\* A notice arrives; one whose key is taken is answered as a duplicate and
\* changes nothing.
Deliver(p, c, s) ==
    /\ proc[p].pc = "idle"
    /\ <<c, s>> \in notices
    /\ Key(c, s) \notin claimed
    /\ claimed' = claimed \cup {Key(c, s)}
    /\ Becomes(p, Knows("claimed", NoOrder, c, s, 0))
    /\ UNCHANGED <<order, owner, notices, jobs, fate>>

FateOfMiss(p, why) ==
    IF proc[p].result = "paid" THEN Missed(proc[p].ref, why) ELSE fate

\* Mutant: an order that is over is over for good news as well.
IgnoredWhateverResult(o, result) == order[o].status \in Statuses \ {"pending", "paid"}

\* "terminal unpaid order ignored"
Ignored(o, result) ==
    /\ order[o].status \in {"cancelled", "failed", "timeout"}
    /\ result # "paid"

\* The checks both callbacks and the poll make on the row before they write.
Inspect(p, o) ==
    \/ /\ order[o].status = "paid"
       /\ fate' = FateOfMiss(p, "already")
       /\ Ends(p)
    \/ /\ Ignored(o, proc[p].result)
       /\ Ends(p)
       /\ UNCHANGED fate
    \/ /\ order[o].status # "paid"
       /\ ~Ignored(o, proc[p].result)
       /\ Becomes(p, Reads("read", o, proc[p].ref, proc[p].result, proc[p].n))
       /\ UNCHANGED fate

\* The order is looked up by the reference it carries now.
CallbackRead(p) ==
    LET found == {o \in Orders : order[o].ref = proc[p].ref} IN
    /\ proc[p].pc = "claimed"
    /\ \/ \E o \in found : Inspect(p, o)
       \/ /\ found = {}
          /\ fate' = FateOfMiss(p, "unknown")
          /\ Ends(p)
    /\ UNCHANGED <<order, owner, notices, claimed, jobs>>

\* Daraja only: no receipt, or another amount than the order's.
CallbackRefused(p) ==
    /\ Provider = "daraja"
    /\ proc[p].pc = "read" /\ proc[p].n = 0
    /\ proc[p].result = "paid"
    /\ fate' = FateOfMiss(p, "refused")
    /\ Ends(p)
    /\ UNCHANGED <<order, owner, notices, claimed, jobs>>

\* The rest of mpesa_callback, and of _apply_provider_payment_result_inner,
\* which the other callbacks and the poll share.
Apply(p) ==
    LET o == proc[p].order  c == proc[p].ref  result == proc[p].result IN
    /\ proc[p].pc = "read"
    /\ \/ /\ result = "paid"
          /\ Wins(p, Unpaid)
          /\ order' = Moved(p, "paid")
          /\ jobs' = jobs \cup {[kind |-> "ready", order |-> o]}
          /\ fate' = [fate EXCEPT ![c] = "recorded"]
       \/ /\ result # "paid"
          /\ Wins(p, {"pending"})
          /\ order' = Moved(p, result)
          /\ UNCHANGED <<jobs, fate>>
       \/ /\ ~Wins(p, IF result = "paid" THEN Unpaid ELSE {"pending"})
          /\ fate' = FateOfMiss(p, IF order[o].status = "paid" THEN "already"
                                                               ELSE "conflict")
          /\ UNCHANGED <<order, jobs>>
    /\ Ends(p)
    /\ UNCHANGED <<owner, notices, claimed>>

-----------------------------------------------------------------------------
(* The jobs payment.intasend_poll and payment.unpaid_followup              *)

\* Mutant: any final state counts as COMPLETE.
FetchedFinal(c) == IF Answered(c, Results) THEN "paid" ELSE "open"

\* fetch_status: a charge outweighs an earlier decline.
Fetched(c) ==
    IF Answered(c, {"paid"}) THEN "paid"
    ELSE IF Answered(c, Declines) THEN "failed" ELSE "open"

\* The queue hands out a job.  It runs it again if the handler fails, the
\* process dies or the outcome is not written (module JobQueue).
Take(j) == jobs' = jobs \/ jobs' = jobs \ {j}

PollFetch(p, j) ==
    /\ proc[p].pc = "idle"
    /\ j.kind = "poll"
    /\ Take(j)
    /\ Becomes(p, Knows("fetched", j.order, j.ref, Fetched(j.ref), j.n))
    /\ UNCHANGED <<order, owner, notices, claimed, fate>>

PollStillPending(p) ==
    /\ proc[p].pc = "fetched"
    /\ proc[p].result = "open"
    /\ IF order[proc[p].order].status = "pending" /\ proc[p].n < MaxPolls
       THEN Goes(p, "poll_again") ELSE Ends(p)
    /\ UNCHANGED <<order, owner, notices, claimed, jobs, fate>>

PollEnqueue(p) ==
    /\ proc[p].pc = "poll_again"
    /\ jobs' = jobs \cup {[kind |-> "poll", order |-> proc[p].order,
                           ref |-> proc[p].ref, n |-> proc[p].n + 1]}
    /\ Ends(p)
    /\ UNCHANGED <<order, owner, notices, claimed, fate>>

\* The order comes from the job, whatever reference it carries now.
PollRead(p) ==
    /\ proc[p].pc = "fetched"
    /\ proc[p].result # "open"
    /\ Inspect(p, proc[p].order)
    /\ UNCHANGED <<order, owner, notices, claimed, jobs>>

FollowupStart(p, j) ==
    /\ proc[p].pc = "idle"
    /\ j.kind = "followup"
    /\ Take(j)
    /\ IF order[j.order].status = "pending"
       THEN Becomes(p, Knows("nudged", j.order, j.ref, "open", 0))
       ELSE UNCHANGED proc
    /\ UNCHANGED <<order, owner, notices, claimed, fate>>

\* The reminder went out; a new session reads the order again.
FollowupRecheck(p) ==
    LET o == proc[p].order IN
    /\ proc[p].pc = "nudged"
    /\ IF order[o].status = "pending"
       THEN Becomes(p, Reads("rechecked", o, proc[p].ref, "open", 0))
       ELSE Ends(p)
    /\ UNCHANGED <<order, owner, notices, claimed, jobs, fate>>

FollowupApply(p) ==
    /\ proc[p].pc = "rechecked"
    /\ order' = IF Wins(p, {"pending"}) THEN Moved(p, "timeout") ELSE order
    /\ Ends(p)
    /\ UNCHANGED <<owner, notices, claimed, jobs, fate>>

-----------------------------------------------------------------------------
(* Crashes                                                                 *)

\* A process dies or its handler raises: the session is rolled back.  The
\* idempotency key of a callback stays claimed.
Crash(p) ==
    /\ proc[p].pc # "idle"
    /\ fate' = IF proc[p].pc \in {"claimed", "read"} /\ proc[p].n = 0
               THEN FateOfMiss(p, "crash") ELSE fate
    /\ Ends(p)
    /\ UNCHANGED <<order, owner, notices, claimed, jobs>>

-----------------------------------------------------------------------------

Step(p) ==
    \/ \E o \in Orders, c \in Refs : StkRequest(p, o, c) \/ StkAnswerLost(p, o, c)
    \/ StkCommit(p)
    \/ \E o \in Orders : ChatRead(p, o) \/ CancelRead(p, o)
    \/ (\E c \in Refs : ChatSend(p, c)) \/ ChatSendFails(p) \/ ChatCommit(p)
    \/ CancelCommit(p)
    \/ \E c \in Refs, s \in Results : Deliver(p, c, s)
    \/ CallbackRead(p) \/ CallbackRefused(p) \/ Apply(p)
    \/ \E j \in jobs : PollFetch(p, j) \/ FollowupStart(p, j)
    \/ PollStillPending(p) \/ PollEnqueue(p) \/ PollRead(p)
    \/ FollowupRecheck(p) \/ FollowupApply(p)
    \/ Crash(p)

Customer == \E c \in Refs : Charge(c) \/ \E s \in Declines : Decline(c, s)

Next == Customer \/ \E p \in Procs : Step(p)

Spec == Init /\ [][Next]_vars

-----------------------------------------------------------------------------
(* Properties                                                              *)

\* A paid callback whose idempotency key is taken is never simply gone: it is
\* being processed, or its charge is recorded, or it was lost in one of the
\* ways the code names (the claim comes before the work, payments.py:453).
HandledBy(p, c) ==
    /\ proc[p].pc \in {"claimed", "read"} /\ proc[p].n = 0
    /\ proc[p].ref = c
    /\ proc[p].result = "paid"

ChargesAccountedFor ==
    \A c \in Refs :
        /\ <<c, "paid">> \in notices
        /\ Key(c, "paid") \in claimed
        => fate[c] # "open" \/ \E p \in Procs : HandledBy(p, c)

\* No interleaving of callbacks, polls, follow-ups, cancellations and new
\* requests moves an order along an edge the code does not intend: paid is
\* final, an unsuccessful end is reached only from pending, and every change
\* of status takes the next version (_transition_payment_status).
Edges ==
         {"pending"} \X (Statuses \ {"pending"})
    \cup (Unpaid \ {"pending"}) \X {"pending", "paid"}

TransitionsAreLegal ==
    [][\A o \in Orders : order'[o].status # order[o].status =>
           /\ <<order[o].status, order'[o].status>> \in Edges
           /\ order'[o].version = order[o].version + 1]_order

\* The detailed machine implements the ledger: an order is credited once,
\* with a charge of a checkout opened for it, and keeps the credit.
Ledger == INSTANCE PaymentLedger WITH
    charged  <- {c \in Refs : <<c, "paid">> \in notices},
    credited <- {c \in Refs : fate[c] = "recorded"},
    paid     <- {o \in Orders : order[o].status = "paid"}

ImplementsLedger == Ledger!Spec

\* payments.py:71-77 promises that a real paid callback wins over an earlier
\* pending, failed or timeout state: its write is never turned away while the
\* order is unpaid.
PaidCallbackWins == \A c \in Refs : fate[c] # "conflict"

=============================================================================
