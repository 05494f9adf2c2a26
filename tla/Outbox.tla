------------------------------- MODULE Outbox -------------------------------
(***************************************************************************)
(* Durable delivery of webhooks: the table outbox (services/outbox.py),    *)
(* the runner of every API process (jobs/outbox_runner.py) and the         *)
(* webhook endpoints the console creates and deletes.                      *)
(*                                                                         *)
(* A runner claims the oldest free rows for 60 seconds in one transaction  *)
(* and then treats them one after the other: it reads the endpoint, POSTs  *)
(* (up to three tries), reads the endpoint again to count the outcome on   *)
(* it, and settles the row, each in a session of its own.  One delivery    *)
(* alone can outlast the 60 seconds, so a claim may run out under the      *)
(* runner (LockExpires); nothing it does afterwards looks at the claim.    *)
(*                                                                         *)
(* The table is a sequence in the order of scheduled_at, which is the time *)
(* of insertion.  The column attempts is counted and never read: it is     *)
(* left out, and with it any bound on how often a row is tried.            *)
(***************************************************************************)
EXTENDS Integers, Sequences, FiniteSets

CONSTANTS
    Endpoints,     \* receivers that businesses may register
    Workers,       \* API processes; each runs one outbox runner
    BatchLimit,    \* rows claimed at once (20)
    DisableAfter,  \* failures that switch an endpoint off (20)
    Answers,       \* EXTERNAL: what a receiver may answer to the three tries
    MaxRows,       \* BOUND: rows ever inserted
    MaxFaults      \* BOUND: crashes, failed transactions and claims that run
                   \* out under a runner still at work

ASSUME OutboxAssumption ==
    /\ BatchLimit \in Nat \ {0}
    /\ DisableAfter \in Nat \ {0}
    /\ Answers \in [Endpoints -> SUBSET {"ok", "error"}]
    /\ MaxRows \in Nat
    /\ MaxFaults \in Nat

VARIABLES
    rows,      \* the table; acks, lapsed and unsettled are history, see RowType
    endpoint,  \* the table webhook_endpoints
    runner,    \* per process, the batch in hand and the step it is at
    streak,    \* history: failed deliveries since the last success
    blurred,   \* history: endpoints whose outcomes overlapped or got lost
    faults     \* crashes, failed transactions and overrun claims so far

vars == <<rows, endpoint, runner, streak, blurred, faults>>

(* acks counts the deliveries the receiver accepted (2: more than one);    *)
(* lapsed says that a claim on the row ran out before it was released,     *)
(* unsettled that one was released by an error after the receiver accepted.*)
RowType == [ep : Endpoints, sent : BOOLEAN, locked : BOOLEAN,
            acks : 0..2, lapsed : BOOLEAN, unsettled : BOOLEAN]

EndpointType == [status : {"absent", "active", "inactive", "deleted"},
                 failures : Nat]

Stages == {"load", "post", "count", "write", "mark"}

(* result is the outcome of the delivery, failures and active what the     *)
(* session that counts it has read; they matter from "count" on.           *)
RunnerType == [batch : Seq(1..MaxRows), stage : Stages,
               result : {"ok", "error"}, failures : Nat, active : BOOLEAN]

IdleRunner == [batch |-> <<>>, stage |-> "load", result |-> "error",
               failures |-> 0, active |-> FALSE]

Init ==
    /\ rows = <<>>
    /\ endpoint = [ep \in Endpoints |-> [status |-> "absent", failures |-> 0]]
    /\ runner = [w \in Workers |-> IdleRunner]
    /\ streak = [ep \in Endpoints |-> 0]
    /\ blurred = {}
    /\ faults = 0

-----------------------------------------------------------------------------
(* The endpoints, as the console's owners create and delete them.          *)

WebhookCreate(ep, active) ==
    /\ endpoint[ep].status = "absent"
    /\ endpoint' = [endpoint EXCEPT ![ep].status =
                        IF active THEN "active" ELSE "inactive"]
    /\ UNCHANGED <<rows, runner, streak, blurred, faults>>

(* Its counts, and their history, go with the row.                         *)
WebhookDelete(ep) ==
    /\ endpoint[ep].status \in {"active", "inactive"}
    /\ endpoint' = [endpoint EXCEPT ![ep] = [status |-> "deleted", failures |-> 0]]
    /\ streak' = [streak EXCEPT ![ep] = 0]
    /\ blurred' = blurred \ {ep}
    /\ UNCHANGED <<rows, runner, faults>>

-----------------------------------------------------------------------------
(* The table.                                                              *)

OutboxRow(ep) == [ep |-> ep, sent |-> FALSE, locked |-> FALSE,
               acks |-> 0, lapsed |-> FALSE, unsettled |-> FALSE]

(* enqueue: one insert, due at once.  The dispatcher (EventBus) calls it   *)
(* for endpoints it found a moment ago; they may have gone since.          *)
Enqueue(ep) ==
    /\ endpoint[ep].status # "absent"
    /\ Len(rows) < MaxRows
    /\ rows' = Append(rows, OutboxRow(ep))
    /\ UNCHANGED <<endpoint, runner, streak, blurred, faults>>

\* Rows another runner holds are taken too.
ClaimableUnsent(r) == ~rows[r].sent

Claimable(r) == ~rows[r].sent /\ ~rows[r].locked

(* The oldest claimable rows, in order.                                    *)
Before(r) == {q \in 1..(r - 1) : Claimable(q)}
Oldest    == {r \in DOMAIN rows : Claimable(r) /\ Cardinality(Before(r)) < BatchLimit}
InOrder(batch) == \A i, j \in DOMAIN batch : i < j => batch[i] < batch[j]

(* fetch_pending: select, set locked_until and commit, as one transaction. *)
FetchPending(w) ==
    /\ runner[w].batch = <<>>
    /\ Oldest # {}
    /\ rows' = [r \in DOMAIN rows |->
                   IF r \in Oldest THEN [rows[r] EXCEPT !.locked = TRUE] ELSE rows[r]]
    /\ \E batch \in [1..Cardinality(Oldest) -> Oldest] :
          /\ InOrder(batch)
          /\ runner' = [runner EXCEPT ![w] = [IdleRunner EXCEPT !.batch = batch]]
    /\ UNCHANGED <<endpoint, streak, blurred, faults>>

Fault ==
    /\ faults < MaxFaults
    /\ faults' = faults + 1

Holders(r) == {w \in Workers : \E i \in DOMAIN runner[w].batch : runner[w].batch[i] = r}

\* A claim is never given up.
LockStays(r) == rows[r].locked /\ FALSE

(* The 60 seconds of a claim run out: with its runner gone or, when the    *)
(* rows before it took their time, under a runner still at work.           *)
LockExpires(r) ==
    /\ rows[r].locked
    /\ \/ Holders(r) = {} /\ faults' = faults
       \/ Holders(r) # {} /\ Fault
    /\ rows' = [rows EXCEPT ![r].locked = FALSE, ![r].lapsed = TRUE]
    /\ UNCHANGED <<endpoint, runner, streak, blurred>>

-----------------------------------------------------------------------------
(* _process_row.                                                           *)

At(w, stage) == runner[w].batch # <<>> /\ runner[w].stage = stage
Row(w)       == Head(runner[w].batch)
Target(w)    == rows[Row(w)].ep

NextRow(w) == [IdleRunner EXCEPT !.batch = Tail(runner[w].batch)]

MarkSent(r)   == rows' = [rows EXCEPT ![r].sent = TRUE, ![r].locked = FALSE]
MarkFailed(r) == rows' = [rows EXCEPT ![r].locked = FALSE]

(* The endpoint is read in a first session.                                *)
LoadEndpoint(w) ==
    /\ At(w, "load")
    /\ endpoint[Target(w)].status = "active"
    /\ runner' = [runner EXCEPT ![w].stage = "post"]
    /\ UNCHANGED <<rows, endpoint, streak, blurred, faults>>

EndpointMissing(w) ==
    /\ At(w, "load")
    /\ endpoint[Target(w)].status # "active"
    /\ MarkFailed(Row(w))
    /\ runner' = [runner EXCEPT ![w] = NextRow(w)]
    /\ UNCHANGED <<endpoint, streak, blurred, faults>>

Counting(ep) == {w \in Workers : /\ runner[w].batch # <<>>
                                 /\ runner[w].stage \in {"count", "write"}
                                 /\ Target(w) = ep}

OneMore(n) == IF n < DisableAfter THEN n + 1 ELSE n

(* _post_with_retries: the outcome of up to three tries.                   *)
Post(w) ==
    /\ At(w, "post")
    /\ \E answer \in Answers[Target(w)] :
          /\ runner' = [runner EXCEPT ![w].stage = "count", ![w].result = answer]
          /\ rows' = IF answer = "ok"
                       THEN [rows EXCEPT ![Row(w)].acks = IF @ = 0 THEN 1 ELSE 2]
                       ELSE rows
          /\ streak' = [streak EXCEPT ![Target(w)] =
                            IF answer = "ok" THEN 0 ELSE OneMore(@)]
    /\ blurred' = IF Counting(Target(w)) # {} THEN blurred \cup {Target(w)} ELSE blurred
    /\ UNCHANGED <<endpoint, faults>>

(* The endpoint is read again, in the session that will write the outcome. *)
ReadCount(w) ==
    /\ At(w, "count")
    /\ endpoint[Target(w)].status # "deleted"
    /\ runner' = [runner EXCEPT ![w].stage = "write",
                                ![w].failures = endpoint[Target(w)].failures,
                                ![w].active = endpoint[Target(w)].status = "active"]
    /\ UNCHANGED <<rows, endpoint, streak, blurred, faults>>

EndpointDeleted(w) ==
    /\ At(w, "count")
    /\ endpoint[Target(w)].status = "deleted"
    /\ MarkFailed(Row(w))
    /\ runner' = [runner EXCEPT ![w] = NextRow(w)]
    /\ UNCHANGED <<endpoint, streak, blurred, faults>>

SwitchesOff(count) == count >= DisableAfter

\* A success leaves the count as it is.
CountedTotal(w) ==
    LET ep    == endpoint[Target(w)]
        count == runner[w].failures + (IF runner[w].result = "ok" THEN 0 ELSE 1)
        off   == runner[w].result = "error" /\ SwitchesOff(count) /\ runner[w].active
    IN  [status |-> IF off THEN "inactive" ELSE ep.status, failures |-> count]

(* The write: only columns whose value differs from the one read are sent. *)
Counted(w) ==
    LET ep    == endpoint[Target(w)]
        count == IF runner[w].result = "ok" THEN 0 ELSE runner[w].failures + 1
        off   == runner[w].result = "error" /\ SwitchesOff(count) /\ runner[w].active
    IN  [status   |-> IF off THEN "inactive" ELSE ep.status,
         failures |-> IF count = runner[w].failures THEN ep.failures ELSE count]

WriteCount(w) ==
    /\ At(w, "write")
    /\ endpoint[Target(w)].status # "deleted"
    /\ endpoint' = [endpoint EXCEPT ![Target(w)] = Counted(w)]
    /\ runner' = [runner EXCEPT ![w].stage = "mark", ![w].failures = 0,
                                ![w].active = FALSE]
    /\ UNCHANGED <<rows, streak, blurred, faults>>

(* The endpoint went between read and commit: the update matches no row,   *)
(* the exception is caught and the row is marked failed.                   *)
WriteCountStale(w) ==
    /\ At(w, "write")
    /\ endpoint[Target(w)].status = "deleted"
    /\ MarkFailed(Row(w))
    /\ runner' = [runner EXCEPT ![w] = NextRow(w)]
    /\ UNCHANGED <<endpoint, streak, blurred, faults>>

Settle(w) ==
    /\ At(w, "mark")
    /\ IF runner[w].result = "ok" THEN MarkSent(Row(w)) ELSE MarkFailed(Row(w))
    /\ runner' = [runner EXCEPT ![w] = NextRow(w)]
    /\ UNCHANGED <<endpoint, streak, blurred, faults>>

(* An outcome that was not written on the endpoint is lost to the count.   *)
OutcomeLost(w) ==
    blurred' = IF runner[w].batch # <<>> /\ runner[w].stage \in {"count", "write"}
                 THEN blurred \cup {Target(w)} ELSE blurred

(* The receiver accepted, and the table does not say so yet.               *)
Accepted(w) == runner[w].stage \in {"count", "write", "mark"} /\ runner[w].result = "ok"

(* A transaction fails, also the one that settles a row the receiver has   *)
(* accepted: the exception is caught, the row marked failed, and the batch *)
(* goes on.                                                                *)
ProcessFails(w) ==
    /\ Fault
    /\ runner[w].batch # <<>>
    /\ rows' = [rows EXCEPT ![Row(w)].locked = FALSE,
                            ![Row(w)].unsettled = @ \/ Accepted(w)]
    /\ runner' = [runner EXCEPT ![w] = NextRow(w)]
    /\ OutcomeLost(w)
    /\ UNCHANGED <<endpoint, streak>>

(* The process dies, or a transaction fails and so does the mark_failed    *)
(* after it: the batch is dropped, its claims stay until they run out.     *)
RunnerFails(w) ==
    /\ Fault
    /\ runner[w].batch # <<>>
    /\ runner' = [runner EXCEPT ![w] = IdleRunner]
    /\ OutcomeLost(w)
    /\ UNCHANGED <<rows, endpoint, streak>>

RunnerStep(w) ==
    \/ FetchPending(w)
    \/ LoadEndpoint(w)
    \/ EndpointMissing(w)
    \/ Post(w)
    \/ ReadCount(w)
    \/ EndpointDeleted(w)
    \/ WriteCount(w)
    \/ WriteCountStale(w)
    \/ Settle(w)

Next ==
    \/ \E ep \in Endpoints : Enqueue(ep)
    \/ \E ep \in Endpoints, active \in BOOLEAN : WebhookCreate(ep, active)
    \/ \E ep \in Endpoints : WebhookDelete(ep)
    \/ \E r \in DOMAIN rows : LockExpires(r)
    \/ \E w \in Workers : RunnerStep(w) \/ ProcessFails(w) \/ RunnerFails(w)

Spec == Init /\ [][Next]_vars

(* The event loop of every process keeps running its runner, and claims    *)
(* run out with the clock.  Nothing is asked of operators or receivers.    *)
Fairness ==
    /\ \A w \in Workers : WF_vars(RunnerStep(w))
    /\ \A r \in 1..MaxRows : WF_vars(r \in DOMAIN rows /\ LockExpires(r))

FairSpec == Spec /\ Fairness

-----------------------------------------------------------------------------
TypeOK ==
    /\ rows \in Seq(RowType)
    /\ Len(rows) <= MaxRows
    /\ endpoint \in [Endpoints -> EndpointType]
    /\ runner \in [Workers -> RunnerType]
    /\ streak \in [Endpoints -> 0..DisableAfter]
    /\ blurred \subseteq Endpoints
    /\ faults \in 0..MaxFaults

(* Two runners never work on the same row, unless a claim on it ran out    *)
(* first, under its runner or after a crash (outbox.py:39: "so other       *)
(* runners skip them"); and its receiver accepts it once, unless that was  *)
(* so or an error kept the first acceptance out of the table.              *)
ExclusiveDelivery ==
    \A r \in DOMAIN rows : ~rows[r].lapsed =>
        /\ Cardinality(Holders(r)) <= 1
        /\ rows[r].acks <= 1 \/ rows[r].unsettled

(* An endpoint is switched off by DisableAfter failures in a row and not   *)
(* otherwise, as long as its outcomes are counted one at a time and none   *)
(* was lost in a crash (webhook_dispatcher.py:62, "consecutive failures"). *)
DisabledByStreak ==
    [][\A ep \in Endpoints :
          /\ endpoint[ep].status = "active"
          /\ endpoint'[ep].status = "inactive"
          /\ ep \notin blurred
          => streak[ep] >= DisableAfter]_vars

(* A live endpoint whose receiver always accepts gets every row addressed  *)
(* to it, although runners crash and claims run out, unless so many rows   *)
(* that cannot be sent stand before it that no batch reaches it.           *)
Pending(r) == r \in DOMAIN rows /\ ~rows[r].sent

Reliable(ep) == Answers[ep] = {"ok"} /\ endpoint[ep].status = "active"

Crowded(r) == Cardinality({q \in 1..(r - 1) : ~rows[q].sent}) >= BatchLimit

Addressed(r) == Pending(r) /\ Reliable(rows[r].ep)

DeliveredUnlessCrowded ==
    \A r \in 1..MaxRows :
        Addressed(r) ~> (~Addressed(r) \/ Crowded(r))
=============================================================================
