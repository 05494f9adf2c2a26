------------------------------ MODULE JobQueue ------------------------------
(***************************************************************************)
(* The durable background-job queue of app/jobs/runner.py.                 *)
(*                                                                         *)
(* A job is a row of the table background_jobs.  A worker is any caller of *)
(* run_due_jobs_once: the polling loop of an API process, or a webhook     *)
(* request draining the queue after it enqueued a message.  A worker       *)
(* claims a batch of due rows under one lease, runs their handlers one     *)
(* after the other, and writes the outcome of each in a transaction of its *)
(* own.  Neither of the two outcome transactions looks at who holds the    *)
(* row, so a worker that outlived its lease writes over its successor.     *)
(*                                                                         *)
(* Time is a bounded clock; one unit stands for the 15 seconds of the      *)
(* first retry delay.  The claim locks what it selects and is one action,  *)
(* and so is an enqueue.  The outcome transactions and the cancel read a   *)
(* row without a lock and write it later: two actions, with anything in    *)
(* between.  They write the columns that differ from the copy they read.   *)
(***************************************************************************)
EXTENDS Integers, Sequences, FiniteSets

CONSTANTS
    Jobs,          \* rows that may be enqueued
    Workers,       \* concurrent callers of run_due_jobs_once
    InboundJobs,   \* the rows of kind "whatsapp.inbound", served first
    Limit,         \* rows claimed at once (10 for the loop, 20 for a drain)
    Lease,         \* _lease_seconds
    BackoffCap,    \* the 300 second cap on the retry delay
    MaxAttempts,   \* max_attempts of each row
    Ttl,           \* ttl_seconds of each row
    Delays,        \* how far ahead callers set run_at
    Horizon        \* BOUND: the clock stops here

ASSUME ConstantsAssumption ==
    /\ InboundJobs \subseteq Jobs
    /\ Limit \in Nat \ {0}
    /\ Lease \in Nat \ {0}
    /\ BackoffCap \in Nat \ {0}
    /\ MaxAttempts \in [Jobs -> Nat \ {0}]
    /\ Ttl \in [Jobs -> Nat \ {0}]
    /\ Delays \subseteq Nat
    /\ Horizon \in Nat

VARIABLES
    now,        \* the clock
    job,        \* the table: one record per row
    batch,      \* per worker, the snapshots it still has to process
    until,      \* per worker, the locked_until it wrote when it claimed
    pc,         \* per worker, where it is in run_due_jobs_once
    saw,        \* per worker, the row as its outcome transaction read it
    puts,       \* per worker, the row as that transaction wants it
    cancelling, \* rows that a chat turn read as queued and is to cancel
    completed,  \* history: a handler of the job has returned
    reclaims,   \* history: times a running row with a lapsed lease was taken
    putBack,    \* history: the attempts whose workers queued the row again
    lateMark,   \* history: a worker wrote an outcome after its lease lapsed
    crossed     \* history: rows cancelled when they were no longer queued

vars == <<now, job, batch, until, pc, saw, puts, cancelling,
          completed, reclaims, putBack, lateMark, crossed>>

Settled  == {"done", "failed", "cancelled"}
Statuses == {"absent", "queued", "running"} \cup Settled

None == 0   \* SQL NULL in locked_until; no lease is ever granted until 0

Snapshots == [id : Jobs, attempts : Nat]

RowType == [status : Statuses, attempts : Nat, runAt : Nat,
            expiresAt : Nat, lockedUntil : Nat]

Blank == [status |-> "absent", attempts |-> 0, runAt |-> 0, expiresAt |-> 0,
          lockedUntil |-> None]

\* After a handler: the row is to be read ("net" is the safety net, which
\* tries to mark the job once more), or it was read and is to be written.
Reading == {"returned", "raised", "net"}
Writing == {"writesDone", "writesFailed", "netWrites"}
Places  == {"idle", "next", "handling"} \cup Reading \cup Writing

TypeOK ==
    /\ now \in Nat
    /\ job \in [Jobs -> RowType]
    /\ batch \in [Workers -> Seq(Snapshots)]
    /\ until \in [Workers -> Nat]
    /\ pc \in [Workers -> Places]
    /\ \A w \in Workers : pc[w] # "idle" => batch[w] # <<>>
    /\ saw \in [Workers -> RowType] /\ puts \in [Workers -> RowType]
    /\ cancelling \subseteq Jobs
    /\ completed \in [Jobs -> BOOLEAN]
    /\ reclaims \in [Jobs -> Nat]
    /\ putBack \in [Jobs -> SUBSET Nat]
    /\ lateMark \in [Jobs -> BOOLEAN]
    /\ crossed \subseteq Jobs

Init ==
    /\ now = 0
    /\ job = [j \in Jobs |-> Blank]
    /\ batch = [w \in Workers |-> <<>>]
    /\ until = [w \in Workers |-> 0]
    /\ pc = [w \in Workers |-> "idle"]
    /\ saw = [w \in Workers |-> Blank] /\ puts = [w \in Workers |-> Blank]
    /\ cancelling = {}
    /\ completed = [j \in Jobs |-> FALSE]
    /\ reclaims = [j \in Jobs |-> 0]
    /\ putBack = [j \in Jobs |-> {}]
    /\ lateMark = [j \in Jobs |-> FALSE]
    /\ crossed = {}

copies  == <<saw, puts>>
cancels == <<cancelling, crossed>>
history == <<completed, reclaims, putBack, lateMark>>

-----------------------------------------------------------------------------
(* Rows                                                                    *)

Live(j)    == job[j].status \in {"queued", "running"}

\* Mutant: the expiry forgets the rows of workers that died.
ExpiredQueuedOnly(j) == job[j].status = "queued" /\ job[j].expiresAt <= now
Expired(j) == Live(j) /\ job[j].expiresAt <= now

\* Mutant: any running row may be taken over.
LeaseIgnored(j) == job[j].status = "running"
LeaseLapsed(j) ==
    /\ job[j].status = "running"
    /\ job[j].lockedUntil # None
    /\ job[j].lockedUntil <= now

\* Mutant: failed rows with attempts left are tried again.
DueOrFailed ==
    {j \in Jobs : /\ \/ job[j].status = "queued" /\ job[j].runAt <= now
                     \/ LeaseLapsed(j)
                     \/ job[j].status = "failed" /\ job[j].attempts < MaxAttempts[j]
                  /\ job[j].expiresAt > now}
Due == {j \in Jobs : /\ \/ job[j].status = "queued" /\ job[j].runAt <= now
                        \/ LeaseLapsed(j)
                     /\ job[j].expiresAt > now}

\* ORDER BY inbound first, run_at, created_at: the last is left open.
Before(i, j) ==
    \/ i \in InboundJobs /\ j \notin InboundJobs
    \/ (i \in InboundJobs <=> j \in InboundJobs) /\ job[i].runAt < job[j].runAt

\* What SELECT ... ORDER BY ... LIMIT may return.
Selections ==
    {q \in UNION {[1 .. n -> Due] : n \in 0 .. Limit} :
        LET picked == {q[i] : i \in DOMAIN q} IN
        /\ \A i, k \in DOMAIN q : i < k => q[i] # q[k] /\ ~Before(q[k], q[i])
        /\ Len(q) = Limit \/ picked = Due
        /\ \A i \in picked, j \in Due \ picked : ~Before(j, i)}

\* min(300, 2 ** max(0, attempts - 1) * 15), in units of 15 seconds.
Backoff(attempts) ==
    LET doubled == 2 ^ (IF attempts > 1 THEN attempts - 1 ELSE 0) IN
    IF doubled \in 1 .. BackoffCap THEN doubled ELSE BackoffCap

-----------------------------------------------------------------------------
(* Producers                                                               *)

\* enqueue_job in a caller's transaction, run now or delayed.  BOUND: only
\* rows whose deadline lies within the horizon.
Enqueue(j, delay) ==
    /\ job[j].status = "absent"
    /\ now + delay + Ttl[j] <= Horizon
    /\ job' = [job EXCEPT ![j].status = "queued",
                          ![j].runAt = now + delay,
                          ![j].expiresAt = now + delay + Ttl[j]]
    /\ UNCHANGED <<now, batch, until, pc, copies, cancels, history>>

\* _cancel_jobs_for_order, for a customer who cancels an order or asks for a
\* new prompt: the queued rows (of three kinds about orders) are selected
\* without a lock ...
CancelReads(j) ==
    /\ job[j].status = "queued" /\ j \notin cancelling \cup InboundJobs
    /\ cancelling' = cancelling \cup {j}
    /\ UNCHANGED <<now, job, batch, until, pc, copies, crossed, history>>

\* ... and updated by their ids when the turn flushes, in a resend after the
\* provider was called, whatever has become of them.
CancelWrites(j) ==
    /\ j \in cancelling
    /\ cancelling' = cancelling \ {j}
    /\ job' = [job EXCEPT ![j].status = "cancelled"]
    /\ crossed' = IF job[j].status = "queued" THEN crossed ELSE crossed \cup {j}
    /\ UNCHANGED <<now, batch, until, pc, copies, history>>

\* The turn fails and its transaction is rolled back.
CancelRollsBack(j) ==
    /\ j \in cancelling
    /\ cancelling' = cancelling \ {j}
    /\ UNCHANGED <<now, job, batch, until, pc, copies, crossed, history>>

-----------------------------------------------------------------------------
(* A worker                                                                *)

\* _claim_due_jobs: fail what expired, then take a batch of what is due.
Claim(w) ==
    /\ pc[w] = "idle"
    /\ \E q \in Selections :
        LET picked == {q[i] : i \in DOMAIN q} IN
        /\ q # <<>> \/ \E j \in Jobs : Expired(j)
        /\ job' = [j \in Jobs |->
                     IF j \in picked
                     THEN [job[j] EXCEPT !.status = "running",
                                         !.lockedUntil = now + Lease,
                                         !.attempts = job[j].attempts + 1]
                     ELSE IF Expired(j)
                     THEN [job[j] EXCEPT !.status = "failed", !.lockedUntil = None]
                     ELSE job[j]]
        /\ batch' = [batch EXCEPT ![w] =
                       [i \in DOMAIN q |-> [id |-> q[i],
                                            attempts |-> job[q[i]].attempts + 1]]]
        /\ pc' = [pc EXCEPT ![w] = IF q = <<>> THEN "idle" ELSE "next"]
        /\ reclaims' = [j \in Jobs |->
                          IF j \in picked /\ LeaseLapsed(j) THEN reclaims[j] + 1
                                                            ELSE reclaims[j]]
    /\ until' = [until EXCEPT ![w] = now + Lease]
    /\ UNCHANGED <<now, copies, cancels, completed, putBack, lateMark>>

Current(w) == Head(batch[w])

Goes(w, place) == pc' = [pc EXCEPT ![w] = place]

\* _run_one calls the handler of the first job left in the batch.
StartHandler(w) ==
    /\ pc[w] = "next"
    /\ Goes(w, "handling")
    /\ UNCHANGED <<now, job, batch, until, copies, cancels, history>>

HandlerReturns(w) ==
    /\ pc[w] = "handling"
    /\ Goes(w, "returned")
    /\ completed' = [completed EXCEPT ![Current(w).id] = TRUE]
    /\ UNCHANGED <<now, job, batch, until, copies, cancels, reclaims, putBack, lateMark>>

\* The handler raises, or no handler is registered for the kind.
HandlerRaises(w) ==
    /\ pc[w] = "handling"
    /\ Goes(w, "raised")
    /\ UNCHANGED <<now, job, batch, until, copies, cancels, history>>

\* A transaction ends and its copies go with it.
Closes(w) ==
    /\ saw' = [saw EXCEPT ![w] = Blank]
    /\ puts' = [puts EXCEPT ![w] = Blank]

\* The loop of run_due_jobs_once goes on to the next job of the batch.
Advance(w) ==
    /\ batch' = [batch EXCEPT ![w] = Tail(batch[w])]
    /\ Goes(w, IF Tail(batch[w]) = <<>> THEN "idle" ELSE "next")
    /\ Closes(w)
    /\ UNCHANGED <<now, until, cancels>>

\* db.get of the row by its id, whoever holds it, and the assignments.
Reads(w, row) ==
    /\ saw' = [saw EXCEPT ![w] = job[Current(w).id]]
    /\ puts' = [puts EXCEPT ![w] = row]
    /\ UNCHANGED <<now, job, batch, until, cancels, history>>

MarkDoneReads(w) ==
    /\ pc[w] = "returned"
    /\ Goes(w, "writesDone")
    /\ Reads(w, [job[Current(w).id] EXCEPT !.status = "done", !.lockedUntil = None])

\* Mutant: one attempt too many.
AfterFailureOneMore(j, attempts) ==
    IF job[j].attempts > MaxAttempts[j] \/ now + Backoff(attempts) >= job[j].expiresAt
    THEN [job[j] EXCEPT !.status = "failed", !.lockedUntil = None]
    ELSE [job[j] EXCEPT !.status = "queued", !.lockedUntil = None,
                        !.runAt = now + Backoff(attempts)]

\* The row after a failed attempt.  The delay is computed from the worker's
\* snapshot, the budget and the deadline from the row as it is read.
AfterFailure(j, attempts) ==
    LET retryAt == now + Backoff(attempts) IN
    IF job[j].attempts >= MaxAttempts[j] \/ retryAt >= job[j].expiresAt
    THEN [job[j] EXCEPT !.status = "failed", !.lockedUntil = None]
    ELSE [job[j] EXCEPT !.status = "queued", !.lockedUntil = None,
                        !.runAt = retryAt]

MarkFailedReads(w) ==
    /\ \/ pc[w] = "raised" /\ Goes(w, "writesFailed")
       \/ pc[w] = "net" /\ Goes(w, "netWrites")
    /\ Reads(w, AfterFailure(Current(w).id, Current(w).attempts))

\* What a flush makes of a row: the columns that were changed since the copy
\* was read are written, the others left.
Flushed(row, old, new) ==
    LET Put(column, was, is) == IF is = was THEN column ELSE is IN
    [row EXCEPT !.status      = Put(@, old.status, new.status),
                !.runAt       = Put(@, old.runAt, new.runAt),
                !.lockedUntil = Put(@, old.lockedUntil, new.lockedUntil)]

QueuesAgain(w) == puts[w].status = "queued" /\ saw[w].status # "queued"

\* The commit of either outcome, over whatever the row is by now.
MarkWrites(w) ==
    LET j == Current(w).id IN
    /\ pc[w] \in Writing
    /\ job' = [job EXCEPT ![j] = Flushed(@, saw[w], puts[w])]
    /\ Advance(w)
    /\ lateMark' = [lateMark EXCEPT ![j] = @ \/ until[w] <= now]
    /\ putBack' = IF QueuesAgain(w)
                  THEN [putBack EXCEPT ![j] = @ \cup {Current(w).attempts}] ELSE putBack
    /\ UNCHANGED <<completed, reclaims>>

\* An outcome transaction raises: the safety net marks the job as failed.
MarkErrs(w) ==
    /\ pc[w] \in {"returned", "raised", "writesDone", "writesFailed"}
    /\ Goes(w, "net")
    /\ Closes(w)
    /\ UNCHANGED <<now, job, batch, until, cancels, history>>

\* It raises there as well: the error is logged and the row stays running
\* under its lease.
NetErrs(w) ==
    /\ pc[w] \in {"net", "netWrites"}
    /\ Advance(w)
    /\ UNCHANGED <<job, history>>

\* The process dies, or stop_job_runner cancels the loop (CancelledError is
\* not an Exception, so nothing is marked): the claimed rows stay running.
Crash(w) ==
    /\ pc[w] # "idle"
    /\ batch' = [batch EXCEPT ![w] = <<>>]
    /\ Goes(w, "idle")
    /\ Closes(w)
    /\ UNCHANGED <<now, job, until, cancels, history>>

\* BOUND: the clock stops at Horizon.
Tick ==
    /\ now < Horizon
    /\ now' = now + 1
    /\ UNCHANGED <<job, batch, until, pc, copies, cancels, history>>

RunnerStep(w) ==
    \/ Claim(w)
    \/ StartHandler(w)
    \/ HandlerReturns(w)
    \/ HandlerRaises(w)
    \/ MarkDoneReads(w)
    \/ MarkFailedReads(w)
    \/ MarkWrites(w)
    \/ MarkErrs(w)
    \/ NetErrs(w)

Next ==
    \/ \E j \in Jobs : \/ \E delay \in Delays : Enqueue(j, delay)
                       \/ CancelReads(j) \/ CancelWrites(j) \/ CancelRollsBack(j)
    \/ \E w \in Workers : RunnerStep(w) \/ Crash(w)
    \/ Tick

Spec == Init /\ [][Next]_vars

\* The polling loop never stops, every call a handler makes has a timeout,
\* and time passes.  Crashes are not assumed to stop.
FairSpec ==
    /\ Spec
    /\ WF_vars(Tick)
    /\ \A w \in Workers : WF_vars(RunnerStep(w))

-----------------------------------------------------------------------------
(* Properties                                                              *)

Holders(j) == {w \in Workers : \E i \in DOMAIN batch[w] : batch[w][i].id = j}

Leased(w, j) == w \in Holders(j) /\ until[w] > now

\* No outcome transaction, however stale the copy it decided on, puts back a
\* row whose attempts are spent but for takeovers, or whose run time is not
\* before its deadline (runner.py:203-208).
QueuedIsServable ==
    \A j \in Jobs : job[j].status = "queued" =>
        /\ job[j].attempts < MaxAttempts[j] + reclaims[j]
        /\ job[j].runAt < job[j].expiresAt

\* Neither the claim of a row whose lease lapsed nor that of a queued one
\* looks at the attempt budget (runner.py:123-144), and a worker may queue a
\* row that was attempted again since it read it.  The budget is exceeded by
\* at most one attempt per takeover all the same.
AttemptBudget ==
    \A j \in Jobs : job[j].attempts <= MaxAttempts[j] + reclaims[j]

\* The budget and the deadline of a job are kept on both sides of a run: by
\* what is put back on the queue, and by what is taken off it.
BudgetIsKept == QueuedIsServable /\ AttemptBudget

\* A job is reported done only if one of its handler runs returned, whatever
\* crashes, takeovers and late outcomes came in between (runner.py:213-231).
DoneWasCompleted ==
    \A j \in Jobs : job[j].status = "done" => completed[j]

\* Two workers hold the same job under live leases only after some worker
\* wrote an outcome for it on a lapsed lease (runner.py:170-210).
ExclusiveUnlessLate ==
    \A j \in Jobs : ~lateMark[j] =>
        \A v, w \in Workers : Leased(v, j) /\ Leased(w, j) => v = w

\* An attempt is never started on a job past its deadline, and never on one
\* that is settled (runner.py:100-167, README "fail closed instead of
\* retrying forever").
ClaimsOnlyUnexpired ==
    [][\A j \in Jobs : job'[j].attempts # job[j].attempts =>
          /\ now < job[j].expiresAt
          /\ job[j].status \in {"queued", "running"}
          /\ job'[j].attempts = job[j].attempts + 1]_vars

\* As long as every outcome is written under its lease, a settled job is
\* changed only like this: a run that was going on at the deadline completes
\* a failed one, or queues it again if it had read the row before; a cancel
\* that read the row while it was queued overwrites anything; and of a job
\* cancelled in that way, the worker that was running it writes the outcome.
SettledStays ==
    [][\A j \in Jobs : ~lateMark'[j] =>
          LET Becomes(s) == job'[j].status = s
              late == Becomes("cancelled") /\ j \in cancelling IN
          /\ job[j].status = "done" => Becomes("done") \/ late
          /\ job[j].status = "cancelled" => Becomes("cancelled") \/ j \in crossed
          /\ job[j].status = "failed" =>
                \/ Becomes("failed") \/ Becomes("done") \/ late
                \/ /\ Becomes("queued") /\ job[j].expiresAt <= now
                   /\ \E w \in Workers : pc[w] \in Writing /\ Current(w).id = j
                                         /\ saw[w].status # "failed"]_vars

\* Every job that was enqueued is settled in the end, by completion,
\* cancellation, an exhausted budget or its deadline, with crashes for ever.
EveryJobSettles ==
    \A j \in Jobs : job[j].status \in {"queued", "running"}
                       ~> job[j].status \in Settled

-----------------------------------------------------------------------------
(* What makes the safety invariants inductive                              *)

\* A row nobody enqueued has never been attempted, nobody holds it and nobody
\* is to cancel it.
AbsentIsFresh ==
    \A j \in Jobs : job[j].status = "absent" =>
        job[j].attempts = 0 /\ Holders(j) = {} /\ j \notin cancelling

\* A worker about to read or write a row as done has seen its handler return.
ReturnedWasCompleted ==
    \A w \in Workers : pc[w] \in {"returned", "writesDone"} => completed[Current(w).id]

\* A batch holds a job once, and an idle worker holds none.
BatchesAreDistinct ==
    \A w \in Workers :
        /\ \A i, k \in DOMAIN batch[w] : batch[w][i].id = batch[w][k].id => i = k
        /\ pc[w] = "idle" => batch[w] = <<>>

\* The run time of a row is before its deadline, whatever its status.
RunsInTime ==
    \A j \in Jobs : job[j].status # "absent" => job[j].runAt < job[j].expiresAt

\* What an outcome transaction has in hand: its deadline is that of the row,
\* and it wants the row queued only within the budget and the deadline it
\* read.  Only a returned handler makes it want done.
HandsAgree ==
    \A w \in Workers : pc[w] \in Writing =>
        LET s == saw[w]  p == puts[w]  j == Current(w).id IN
        /\ s.status # "absent" /\ s.expiresAt = job[j].expiresAt
        /\ p.status \in {"done", "failed", "queued"}
        /\ p.status = "done" <=> pc[w] = "writesDone"
        /\ p.runAt = s.runAt \/ p.runAt < s.expiresAt
        /\ p.status = "queued" => Current(w).attempts < MaxAttempts[j]

\* Attempts are numbered.  Two snapshots of a job have different numbers, no
\* larger than the row's, and none is the number of a worker that has queued
\* the row again, as each does at most once and below the budget.
NumbersDiffer ==
    /\ \A v, w \in Workers : \A i \in DOMAIN batch[v], k \in DOMAIN batch[w] :
          batch[v][i] = batch[w][k] => v = w
    /\ \A w \in Workers : \A i \in DOMAIN batch[w] :
          LET c == batch[w][i] IN
          c.attempts \in 1 .. job[c.id].attempts \ putBack[c.id]
    /\ \A j \in Jobs : \A n \in putBack[j] :
          n \in 1 .. MaxAttempts[j] - 1 /\ n <= job[j].attempts

\* Every attempt but the first had the row queued again or taken over.
AttemptsAddUp ==
    \A j \in Jobs :
        job[j].attempts + (IF job[j].status \in {"absent", "queued"} THEN 1 ELSE 0)
            <= 1 + Cardinality(putBack[j]) + reclaims[j]

\* Until somebody is late, the row of a leased job still carries the holder's
\* lease, or the deadline has passed or a cancel came in between, and no claim
\* can return it.
LeaseIsOnTheRow ==
    \A j \in Jobs : ~lateMark[j] =>
        \A w \in Workers : Leased(w, j) =>
            \/ job[j].status = "running" /\ job[j].lockedUntil = until[w]
            \/ job[j].status = "failed" /\ job[j].expiresAt <= now
            \/ job[j].status = "cancelled" /\ j \in crossed

\* A worker in time that read the row as failed does not want it queued.
FailedWasSeen ==
    \A w \in Workers :
        (/\ pc[w] \in Writing /\ puts[w].status = "queued"
         /\ Leased(w, Current(w).id) /\ ~lateMark[Current(w).id])
        => saw[w].status # "failed"

IInv ==
    /\ TypeOK
    /\ AbsentIsFresh
    /\ ReturnedWasCompleted
    /\ DoneWasCompleted
    /\ BatchesAreDistinct
    /\ RunsInTime
    /\ HandsAgree
    /\ NumbersDiffer
    /\ AttemptsAddUp
    /\ LeaseIsOnTheRow
    /\ ExclusiveUnlessLate
    /\ FailedWasSeen

=============================================================================
