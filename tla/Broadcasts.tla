----------------------------- MODULE Broadcasts -----------------------------
(***************************************************************************)
(* One broadcast of the console: the requests that send and cancel it      *)
(* (api/admin_console.py) and the job that writes to the recipients        *)
(* (run_broadcast_send in jobs/handlers.py).                               *)
(*                                                                         *)
(* A request reads the row, decides, and commits what it changed in a      *)
(* later step.  A run of the job holds the row in its session: it writes   *)
(* only the columns whose value differs from the one it loaded last, and   *)
(* it loads again before every message but not before its last commit.     *)
(* Of the queue this module keeps what JobQueue shows of it: a job is run  *)
(* again when its run fails or dies, up to MaxAttempts times, and a run    *)
(* that outlives its lease gets a second one beside it.                    *)
(***************************************************************************)
EXTENDS Integers, FiniteSets, FiniteSetsExt

CONSTANTS
    Requests,     \* console requests; each is one click
    Runs,         \* executions of the job that may be under way at once
    Recipients,   \* the number of customers the segment resolves to
    MaxAttempts,  \* max_attempts of a broadcast job (3)
    MaxMishaps    \* BOUND: crashes, failed transactions and lapsed leases

ASSUME BroadcastAssumption ==
    /\ Requests # {}
    /\ Recipients \in Nat
    /\ MaxAttempts \in Nat \ {0}
    /\ MaxMishaps \in Nat

VARIABLES
    bc,        \* the row of the broadcast
    request,   \* per request, what it does and how far it is
    job,       \* per send request, the job it enqueued
    run,       \* per run, the job, its step and its copy of the row
    texts,     \* messages sent to each recipient, failed tries included
    after,     \* history: messages each run sent while the row said cancelled
    past,      \* history: whether runs overlapped, and whether work was repeated
    mishaps

bcVars == <<bc, request, job, run, texts, after, past, mishaps>>

BcStatuses == {"draft", "sending", "done", "failed", "cancelled"}

BcRow == [status : BcStatuses, sent : Nat, failed : Nat]

RequestType == [kind : {"send", "cancel"}, stage : {"new", "read", "answered"},
                seen : BcRow]

JobType == [status : {"none", "queued", "running", "done", "failed"},
            attempts : Nat]

RunType == [stage : {"idle", "started", "refresh", "send", "count", "last"},
            job : Requests, seen : BcRow, sent : Nat, failed : Nat]

NewRow == [status |-> "draft", sent |-> 0, failed |-> 0]

IdleRun(q) == [stage |-> "idle", job |-> q, seen |-> NewRow, sent |-> 0, failed |-> 0]

BcInit ==
    /\ bc = NewRow
    /\ request \in [Requests -> [kind : {"send", "cancel"}, stage : {"new"},
                                 seen : {NewRow}]]
    /\ job = [q \in Requests |-> [status |-> "none", attempts |-> 0]]
    /\ run = [r \in Runs |-> IdleRun(CHOOSE q \in Requests : TRUE)]
    /\ texts = [n \in 1..Recipients |-> 0]
    /\ after = [r \in Runs |-> 0]
    /\ past = {}
    /\ mishaps = 0

Mishap ==
    /\ mishaps < MaxMishaps
    /\ mishaps' = mishaps + 1

-----------------------------------------------------------------------------
(* The console.                                                            *)

Accepts(q, status) ==
    IF request[q].kind = "send" THEN status \in {"draft", "failed"}
                                ELSE status \notin {"done", "cancelled"}

(* The row is read and its status checked; a refusal is an answer too.     *)
ReadRow(q) ==
    /\ request[q].stage = "new"
    /\ request' = [request EXCEPT
          ![q].stage = IF Accepts(q, bc.status) THEN "read" ELSE "answered",
          ![q].seen = IF Accepts(q, bc.status) THEN bc ELSE NewRow]
    /\ UNCHANGED <<bc, job, run, texts, after, past, mishaps>>

Answer(q) == request' = [request EXCEPT ![q].stage = "answered", ![q].seen = NewRow]

(* broadcast_send: after the recipients are resolved, status and counts    *)
(* are written and the job is enqueued, in one commit.                     *)
CommitSend(q) ==
    /\ request[q].kind = "send"
    /\ request[q].stage = "read"
    /\ bc' = [status |-> "sending",
              sent   |-> IF request[q].seen.sent = 0 THEN bc.sent ELSE 0,
              failed |-> IF request[q].seen.failed = 0 THEN bc.failed ELSE 0]
    /\ job' = [job EXCEPT ![q].status = "queued"]
    /\ past' = past \cup {h \in {"repeated"} : \E p \in Requests : job[p].status # "none"}
    /\ after' = [r \in Runs |-> 0]
    /\ Answer(q)
    /\ UNCHANGED <<run, texts, mishaps>>

(* broadcast_cancel.                                                       *)
CommitCancel(q) ==
    /\ request[q].kind = "cancel"
    /\ request[q].stage = "read"
    /\ bc' = [bc EXCEPT !.status = "cancelled"]
    /\ after' = [r \in Runs |-> 0]
    /\ Answer(q)
    /\ UNCHANGED <<job, run, texts, past, mishaps>>

-----------------------------------------------------------------------------
(* The queue, as far as the broadcast sees it.                             *)

Active(q) == {r \in Runs : run[r].stage # "idle" /\ run[r].job = q}

BeginRun(r, q) ==
    /\ run[r].stage = "idle"
    /\ job' = [job EXCEPT ![q].status = "running", ![q].attempts = @ + 1]
    /\ run' = [run EXCEPT ![r] = [IdleRun(q) EXCEPT !.stage = "started"]]
    /\ after' = [after EXCEPT ![r] = 0]
    /\ past' = past \cup {h \in {"overlapped"} : \E s \in Runs : run[s].stage # "idle"}
                    \cup {h \in {"repeated"} : job[q].status = "running"}
    /\ UNCHANGED <<bc, request, texts>>

ClaimJob(r, q) ==
    /\ job[q].status = "queued"
    /\ BeginRun(r, q)
    /\ UNCHANGED mishaps

(* The lease of a run lapsed, with the process gone or still at work.      *)
ReclaimJob(r, q) ==
    /\ job[q].status = "running"
    /\ \/ Active(q) = {} /\ UNCHANGED mishaps
       \/ Active(q) # {} /\ Mishap
    /\ BeginRun(r, q)

EndRun(r) == run' = [run EXCEPT ![r] = IdleRun(run[r].job)]

JobDone(q) == [job EXCEPT ![q].status = "done"]
Retried(q) == [job EXCEPT ![q].status =
                     IF job[q].attempts >= MaxAttempts THEN "failed" ELSE "queued"]

-----------------------------------------------------------------------------
(* run_broadcast_send.                                                     *)

(* The row is read; a broadcast that is not under way is left alone.       *)
StartRun(r) ==
    LET q == run[r].job
    IN  /\ run[r].stage = "started"
        /\ IF bc.status \in {"sending", "failed"}
             THEN /\ run' = [run EXCEPT ![r].stage = "refresh",
                                        ![r].seen = [bc EXCEPT !.status = "sending"],
                                        ![r].sent = bc.sent, ![r].failed = bc.failed]
                  /\ bc' = [bc EXCEPT !.status = "sending"]
                  /\ UNCHANGED job
             ELSE /\ EndRun(r)
                  /\ job' = JobDone(q)
                  /\ UNCHANGED bc
        /\ UNCHANGED <<request, texts, after, past, mishaps>>

\* Failed messages are not counted in the position.
PositionOfSent(r) == run[r].sent

(* phones[start_index:], one after the other; start_index is the counts of *)
(* the start, and every message moves them by one.                         *)
Position(r) == run[r].sent + run[r].failed

Refresh(r) ==
    /\ run[r].stage = "refresh"
    /\ IF Position(r) >= Recipients
         THEN /\ run' = [run EXCEPT ![r].stage = "last"]
              /\ UNCHANGED job
       ELSE IF bc.status = "cancelled"
         THEN EndRun(r) /\ job' = JobDone(run[r].job)
         ELSE /\ run' = [run EXCEPT ![r].stage = "send", ![r].seen = bc]
              /\ UNCHANGED job
    /\ UNCHANGED <<bc, request, texts, after, past, mishaps>>

(* The message goes out, or the client refuses it.                         *)
SendOne(r) ==
    /\ run[r].stage = "send"
    /\ \/ run' = [run EXCEPT ![r].stage = "count", ![r].sent = @ + 1]
       \/ run' = [run EXCEPT ![r].stage = "count", ![r].failed = @ + 1]
    /\ texts' = [texts EXCEPT ![Position(r) + 1] = @ + 1]
    /\ after' = [after EXCEPT ![r] = IF bc.status = "cancelled" THEN @ + 1 ELSE @]
    /\ UNCHANGED <<bc, request, job, past, mishaps>>

\* Only the counts are written.
WrittenCounts(r, status) ==
    [bc EXCEPT !.sent = run[r].sent, !.failed = run[r].failed]

(* A column is written when it differs from what the session loaded.       *)
Written(r, status) ==
    [status |-> IF status = run[r].seen.status THEN bc.status ELSE status,
     sent   |-> IF run[r].sent = run[r].seen.sent THEN bc.sent ELSE run[r].sent,
     failed |-> IF run[r].failed = run[r].seen.failed THEN bc.failed ELSE run[r].failed]

CountOne(r) ==
    /\ run[r].stage = "count"
    /\ bc' = Written(r, run[r].seen.status)
    /\ run' = [run EXCEPT ![r].stage = "refresh",
                          ![r].seen.sent = run[r].sent,
                          ![r].seen.failed = run[r].failed]
    /\ UNCHANGED <<request, job, texts, after, past, mishaps>>

FinalStatus(r) ==
    IF run[r].failed = 0 \/ run[r].sent > 0 THEN "done" ELSE "failed"

FinishRun(r) ==
    /\ run[r].stage = "last"
    /\ bc' = Written(r, FinalStatus(r))
    /\ job' = JobDone(run[r].job)
    /\ EndRun(r)
    /\ UNCHANGED <<request, texts, after, past, mishaps>>

(* A transaction of the run fails: the job is tried again or given up.     *)
RunRaises(r) ==
    /\ run[r].stage # "idle"
    /\ Mishap
    /\ job' = Retried(run[r].job)
    /\ EndRun(r)
    /\ past' = past \cup {"repeated"}
    /\ UNCHANGED <<bc, request, texts, after>>

(* The process dies; the job stays running until its lease lapses.         *)
RunDies(r) ==
    /\ run[r].stage # "idle"
    /\ Mishap
    /\ EndRun(r)
    /\ past' = past \cup {"repeated"}
    /\ UNCHANGED <<bc, request, job, texts, after>>

RunStep(r) == StartRun(r) \/ Refresh(r) \/ SendOne(r) \/ CountOne(r) \/ FinishRun(r)

BcNext ==
    \/ \E q \in Requests : ReadRow(q) \/ CommitSend(q) \/ CommitCancel(q)
    \/ \E r \in Runs :
          \/ RunStep(r) \/ RunRaises(r) \/ RunDies(r)
          \/ \E q \in Requests : ClaimJob(r, q) \/ ReclaimJob(r, q)

BcSpec == BcInit /\ [][BcNext]_bcVars

-----------------------------------------------------------------------------
BcTypeOK ==
    /\ bc \in BcRow
    /\ request \in [Requests -> RequestType]
    /\ job \in [Requests -> JobType]
    /\ run \in [Runs -> RunType]
    /\ texts \in [1..Recipients -> Nat]
    /\ after \in [Runs -> Nat]
    /\ past \subseteq {"repeated", "overlapped"}
    /\ mishaps \in 0..MaxMishaps

(* While no work was repeated or overlapped, every recipient is written to *)
(* once and in order: the counts of the row never lead or lag the messages *)
(* by more than the one in hand (handlers.py:86).                          *)
OncePerRecipient ==
    past = {} => \A n \in 1..Recipients :
        /\ texts[n] <= 1
        /\ n <= bc.sent + bc.failed => texts[n] = 1

(* A broadcast that says done has written to every recipient, whatever     *)
(* crashed or was sent again on the way: restarts may repeat messages and  *)
(* never skip one, as long as two runs do not count side by side in the    *)
(* one row (handlers.py:87).                                               *)
DoneReachedEverybody ==
    bc.status = "done" /\ "overlapped" \notin past =>
        \A n \in 1..Recipients : texts[n] > 0

(* A cancellation stops the sending: after it commits, each run sends at   *)
(* most the message it had already decided on (handlers.py:89).            *)
CancelStopsSending == \A r \in Runs : after[r] <= 1

(* A broadcast does not stay in sending: it ends, or its job is given up   *)
(* for good and only a cancellation can close it.                          *)
SendingEnds ==
    bc.status = "sending" ~>
        (bc.status # "sending" \/ \E q \in Requests : job[q].status = "failed")

(* What a broadcast sends and counts, through crashes and cancellations.   *)
SentAsCounted == OncePerRecipient /\ DoneReachedEverybody /\ CancelStopsSending
=============================================================================
