----------------------------- MODULE InboundTurn -----------------------------
(***************************************************************************)
(* One customer's WhatsApp messages on their way through the program: the  *)
(* durable whatsapp.inbound job (app/jobs/handlers.py, app/api/whatsapp.py)*)
(* and handle_inbound of app/channels/base.py, under the lock per phone    *)
(* number of app/core/redis_client.py and app/services/session_manager.py, *)
(* while staff take conversations over from the admin console.             *)
(*                                                                         *)
(* A turn reads its conversation once, under the lock, and writes it back  *)
(* after the model has answered.  The lock is a Redis key with a time to   *)
(* live; turns may outlive it.  Messages are fresh and have text, the      *)
(* business is one, and slash commands are left out.                       *)
(***************************************************************************)
EXTENDS Integers, FiniteSets

CONSTANTS
    Messages,        \* provider message ids
    Customers,       \* phone numbers
    From,            \* the sender of each message
    Jobs,            \* BOUND: webhook deliveries, one whatsapp.inbound job each
    About,           \* the message a delivery carries; Meta may deliver it again
    Workers,         \* tasks that run jobs
    Convs,           \* BOUND: conversation rows
    MaxFailedTurns,  \* ai_max_failed_turns
    MaxStarts,       \* max_attempts; BOUND: runs of one job, lapsed leases included
    MaxActs,         \* BOUND: what staff do to the customers' conversations
    MaxFaults,       \* BOUND: lapsed keys, leases and deadlines, Redis restarts, dead workers
    None

ASSUME InboundAssumption ==
    /\ From \in [Messages -> Customers]
    /\ About \in [Jobs -> Messages]
    /\ MaxFailedTurns \in Nat \ {0}
    /\ MaxStarts \in Nat \ {0}
    /\ MaxFaults \in Nat
    /\ MaxActs \in Nat
    /\ None \notin Workers \cup Convs \cup Jobs

VARIABLES
    job,       \* per delivery, the job's status and the runs it has had
    turn,      \* per worker, the turn it is in
    claimed,   \* the idempotency keys in Redis
    lock,      \* lock:msisdn keys: the task holding each, or None
    conv,      \* the conversations table
    rows,      \* messages whose user row is committed
    answers,   \* history: per message, answers committed to it
    replied,   \* history: messages whose sender was sent something back
    spoke,     \* history: per conversation, model answers since it was taken over
    streak,    \* history: per conversation, failed turns since the last good one
    breached,  \* history: customers whose lock has not kept turns apart
    faults,    \* the faults there have been, for the bound
    acts       \* what staff have done, for the bound

vars == <<job, turn, claimed, lock, conv, rows, answers, replied, spoke, streak, breached, faults, acts>>

-----------------------------------------------------------------------------
JobType  == [status : {"absent", "queued", "running", "done", "failed"}, starts : 0 .. MaxStarts]

ConvType == [customer : Customers \cup {None},
             status : {"unused", "active", "human_escalated", "resolved"},
             ai_paused : BOOLEAN, failed_turns : Nat]

\* What a turn holds in memory: the conversation it loaded (None: a new one)
\* and the columns it read.  History: lost, the key of its lock went before it
\* left.
TurnType == [pc : {"idle", "begun", "claimed", "inside", "loaded", "thinking", "leaving",
                   "replying", "answered", "raised"},
             job : Jobs \cup {None}, via : {"redis", "advisory"},
             conv : Convs \cup {None}, ai_paused : BOOLEAN, failed_turns : Nat, lost : BOOLEAN]

NoTurn == [pc |-> "idle", job |-> None, via |-> "redis", conv |-> None,
           ai_paused |-> FALSE, failed_turns |-> 0, lost |-> FALSE]

Blank == [customer |-> None, status |-> "unused", ai_paused |-> FALSE, failed_turns |-> 0]

Msg(w)      == About[turn[w].job]
Customer(w) == From[Msg(w)]

\* Between entering and leaving acquire_session.
Inside(w) == turn[w].pc \in {"inside", "loaded", "thinking", "leaving"}

\* The turns of c that believe they have it to themselves.
InsideOf(c) == {w \in Workers : Inside(w) /\ Customer(w) = c}

Active(c) == {v \in Convs : conv[v].customer = c /\ conv[v].status = "active"}

Fault == faults < MaxFaults /\ faults' = faults + 1 /\ UNCHANGED acts

Act == acts < MaxActs /\ acts' = acts + 1 /\ UNCHANGED faults

At(w, pc) == turn' = [turn EXCEPT ![w].pc = pc]

Init ==
    /\ job = [j \in Jobs |-> [status |-> "absent", starts |-> 0]]
    /\ turn = [w \in Workers |-> NoTurn]
    /\ claimed = {}
    /\ lock = [c \in Customers |-> None]
    /\ conv = [v \in Convs |-> Blank]
    /\ rows = {}
    /\ answers = [m \in Messages |-> 0]
    /\ replied = {}
    /\ spoke = [v \in Convs |-> 0]
    /\ streak = [v \in Convs |-> 0]
    /\ breached = {}
    /\ faults = 0
    /\ acts = 0

-----------------------------------------------------------------------------
(* The webhook and the queue (JobQueue models the queue itself) *)

\* Each delivery is queued; nothing compares it with an earlier one.
Deliver(j) ==
    /\ job[j].status = "absent"
    /\ job' = [job EXCEPT ![j].status = "queued"]
    /\ UNCHANGED <<turn, claimed, lock, conv, rows, answers, replied, spoke, streak, breached, faults, acts>>

\* A queued job, or one whose worker let the lease lapse.
Start(w, j) ==
    /\ turn[w].pc = "idle"
    /\ \/ job[j].status = "queued" /\ UNCHANGED <<faults, acts>>
       \/ job[j].status = "running" /\ job[j].starts < MaxStarts /\ Fault
    /\ job' = [job EXCEPT ![j] = [status |-> "running", starts |-> @.starts + 1]]
    /\ turn' = [turn EXCEPT ![w] = [NoTurn EXCEPT !.pc = "begun", !.job = j]]
    /\ UNCHANGED <<claimed, lock, conv, rows, answers, replied, spoke, streak, breached>>

\* _mark_done
Done(w) ==
    /\ turn[w].pc = "answered"
    /\ job' = [job EXCEPT ![turn[w].job].status = "done"]
    /\ turn' = [turn EXCEPT ![w] = NoTurn]
    /\ UNCHANGED <<claimed, lock, conv, rows, answers, replied, spoke, streak, breached, faults, acts>>

\* _mark_failed_or_retry
Retry(j) == IF job[j].starts < MaxStarts THEN "queued" ELSE "failed"

\* An apology is tried, and the exception is raised to the queue.
Failed(w) ==
    /\ turn[w].pc = "raised"
    /\ job' = [job EXCEPT ![turn[w].job].status = Retry(turn[w].job)]
    /\ replied' \in {replied, replied \cup {Msg(w)}}
    /\ turn' = [turn EXCEPT ![w] = NoTurn]
    /\ UNCHANGED <<claimed, lock, conv, rows, answers, spoke, streak, breached, faults, acts>>

\* The deadline passes; a retry that would miss it fails here.
Expire(j) ==
    /\ job[j].status \in {"queued", "running"}
    /\ Fault
    /\ job' = [job EXCEPT ![j].status = "failed"]
    /\ UNCHANGED <<turn, claimed, lock, conv, rows, answers, replied, spoke, streak, breached>>

-----------------------------------------------------------------------------
(* Before the lock *)

ClaimMessage(w) ==
    /\ turn[w].pc = "begun"
    /\ IF Msg(w) \in claimed THEN At(w, "answered") ELSE At(w, "claimed")
    /\ claimed' = claimed \cup {Msg(w)}
    /\ UNCHANGED <<job, lock, conv, rows, answers, replied, spoke, streak, breached, faults, acts>>

\* Redis is unreachable: in production the claim fails closed.
ClaimFails(w) ==
    /\ turn[w].pc = "begun"
    /\ At(w, "raised")
    /\ UNCHANGED <<job, claimed, lock, conv, rows, answers, replied, spoke, streak, breached, faults, acts>>

\* "slow down" from the token bucket, or the customer is on the phone.
Deflect(w) ==
    /\ turn[w].pc = "claimed"
    /\ At(w, "replying")
    /\ UNCHANGED <<job, claimed, lock, conv, rows, answers, replied, spoke, streak, breached, faults, acts>>

-----------------------------------------------------------------------------
(* The lock *)

Enter(w) ==
    /\ turn[w].pc = "claimed"
    /\ lock[Customer(w)] = None
    /\ lock' = [lock EXCEPT ![Customer(w)] = w]
    /\ At(w, "inside")
    /\ UNCHANGED <<job, claimed, conv, rows, answers, replied, spoke, streak, breached, faults, acts>>

\* Five seconds of polling in vain: "I am still processing your previous message".
Busy(w) ==
    /\ turn[w].pc = "claimed"
    /\ lock[Customer(w)] # None
    /\ At(w, "replying")
    /\ UNCHANGED <<job, claimed, lock, conv, rows, answers, replied, spoke, streak, breached, faults, acts>>

\* Redis fails: pg_advisory_lock, which belongs to the connection.  The first
\* commit of a turn gives the connection, and the lock with it, back to the
\* pool, where any other turn may take it up.
EnterAdvisory(w) ==
    /\ turn[w].pc = "claimed"
    /\ Fault
    /\ \A x \in InsideOf(Customer(w)) :
         turn[x].via = "advisory" => turn[x].pc \in {"thinking", "leaving"}
    /\ turn' = [turn EXCEPT ![w].pc = "inside", ![w].via = "advisory"]
    /\ breached' = breached \cup {Customer(w)}
    /\ UNCHANGED <<job, claimed, lock, conv, rows, answers, replied, spoke, streak>>

\* The compare-and-delete, between tokens that differ.
Freed(w) ==
    IF turn[w].via = "redis" /\ lock[Customer(w)] = w
    THEN [lock EXCEPT ![Customer(w)] = None] ELSE lock

\* The turns whose keys are in Redis: not those of workers that died.
Holders(cs) == {w \in Workers : \E c \in cs : lock[c] = w /\ w \in InsideOf(c)}

KeysGone(cs) ==
    /\ Fault
    /\ lock' = [c \in Customers |-> IF c \in cs THEN None ELSE lock[c]]
    /\ turn' = [w \in Workers |-> [turn[w] EXCEPT !.lost = @ \/ w \in Holders(cs)]]
    /\ breached' = breached \cup {Customer(w) : w \in Holders(cs)}

\* The key lives for 30 seconds, whatever its turn is doing.
LockLapses(c) ==
    /\ lock[c] # None
    /\ KeysGone({c})
    /\ UNCHANGED <<job, claimed, conv, rows, answers, replied, spoke, streak>>

\* Redis restarts empty.
RedisRestart ==
    /\ claimed' = {}
    /\ KeysGone(Customers)
    /\ UNCHANGED <<job, conv, rows, answers, replied, spoke, streak>>

-----------------------------------------------------------------------------
(* Under the lock *)

\* No such business, or a blocked customer: an answer that leaves no row.
TurnAway(w) ==
    /\ turn[w].pc = "inside"
    /\ At(w, "leaving")
    /\ UNCHANGED <<job, claimed, lock, conv, rows, answers, replied, spoke, streak, breached, faults, acts>>

\* Mutant: the active conversation is not looked for.
LoadFresh(w) ==
    /\ turn[w].pc = "inside"
    /\ At(w, "loaded")
    /\ UNCHANGED <<job, claimed, lock, conv, rows, answers, replied, spoke, streak, breached, faults, acts>>

\* get_or_open_conversation: the customer's active conversation, or a new row.
Load(w) ==
    /\ turn[w].pc = "inside"
    /\ IF Active(Customer(w)) = {}
         THEN At(w, "loaded")
         ELSE \E v \in Active(Customer(w)) :
                turn' = [turn EXCEPT ![w].pc = "loaded", ![w].conv = v,
                                     ![w].ai_paused = conv[v].ai_paused,
                                     ![w].failed_turns = conv[v].failed_turns]
    /\ UNCHANGED <<job, claimed, lock, conv, rows, answers, replied, spoke, streak, breached, faults, acts>>

\* Where the turn's first commit puts its messages.
Target(w) ==
    IF turn[w].conv # None THEN {turn[w].conv}
                           ELSE {v \in Convs : conv[v].status = "unused"}

\* The row after that commit.
Opened(w, v) ==
    IF turn[w].conv # None THEN conv[v]
                           ELSE [Blank EXCEPT !.customer = Customer(w), !.status = "active"]

Escalated(row, yes) == IF yes THEN [row EXCEPT !.status = "human_escalated"] ELSE row

\* Mutant: messages.provider_message_id is not unique.
NewRowLax(w) == turn[w].pc = "loaded"

\* messages.provider_message_id is unique: a second row raises.
NewRow(w) == turn[w].pc = "loaded" /\ Msg(w) \notin rows

\* Ops commands, the safety filter and the order controls answer by themselves,
\* before the takeover is looked at; some of them escalate.
Control(w) ==
    /\ NewRow(w)
    /\ \E v \in Target(w), escalates \in BOOLEAN :
         /\ conv' = [conv EXCEPT ![v] = Escalated(Opened(w, v), escalates)]
         /\ turn' = [turn EXCEPT ![w].pc = "leaving", ![w].conv = v]
    /\ rows' = rows \cup {Msg(w)}
    /\ answers' = [answers EXCEPT ![Msg(w)] = @ + 1]
    /\ UNCHANGED <<job, claimed, lock, replied, spoke, streak, breached, faults, acts>>

\* Mutant: the takeover is not looked at.
AfterSaveAlways(w) == "thinking"

\* A conversation staff have taken over gets no answer from the model.
AfterSave(w) == IF turn[w].ai_paused THEN "leaving" ELSE "thinking"

\* The user row is committed before the model is called.
Save(w) ==
    /\ NewRow(w)
    /\ \E v \in Target(w) :
         /\ conv' = [conv EXCEPT ![v] = Opened(w, v)]
         /\ turn' = [turn EXCEPT ![w].pc = AfterSave(w), ![w].conv = v]
    /\ rows' = rows \cup {Msg(w)}
    /\ UNCHANGED <<job, claimed, lock, answers, replied, spoke, streak, breached, faults, acts>>

Spoken(v) == spoke' = [spoke EXCEPT ![v] = IF conv[v].ai_paused THEN @ + 1 ELSE @]

\* Mutant: the counter of failed turns is not reset.
ResetNothing(row, read) == row

\* reset_failed_turns: judged by, and written over, the value the turn read.
Reset(row, read) == IF read # 0 THEN [row EXCEPT !.failed_turns = 0] ELSE row

\* The model answers; it may have called escalate_to_human.
Answer(w) ==
    LET v == turn[w].conv IN
    /\ turn[w].pc = "thinking"
    /\ \E escalates \in BOOLEAN :
         /\ conv' = [conv EXCEPT ![v] = IF escalates THEN Escalated(@, TRUE)
                                                     ELSE Reset(@, turn[w].failed_turns)]
         /\ streak' = IF escalates THEN streak ELSE [streak EXCEPT ![v] = 0]
    /\ answers' = [answers EXCEPT ![Msg(w)] = @ + 1]
    /\ Spoken(v)
    /\ At(w, "leaving")
    /\ UNCHANGED <<job, claimed, lock, rows, replied, breached, faults, acts>>

\* Both attempts at the model failed or timed out: bump_failed_turn, and a
\* fallback in the model's place; a Hazina rescue may escalate by itself.
FallBack(w) ==
    LET v == turn[w].conv
        n == turn[w].failed_turns + 1
    IN
    /\ turn[w].pc = "thinking"
    /\ \E rescue \in BOOLEAN :
         conv' = [conv EXCEPT ![v] = Escalated([@ EXCEPT !.failed_turns = n],
                                               rescue \/ n >= MaxFailedTurns)]
    /\ streak' = [streak EXCEPT ![v] = @ + 1]
    /\ answers' = [answers EXCEPT ![Msg(w)] = @ + 1]
    /\ Spoken(v)
    /\ At(w, "leaving")
    /\ UNCHANGED <<job, claimed, lock, rows, replied, breached, faults, acts>>

\* An exception: rolled back, released unless Redis fails as well, and raised.
Raise(w) ==
    /\ turn[w].pc \in {"inside", "loaded", "thinking"}
    /\ lock' \in {lock, Freed(w)}
    /\ At(w, "raised")
    /\ UNCHANGED <<job, claimed, conv, rows, answers, replied, spoke, streak, breached, faults, acts>>

Leave(w) ==
    /\ turn[w].pc = "leaving"
    /\ lock' = Freed(w)
    /\ At(w, "replying")
    /\ UNCHANGED <<job, claimed, conv, rows, answers, replied, spoke, streak, breached, faults, acts>>

\* The release fails: the turn is committed, and its reply is lost.
LeaveFails(w) ==
    /\ turn[w].pc = "leaving"
    /\ At(w, "raised")
    /\ UNCHANGED <<job, claimed, lock, conv, rows, answers, replied, spoke, streak, breached, faults, acts>>

\* The token is str(id(current_task)): two processes may use the same one.  A
\* turn whose own key is gone then deletes that of another, as it leaves or fails.
FreesAnother(w) ==
    LET c == Customer(w) IN
    /\ Inside(w) /\ turn[w].via = "redis"
    /\ lock[c] \notin {w, None}
    /\ lock' = [lock EXCEPT ![c] = None]
    /\ turn' = [x \in Workers |->
         IF x = w THEN [turn[w] EXCEPT !.pc = IF @ = "leaving" THEN "replying" ELSE "raised"]
                  ELSE [turn[x] EXCEPT !.lost = @ \/ x \in Holders({c})]]
    /\ breached' = breached \cup {Customer(x) : x \in Holders({c})}
    /\ UNCHANGED <<job, claimed, conv, rows, answers, replied, spoke, streak, faults, acts>>

-----------------------------------------------------------------------------
(* After the lock *)

SendReply(w) ==
    /\ turn[w].pc = "replying"
    /\ replied' = replied \cup {Msg(w)}
    /\ At(w, "answered")
    /\ UNCHANGED <<job, claimed, lock, conv, rows, answers, spoke, streak, breached, faults, acts>>

\* Two attempts failed.
SendFails(w) ==
    /\ turn[w].pc = "replying"
    /\ At(w, "raised")
    /\ UNCHANGED <<job, claimed, lock, conv, rows, answers, replied, spoke, streak, breached, faults, acts>>

\* The process dies.  The key and the job stay until their time is up.
Crash(w) ==
    /\ turn[w].pc # "idle"
    /\ Fault
    /\ turn' = [turn EXCEPT ![w] = NoTurn]
    /\ UNCHANGED <<job, claimed, lock, conv, rows, answers, replied, spoke, streak, breached>>

-----------------------------------------------------------------------------
(* The admin console *)

\* takeover, or the first message staff send.
Takeover(v) ==
    /\ conv[v].status # "unused"
    /\ Act
    /\ ~ conv[v].ai_paused
    /\ conv' = [conv EXCEPT ![v].ai_paused = TRUE]
    /\ spoke' = [spoke EXCEPT ![v] = 0]
    /\ UNCHANGED <<job, turn, claimed, lock, rows, answers, replied, streak, breached>>

Release(v) ==
    /\ conv[v].status # "unused"
    /\ Act
    /\ conv' = [conv EXCEPT ![v].ai_paused = FALSE, ![v].failed_turns = 0]
    /\ UNCHANGED <<job, turn, claimed, lock, rows, answers, replied, spoke, streak, breached>>

Resolve(v) ==
    /\ conv[v].status # "unused"
    /\ Act
    /\ conv' = [conv EXCEPT ![v].status = "resolved", ![v].ai_paused = FALSE]
    /\ UNCHANGED <<job, turn, claimed, lock, rows, answers, replied, spoke, streak, breached>>

-----------------------------------------------------------------------------
QueueNext ==
    \/ \E j \in Jobs : Deliver(j) \/ Expire(j)
    \/ \E w \in Workers : Done(w) \/ Failed(w) \/ \E j \in Jobs : Start(w, j)

LockNext ==
    \/ \E w \in Workers : Enter(w) \/ Busy(w) \/ EnterAdvisory(w) \/ Leave(w) \/ LeaveFails(w)
                           \/ FreesAnother(w)
    \/ \E c \in Customers : LockLapses(c)
    \/ RedisRestart

TurnNext == \E w \in Workers :
    \/ ClaimMessage(w) \/ ClaimFails(w) \/ Deflect(w)
    \/ TurnAway(w) \/ Load(w) \/ Control(w) \/ Save(w) \/ Answer(w) \/ FallBack(w) \/ Raise(w)
    \/ SendReply(w) \/ SendFails(w) \/ Crash(w)

StaffNext == \E v \in Convs : Takeover(v) \/ Release(v) \/ Resolve(v)

Next == QueueNext \/ LockNext \/ TurnNext \/ StaffNext

Spec == Init /\ [][Next]_vars

-----------------------------------------------------------------------------
(* Properties *)

\* Jobs, turns, keys and rows keep their types.
TypeOK ==
    /\ job \in [Jobs -> JobType]
    /\ turn \in [Workers -> TurnType]
    /\ claimed \subseteq Messages
    /\ lock \in [Customers -> Workers \cup {None}]
    /\ conv \in [Convs -> ConvType]
    /\ rows \subseteq Messages
    /\ answers \in [Messages -> Nat]
    /\ replied \subseteq Messages
    /\ spoke \in [Convs -> Nat]
    /\ streak \in [Convs -> Nat]
    /\ breached \subseteq Customers
    /\ faults \in 0 .. MaxFaults
    /\ acts \in 0 .. MaxActs

\* A message is answered once, however often it is delivered, its job retried
\* or run twice at a time, and even when Redis forgets that it was claimed.
AnsweredOnce == \A m \in Messages : answers[m] <= 1

\* Of two turns inside acquire_session for one customer, one has lost its key or
\* runs on the advisory lock: a turn that lost its key takes another's along only
\* where their tokens are the same, and then the other has lost its own.
TurnsAreSerial == \A c \in Customers : \A w, x \in InsideOf(c) :
    w = x \/ \E y \in {w, x} : turn[y].lost \/ turn[y].via = "advisory"

\* A customer's messages land in one thread: there is no second active
\* conversation, although nothing in the schema forbids one.
OneThread == \A c \in Customers : Cardinality(Active(c)) <= 1 \/ c \in breached

\* What the lock is for, in the words of acquire_session ("Serialize concurrent
\* processing for one MSISDN"): one turn at a time, and so one thread.
OneAtATime == TurnsAreSerial /\ OneThread

\* Once staff have taken a conversation over, the model gets at most one more
\* word in: the answer it was already working on.
TakeoverSilencesModel == \A v \in Convs :
    spoke[v] <= 1 \/ conv[v].customer \in breached

\* The counter that hands a conversation to a human never runs ahead of the
\* failed turns in a row the customer really had.
StrikesAreReal == \A v \in Convs :
    conv[v].failed_turns <= streak[v] \/ conv[v].customer \in breached

\* Nothing more is going to happen to m, and no job of it was given up.
Settled(m) ==
    LET js == {j \in Jobs : About[j] = m} IN
    /\ \A j \in js : job[j].status \in {"absent", "done"}
    /\ \E j \in js : job[j].status = "done"
    /\ \A w \in Workers : turn[w].pc = "idle" \/ Msg(w) # m

\* app/api/whatsapp.py:131, a failed message makes "the durable job [...] retry
\* instead of being marked done with no customer reply".
DoneMeansReplied == \A m \in Messages : Settled(m) => m \in replied

=============================================================================
