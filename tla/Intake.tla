------------------------------- MODULE Intake -------------------------------
(***************************************************************************)
(* What Meta posts (api/whatsapp.py): a delivery is a batch of messages of *)
(* one or more senders.  The webhook limits each sender, stores the batch  *)
(* as one job and acknowledges it; the job walks through the batch, and is *)
(* run again as a whole when one of its messages failed.  What a turn does *)
(* with one message is the module InboundTurn, what the queue does with    *)
(* the job the module JobQueue.                                            *)
(***************************************************************************)
EXTENDS Integers, Sequences, FiniteSets, FiniteSetsExt

CONSTANTS
    Deliveries,    \* payloads posted by Meta
    Batch,         \* per delivery, the messages it holds, in order
    From,          \* per message, its sender
    Silent,        \* messages without any text: nothing to answer
    EdgeCapacity,  \* tokens of a sender's quota (10)
    MaxRuns,       \* max_attempts of an inbound job (3)
    MaxSlips       \* BOUND: failed commands, failed claims and crashes

Mail    == UNION {{Batch[d][i] : i \in DOMAIN Batch[d]} : d \in Deliveries}
Senders == {From[x] : x \in Mail}

ASSUME IntakeAssumption ==
    /\ EdgeCapacity \in Nat \ {0}
    /\ Silent \subseteq Mail
    /\ MaxSlips \in Nat /\ MaxRuns \in Nat
    /\ MaxSlips < MaxRuns

VARIABLES
    quota,      \* per sender, the tokens left
    delivery,   \* per delivery, its job and how far a run of it is
    started,    \* messages whose idempotency key exists
    beginnings, \* history: per message, the turns begun for it
    reopened,   \* messages answered with the re-engagement template
    old,        \* messages sent more than 23 hours ago
    slips

intakeVars == <<quota, delivery, started, beginnings, reopened, old, slips>>

\* at: the message a run is at; inTurn: its turn is under way; failing:
\* had_failures
Delivery == [stage : {"new", "dropped", "queued", "running", "lapsed", "done",
                      "failed", "expired"},
             runs : Nat, at : Nat, inTurn : BOOLEAN, failing : BOOLEAN]

IntakeInit ==
    /\ quota = [s \in Senders |-> EdgeCapacity]
    /\ delivery = [d \in Deliveries |-> [stage |-> "new", runs |-> 0, at |-> 1,
                                         inTurn |-> FALSE, failing |-> FALSE]]
    /\ started = {}
    /\ beginnings = [x \in Mail |-> 0]
    /\ reopened = {}
    /\ old = {}
    /\ slips = 0

Slips ==
    /\ slips < MaxSlips
    /\ slips' = slips + 1

-----------------------------------------------------------------------------
(* The webhook.                                                            *)

(* _sender_wa_ids: every sender once, where the batch names it first.      *)
FirstOfSender(d) ==
    {i \in DOMAIN Batch[d] : \A k \in 1..(i - 1) : From[Batch[d][k]] # From[Batch[d][i]]}

Refused(d) == {i \in FirstOfSender(d) : quota[From[Batch[d][i]]] = 0}

(* Tokens are taken in turn until a sender has none left.                  *)
Charged(d) ==
    {From[Batch[d][i]] : i \in {i \in FirstOfSender(d) : \A k \in Refused(d) : i < k}}

Taken(d) == [s \in Senders |-> IF s \in Charged(d) THEN quota[s] - 1 ELSE quota[s]]

(* One sender over the limit, and the whole batch is acknowledged and      *)
(* dropped; otherwise it is stored as a job.                               *)
Inbound(d) ==
    /\ delivery[d].stage = "new"
    /\ quota' = Taken(d)
    /\ delivery' = [delivery EXCEPT ![d].stage = IF Refused(d) = {} THEN "queued" ELSE "dropped"]
    /\ UNCHANGED <<started, beginnings, reopened, old, slips>>

(* The job cannot be stored: Meta gets no acknowledgement and posts again. *)
InboundFails(d) ==
    /\ delivery[d].stage = "new" /\ Refused(d) = {}
    /\ Slips
    /\ quota' = Taken(d)
    /\ UNCHANGED <<delivery, started, beginnings, reopened, old>>

-----------------------------------------------------------------------------
(* The job: process_whatsapp_payload.                                      *)

RunStarts(d) ==
    /\ delivery[d].stage \in {"queued", "lapsed"}
    /\ delivery' = [delivery EXCEPT ![d] = [stage |-> "running", runs |-> @.runs + 1, at |-> 1,
                                            inTurn |-> FALSE, failing |-> FALSE]]
    /\ UNCHANGED <<quota, started, beginnings, reopened, old, slips>>

At(d) == IF delivery[d].stage = "running" /\ ~delivery[d].inTurn
            /\ delivery[d].at \in DOMAIN Batch[d]
           THEN {Batch[d][delivery[d].at]} ELSE {}

\* The loop ends at the first message that fails.
PassedUntilFailure(d, failed) ==
    [delivery EXCEPT ![d].at = IF failed THEN Len(Batch[d]) + 1 ELSE @ + 1,
                     ![d].inTurn = FALSE,
                     ![d].failing = @ \/ failed]

(* The next message, whatever became of this one.                          *)
Passed(d, failed) ==
    [delivery EXCEPT ![d].at = @ + 1, ![d].inTurn = FALSE, ![d].failing = @ \/ failed]

(* _handle_one_message: nothing to answer, or nothing but a template,      *)
(* whether it goes out or not.                                             *)
PassesOver(d) ==
    \E x \in At(d) :
        /\ x \in Silent \cup old
        /\ delivery' = Passed(d, FALSE)
        /\ reopened' = IF x \in Silent THEN reopened ELSE reopened \cup {x}
        /\ UNCHANGED <<quota, started, beginnings, old, slips>>

(* The turn begins, or finds that it was begun before.                     *)
BeginsTurn(d) ==
    \E x \in At(d) \ (Silent \cup old) :
        /\ IF x \in started
             THEN delivery' = Passed(d, FALSE) /\ UNCHANGED <<started, beginnings>>
             ELSE /\ started' = started \cup {x}
                  /\ beginnings' = [beginnings EXCEPT ![x] = @ + 1]
                  /\ delivery' = [delivery EXCEPT ![d].inTurn = TRUE]
        /\ UNCHANGED <<quota, reopened, old, slips>>

(* Redis does not answer, and in production there is no turn without it.   *)
CannotBegin(d) ==
    \E x \in At(d) \ (Silent \cup old) :
        /\ Slips
        /\ delivery' = Passed(d, TRUE)
        /\ UNCHANGED <<quota, started, beginnings, reopened, old>>

(* The reply is sent, at the second try at the latest; or the turn or both *)
(* tries fail, and the customer is sent an apology.                        *)
EndsTurn(d) ==
    /\ delivery[d].stage = "running" /\ delivery[d].inTurn
    /\ \E failed \in BOOLEAN : delivery' = Passed(d, failed)
    /\ UNCHANGED <<quota, started, beginnings, reopened, old, slips>>

(* run_whatsapp_inbound: a batch with a failure raises.                    *)
EndsRun(d) ==
    /\ delivery[d].stage = "running" /\ delivery[d].at > Len(Batch[d])
    /\ delivery' = [delivery EXCEPT ![d].stage =
                        IF ~delivery[d].failing THEN "done"
                        ELSE IF delivery[d].runs < MaxRuns THEN "queued" ELSE "failed"]
    /\ UNCHANGED <<quota, started, beginnings, reopened, old, slips>>

(* The process dies; the next one takes the job over, whatever its budget. *)
RunCrashes(d) ==
    /\ delivery[d].stage = "running"
    /\ Slips
    /\ delivery' = [delivery EXCEPT ![d].stage = "lapsed"]
    /\ UNCHANGED <<quota, started, beginnings, reopened, old>>

-----------------------------------------------------------------------------
(* Time.                                                                   *)

JobExpires(d) ==
    /\ delivery[d].stage \in {"queued", "lapsed"}
    /\ delivery' = [delivery EXCEPT ![d].stage = "expired"]
    /\ UNCHANGED <<quota, started, beginnings, reopened, old, slips>>

Refills(s) ==
    /\ quota[s] < EdgeCapacity
    /\ quota' = [quota EXCEPT ![s] = @ + 1]
    /\ UNCHANGED <<delivery, started, beginnings, reopened, old, slips>>

(* _is_stale_customer_message.                                             *)
GrowsOld(x) ==
    /\ x \notin old
    /\ old' = old \cup {x}
    /\ UNCHANGED <<quota, delivery, started, beginnings, reopened, slips>>

JobStep(d) ==
    RunStarts(d) \/ PassesOver(d) \/ BeginsTurn(d) \/ EndsTurn(d) \/ EndsRun(d)

IntakeNext ==
    \/ \E d \in Deliveries :
          \/ Inbound(d) \/ InboundFails(d)
          \/ JobStep(d) \/ CannotBegin(d) \/ RunCrashes(d) \/ JobExpires(d)
    \/ \E s \in Senders : Refills(s)
    \/ \E x \in Mail : GrowsOld(x)

IntakeSpec == IntakeInit /\ [][IntakeNext]_intakeVars

-----------------------------------------------------------------------------
IntakeTypeOK ==
    /\ quota \in [Senders -> 0..EdgeCapacity]
    /\ delivery \in [Deliveries -> Delivery]
    /\ started \subseteq Mail /\ reopened \subseteq Mail /\ old \subseteq Mail
    /\ beginnings \in [Mail -> Nat]
    /\ slips \in 0..MaxSlips

Served(x) == x \in Silent \cup reopened \/ beginnings[x] = 1

(* Every message of a batch that was stored has a turn begun for it, or    *)
(* its template, and never two turns: though other messages of the batch   *)
(* fail on every run, though the process dies or Redis refuses a claim     *)
(* (fewer times than the job has runs), and though another delivery brings *)
(* the message again; unless the job expires first (whatsapp.py:149-172).  *)
EveryMessageHasItsTurn ==
    /\ [](\A x \in Mail : beginnings[x] <= 1)
    /\ \A d \in Deliveries :
          delivery[d].stage = "queued" ~>
              \/ delivery[d].stage = "expired"
              \/ \A i \in DOMAIN Batch[d] : Served(Batch[d][i])
=============================================================================
