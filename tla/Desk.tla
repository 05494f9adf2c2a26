-------------------------------- MODULE Desk --------------------------------
(***************************************************************************)
(* One conversation as staff handle it: take over, release, resolve and    *)
(* write in its place (api/admin_console.py, api/admin.py,                 *)
(* services/staff_dispatch.py), beside the customer's turns, which only    *)
(* escalate it here (InboundTurn has the turns themselves).                *)
(*                                                                         *)
(* A request loads the row, changes the object and writes the columns      *)
(* whose value is new.  A request that writes a message, like a turn,      *)
(* updates the row before it talks to the provider, and holds it until it  *)
(* commits: others that update the row wait.                               *)
(***************************************************************************)
EXTENDS Integers

CONSTANTS
    Staff,            \* staff with access to the conversation's business
    MaxDeskActs,      \* BOUND: requests and turns
    MaxDeskFaults     \* BOUND: commits that fail after the message was sent

VARIABLES
    thread,           \* the row of the conversation
    desk,             \* per staff member and for the turn, the request in hand
    crossed,          \* history: a write was based on columns no longer so
    deskActs, deskFaults

deskVars == <<thread, desk, crossed, deskActs, deskFaults>>

Nobody   == "nobody"
Customer == "customer"     \* whose turn it is
Hands    == Staff \cup {Customer}

ASSUME DeskAssumption ==
    /\ Nobody \notin Staff /\ Customer \notin Staff
    /\ MaxDeskActs \in Nat /\ MaxDeskFaults \in Nat

Thread == [status : {"active", "human_escalated", "resolved"},
           paused : BOOLEAN, owner : Staff \cup {Nobody}]

Verbs == {"takeover", "release", "resolve", "reopen", "send", "turn"}

(* next is the row as the request wants it, read the row as it found it.   *)
Request == [verb : Verbs, stage : {"read", "held", "sent"}, read : Thread, next : Thread]
NoRequest == [verb |-> "none"]

DeskInit ==
    /\ thread = [status |-> "active", paused |-> FALSE, owner |-> Nobody]
    /\ desk = [s \in Hands |-> NoRequest]
    /\ crossed = FALSE
    /\ deskActs = 0 /\ deskFaults = 0

TakenOver(row, s) == [row EXCEPT !.paused = TRUE, !.owner = s]
Released(row)     == [row EXCEPT !.paused = FALSE, !.owner = Nobody]

\* Writing to the customer pauses the AI and leaves the owner out.
WantedInPart(verb, row, s) ==
    CASE verb = "takeover" -> TakenOver(row, s)
      [] verb = "release"  -> Released(row)
      [] verb = "resolve"  -> [Released(row) EXCEPT !.status = "resolved"]
      [] verb = "reopen"   -> [row EXCEPT !.status = "active"]
      [] verb = "send"     -> [row EXCEPT !.paused = TRUE]

(* reopen is the resolve of api/admin.py, which touches the status alone.  *)
Wanted(verb, row, s) ==
    CASE verb = "takeover" -> TakenOver(row, s)
      [] verb = "release"  -> Released(row)
      [] verb = "resolve"  -> [Released(row) EXCEPT !.status = "resolved"]
      [] verb = "reopen"   -> [row EXCEPT !.status = "active"]
      [] verb = "send"     -> IF row.paused THEN row ELSE TakenOver(row, s)

Begins(s, verb, wanted) ==
    /\ desk[s] = NoRequest
    /\ deskActs < MaxDeskActs /\ deskActs' = deskActs + 1
    /\ desk' = [desk EXCEPT ![s] = [verb |-> verb, stage |-> "read",
                                    read |-> thread, next |-> wanted]]
    /\ UNCHANGED <<thread, crossed, deskFaults>>

StaffLoads(s, verb) == verb # "turn" /\ Begins(s, verb, Wanted(verb, thread, s))

(* A turn finds only an active conversation, and escalates it when the AI  *)
(* that answers, fails or is asked for a person.                           *)
TurnLoads(escalates) ==
    /\ thread.status = "active"
    /\ Begins(Customer, "turn",
             IF escalates /\ ~thread.paused
             THEN [thread EXCEPT !.status = "human_escalated"] ELSE thread)

Holding == {s \in Hands : desk[s] # NoRequest /\ desk[s].stage \in {"held", "sent"}}

(* append_message, and the flush of what is new.                           *)
Holds(s) ==
    /\ desk[s] # NoRequest /\ desk[s].stage = "read"
    /\ desk[s].verb \in {"send", "turn"}
    /\ Holding = {}
    /\ desk' = [desk EXCEPT ![s].stage = "held"]
    /\ UNCHANGED <<thread, crossed, deskActs, deskFaults>>

(* The provider takes the message or refuses it: the request goes on.      *)
Dispatches(s) ==
    /\ desk[s] # NoRequest /\ desk[s].stage = "held"
    /\ desk' = [desk EXCEPT ![s].stage = "sent"]
    /\ UNCHANGED <<thread, crossed, deskActs, deskFaults>>

(* The columns whose value is not the one read.                            *)
Merged(now, read, next) ==
    [column \in DOMAIN now |->
        IF next[column] = read[column] THEN now[column] ELSE next[column]]

Commits(s) ==
    /\ desk[s] # NoRequest
    /\ \/ desk[s].verb \notin {"send", "turn"} /\ Holding = {}
       \/ desk[s].stage = "sent"
    /\ LET read == desk[s].read
           next == desk[s].next
       IN  /\ thread' = Merged(thread, read, next)
           /\ crossed' = \/ crossed
                         \/ <<read.paused, read.owner>> # <<thread.paused, thread.owner>>
    /\ desk' = [desk EXCEPT ![s] = NoRequest]
    /\ UNCHANGED <<deskActs, deskFaults>>

(* An empty message, or a commit that fails: nothing is kept.              *)
RollsBack(s) ==
    /\ desk[s] # NoRequest /\ desk[s].verb \in {"send", "turn"}
    /\ deskFaults < MaxDeskFaults /\ deskFaults' = deskFaults + 1
    /\ desk' = [desk EXCEPT ![s] = NoRequest]
    /\ UNCHANGED <<thread, crossed, deskActs>>

DeskNext ==
    \/ \E s \in Staff, verb \in Verbs : StaffLoads(s, verb)
    \/ \E escalates \in BOOLEAN : TurnLoads(escalates)
    \/ \E s \in Hands : Holds(s) \/ Dispatches(s) \/ Commits(s) \/ RollsBack(s)

DeskSpec == DeskInit /\ [][DeskNext]_deskVars

-----------------------------------------------------------------------------
DeskTypeOK ==
    /\ thread \in Thread
    /\ desk \in [Hands -> Request \cup {NoRequest}]
    /\ crossed \in BOOLEAN
    /\ deskActs \in 0..MaxDeskActs /\ deskFaults \in 0..MaxDeskFaults

(* A conversation has an owner exactly while the AI is paused, whatever    *)
(* staff do to it one after the other: only requests that overlap part the *)
(* two (staff_dispatch.py:134, "pause AI, assign owner").                  *)
OwnedIsPaused == thread.paused = (thread.owner # Nobody) \/ crossed
=============================================================================
