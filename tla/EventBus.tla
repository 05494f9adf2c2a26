------------------------------ MODULE EventBus ------------------------------
(***************************************************************************)
(* From an event to the rows of the outbox: the bus every API process      *)
(* listens to (core/event_bus.py) and the dispatcher that inserts one row  *)
(* per subscribed webhook endpoint (services/webhook_dispatcher.py).  The  *)
(* delivery of those rows is the module Outbox.                            *)
(*                                                                         *)
(* Redis Pub/Sub is fire and forget: an event reaches the processes that   *)
(* are subscribed when it is published and no other.  Each of them tries   *)
(* to claim it with a SET NX of 60 seconds; when Redis does not answer the *)
(* process dispatches without a claim.                                     *)
(***************************************************************************)
EXTENDS Integers, FiniteSets

CONSTANTS
    Processes,     \* API processes; each runs one listener
    Events,        \* dispatchable events that name a business
    Hooks,         \* webhook endpoints of the businesses
    Subscribed,    \* hooks whose list names the event's type, or "*"
    MaxBusFaults   \* BOUND: crashes, lost connections, failed commands

ASSUME BusAssumption ==
    /\ Subscribed \in [Events -> SUBSET Hooks]
    /\ MaxBusFaults \in Nat

VARIABLES
    published,     \* events published so far
    inbox,         \* per process, events its listener has not handled yet
    connected,     \* processes whose listener is subscribed
    dispatch,      \* per process, the event its listener is dispatching
    claim,         \* events whose dispatch key exists in Redis
    enabled,       \* hooks that exist and are active
    queued,        \* rows inserted in the outbox, per event and hook
    chosen,        \* history: per event, the sets of hooks dispatches chose
    received,      \* history: events that reached a process
    unclaimed,     \* history: events whose key ran out or was never set
    lost,          \* history: events a crash or a failure hit
    busFaults

busVars == <<published, inbox, connected, dispatch, claim, enabled, queued,
             chosen, received, unclaimed, lost, busFaults>>

NoEvent == [stage |-> "idle", event |-> {}, targets |-> {}]

(* event is a singleton, or empty for an idle listener.                    *)
DispatchType == [stage : {"idle", "load", "enqueue"}, event : SUBSET Events,
                 targets : SUBSET Hooks]

BusInit ==
    /\ published = {}
    /\ inbox = [p \in Processes |-> {}]
    /\ connected = {}
    /\ dispatch = [p \in Processes |-> NoEvent]
    /\ claim = {}
    /\ enabled = Hooks
    /\ queued = [e \in Events |-> [h \in Hooks |-> 0]]
    /\ chosen = [e \in Events |-> {}]
    /\ received = {}
    /\ unclaimed = {}
    /\ lost = {}
    /\ busFaults = 0

BusFault ==
    /\ busFaults < MaxBusFaults
    /\ busFaults' = busFaults + 1

-----------------------------------------------------------------------------
(* The bus.                                                                *)

Listen(p) ==
    /\ p \notin connected
    /\ connected' = connected \cup {p}
    /\ UNCHANGED <<published, inbox, dispatch, claim, enabled, queued, chosen,
                   received, unclaimed, lost, busFaults>>

(* The connection drops; what the listener had not read yet is gone.       *)
Disconnect(p) ==
    /\ p \in connected
    /\ BusFault
    /\ connected' = connected \ {p}
    /\ inbox' = [inbox EXCEPT ![p] = {}]
    /\ lost' = lost \cup inbox[p]
    /\ UNCHANGED <<published, dispatch, claim, enabled, queued, chosen,
                   received, unclaimed>>

Publish(e) ==
    /\ e \notin published
    /\ published' = published \cup {e}
    /\ inbox' = [p \in Processes |->
                    IF p \in connected THEN inbox[p] \cup {e} ELSE inbox[p]]
    /\ received' = IF connected = {} THEN received ELSE received \cup {e}
    /\ UNCHANGED <<connected, dispatch, claim, enabled, queued, chosen,
                   unclaimed, lost, busFaults>>

(* Redis is down: the failure is logged and the event is gone.             *)
PublishFails(e) ==
    /\ e \notin published
    /\ BusFault
    /\ published' = published \cup {e}
    /\ UNCHANGED <<inbox, connected, dispatch, claim, enabled, queued, chosen,
                   received, unclaimed, lost>>

-----------------------------------------------------------------------------
(* _handle, run by the listener for one event at a time.                   *)

Handling(e) == [stage |-> "load", event |-> {e}, targets |-> {}]

\* The answer of SET NX is not looked at.
ClaimDispatchAnyway(p, e) ==
    /\ dispatch[p].stage = "idle"
    /\ e \in inbox[p]
    /\ inbox' = [inbox EXCEPT ![p] = @ \ {e}]
    /\ dispatch' = [dispatch EXCEPT ![p] = Handling(e)]
    /\ claim' = claim \cup {e}
    /\ UNCHANGED <<published, connected, enabled, queued, chosen,
                   received, unclaimed, lost, busFaults>>

(* _claim_dispatch: SET NX with an expiry.  Who loses drops the event.     *)
ClaimDispatch(p, e) ==
    /\ dispatch[p].stage = "idle"
    /\ e \in inbox[p]
    /\ inbox' = [inbox EXCEPT ![p] = @ \ {e}]
    /\ dispatch' = IF e \in claim THEN dispatch
                                  ELSE [dispatch EXCEPT ![p] = Handling(e)]
    /\ claim' = claim \cup {e}
    /\ UNCHANGED <<published, connected, enabled, queued, chosen,
                   received, unclaimed, lost, busFaults>>

(* Redis does not answer: ship rather than swallow.                        *)
ClaimFails(p, e) ==
    /\ dispatch[p].stage = "idle"
    /\ e \in inbox[p]
    /\ BusFault
    /\ inbox' = [inbox EXCEPT ![p] = @ \ {e}]
    /\ dispatch' = [dispatch EXCEPT ![p] = Handling(e)]
    /\ unclaimed' = unclaimed \cup {e}
    /\ UNCHANGED <<published, connected, claim, enabled, queued, chosen,
                   received, lost>>

ClaimExpires(e) ==
    /\ e \in claim
    /\ claim' = claim \ {e}
    /\ unclaimed' = unclaimed \cup {e}
    /\ UNCHANGED <<published, inbox, connected, dispatch, enabled, queued, chosen,
                   received, lost, busFaults>>

Inserting(p, targets) ==
    IF targets = {} THEN NoEvent
                    ELSE [dispatch[p] EXCEPT !.stage = "enqueue", !.targets = targets]

(* The active endpoints of the business that want the event.               *)
LoadTargets(p) ==
    /\ dispatch[p].stage = "load"
    /\ \E e \in dispatch[p].event :
          LET targets == Subscribed[e] \cap enabled
          IN  /\ dispatch' = [dispatch EXCEPT ![p] = Inserting(p, targets)]
              /\ chosen' = [chosen EXCEPT ![e] = @ \cup {targets}]
    /\ UNCHANGED <<published, inbox, connected, claim, enabled, queued,
                   received, unclaimed, lost, busFaults>>

(* The query raises: _dispatch logs it and the listener goes on.           *)
LoadFails(p) ==
    /\ dispatch[p].stage = "load"
    /\ BusFault
    /\ dispatch' = [dispatch EXCEPT ![p] = NoEvent]
    /\ lost' = lost \cup dispatch[p].event
    /\ UNCHANGED <<published, inbox, connected, claim, enabled, queued, chosen,
                   received, unclaimed>>

(* The inserts run side by side, each in a session of its own; one of them *)
(* commits, or fails and its exception is swallowed.                       *)
InsertRow(p, h) ==
    /\ h \in dispatch[p].targets
    /\ \E e \in dispatch[p].event : queued' = [queued EXCEPT ![e][h] = @ + 1]
    /\ dispatch' = [dispatch EXCEPT ![p] = Inserting(p, dispatch[p].targets \ {h})]
    /\ UNCHANGED <<published, inbox, connected, claim, enabled, chosen,
                   received, unclaimed, lost, busFaults>>

InsertFails(p, h) ==
    /\ h \in dispatch[p].targets
    /\ BusFault
    /\ dispatch' = [dispatch EXCEPT ![p] = Inserting(p, dispatch[p].targets \ {h})]
    /\ lost' = lost \cup dispatch[p].event
    /\ UNCHANGED <<published, inbox, connected, claim, enabled, queued, chosen,
                   received, unclaimed>>

(* The process dies with its listener, and starts again.                   *)
ProcessCrash(p) ==
    /\ BusFault
    /\ connected' = connected \ {p}
    /\ inbox' = [inbox EXCEPT ![p] = {}]
    /\ dispatch' = [dispatch EXCEPT ![p] = NoEvent]
    /\ lost' = lost \cup inbox[p] \cup dispatch[p].event
    /\ UNCHANGED <<published, claim, enabled, queued, chosen, received, unclaimed>>

(* An owner deletes an endpoint, or its failures switch it off.            *)
HookGoes(h) ==
    /\ h \in enabled
    /\ enabled' = enabled \ {h}
    /\ UNCHANGED <<published, inbox, connected, dispatch, claim, queued, chosen,
                   received, unclaimed, lost, busFaults>>

-----------------------------------------------------------------------------
ListenerStep(p) ==
    \/ \E e \in Events : ClaimDispatch(p, e)
    \/ LoadTargets(p)
    \/ \E h \in Hooks : InsertRow(p, h)

BusNext ==
    \/ \E e \in Events : Publish(e) \/ PublishFails(e) \/ ClaimExpires(e)
    \/ \E p \in Processes :
          \/ Listen(p) \/ Disconnect(p) \/ ProcessCrash(p)
          \/ ListenerStep(p) \/ LoadFails(p)
          \/ \E e \in Events : ClaimFails(p, e)
          \/ \E h \in Hooks : InsertFails(p, h)
    \/ \E h \in Hooks : HookGoes(h)

BusSpec == BusInit /\ [][BusNext]_busVars

-----------------------------------------------------------------------------
BusTypeOK ==
    /\ published \subseteq Events
    /\ inbox \in [Processes -> SUBSET Events]
    /\ connected \subseteq Processes
    /\ dispatch \in [Processes -> DispatchType]
    /\ claim \subseteq Events
    /\ enabled \subseteq Hooks
    /\ queued \in [Events -> [Hooks -> Nat]]
    /\ chosen \in [Events -> SUBSET SUBSET Hooks]
    /\ received \subseteq Events
    /\ unclaimed \subseteq Events
    /\ lost \subseteq Events
    /\ busFaults \in 0..MaxBusFaults

(* However many processes hear an event, an endpoint gets one row for it,  *)
(* unless the dispatch key ran out while a process was still behind, or    *)
(* Redis did not answer (webhook_dispatcher.py:59, "a slow worker can't    *)
(* double-fire").                                                          *)
OneRowPerEvent ==
    \A e \in Events \ unclaimed, h \in Hooks : queued[e][h] <= 1

(* An event that reached some process, and that no process has still to    *)
(* handle, is in the outbox for every endpoint that was chosen for it, and *)
(* some process did choose: those that lose the claim, or cannot make it,  *)
(* leave nothing out.  Crashes and failures are the exception: nobody      *)
(* takes over an event whose claimant died.                                *)
Busy(e) == \E p \in Processes : e \in inbox[p] \cup dispatch[p].event

ReceivedIsQueued ==
    \A e \in received \ lost : Busy(e) \/
        /\ chosen[e] # {}
        /\ \A choice \in chosen[e] : \A h \in choice : queued[e][h] > 0

(* Dispatch by several processes neither doubles an event nor drops it.    *)
DispatchedOnce == OneRowPerEvent /\ ReceivedIsQueued
=============================================================================
