------------------------------ MODULE AgentTurn ------------------------------
(***************************************************************************)
(* A turn of the language model and its tools, for one conversation:       *)
(* ai/graph.py, ai/tools.py and the two attempts of channels/base.py.      *)
(*                                                                         *)
(* The graph alternates between the model and the tools it asks for, and   *)
(* commits what the tools wrote after each round.  The whole attempt runs  *)
(* under a timeout that cancels it wherever it waits; one second attempt   *)
(* follows, with the history of the first attempt's start.  So a tool may  *)
(* be called again by a model that does not know it was called before.     *)
(* What the model asks for is arbitrary.  The tools of one round run side  *)
(* by side: here one step each, but for payments and photos, which wait    *)
(* for a provider.  Of Redis it is the production setting: a claim that    *)
(* Redis does not answer fails the tool.                                   *)
(***************************************************************************)
EXTENDS Integers, Sequences, FiniteSets, FiniteSetsExt

CONSTANTS
    Baskets,       \* the item lists of orders
    Loose,         \* a payment reference that names no order
    Terms,         \* what else a payment is asked with: phone, currency and amount
    PayKeys,       \* the payments the model asks for: a reference and the terms
    MaxHops,       \* MAX_TOOL_HOPS (4)
    MaxBatch,      \* BOUND: tools called by one message of the model
    MaxTurns,      \* BOUND: turns
    MaxTickets,    \* BOUND: orders
    MaxSessions,   \* BOUND: payment sessions opened
    MaxCuts        \* BOUND: timeouts, failures, crashes and lost results

ASSUME AgentAssumption ==
    /\ Loose \notin Baskets
    /\ "automatic" \notin Baskets \cup {Loose}
    /\ PayKeys \subseteq (Baskets \cup {Loose}) \X Terms
    /\ MaxHops \in Nat /\ MaxBatch \in Nat \ {0} /\ MaxTurns \in Nat
    /\ MaxTickets \in Nat /\ MaxSessions \in Nat /\ MaxCuts \in Nat

\* a session that no tool asked for
Automatic == <<"automatic", "automatic">>

VARIABLES
    tickets,    \* the orders as the session of the turn sees them
    saved,      \* the orders as committed
    payKey,     \* the idempotency keys in Redis, each with a claim or a result
    sessions,   \* history: payment sessions, oldest first
    photo,      \* the menu photo: the result under its key, and what was sent
    agent,      \* the turn under way
    renewed,    \* history: per key, how often it expired
    turns,
    cuts

agentVars == <<tickets, saved, payKey, sessions, photo, agent, renewed, turns, cuts>>

\* checkout is a position in sessions, 0 for none
Ticket == [basket : Baskets, status : {"pending", "paid"}, checkout : 0..MaxSessions]

\* order is a position in tickets, 0 for none; sure: recorded when opened
PaySession == [key : PayKeys \cup {Automatic}, order : 0..MaxTickets, sure : BOOLEAN]

\* a request at the provider, for the order that was the newest: 0 for none
PayRequest == [key : PayKeys, order : 0..MaxTickets]

\* stored: the key holds a result (a key without one stops nothing); flying:
\* calls that are waiting for the client; history, since the key lapsed:
\* whether it went out, and how often it was sent again after that
PhotoType == [stored : BOOLEAN, flying : 0..MaxBatch,
              out : BOOLEAN, again : Nat]

\* ran: the tools that answered; left: those still to start, of the ones the
\* model asked for; paying: the payments being requested; made: the order the
\* last create_order made
AgentType == [stage : {"idle", "model", "tools", "reply", "fallback"},
              attempt : 1..2, ran : Nat, left : 0..MaxBatch,
              paying : SUBSET PayRequest, made : 0..MaxTickets]

Resting == [stage |-> "idle", attempt |-> 1, ran |-> 0, left |-> 0,
            paying |-> {}, made |-> 0]

AgentInit ==
    /\ tickets = <<>> /\ saved = <<>>
    /\ payKey = {}
    /\ sessions = <<>>
    /\ photo = [stored |-> FALSE, flying |-> 0, out |-> FALSE, again |-> 0]
    /\ agent = Resting
    /\ renewed = [k \in PayKeys |-> 0]
    /\ turns = 0
    /\ cuts = 0

Cut ==
    /\ cuts < MaxCuts
    /\ cuts' = cuts + 1

Begins(attempt) == [Resting EXCEPT !.stage = "model", !.attempt = attempt]

BeginTurn ==
    /\ agent.stage = "idle"
    /\ turns < MaxTurns
    /\ turns' = turns + 1
    /\ agent' = Begins(1)
    /\ UNCHANGED <<tickets, saved, payKey, sessions, photo, renewed, cuts>>

-----------------------------------------------------------------------------
(* The model.                                                              *)

(* _should_continue: the cap counts what the tools answered so far.        *)
GoesOn(n) == IF agent.ran >= MaxHops THEN [agent EXCEPT !.stage = "reply"]
                                         ELSE [agent EXCEPT !.stage = "tools", !.left = n]

ModelCalls ==
    /\ agent.stage = "model"
    /\ \E n \in 1..MaxBatch : agent' = GoesOn(n)
    /\ UNCHANGED <<tickets, saved, payKey, sessions, photo, renewed, turns, cuts>>

ModelReplies ==
    /\ agent.stage = "model"
    /\ agent' = [agent EXCEPT !.stage = "reply"]
    /\ UNCHANGED <<tickets, saved, payKey, sessions, photo, renewed, turns, cuts>>

-----------------------------------------------------------------------------
(* The tools.                                                              *)

\* the next tool starts: which one, and with what, is the model's choice
Starts == agent.stage = "tools" /\ agent.left > 0

Answered == [agent EXCEPT !.ran = @ + 1, !.left = @ - 1]

Unpaid == {i \in DOMAIN tickets : tickets[i].status = "pending"}

Same(basket) == {i \in Unpaid : tickets[i].basket = basket}

(* create_order: refused by the velocity guard, answered with the pending  *)
(* order of the same items, or done.                                       *)
RefuseOrder ==
    /\ Starts
    /\ agent' = [Answered EXCEPT !.made = 0]
    /\ UNCHANGED <<tickets, saved, payKey, sessions, photo, renewed, turns, cuts>>

CreateOrder(basket) ==
    /\ Starts
    /\ IF Same(basket) # {}
         THEN agent' = [Answered EXCEPT !.made = 0] /\ UNCHANGED tickets
         ELSE /\ Len(tickets) < MaxTickets
              /\ tickets' = Append(tickets, [basket |-> basket, status |-> "pending",
                                             checkout |-> 0])
              /\ agent' = [Answered EXCEPT !.made = Len(tickets')]
    /\ UNCHANGED <<saved, payKey, sessions, photo, renewed, turns, cuts>>

(* book_appointment, escalate_to_human, send_location_pin, or a claim that *)
(* Redis does not answer: an answer.                                       *)
OtherTool ==
    /\ Starts
    /\ agent' = Answered
    /\ UNCHANGED <<tickets, saved, payKey, sessions, photo, renewed, turns, cuts>>

(* send_menu_photo: the key of the photo is claimed for 45 seconds.  Only  *)
(* a stored result stops a second sending: a claim without one does not,   *)
(* whether its call is still waiting beside this one or was cut off.       *)
ClaimPhoto ==
    /\ Starts
    /\ IF photo.stored
         THEN /\ agent' = [agent EXCEPT !.ran = @ + 1, !.left = @ - 1]
              /\ UNCHANGED photo
         ELSE /\ agent' = [agent EXCEPT !.left = @ - 1]
              /\ photo' = [photo EXCEPT !.flying = @ + 1,
                              !.again = IF photo.out /\ photo.flying = 0 THEN @ + 1 ELSE @]
    /\ UNCHANGED <<tickets, saved, payKey, sessions, renewed, turns, cuts>>

(* The photo goes out or is refused, and the result is stored, unless      *)
(* Redis does not take it, which the tool does not see.                    *)
SendPhoto ==
    /\ agent.stage = "tools" /\ photo.flying > 0
    /\ \E sent \in BOOLEAN, kept \in BOOLEAN :
          /\ photo' = [photo EXCEPT !.stored = @ \/ kept, !.flying = @ - 1,
                                    !.out = @ \/ sent]
          /\ IF kept THEN UNCHANGED cuts ELSE Cut
    /\ agent' = [agent EXCEPT !.ran = @ + 1]
    /\ UNCHANGED <<tickets, saved, payKey, sessions, renewed, turns>>

(* Calls that are cut off while the client is asked may have been served.  *)
Dropped == {[photo EXCEPT !.flying = 0, !.out = @ \/ sent] :
               sent \in {FALSE, photo.flying > 0}}

PhotoKeyExpires ==
    /\ photo.stored \/ photo.out
    /\ photo' = [photo EXCEPT !.stored = FALSE, !.out = FALSE, !.again = 0]
    /\ UNCHANGED <<tickets, saved, payKey, sessions, agent, renewed, turns, cuts>>

(* The newest unpaid order, whatever the model had in mind.                *)
Latest == IF Unpaid = {} THEN 0 ELSE Max(Unpaid)

(* The order has a session and the reference is its own.                   *)
AlreadyOpen(k) ==
    /\ Latest # 0
    /\ tickets[Latest].checkout # 0
    /\ tickets[Latest].basket = k[1]

Requests(k) ==
    IF AlreadyOpen(k) THEN Answered
    ELSE [agent EXCEPT !.left = @ - 1,
                       !.paying = @ \cup {[key |-> k, order |-> Latest]}]

\* The key is only looked at, and written by nobody.
ClaimLooksOnly(k) ==
    /\ Starts
    /\ agent' = IF k \in payKey THEN Answered ELSE Requests(k)
    /\ UNCHANGED <<tickets, saved, payKey, sessions, photo, renewed, turns, cuts>>

(* request_mpesa_payment: the key, of the conversation, the reference, the *)
(* phone, the currency and the amount, is claimed; a key in use answers    *)
(* with the result it holds, or that a request is under way.               *)
ClaimPayment(k) ==
    /\ Starts
    /\ payKey' = payKey \cup {k}
    /\ agent' = IF k \in payKey THEN Answered ELSE Requests(k)
    /\ UNCHANGED <<tickets, saved, sessions, photo, renewed, turns, cuts>>

(* The request is answered, and the answer kept for ten minutes; if Redis  *)
(* does not take it, the claim stays.                                      *)
Settled(q) ==
    /\ agent.stage = "tools"
    /\ agent' = [agent EXCEPT !.ran = @ + 1, !.paying = @ \ {q}]

PaymentRefused(q) ==
    /\ Settled(q)
    /\ UNCHANGED <<tickets, saved, payKey, sessions, photo, renewed, turns, cuts>>

Opens(key, order, sure) ==
    /\ Len(sessions) < MaxSessions
    /\ sessions' = Append(sessions, [key |-> key, order |-> order, sure |-> sure])

Recorded(order) ==
    IF order = 0 THEN tickets
    ELSE [tickets EXCEPT ![order].checkout = Len(sessions) + 1]

PaymentStarted(q) ==
    /\ Settled(q)
    /\ Opens(q.key, q.order, TRUE)
    /\ tickets' = Recorded(q.order)
    /\ UNCHANGED <<saved, payKey, photo, renewed, turns, cuts>>

(* The provider opens a session and its answer is lost, unreadable or not  *)
(* written to the order: an error is kept as the answer.  A turn that ends *)
(* while the provider is asked may leave such a session too.               *)
PaymentLost(q) ==
    /\ Settled(q)
    /\ Opens(q.key, q.order, FALSE)
    /\ UNCHANGED <<tickets, saved, payKey, photo, renewed, turns, cuts>>

(* _release_db_connection after the tools: commit, then the model again.   *)
ToolsDone ==
    /\ agent.stage = "tools" /\ agent.left = 0
    /\ photo.flying = 0 /\ agent.paying = {}
    /\ saved' = tickets
    /\ agent' = [agent EXCEPT !.stage = "model"]
    /\ UNCHANGED <<tickets, payKey, sessions, photo, renewed, turns, cuts>>

-----------------------------------------------------------------------------
(* The ends of an attempt.                                                 *)

AfterFailure == IF agent.attempt = 1 THEN Begins(2) ELSE [Resting EXCEPT !.stage = "fallback"]

InSaved(i) ==
    LET order == sessions[i].order
    IN  order \in DOMAIN saved /\ saved[order].checkout >= i

Forget(kept) == [i \in DOMAIN sessions |->
                    [sessions[i] EXCEPT !.sure = @ /\ (kept \/ InSaved(i))]]

(* A tool or the chain of models raises: what was not committed is undone. *)
AttemptRaises ==
    /\ agent.stage \in {"model", "tools"}
    /\ Cut
    /\ tickets' = saved
    /\ sessions' = Forget(FALSE)
    /\ agent' = AfterFailure
    /\ photo' \in Dropped
    /\ UNCHANGED <<saved, payKey, renewed, turns>>

(* wait_for cancels the attempt.  What the session had written stays in    *)
(* its transaction, or goes with the connection.                           *)
AttemptTimesOut ==
    /\ agent.stage \in {"model", "tools"}
    /\ Cut
    /\ \E kept \in BOOLEAN :
          /\ tickets' = IF kept THEN tickets ELSE saved
          /\ sessions' = Forget(kept)
    /\ photo' \in Dropped
    /\ agent' = AfterFailure
    /\ UNCHANGED <<saved, payKey, renewed, turns>>

FallBackReply ==
    /\ agent.stage = "fallback"
    /\ saved' = tickets
    /\ agent' = Resting
    /\ UNCHANGED <<tickets, payKey, sessions, photo, renewed, turns, cuts>>

NeedsPayment ==
    /\ agent.made # 0
    /\ tickets[agent.made].status = "pending" /\ tickets[agent.made].checkout = 0

(* The reply goes out; finalize_checkout_from_ai asks for the money of an  *)
(* order the model made and requested nothing for.  An answer of the       *)
(* provider that is lost leaves the order without the session.             *)
AgentReplies ==
    /\ agent.stage = "reply"
    /\ \/ UNCHANGED <<tickets, sessions>>
       \/ /\ NeedsPayment
          /\ \E sure \in BOOLEAN :
                /\ Opens(Automatic, agent.made, sure)
                /\ tickets' = IF sure THEN Recorded(agent.made) ELSE tickets
    /\ saved' = tickets'
    /\ agent' = Resting
    /\ UNCHANGED <<payKey, photo, renewed, turns, cuts>>

(* The process dies, or the last transaction fails.                        *)
TurnDies ==
    /\ agent.stage # "idle"
    /\ Cut
    /\ tickets' = saved
    /\ sessions' = Forget(FALSE)
    /\ agent' = Resting
    /\ photo' \in Dropped
    /\ UNCHANGED <<saved, payKey, renewed, turns>>

-----------------------------------------------------------------------------
(* Around the turn.                                                        *)

(* The callback of the session that an order names.                        *)
Paid(i) ==
    /\ saved[i].status = "pending" /\ saved[i].checkout # 0
    /\ i \in DOMAIN tickets
    /\ saved' = [saved EXCEPT ![i].status = "paid"]
    /\ tickets' = [tickets EXCEPT ![i].status = "paid"]
    /\ UNCHANGED <<payKey, sessions, agent, photo, renewed, turns, cuts>>

(* Ten minutes: longer than any turn.                                      *)
PayKeyExpires(k) ==
    /\ agent.stage = "idle"
    /\ k \in payKey
    /\ payKey' = payKey \ {k}
    /\ renewed' = [renewed EXCEPT ![k] = @ + 1]
    /\ UNCHANGED <<tickets, saved, sessions, photo, agent, turns, cuts>>

AgentStep ==
    \/ ModelCalls \/ ModelReplies
    \/ RefuseOrder \/ OtherTool \/ ClaimPhoto \/ SendPhoto
    \/ \E basket \in Baskets : CreateOrder(basket)
    \/ \E k \in PayKeys : ClaimPayment(k)
    \/ \E q \in agent.paying : PaymentRefused(q) \/ PaymentStarted(q) \/ PaymentLost(q)
    \/ ToolsDone \/ FallBackReply \/ AgentReplies

AgentNext ==
    \/ BeginTurn \/ AgentStep
    \/ AttemptRaises \/ AttemptTimesOut \/ TurnDies \/ PhotoKeyExpires
    \/ \E i \in DOMAIN saved : Paid(i)
    \/ \E k \in PayKeys : PayKeyExpires(k)

AgentSpec == AgentInit /\ [][AgentNext]_agentVars

-----------------------------------------------------------------------------
AgentTypeOK ==
    /\ tickets \in Seq(Ticket) /\ saved \in Seq(Ticket)
    /\ payKey \subseteq PayKeys
    /\ sessions \in Seq(PaySession)
    /\ photo \in PhotoType
    /\ agent \in AgentType
    /\ renewed \in [PayKeys -> Nat]
    /\ turns \in 0..MaxTurns
    /\ cuts \in 0..MaxCuts

(* However the model repeats itself, over rounds, attempts and turns, one  *)
(* payment, of a reference, a phone, a currency and an amount, is asked    *)
(* for at most once per ten minutes: an attempt cancelled or an answer     *)
(* lost while the provider was asked leaves its claim behind (tools.py:392,*)
(* 546).  The same reference with other terms is another payment.          *)
PushedOnce ==
    \A k \in PayKeys :
        Cardinality({i \in DOMAIN sessions : sessions[i].key = k}) <= 1 + renewed[k]

(* An order waits for the newest of the sessions whose opening it was told *)
(* of, so that a payment of that one is recognised, even when two requests *)
(* for it went side by side; a session is unknown only when its answer was *)
(* lost, the attempt that opened it cut off, or no order unpaid.           *)
NewestSessionCounts ==
    agent.stage = "idle" => \A i \in DOMAIN saved :
        \A s \in DOMAIN sessions :
            sessions[s].order = i /\ sessions[s].sure => saved[i].checkout >= s

(* A photo that went out is not sent again for 45 seconds, by a later call *)
(* of any round, attempt or turn, but once for each attempt that was cut   *)
(* before it stored the result and each result that Redis did not take;    *)
(* only calls of one round may double each other (tools.py:710).           *)
PhotosRest == photo.again <= cuts

(* What the tools do outside the database is neither doubled nor           *)
(* forgotten: the sessions they open and the photos they send.             *)
ToolsActOnce == PushedOnce /\ NewestSessionCounts /\ PhotosRest
=============================================================================
