------------------------------- MODULE CafeDesk -------------------------------
(***************************************************************************)
(* Orders and payments of a cafe that channels/base.py settles without the *)
(* model, for one conversation: ordering by name or by a short yes, asking *)
(* again for the money, cancelling, and the questions about an order.      *)
(*                                                                         *)
(* A turn reads, may ask the provider for a prompt, and commits at its end *)
(* (Answers, then Commit).  Turns of one customer are serial; between them *)
(* payments arrive and polls end.  An order's row says when it was written *)
(* last: fresh stands for less than 90 seconds ago.                        *)
(*                                                                         *)
(* A message is the patterns it hits and the items it names; two texts     *)
(* match when they share an item.                                          *)
(***************************************************************************)
EXTENDS Integers, Sequences, FiniteSets, FiniteSetsExt

CONSTANTS
    Items,       \* what the menu sells
    Demo,        \* the item of the sales demo, sold by its own rule
    Notes,       \* the messages customers send (see Note)
    MaxCarts,    \* BOUND: orders created
    MaxSlips     \* BOUND: turns that fail after they answered

Patterns == {"resend", "cancel", "claim", "pickup", "photo", "info", "greeting",
             "yes", "demo", "repeat", "bare"}

Note == [hits : SUBSET Patterns, names : SUBSET Items, signs : BOOLEAN]

ASSUME CafeAssumption ==
    /\ Demo \in Items
    /\ Notes \subseteq Note
    /\ MaxCarts \in Nat /\ MaxSlips \in Nat

VARIABLES
    carts,    \* the orders of the conversation, oldest first, as committed
    offer,    \* what a short yes would order, by the last reply
    named,    \* the customer's name is known
    desk,     \* the turn under way: what it will commit
    slips

cafeVars == <<carts, offer, named, desk, slips>>

Cart ==
    [items : (SUBSET Items) \ {{}}, status : {"pending", "paid", "closed"},
     session : BOOLEAN,    \* mpesa_checkout_id is set
     fresh : BOOLEAN,
     poll : BOOLEAN,       \* a payment.intasend_poll is queued for the session
     unwatched : BOOLEAN,  \* history: the poll ended, or one failed to be queued
     meant : BOOLEAN,      \* history: the customer named it or was offered it
     again : BOOLEAN]      \* history: prompted unasked over a fresh prompt

\* meant is history: the reply was an offer
Offer == [items : SUBSET Items, meant : BOOLEAN]

NoOffer == [items |-> {}, meant |-> TRUE]

Free == [stage |-> "free"]

DeskType == {Free} \cup [stage : {"answered"}, carts : Seq(Cart), offer : Offer,
                         named : BOOLEAN]

CafeInit ==
    /\ carts = <<>>
    /\ offer = NoOffer
    /\ named \in BOOLEAN
    /\ desk = Free
    /\ slips = 0

Slip ==
    /\ slips < MaxSlips
    /\ slips' = slips + 1

-----------------------------------------------------------------------------
(* What a turn reads.                                                      *)

UnpaidCarts == {i \in DOMAIN carts : carts[i].status = "pending"}

Matching(set, names) == {i \in set : carts[i].items \cap names # {}}

(* The newest of the orders that match the text, else the newest: 0 for    *)
(* none.                                                                   *)
NewestOf(set, names) ==
    IF set = {} THEN 0
    ELSE IF Matching(set, names) # {} THEN Max(Matching(set, names)) ELSE Max(set)

\* The age of the prompt is not looked at.
HasSession(o) == o.session

Stale(o) == o.session /\ ~o.fresh

(* "1 x Latte at KES 300" reads as an offer of Latte, unless the words     *)
(* before it are too many; of several items the last is read.              *)
ReadsAsOffer(o, wordy) ==
    IF wordy /\ Cardinality(o.items) = 1 THEN {NoOffer}
    ELSE {[items |-> {x}, meant |-> FALSE] : x \in o.items}

-----------------------------------------------------------------------------
(* What a turn leaves.                                                     *)

Replies(newCarts, newOffer, knows) ==
    /\ desk' = [stage |-> "answered", carts |-> newCarts, offer |-> newOffer,
                named |-> knows]
    /\ UNCHANGED <<carts, offer, named, slips>>

Tells(newOffer, knows) == Replies(carts, newOffer, knows)

(* request_order_payment, the jobs of the last session cancelled before    *)
(* it: a new session, watched unless its poll could not be queued.         *)
Sent(o, asked) ==
    {[o EXCEPT !.session = TRUE, !.fresh = TRUE, !.poll = queued, !.unwatched = ~queued,
               !.again = @ \/ (o.session /\ o.fresh /\ ~asked)] : queued \in BOOLEAN}

(* No answer to keep: refused, misconfigured, timed out.                   *)
NotSent(o) == [o EXCEPT !.poll = FALSE, !.unwatched = TRUE]

Put(i, o) == IF i > Len(carts) THEN Append(carts, o) ELSE [carts EXCEPT ![i] = o]

(* Only the reply that a prompt was sent names the order and its price.    *)
Prompts(i, o, asked, knows) ==
    \/ \E sent \in Sent(o, asked) : \E read \in ReadsAsOffer(o, TRUE) :
           Replies(Put(i, sent), read, knows)
    \/ Replies(Put(i, NotSent(o)), NoOffer, knows)

NewCart(items, meant) ==
    [items |-> items, status |-> "pending", session |-> FALSE, fresh |-> FALSE,
     poll |-> FALSE, unwatched |-> FALSE, meant |-> meant, again |-> FALSE]

SameCart(items) == {i \in UnpaidCarts : carts[i].items = items}

(* create_order_and_request_payment: the order of the same items is handed *)
(* back with its session, or asked for; else one is made.                  *)
OrderAndAsk(items, meant, knows) ==
    LET i == Max(SameCart(items) \cup {0})
    IN  IF i = 0 THEN /\ Len(carts) < MaxCarts
                      /\ Prompts(Len(carts) + 1, NewCart(items, meant), FALSE, knows)
        ELSE IF carts[i].session
          THEN \E read \in ReadsAsOffer(carts[i], TRUE) : Tells(read, knows)
          ELSE Prompts(i, carts[i], FALSE, knows)

-----------------------------------------------------------------------------
(* Which rule answers: the first whose pattern the message hits.           *)

Controls == <<"resend", "cancel", "claim", "pickup", "photo", "info", "greeting">>

Control(n) ==
    LET hit == {k \in DOMAIN Controls : Controls[k] \in n.hits}
    IN  IF hit = {} THEN "order" ELSE Controls[Min(hit)]

(* A short yes continues what the last reply offered, one item of it.      *)
Follows(n) == "yes" \in n.hits /\ offer.items # {}

Continues(n) == Follows(n) /\ Cardinality(offer.items) = 1

Wanted(n) == IF Continues(n) THEN offer.items ELSE n.names

Orders(n) ==
    /\ Wanted(n) # {}
    /\ Continues(n) \/ n.hits \cap {"repeat", "bare"} # {}

(* An unpaid order that shares an item takes the place of a new one.       *)
Taken(n) == Matching(UnpaidCarts, Wanted(n)) # {}

Knows(n) == named \/ n.signs

-----------------------------------------------------------------------------
(* The turn.                                                               *)

(* _resend_pending_payment_reply, at the customer's word.                  *)
ResendPrompt(n) ==
    LET i == NewestOf(UnpaidCarts, n.names)
    IN  /\ Control(n) = "resend"
        /\ IF i = 0 THEN Tells(NoOffer, named) ELSE Prompts(i, carts[i], TRUE, named)

(* _cancel_pending_order_reply, with the jobs of the order.                *)
CancelPending(n) ==
    LET i == NewestOf(UnpaidCarts, n.names)
    IN  /\ Control(n) = "cancel"
        /\ IF i = 0 THEN Tells(NoOffer, named)
           ELSE Replies([carts EXCEPT ![i].status = "closed", ![i].poll = FALSE],
                        NoOffer, named)

(* _payment_claim_status_reply.                                            *)
ClaimStatus(n) ==
    LET i == NewestOf(DOMAIN carts, n.names)
    IN  /\ Control(n) = "claim"
        /\ IF i = 0 THEN Tells(NoOffer, named)
           ELSE \E read \in ReadsAsOffer(carts[i], carts[i].status = "pending") :
                    Tells(read, named)

(* Readiness, photos and greetings are answered from what is there.        *)
Informs(n) ==
    /\ Control(n) \in {"pickup", "photo", "greeting"}
    /\ Tells(NoOffer, named)

(* Prices and recommendations offer what they name.                        *)
OffersItems(n) ==
    /\ Control(n) = "info"
    /\ Tells([items |-> n.names, meant |-> TRUE], named)

AsksWhich(n) ==
    /\ Control(n) = "order"
    /\ Follows(n) /\ ~Continues(n)
    /\ Tells(NoOffer, named)

AsksName(n) ==
    /\ Control(n) = "order"
    /\ Follows(n) => Continues(n)
    /\ "demo" \in n.hits \/ Orders(n)
    /\ ~Knows(n)
    /\ Tells(NoOffer, named)

(* _demo_espresso_fast_order_reply: an unpaid demo order is shown while    *)
(* its prompt is fresh, else asked for again.                              *)
DemoOrder(n) ==
    LET i == Max(Matching(UnpaidCarts, {Demo}) \cup {0})
    IN  /\ Control(n) = "order" /\ ~Follows(n)
        /\ "demo" \in n.hits /\ Knows(n)
        /\ IF i = 0 THEN OrderAndAsk({Demo}, TRUE, TRUE)
           ELSE IF carts[i].session /\ carts[i].fresh THEN Tells(NoOffer, TRUE)
           ELSE Prompts(i, carts[i], FALSE, TRUE)

(* _simple_menu_order_reply, of the items named or of those offered.       *)
MenuOrder(n) ==
    /\ Control(n) = "order"
    /\ Follows(n) => Continues(n)
    /\ "demo" \notin n.hits
    /\ Orders(n) /\ Knows(n) /\ ~Taken(n)
    /\ OrderAndAsk(Wanted(n), ~Continues(n) \/ offer.meant, TRUE)

(* Nothing above answers: the items named are in an unpaid order, or no    *)
(* item is named.                                                          *)
PassesOn(n) ==
    /\ Control(n) = "order" /\ "demo" \notin n.hits
    /\ Follows(n) => Continues(n)
    /\ Orders(n) => Knows(n) /\ Taken(n)

Repeats(n) == "repeat" \in n.hits /\ Matching(UnpaidCarts, n.names) # {}

(* _auto_resend_stale_payment_reply: what is ordered again is asked for    *)
(* again once its prompt is old.                                           *)
AutoResend(n) ==
    LET i == NewestOf(UnpaidCarts, n.names)
    IN  /\ PassesOn(n) /\ Repeats(n)
        /\ Stale(carts[i])
        /\ Prompts(i, carts[i], FALSE, TRUE)

(* _pending_order_repeat_reply.                                            *)
ShowsOrder(n) ==
    /\ PassesOn(n) /\ Repeats(n)
    /\ ~Stale(carts[NewestOf(UnpaidCarts, n.names)])
    /\ Tells(NoOffer, TRUE)

(* The model answers, and may offer anything (AgentTurn).                  *)
ModelAnswers(n) ==
    /\ PassesOn(n) /\ ~Repeats(n)
    /\ \E items \in SUBSET Items :
          Tells([items |-> items, meant |-> TRUE], named \/ (Orders(n) /\ Knows(n)))

Answers(n) ==
    /\ desk = Free
    /\ \/ ResendPrompt(n) \/ CancelPending(n) \/ ClaimStatus(n)
       \/ Informs(n) \/ OffersItems(n) \/ AsksWhich(n) \/ AsksName(n)
       \/ DemoOrder(n) \/ MenuOrder(n)
       \/ AutoResend(n) \/ ShowsOrder(n) \/ ModelAnswers(n)

DeskCommits ==
    /\ desk # Free
    /\ desk' = Free
    /\ carts' = desk.carts /\ offer' = desk.offer /\ named' = desk.named
    /\ UNCHANGED slips

(* The turn fails, or its process dies: a prompt it sent is not known.     *)
DeskFails ==
    /\ desk # Free
    /\ Slip
    /\ desk' = Free
    /\ UNCHANGED <<carts, offer, named>>

-----------------------------------------------------------------------------
(* Between the turns.                                                      *)

Ages(i) ==
    /\ desk = Free /\ carts[i].fresh
    /\ carts' = [carts EXCEPT ![i].fresh = FALSE]
    /\ UNCHANGED <<offer, named, desk, slips>>

Settles(i, status) ==
    /\ desk = Free
    /\ carts[i].status = "pending" /\ carts[i].session
    /\ carts' = [carts EXCEPT ![i].status = status, ![i].poll = FALSE]
    /\ UNCHANGED <<offer, named, desk, slips>>

(* The poll runs out of its ten minutes.                                   *)
PollEnds(i) ==
    /\ desk = Free /\ carts[i].poll
    /\ carts' = [carts EXCEPT ![i].poll = FALSE, ![i].unwatched = TRUE]
    /\ UNCHANGED <<offer, named, desk, slips>>

CafeNext ==
    \/ \E n \in Notes : Answers(n)
    \/ DeskCommits \/ DeskFails
    \/ \E i \in DOMAIN carts :
          Ages(i) \/ PollEnds(i) \/ \E status \in {"paid", "closed"} : Settles(i, status)

CafeSpec == CafeInit /\ [][CafeNext]_cafeVars

-----------------------------------------------------------------------------
CafeTypeOK ==
    /\ carts \in Seq(Cart)
    /\ offer \in Offer
    /\ named \in BOOLEAN
    /\ desk \in DeskType
    /\ slips \in 0..MaxSlips

(* However a customer repeats an order, by its name, by a yes or by the    *)
(* demo's words, no second prompt is sent while one the order records is   *)
(* fresh: "repeated order messages do not create duplicate STK pushes"     *)
(* (base.py:1744).  Asking for a resend in words is another matter.        *)
RepeatsDoNotPush == \A i \in DOMAIN carts : ~carts[i].again

(* An unpaid order with a session is watched by a poll, until the poll     *)
(* ends or a payment fails to start: a resend ends the last session's      *)
(* jobs, never those of the new one (_cancel_jobs_for_order).              *)
PollFollowsPush ==
    \A i \in DOMAIN carts :
        carts[i].status = "pending" /\ carts[i].session => carts[i].poll \/ carts[i].unwatched

(* The prompts of a cafe's orders are neither doubled nor left unwatched.  *)
PromptsAreTracked == RepeatsDoNotPush /\ PollFollowsPush

(* "so a short yes can continue a clearly offered one-item order"          *)
(* (base.py:1025): an order made by a yes was offered.                     *)
YesTakesOffers == \A i \in DOMAIN carts : carts[i].meant
===============================================================================
