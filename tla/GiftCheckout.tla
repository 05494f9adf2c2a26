---------------------------- MODULE GiftCheckout ----------------------------
(***************************************************************************)
(* The gift checkout of the Hazina tenant, one conversation of it:         *)
(* services/gift_automation.py, the gate before it                         *)
(* (services/hazina_deterministic_gate.py) and what channels/base.py       *)
(* answers before either.                                                  *)
(*                                                                         *)
(* A draft is kept twice: in Redis, written while the turn runs, and in    *)
(* the customer's row, written when the turn commits; Redis is read first. *)
(* A turn is therefore two steps, Handle and Commit, and the provider is   *)
(* asked for money in the first.  Turns of one customer are serial         *)
(* (InboundTurn); payments and deliveries of the orders go on between.     *)
(*                                                                         *)
(* A message is what the detectors of the code see in it: the patterns it  *)
(* hits, what it is worth as an answer to each question (says), and the    *)
(* labelled fields of a form sent by the portal (form).                    *)
(***************************************************************************)
EXTENDS Integers, Sequences, FiniteSets, FiniteSetsExt

CONSTANTS
    Boxes,       \* collections and custom boxes a customer can order
    Engraved,    \* the custom boxes with an engraving fee among them
    Values,      \* answers, payment methods and contacts among them
    Messages,    \* the messages customers send (see Message)
    MaxDrafts,   \* BOUND: drafts started
    MaxOrders,   \* BOUND: orders created
    MaxFaults,   \* BOUND: lost Redis writes, lost keys and failed turns
    None

Asked == {"name", "delivery_type", "location", "window", "payment", "contact"}

StepOrder == <<"name", "delivery_type", "location", "window", "payment",
               "contact", "confirm">>

Steps == {StepOrder[i] : i \in DOMAIN StepOrder}

\* what channels/base.py looks for before it asks the checkout
DeskHits == {"collections", "logistics", "brief", "home", "preview", "orders", "vague"}

\* the gate's patterns, around an order that waits for its payment
GateHits == {"sendStk", "resend", "clearCart", "cancelPay", "yes", "navigates",
             "greeting", "coastal"}

\* questions and forms that may come at any time
AsideHits == {"aside", "photo", "catalog", "portalForm", "customForm"}

\* commands of the checkout and ways to start one
DraftHits == {"cancelDraft", "status", "back", "confirms", "orderTap", "orderIntent",
              "details"}

Hits == DeskHits \cup GateHits \cup AsideHits \cup DraftHits

\* the answers an order stores anew each time it is confirmed
Rewritten == {"delivery_type", "location", "window"}

Fields == [Asked -> Values \cup {None}]

Message == [hits : SUBSET Hits, edit : Asked \cup {None}, says : Fields,
            form : Fields, box : Boxes \cup {None}]

ASSUME CheckoutAssumption ==
    /\ Engraved \subseteq Boxes
    /\ {"KES", "USD", "phone"} \subseteq Values
    /\ None \notin Boxes \cup Values \cup Asked
    /\ Messages \subseteq Message
    /\ \A m \in Messages :
          /\ {m.says["payment"], m.form["payment"]} \subseteq {"KES", "USD", None}
          /\ "customForm" \in m.hits => m.box # None
    /\ MaxDrafts \in Nat /\ MaxOrders \in Nat /\ MaxFaults \in Nat

VARIABLES
    redis,     \* the draft under gift_checkout:{conv_id}, or None
    meta,      \* the draft in the customer's row, as committed
    orders,    \* the orders of the conversation, oldest first, as committed
    shown,     \* history: the details the customer last saw summarised or sent
    turn,      \* the turn under way: what it will commit
    clean,     \* history: no write of the draft in Redis was lost or left over
    drafts,    \* history: how many drafts were started
    faults

vars == <<redis, meta, orders, shown, turn, clean, drafts, faults>>

Draft == [id : 1..MaxDrafts, box : Boxes, step : Steps, has : Fields, failed : BOOLEAN]

Order ==
    [box : Boxes, draft : 1..MaxDrafts, status : {"pending", "paid", "delivered", "closed"},
     currency : {"KES", "USD"},              \* details.payment_currency, KES when absent
     session : {"KES", "USD", None},         \* the provider session in mpesa_checkout_id
     has : Fields,                           \* the answers stored with it
     named : Values \cup {None},             \* history: the name shown when it was made
     seen : [Rewritten -> Values \cup {None}], \* history: as shown when last confirmed
     chose : SUBSET {"KES", "USD"},          \* history: the methods it was confirmed with
     sure : BOOLEAN,                         \* history: made while clean
     failed : BOOLEAN]                       \* history: a request of its draft failed

Idle == [stage |-> "idle"]

TurnType ==
    {Idle} \cup [stage : {"handled"}, draft : Draft \cup {None}, orders : Seq(Order),
                 shown : Fields \cup {None}, touched : BOOLEAN, wrote : BOOLEAN]

Init ==
    /\ redis = None /\ meta = None
    /\ orders = <<>>
    /\ shown = None
    /\ turn = Idle
    /\ clean = TRUE
    /\ drafts = 0
    /\ faults = 0

Fault ==
    /\ faults < MaxFaults
    /\ faults' = faults + 1

-----------------------------------------------------------------------------
(* What a turn reads.                                                      *)

Current == IF redis # None THEN redis ELSE meta

(* Redis cannot be read: the committed copy stands in.                     *)
Readable == {Current, meta}

Pending == {i \in DOMAIN orders : orders[i].status = "pending"}

(* The newest order that is unpaid, or paid and not yet delivered.         *)
LatestActive == {i \in DOMAIN orders :
    /\ orders[i].status \in {"pending", "paid"}
    /\ \A j \in DOMAIN orders : j > i => orders[j].status \notin {"pending", "paid"}}

AwaitingPayment == \E i \in LatestActive : orders[i].status = "pending"

(* A phone number is a contact for either method, an address for cards.    *)
Suits(has, s) ==
    /\ has[s] # None
    /\ s = "contact" /\ has["payment"] = "KES" => has[s] = "phone"

NextStep(has) ==
    LET open == {i \in DOMAIN StepOrder :
                   StepOrder[i] = "confirm" \/ ~Suits(has, StepOrder[i])}
    IN  StepOrder[Min(open)]

StepBefore(s) ==
    LET i == CHOOSE i \in DOMAIN StepOrder : StepOrder[i] = s
    IN  StepOrder[IF i = 1 THEN 1 ELSE i - 1]

(* A portal form that answers everything but perhaps the channel.          *)
FormComplete(m) ==
    \A s \in {"name", "location", "window", "contact"} : m.form[s] # None

-----------------------------------------------------------------------------
(* Which answer a message gets: the first rule that applies.               *)

Sees(m, kinds) == m.hits \cap kinds # {}

\* what channels/base.py answers before the gate
Desk(m) == <<
    <<"drop",    Sees(m, {"collections", "logistics", "brief", "home"})>>,
    <<"aside",   Sees(m, {"preview", "orders", "vague"})>> >>

Gate(m, d) == <<
    <<"resend",  "sendStk" \in m.hits \/ ("resend" \in m.hits /\ AwaitingPayment)>>,
    <<"clear",   "clearCart" \in m.hits \/ ("cancelPay" \in m.hits /\ AwaitingPayment)>>,
    <<"resend",  d = None /\ AwaitingPayment /\ "yes" \in m.hits>>,
    <<"aside",   d = None /\ AwaitingPayment
                    /\ ~Sees(m, {"navigates", "resend", "cancelPay", "orderTap"})>>,
    <<"drop",    Sees(m, {"coastal", "greeting"})>> >>

\* what interrupts a checkout, or is asked without one
Interrupts(m, d) == <<
    <<"aside",   d = None /\ "aside" \in m.hits>>,
    <<"aside",   d # None /\ "photo" \in m.hits>>,
    <<"catalog", "catalog" \in m.hits>>,
    <<"submit",  "portalForm" \in m.hits /\ m.box # None /\ FormComplete(m)>>,
    <<"drop",    d # None /\ "cancelDraft" \in m.hits>>,
    <<"pause",   d # None /\ "status" \in m.hits>> >>

\* what moves a checkout
DraftRules(m, d) == <<
    <<"edit",    d # None /\ m.edit # None>>,
    <<"back",    d # None /\ "back" \in m.hits>>,
    <<"answer",  d # None /\ d.step # "confirm">>,
    <<"confirm", d # None /\ "confirms" \in m.hits>>,
    <<"reopen",  d # None>> >>

\* what starts one
OrderRules(m) == <<
    <<"submit",  "customForm" \in m.hits /\ FormComplete(m)>>,
    <<"start",   "customForm" \in m.hits>>,
    <<"aside",   m.box = None \/ Sees(m, {"photo", "details"})>>,
    <<"submit",  Sees(m, {"orderTap", "orderIntent"}) /\ FormComplete(m)>>,
    <<"start",   Sees(m, {"orderTap", "orderIntent"})>> >>

(* A brief for sourcing, a recommendation, the FAQ, and the menu when      *)
(* nothing else applies: no message of the tenant reaches the model.       *)
LastRules == << <<"aside", TRUE>> >>

Route(m, d) ==
    LET rules == Desk(m) \o Gate(m, d) \o Interrupts(m, d)
                     \o DraftRules(m, d) \o OrderRules(m) \o LastRules
    IN  rules[Min({i \in DOMAIN rules : rules[i][2]})][1]

-----------------------------------------------------------------------------
(* What a turn leaves.                                                     *)

(* The draft is untouched.                                                 *)
Reply(newOrders) ==
    /\ turn' = [stage |-> "handled", draft |-> meta, orders |-> newOrders,
                shown |-> shown, touched |-> FALSE, wrote |-> TRUE]
    /\ UNCHANGED <<redis, meta, orders, shown, clean, faults>>

(* The draft is set or cleared: in the session, and in Redis if it answers.*)
Leave(draft, newOrders, newShown) ==
    /\ \E wrote \in BOOLEAN :
          /\ turn' = [stage |-> "handled", draft |-> draft, orders |-> newOrders,
                      shown |-> newShown, touched |-> TRUE, wrote |-> wrote]
          /\ IF wrote THEN redis' = draft /\ UNCHANGED faults
                      ELSE Fault /\ UNCHANGED redis
    /\ UNCHANGED <<meta, orders, shown, clean>>

\* Only the first summary is sent.
SummarisedOnce(has) == IF shown = None /\ NextStep(has) = "confirm" THEN has ELSE shown

(* The summary goes out when every question is answered; the prompt of the *)
(* pause is shorter and shows no details.                                  *)
Summarised(has) == IF NextStep(has) = "confirm" THEN has ELSE shown

(* request_order_payment: a session that replaces the last one, or no      *)
(* answer the order could keep (refused, misconfigured, timed out).        *)
Asks(o, currency) == {[o EXCEPT !.session = currency], o}

(* create_pending_order: an unpaid order with the same items is taken up   *)
(* again.  The items of a custom box are stored anew with the engraving    *)
(* priced in dollars, and match nothing after that.                        *)
SameItems(box) == {i \in Pending : orders[i].box = box /\ box \notin Engraved}

\* Of the answers the notes alone hold the name; they are written here only.
NewOrder(d, told) ==
    [box |-> d.box, draft |-> d.id, status |-> "pending", currency |-> "KES",
     session |-> None, has |-> [s \in Asked |-> IF s = "name" THEN d.has[s] ELSE None],
     named |-> told["name"], seen |-> [s \in Rewritten |-> told[s]], chose |-> {}, sure |-> TRUE, failed |-> d.failed]

(* What is written over the order, made or taken up again: where and when  *)
(* it is to go, and dollars once they are chosen, which nothing takes back.*)
Confirmed(o, d, told) ==
    [o EXCEPT !.currency = IF d.has["payment"] = "USD" THEN "USD" ELSE @,
              !.has = [s \in Asked |-> IF s \in Rewritten /\ d.has[s] # None
                                         THEN d.has[s] ELSE o.has[s]],
              !.seen = [s \in Rewritten |-> told[s]],
              !.chose = @ \cup {told["payment"]},
              !.sure = @ /\ clean]

(* create_order_and_request_payment and the end of _finalize_order: an     *)
(* order with a session is handed back as it is; otherwise money is asked  *)
(* for, and when that fails the draft is kept at the choice of payment.    *)
Finalize(d, seen) ==
    LET told == IF clean THEN seen ELSE d.has
        same == SameItems(d.box)
        at   == IF same = {} THEN Len(orders) + 1 ELSE Max(same)
        own  == Confirmed(IF same = {} THEN NewOrder(d, told) ELSE orders[at], d, told)
        With(x) == IF at > Len(orders) THEN Append(orders, x)
                                       ELSE [orders EXCEPT ![at] = x]
    IN  /\ at <= MaxOrders
        /\ IF own.session # None
             THEN Leave(None, With(own), None)
             ELSE \E x \in Asks(own, d.has["payment"]) :
                    IF x.session # None
                      THEN Leave(None, With(x), None)
                      ELSE Leave([d EXCEPT !.step = "payment", !.failed = TRUE],
                                 With(x), seen)

-----------------------------------------------------------------------------
(* The turn.                                                               *)

(* Each action answers the message m over the draft d by the route r.      *)

Aside(r) ==
    /\ r = "aside"
    /\ Reply(orders)
    /\ UNCHANGED drafts

(* _resend_pending_payment_reply: the newest unpaid order is asked for     *)
(* again, in the currency its details record.                              *)
Resend(r) ==
    /\ r = "resend"
    /\ IF Pending = {} THEN Reply(orders)
       ELSE LET i == Max(Pending)
            IN  \E x \in Asks(orders[i], orders[i].currency) :
                   Reply([orders EXCEPT ![i] = x])
    /\ UNCHANGED drafts

(* _cancel_pending_order_reply, and the draft with it.                     *)
ClearCart(r) ==
    /\ r = "clear"
    /\ Leave(None, [i \in DOMAIN orders |->
                      IF Pending # {} /\ i = Max(Pending)
                        THEN [orders[i] EXCEPT !.status = "closed"] ELSE orders[i]], None)
    /\ UNCHANGED drafts

Drop(d, r) ==
    /\ \/ r = "drop"
       \/ r = "catalog" /\ d # None
    /\ Leave(None, orders, None)
    /\ UNCHANGED drafts

ShowCatalog(d, r) ==
    /\ r = "catalog" /\ d = None
    /\ Reply(orders)
    /\ UNCHANGED drafts

(* _ask_next_checkout_step.                                                *)
Pause(d, r) ==
    /\ r = "pause"
    /\ Leave([d EXCEPT !.step = NextStep(d.has)], orders, shown)
    /\ UNCHANGED drafts

MoveTo(m, d, r) ==
    /\ \/ r = "edit" /\ Leave([d EXCEPT !.step = m.edit], orders, shown)
       \/ r = "back" /\ Leave([d EXCEPT !.step = StepBefore(@)], orders, shown)
       \/ r = "reopen" /\ Leave([d EXCEPT !.step = "name"], orders, shown)
    /\ UNCHANGED drafts

(* An answer that suits its question is stored, and the next open question *)
(* is asked, or the summary sent.                                          *)
Advanced(d, has) == [d EXCEPT !.has = has, !.step = NextStep(has)]

Answer(m, d, r) ==
    LET has == [d.has EXCEPT ![d.step] = m.says[d.step]]
    IN  /\ r = "answer"
        /\ IF Suits(has, d.step)
             THEN Leave(Advanced(d, has), orders, Summarised(has))
             ELSE Reply(orders)
        /\ UNCHANGED drafts

Confirm(d, r) ==
    /\ r = "confirm"
    /\ Finalize(d, shown)
    /\ UNCHANGED drafts

Opened(m, payment) ==
    LET has == [m.form EXCEPT !["payment"] = payment]
    IN  [id |-> drafts + 1, box |-> m.box, step |-> NextStep(has), has |-> has,
         failed |-> FALSE]

(* A form with everything in it is ordered at once; a method it does not   *)
(* name is dollars.  The customer sent the details and has seen them.      *)
Submit(m, r) ==
    LET new == Opened(m, IF m.form["payment"] = None THEN "USD" ELSE m.form["payment"])
    IN  /\ r = "submit"
        /\ drafts < MaxDrafts
        /\ drafts' = drafts + 1
        /\ Finalize(new, new.has)

Start(m, r) ==
    /\ r = "start"
    /\ drafts < MaxDrafts
    /\ drafts' = drafts + 1
    /\ Leave(Opened(m, m.form["payment"]), orders, None)

Commit ==
    /\ turn # Idle
    /\ turn' = Idle
    /\ meta' = turn.draft /\ orders' = turn.orders /\ shown' = turn.shown
    /\ clean' = IF turn.touched THEN turn.wrote /\ (clean \/ turn.draft = None) ELSE clean
    /\ UNCHANGED <<redis, drafts, faults>>

(* The turn fails or its process dies before the commit.                   *)
TurnFails ==
    /\ turn # Idle
    /\ Fault
    /\ turn' = Idle
    /\ clean' = (clean /\ ~(turn.touched /\ turn.wrote))
    /\ UNCHANGED <<redis, meta, orders, shown, drafts>>

-----------------------------------------------------------------------------
(* Around the turns.                                                       *)

\* The row forgets the draft before Redis does.
RowExpires ==
    /\ turn = Idle /\ Current # None
    /\ meta' = None
    /\ clean' = TRUE
    /\ UNCHANGED <<redis, orders, shown, turn, drafts, faults>>

(* Both copies outlive their hour together; Redis may lose its own sooner. *)
DraftExpires ==
    /\ turn = Idle /\ Current # None
    /\ redis' = None /\ meta' = None
    /\ clean' = TRUE
    /\ UNCHANGED <<orders, shown, turn, drafts, faults>>

(* The row may hold what an earlier turn took from a stale copy of Redis.  *)
RedisForgets ==
    /\ turn = Idle /\ redis # None
    /\ Fault
    /\ redis' = None
    /\ clean' = (clean \/ meta = None)
    /\ UNCHANGED <<meta, orders, shown, turn, drafts>>

SetStatus(i, from, to) ==
    /\ turn = Idle
    /\ orders[i].status = from
    /\ orders' = [orders EXCEPT ![i].status = to]
    /\ UNCHANGED <<redis, meta, shown, turn, clean, drafts, faults>>

Pay(i)       == orders[i].session # None /\ SetStatus(i, "pending", "paid")
PayFails(i)  == orders[i].session # None /\ SetStatus(i, "pending", "closed")
Delivered(i) == SetStatus(i, "paid", "delivered")

Handle(m, d, r) ==
    \/ Aside(r) \/ Resend(r) \/ ClearCart(r) \/ Drop(d, r) \/ ShowCatalog(d, r)
    \/ Pause(d, r) \/ MoveTo(m, d, r) \/ Answer(m, d, r) \/ Confirm(d, r)
    \/ Submit(m, r) \/ Start(m, r)

Next ==
    \/ /\ turn = Idle
       /\ \E m \in Messages : \E d \in Readable : \E r \in {Route(m, d)} : Handle(m, d, r)
    \/ Commit \/ TurnFails \/ DraftExpires \/ RedisForgets
    \/ \E i \in DOMAIN orders : Pay(i) \/ PayFails(i) \/ Delivered(i)

Spec == Init /\ [][Next]_vars

-----------------------------------------------------------------------------
TypeOK ==
    /\ redis \in Draft \cup {None}
    /\ meta \in Draft \cup {None}
    /\ orders \in Seq(Order)
    /\ shown \in Fields \cup {None}
    /\ turn \in TurnType
    /\ clean \in BOOLEAN
    /\ drafts \in 0..MaxDrafts
    /\ faults \in 0..MaxFaults

(* Between turns Redis holds what the customer's row holds, or nothing,    *)
(* until a write of it is lost or a turn fails after it: losing the key    *)
(* costs nothing (_get_checkout, _set_checkout and _clear_checkout).       *)
CopiesAgree == turn = Idle /\ clean => redis \in {None, meta}

(* A draft waits for its confirmation only with every question answered,   *)
(* whatever was edited, taken back or changed by a new choice of payment,  *)
(* and whichever copy is read (_checkout_next_step).                       *)
ConfirmIsComplete ==
    \A d \in {redis, meta} \ {None} : d.step = "confirm" => NextStep(d.has) = "confirm"

(* Both copies of a draft can be trusted, whichever is read.               *)
DraftsAreSound == CopiesAgree /\ ConfirmIsComplete

(* An order goes where and when its customer was last shown, in a summary  *)
(* or by the form that was sent: edits, pauses, failed payments and lapsed *)
(* drafts never slip other details in, as long as Redis kept pace.  It is  *)
(* asked for in a method that was shown and confirmed for it.  The name is *)
(* the one shown when the order was made: an order that is taken up again  *)
(* after a failed payment keeps it, whatever was shown since, as it keeps  *)
(* dollars once they were chosen (create_pending_order, _finalize_order).  *)
OrderedAsShown ==
    \A i \in DOMAIN orders :
        LET o == orders[i]
        IN  /\ o.has["name"] = o.named
            /\ \A s \in Rewritten : o.seen[s] \in {o.has[s], None}
            /\ {o.currency, o.session} \subseteq o.chose \cup {None}

PaidFor(n) == {i \in DOMAIN orders : orders[i].draft = n /\ orders[i].sure
                                      /\ orders[i].status \in {"paid", "delivered"}}

(* One draft is paid for once, whatever the customer repeats, cancels or   *)
(* confirms again, unless one of its payments failed to start.             *)
PaidOncePerDraft ==
    \A n \in 1..drafts : Cardinality({i \in PaidFor(n) : ~orders[i].failed}) <= 1

(* An order is what was agreed on, and is paid for once.                   *)
OrdersAreSound == OrderedAsShown /\ PaidOncePerDraft

(* The same of a draft whose payment failed to start: "You do not need to  *)
(* start over; retry payment when ready" (gift_automation.py:1153).        *)
RetryPaysOnce == \A n \in 1..drafts : Cardinality(PaidFor(n)) <= 1
=============================================================================
