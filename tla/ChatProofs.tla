----------------------------- MODULE ChatProofs -----------------------------
(***************************************************************************)
(* What the chat does with orders: the cafe's basket (CafeDesk), the tools *)
(* of the agent (AgentTurn), the gift checkout (GiftCheckout), the gifts   *)
(* that are recommended (Recommender), the prices that are quoted (Quotes) *)
(* and the business that a chat is with (Routing).  For each an inductive  *)
(* invariant, which its initial states satisfy and every step keeps, and   *)
(* from it the properties that TLC checks on small instances.              *)
(***************************************************************************)
EXTENDS CafeDesk, AgentTurn, GiftCheckout, Recommender, Quotes, Routing,
        FiniteSetTheorems, SequenceTheorems, WellFoundedInduction, TLAPS

(* A set of natural numbers that is not empty has a least member.          *)
LEMMA SomeLeast ==
    ASSUME NEW T \in SUBSET Nat, T # {}
    PROVE  \E x \in T : \A y \in T : x <= y
  <1>1. IsWellFoundedOn(OpToRel(<, Nat), Nat)
    BY NatLessThanWellFounded
  <1>2. PICK x \in T : \A y \in T : ~(<<y, x>> \in OpToRel(<, Nat))
    BY <1>1, WFMin
  <1>3. \A y \in T : ~(y < x)
    BY <1>2 DEF OpToRel
  <1> QED
    BY <1>3

(* Min is the least member of its set.                                     *)
LEMMA MinIsThere ==
    ASSUME NEW T \in SUBSET Nat, T # {}
    PROVE  Min(T) \in T /\ \A y \in T : Min(T) <= y
  <1>1. PICK x \in T : \A y \in T : x <= y
    BY SomeLeast
  <1>2. \A y \in T : x =< y
    BY <1>1
  <1> QED
    BY <1>2 DEF Min

(* The same of the greatest member of a bounded set.                       *)
LEMMA MaxIsThere ==
    ASSUME NEW n \in Nat, NEW S \in SUBSET (0..n), S # {}
    PROVE  Max(S) \in S /\ \A y \in S : y <= Max(S)
  <1> DEFINE T == {n - x : x \in S}
  <1>0. \A x \in S : x \in Nat /\ n - x \in Nat
    OBVIOUS
  <1>1. T \in SUBSET Nat /\ T # {}
    BY <1>0
  <1>2. PICK t \in T : \A y \in T : t <= y
    BY <1>1, SomeLeast
  <1>3. PICK x \in S : t = n - x
    BY <1>2
  <1>4. \A y \in S : n - y \in T
    OBVIOUS
  <1>5. \A y \in S : x >= y
    BY <1>2, <1>3, <1>4
  <1> QED
    BY <1>5 DEF Max
-----------------------------------------------------------------------------
(* An order of the cafe was asked for again only when the customer wanted  *)
(* it, and a prompt that may be open is polled for, unless the poll could  *)
(* not be queued.                                                          *)
Tracked(c) ==
    /\ ~c.again
    /\ c.status = "pending" /\ c.session => c.poll \/ c.unwatched

(* Every order of a list is tracked.                                       *)
AllTracked(some) == \A i \in DOMAIN some : Tracked(some[i])

(* What every step of the cafe keeps: the orders are tracked, those a turn *)
(* is about to commit included.                                            *)
CafeInv ==
    /\ CafeTypeOK
    /\ AllTracked(carts)
    /\ desk # Free => AllTracked(desk.carts)

(* The cafe starts with no order.                                          *)
LEMMA CafeStarts == CafeInit => CafeInv
  <1> SUFFICES ASSUME CafeInit PROVE CafeInv
    OBVIOUS
  <1>1. carts \in Seq(Cart) /\ DOMAIN carts = {}
    BY DEF CafeInit
  <1>2. offer \in Offer
    BY DEF CafeInit, NoOffer, Offer
  <1>3. desk \in DeskType /\ desk = Free
    BY DEF CafeInit, DeskType
  <1>4. named \in BOOLEAN /\ slips \in 0..MaxSlips
    BY CafeAssumption DEF CafeInit
  <1> QED
    BY <1>1, <1>2, <1>3, <1>4 DEF CafeInv, CafeTypeOK, AllTracked

(* A reply that writes tracked orders.                                     *)
LEMMA RepliesKeepCafe ==
    ASSUME CafeInv, NEW newCarts \in Seq(Cart), AllTracked(newCarts),
           NEW newOffer \in Offer, NEW knows \in BOOLEAN, Replies(newCarts, newOffer, knows)
    PROVE  CafeInv'
  <1> DEFINE answer == [stage |-> "answered", carts |-> newCarts, offer |-> newOffer,
                        named |-> knows]
  <1>1. desk' = answer /\ UNCHANGED <<carts, offer, named, slips>>
    BY DEF Replies
  <1>2. answer \in DeskType /\ answer.carts = newCarts
    BY DEF DeskType
  <1> HIDE DEF answer
  <1>3. CafeTypeOK'
    BY <1>1, <1>2 DEF CafeInv, CafeTypeOK
  <1> QED
    BY <1>1, <1>2, <1>3 DEF CafeInv, AllTracked

(* A reply that leaves the orders alone.                                   *)
LEMMA TellsKeepsCafe ==
    ASSUME CafeInv, NEW newOffer \in Offer, NEW knows \in BOOLEAN, Tells(newOffer, knows)
    PROVE  CafeInv'
  <1>1. carts \in Seq(Cart) /\ AllTracked(carts)
    BY DEF CafeInv, CafeTypeOK
  <1> QED
    BY <1>1, RepliesKeepCafe DEF Tells

(* Reading a message leaves an offer.                                      *)
LEMMA OffersRead ==
    ASSUME NEW o \in Cart, NEW wordy, NEW read \in ReadsAsOffer(o, wordy)
    PROVE  read \in Offer
  <1>1. NoOffer \in Offer
    BY DEF NoOffer, Offer
  <1>2. \A x \in o.items : [items |-> {x}, meant |-> FALSE] \in Offer
    BY DEF Offer, Cart
  <1> QED
    BY <1>1, <1>2 DEF ReadsAsOffer

(* Adding or replacing a tracked order leaves all of them tracked.         *)
LEMMA PutIsTracked ==
    ASSUME CafeInv, NEW i \in 1..(Len(carts) + 1), NEW o \in Cart, Tracked(o)
    PROVE  Put(i, o) \in Seq(Cart) /\ AllTracked(Put(i, o))
  <1>1. carts \in Seq(Cart) /\ AllTracked(carts)
    BY DEF CafeInv, CafeTypeOK
  <1>2. CASE i > Len(carts)
    <2>1. Put(i, o) = Append(carts, o)
      BY <1>2 DEF Put
    <2> QED
      BY <1>1, <2>1, AppendProperties DEF AllTracked
  <1>3. CASE ~(i > Len(carts))
    <2>1. Put(i, o) = [carts EXCEPT ![i] = o] /\ i \in 1..Len(carts)
      BY <1>1, <1>3 DEF Put
    <2>2. Put(i, o) \in Seq(Cart) /\ DOMAIN Put(i, o) = DOMAIN carts
      BY <1>1, <2>1, ExceptSeq
    <2>3. \A j \in DOMAIN carts : Put(i, o)[j] = IF j = i THEN o ELSE carts[j]
      BY <1>1, <2>1
    <2> QED
      BY <1>1, <2>2, <2>3 DEF AllTracked
  <1> QED
    BY <1>2, <1>3

(* A prompt that was asked for, or replaces none that is fresh, leaves its *)
(* order tracked.                                                          *)
LEMMA SentIsTracked ==
    ASSUME NEW o \in Cart, Tracked(o), NEW asked \in BOOLEAN, asked \/ ~(o.session /\ o.fresh),
           NEW sent \in Sent(o, asked)
    PROVE  sent \in Cart /\ Tracked(sent)
  <1>1. PICK queued \in BOOLEAN :
          sent = [o EXCEPT !.session = TRUE, !.fresh = TRUE, !.poll = queued, !.unwatched = ~queued,
                           !.again = @ \/ (o.session /\ o.fresh /\ ~asked)]
    BY DEF Sent
  <1>2. ~o.again /\ o.again \in BOOLEAN
    BY DEF Tracked, Cart
  <1>3. (o.again \/ (o.session /\ o.fresh /\ ~asked)) = FALSE
    BY <1>2
  <1>4. PICK unq \in BOOLEAN : unq = ~queued
    OBVIOUS
  <1>5. sent = [o EXCEPT !.session = TRUE, !.fresh = TRUE, !.poll = queued, !.unwatched = unq,
                         !.again = FALSE]
    BY <1>1, <1>3, <1>4
  <1> HIDE <1>1
  <1>6. sent \in Cart
    BY <1>5 DEF Cart
  <1>7. sent.again = FALSE /\ sent.poll = queued /\ sent.unwatched = unq
    BY <1>5 DEF Cart
  <1> QED
    BY <1>4, <1>6, <1>7 DEF Tracked

(* A prompt that was refused leaves its order tracked.                     *)
LEMMA NotSentIsTracked ==
    ASSUME NEW o \in Cart, Tracked(o)
    PROVE  NotSent(o) \in Cart /\ Tracked(NotSent(o))
  BY DEF NotSent, Cart, Tracked

(* A turn that asks for money keeps the invariant.                         *)
LEMMA PromptsKeepCafe ==
    ASSUME CafeInv, NEW i \in 1..(Len(carts) + 1), NEW o \in Cart, Tracked(o),
           NEW asked \in BOOLEAN, asked \/ ~(o.session /\ o.fresh), NEW knows \in BOOLEAN,
           Prompts(i, o, asked, knows)
    PROVE  CafeInv'
  <1>1. CASE Replies(Put(i, NotSent(o)), NoOffer, knows)
    <2>1. Put(i, NotSent(o)) \in Seq(Cart) /\ AllTracked(Put(i, NotSent(o)))
      BY NotSentIsTracked, PutIsTracked
    <2>2. NoOffer \in Offer
      BY DEF NoOffer, Offer
    <2> QED
      BY <1>1, <2>1, <2>2, RepliesKeepCafe
  <1>2. ASSUME NEW sent \in Sent(o, asked), NEW read \in ReadsAsOffer(o, TRUE),
               Replies(Put(i, sent), read, knows)
        PROVE  CafeInv'
    <2>1. Put(i, sent) \in Seq(Cart) /\ AllTracked(Put(i, sent))
      BY SentIsTracked, PutIsTracked
    <2>2. read \in Offer
      BY OffersRead
    <2> QED
      BY <1>2, <2>1, <2>2, RepliesKeepCafe
  <1> QED
    BY <1>1, <1>2 DEF Prompts

(* The orders the customer has.                                            *)
LEMMA CartsAreThere ==
    ASSUME CafeInv
    PROVE  /\ carts \in Seq(Cart) /\ Len(carts) \in Nat /\ DOMAIN carts = 1..Len(carts)
           /\ \A i \in 1..Len(carts) : carts[i] \in Cart /\ Tracked(carts[i])
  BY DEF CafeInv, CafeTypeOK, AllTracked

(* The newest unpaid order is unpaid.                                      *)
LEMMA NewestIsUnpaid ==
    ASSUME CafeInv, NEW names, UnpaidCarts # {}
    PROVE  NewestOf(UnpaidCarts, names) \in UnpaidCarts
  <1>1. UnpaidCarts \in SUBSET (0..Len(carts)) /\ Matching(UnpaidCarts, names) \in SUBSET UnpaidCarts
    BY CartsAreThere DEF UnpaidCarts, Matching
  <1>2. Max(UnpaidCarts) \in UnpaidCarts
    BY <1>1, CartsAreThere, MaxIsThere
  <1>3. Matching(UnpaidCarts, names) # {} =>
            Max(Matching(UnpaidCarts, names)) \in Matching(UnpaidCarts, names)
    BY <1>1, CartsAreThere, MaxIsThere
  <1> QED
    BY <1>1, <1>2, <1>3 DEF NewestOf

(* The last of some orders, or none.                                       *)
LEMMA LastOrNone ==
    ASSUME CafeInv, NEW some \in SUBSET UnpaidCarts
    PROVE  /\ Max(some \cup {0}) \in 0..Len(carts)
           /\ Max(some \cup {0}) # 0 => Max(some \cup {0}) \in some
  <1>1. some \cup {0} \in SUBSET (0..Len(carts))
    BY CartsAreThere DEF UnpaidCarts
  <1> QED
    BY <1>1, CartsAreThere, MaxIsThere

(* A new order has no prompt.                                              *)
LEMMA NewCartIsTracked ==
    ASSUME NEW items \in SUBSET Items, items # {}, NEW meant \in BOOLEAN
    PROVE  /\ NewCart(items, meant) \in Cart /\ Tracked(NewCart(items, meant))
           /\ ~NewCart(items, meant).session
  <1>0. items \in (SUBSET Items) \ {{}}
    OBVIOUS
  <1>1. NewCart(items, meant) \in Cart
    BY <1>0 DEF NewCart, Cart
  <1>2. ~NewCart(items, meant).again /\ ~NewCart(items, meant).session
    BY DEF NewCart
  <1> QED
    BY <1>1, <1>2 DEF Tracked

(* An order that is created and asked for in one turn                      *)
(* (_create_fast_order).                                                   *)
LEMMA OrderAndAskKeepsCafe ==
    ASSUME CafeInv, NEW items \in SUBSET Items, items # {}, NEW meant \in BOOLEAN,
           NEW knows \in BOOLEAN, OrderAndAsk(items, meant, knows)
    PROVE  CafeInv'
  <1> DEFINE i == Max(SameCart(items) \cup {0})
  <1>1. i \in 0..Len(carts) /\ Len(carts) \in Nat
    BY LastOrNone, CartsAreThere DEF SameCart
  <1>2. CASE i = 0
    <2>1. Prompts(Len(carts) + 1, NewCart(items, meant), FALSE, knows)
      BY <1>2 DEF OrderAndAsk
    <2>2. Len(carts) + 1 \in 1..(Len(carts) + 1)
      BY <1>1
    <2> QED
      BY <2>1, <2>2, NewCartIsTracked, PromptsKeepCafe
  <1>3. CASE i # 0
    <2>1. i \in 1..(Len(carts) + 1) /\ carts[i] \in Cart /\ Tracked(carts[i])
      BY <1>1, <1>3, CartsAreThere
    <2>2. CASE carts[i].session
      <3>1. PICK read \in ReadsAsOffer(carts[i], TRUE) : Tells(read, knows)
        BY <1>3, <2>2 DEF OrderAndAsk
      <3> QED
        BY <2>1, <3>1, OffersRead, TellsKeepsCafe
    <2>3. CASE ~carts[i].session
      <3>1. Prompts(i, carts[i], FALSE, knows)
        BY <1>3, <2>3 DEF OrderAndAsk
      <3> HIDE DEF i
      <3> QED
        BY <2>1, <2>3, <3>1, PromptsKeepCafe
    <2> QED
      BY <2>2, <2>3
  <1> QED
    BY <1>2, <1>3

(* The answers that ask for no money.                                      *)
LEMMA SimpleAnswersKeepCafe ==
    ASSUME CafeInv, NEW n \in Notes,
           \/ Informs(n) \/ OffersItems(n) \/ AsksWhich(n) \/ AsksName(n)
           \/ ShowsOrder(n) \/ ModelAnswers(n)
    PROVE  CafeInv'
  <1>1. n \in Note /\ NoOffer \in Offer /\ named \in BOOLEAN
    BY CafeAssumption DEF NoOffer, Offer, CafeInv, CafeTypeOK
  <1>2. \A items \in SUBSET Items : [items |-> items, meant |-> TRUE] \in Offer
    BY DEF Offer
  <1>3. n.names \in SUBSET Items
    BY <1>1 DEF Note
  <1>4. CASE \/ Informs(n) \/ AsksWhich(n) \/ AsksName(n) \/ ShowsOrder(n)
    <2>1. Tells(NoOffer, named) \/ Tells(NoOffer, TRUE)
      BY <1>4 DEF Informs, AsksWhich, AsksName, ShowsOrder
    <2> QED
      BY <1>1, <2>1, TellsKeepsCafe
  <1>5. CASE OffersItems(n)
    <2>1. Tells([items |-> n.names, meant |-> TRUE], named)
      BY <1>5 DEF OffersItems
    <2> QED
      BY <1>1, <1>2, <1>3, <2>1, TellsKeepsCafe
  <1>6. CASE ModelAnswers(n)
    <2>1. PICK items \in SUBSET Items :
            Tells([items |-> items, meant |-> TRUE], named \/ (Orders(n) /\ Knows(n)))
      BY <1>6 DEF ModelAnswers
    <2>2. (named \/ (Orders(n) /\ Knows(n))) \in BOOLEAN
      OBVIOUS
    <2> QED
      BY <1>2, <2>1, <2>2, TellsKeepsCafe
  <1> QED
    BY <1>4, <1>5, <1>6

(* The prompts sent again, at the wish of the customer or for an order     *)
(* left unpaid.                                                            *)
LEMMA RequestsKeepCafe ==
    ASSUME CafeInv, NEW n \in Notes, ResendPrompt(n) \/ AutoResend(n)
    PROVE  CafeInv'
  <1> DEFINE i == NewestOf(UnpaidCarts, n.names)
  <1>1. NoOffer \in Offer /\ named \in BOOLEAN
    BY DEF NoOffer, Offer, CafeInv, CafeTypeOK
  <1>2. UnpaidCarts # {} => /\ i \in 1..(Len(carts) + 1)
                            /\ carts[i] \in Cart /\ Tracked(carts[i])
    BY NewestIsUnpaid, CartsAreThere DEF UnpaidCarts
  <1>3. UnpaidCarts = {} => i = 0
    BY DEF NewestOf
  <1>4. CASE ResendPrompt(n)
    <2>1. IF i = 0 THEN Tells(NoOffer, named) ELSE Prompts(i, carts[i], TRUE, named)
      BY <1>4 DEF ResendPrompt
    <2> HIDE DEF i
    <2> QED
      BY <1>1, <1>2, <1>3, <2>1, TellsKeepsCafe, PromptsKeepCafe
  <1>5. CASE AutoResend(n)
    <2>1. UnpaidCarts # {}
      BY <1>5 DEF AutoResend, Repeats, Matching
    <2>2. Prompts(i, carts[i], FALSE, TRUE) /\ ~carts[i].fresh
      BY <1>5 DEF AutoResend, Stale
    <2> HIDE DEF i
    <2> QED
      BY <1>2, <2>1, <2>2, PromptsKeepCafe
  <1> QED
    BY <1>4, <1>5

(* The orders made from the demo line and from the menu.                   *)
LEMMA OrdersKeepCafe ==
    ASSUME CafeInv, NEW n \in Notes, DemoOrder(n) \/ MenuOrder(n)
    PROVE  CafeInv'
  <1>1. n \in Note /\ NoOffer \in Offer /\ offer \in Offer
    BY CafeAssumption DEF NoOffer, Offer, CafeInv, CafeTypeOK
  <1>2. n.names \in SUBSET Items /\ offer.items \in SUBSET Items
    BY <1>1 DEF Note, Offer
  <1>3. CASE DemoOrder(n)
    <2> DEFINE i == Max(Matching(UnpaidCarts, {Demo}) \cup {0})
    <2>1. i \in 0..Len(carts) /\ Len(carts) \in Nat
      BY LastOrNone, CartsAreThere DEF Matching
    <2>2. \/ i = 0 /\ OrderAndAsk({Demo}, TRUE, TRUE)
          \/ i # 0 /\ Tells(NoOffer, TRUE)
          \/ i # 0 /\ ~(carts[i].session /\ carts[i].fresh) /\ Prompts(i, carts[i], FALSE, TRUE)
      BY <1>3 DEF DemoOrder
    <2> HIDE DEF i
    <2>3. CASE OrderAndAsk({Demo}, TRUE, TRUE)
      <3>1. {Demo} \in SUBSET Items /\ {Demo} # {}
        BY CafeAssumption
      <3> QED
        BY <2>3, <3>1, OrderAndAskKeepsCafe
    <2>4. CASE Tells(NoOffer, TRUE)
      BY <1>1, <2>4, TellsKeepsCafe
    <2>5. CASE i # 0 /\ ~(carts[i].session /\ carts[i].fresh) /\ Prompts(i, carts[i], FALSE, TRUE)
      <3>1. i \in 1..(Len(carts) + 1) /\ carts[i] \in Cart /\ Tracked(carts[i])
        BY <2>1, <2>5, CartsAreThere
      <3> QED
        BY <2>5, <3>1, PromptsKeepCafe
    <2> QED
      BY <2>2, <2>3, <2>4, <2>5
  <1>4. CASE MenuOrder(n)
    <2>1. OrderAndAsk(Wanted(n), ~Continues(n) \/ offer.meant, TRUE) /\ Wanted(n) # {}
      BY <1>4 DEF MenuOrder, Orders
    <2>2. Wanted(n) \in SUBSET Items
      BY <1>2 DEF Wanted
    <2>3. (~Continues(n) \/ offer.meant) \in BOOLEAN
      OBVIOUS
    <2> QED
      BY <2>1, <2>2, <2>3, OrderAndAskKeepsCafe
  <1> QED
    BY <1>3, <1>4

(* A cancellation, and a claim to have paid.                               *)
LEMMA StatusAndCancelKeepCafe ==
    ASSUME CafeInv, NEW n \in Notes, CancelPending(n) \/ ClaimStatus(n)
    PROVE  CafeInv'
  <1>1. NoOffer \in Offer /\ named \in BOOLEAN
    BY DEF NoOffer, Offer, CafeInv, CafeTypeOK
  <1>2. CASE CancelPending(n)
    <2> DEFINE i == NewestOf(UnpaidCarts, n.names)
    <2>1. CASE i = 0
      <3>1. Tells(NoOffer, named)
        BY <1>2, <2>1 DEF CancelPending
      <3> QED
        BY <1>1, <3>1, TellsKeepsCafe
    <2>2. CASE i # 0
      <3>1. Replies([carts EXCEPT ![i].status = "closed", ![i].poll = FALSE], NoOffer, named)
        BY <1>2, <2>2 DEF CancelPending
      <3>2. i \in 1..Len(carts) /\ carts[i] \in Cart /\ Tracked(carts[i])
        BY <2>2, NewestIsUnpaid, CartsAreThere DEF UnpaidCarts, NewestOf
      <3> HIDE DEF i
      <3> DEFINE c == [carts[i] EXCEPT !.status = "closed", !.poll = FALSE]
      <3>3. c \in Cart /\ Tracked(c)
        BY <3>2 DEF Cart, Tracked
      <3>4. [carts EXCEPT ![i].status = "closed", ![i].poll = FALSE] = [carts EXCEPT ![i] = c]
        BY <3>2, CartsAreThere
      <3> HIDE DEF c
      <3>5. i \in 1..(Len(carts) + 1) /\ ~(i > Len(carts))
        BY <3>2, CartsAreThere
      <3>6. Replies(Put(i, c), NoOffer, named)
        BY <3>1, <3>4, <3>5 DEF Put
      <3> QED
        BY <1>1, <3>3, <3>5, <3>6, PutIsTracked, RepliesKeepCafe
    <2> QED
      BY <2>1, <2>2
  <1>3. CASE ClaimStatus(n)
    <2> DEFINE i == NewestOf(DOMAIN carts, n.names)
    <2>1. CASE i = 0
      <3>1. Tells(NoOffer, named)
        BY <1>3, <2>1 DEF ClaimStatus
      <3> QED
        BY <1>1, <3>1, TellsKeepsCafe
    <2>2. CASE i # 0
      <3>1. PICK read \in ReadsAsOffer(carts[i], carts[i].status = "pending") : Tells(read, named)
        BY <1>3, <2>2 DEF ClaimStatus
      <3>2. DOMAIN carts # {} /\ DOMAIN carts \in SUBSET (0..Len(carts))
        BY <2>2, CartsAreThere DEF NewestOf
      <3>3. Matching(DOMAIN carts, n.names) \in SUBSET (0..Len(carts))
        BY <3>2 DEF Matching
      <3>4. /\ Max(DOMAIN carts) \in DOMAIN carts
            /\ Matching(DOMAIN carts, n.names) # {} =>
                  Max(Matching(DOMAIN carts, n.names)) \in Matching(DOMAIN carts, n.names)
        BY <3>2, <3>3, CartsAreThere, MaxIsThere
      <3>5. i \in DOMAIN carts
        BY <3>2, <3>4 DEF NewestOf, Matching
      <3>6. carts[i] \in Cart
        BY <3>5, CartsAreThere
      <3> QED
        BY <1>1, <3>1, <3>6, OffersRead, TellsKeepsCafe
    <2> QED
      BY <2>1, <2>2
  <1> QED
    BY <1>2, <1>3

(* The end of a turn, with or without its commit.                          *)
LEMMA CommitKeepsCafe == ASSUME CafeInv, DeskCommits \/ DeskFails PROVE CafeInv'
  <1>1. Free \in DeskType
    BY DEF DeskType
  <1>2. desk # Free
    BY DEF DeskCommits, DeskFails
  <1>3. desk.carts \in Seq(Cart) /\ desk.offer \in Offer /\ desk.named \in BOOLEAN
    BY <1>2 DEF CafeInv, CafeTypeOK, DeskType
  <1>4. CASE DeskCommits
    BY <1>1, <1>2, <1>3, <1>4 DEF DeskCommits, CafeInv, CafeTypeOK, AllTracked
  <1>5. CASE DeskFails
    <2>1. slips' \in 0..MaxSlips
      BY <1>5, CafeAssumption DEF DeskFails, Slip, CafeInv, CafeTypeOK
    <2> QED
      BY <1>1, <1>5, <2>1 DEF DeskFails, CafeInv, CafeTypeOK, AllTracked
  <1> QED
    BY <1>4, <1>5

(* What happens to orders between turns: prompts age, polls end, payments  *)
(* settle.                                                                 *)
LEMMA SettlingKeepsCafe ==
    ASSUME CafeInv, NEW i \in DOMAIN carts,
           Ages(i) \/ PollEnds(i) \/ \E status \in {"paid", "closed"} : Settles(i, status)
    PROVE  CafeInv'
  <1>1. carts \in Seq(Cart) /\ carts[i] \in Cart /\ Tracked(carts[i]) /\ i \in 1..Len(carts)
    BY CartsAreThere
  <1>2. PICK c \in Cart : /\ Tracked(c) /\ carts' = [carts EXCEPT ![i] = c]
                          /\ desk = Free /\ UNCHANGED <<offer, named, desk, slips>>
    <2>1. CASE Ages(i)
      <3> DEFINE c == [carts[i] EXCEPT !.fresh = FALSE]
      <3>1. c \in Cart /\ Tracked(c)
        BY <1>1 DEF Cart, Tracked
      <3>2. carts' = [carts EXCEPT ![i] = c]
        BY <1>1, <2>1 DEF Ages
      <3> QED
        BY <2>1, <3>1, <3>2 DEF Ages
    <2>2. CASE PollEnds(i)
      <3> DEFINE c == [carts[i] EXCEPT !.poll = FALSE, !.unwatched = TRUE]
      <3>1. c \in Cart /\ Tracked(c)
        BY <1>1 DEF Cart, Tracked
      <3>2. carts' = [carts EXCEPT ![i] = c]
        BY <1>1, <2>2 DEF PollEnds
      <3> QED
        BY <2>2, <3>1, <3>2 DEF PollEnds
    <2>3. ASSUME NEW status \in {"paid", "closed"}, Settles(i, status)
          PROVE  \E c \in Cart : /\ Tracked(c) /\ carts' = [carts EXCEPT ![i] = c]
                                 /\ desk = Free /\ UNCHANGED <<offer, named, desk, slips>>
      <3> DEFINE c == [carts[i] EXCEPT !.status = status, !.poll = FALSE]
      <3>1. c \in Cart /\ Tracked(c)
        BY <1>1 DEF Cart, Tracked
      <3>2. carts' = [carts EXCEPT ![i] = c]
        BY <1>1, <2>3 DEF Settles
      <3> QED
        BY <2>3, <3>1, <3>2 DEF Settles
    <2> QED
      BY <2>1, <2>2, <2>3
  <1>3. i \in 1..(Len(carts) + 1) /\ ~(i > Len(carts))
    BY <1>1, CartsAreThere
  <1>5. carts' = Put(i, c)
    BY <1>2, <1>3 DEF Put
  <1>4. carts' \in Seq(Cart) /\ AllTracked(carts')
    BY <1>2, <1>3, <1>5, PutIsTracked
  <1> QED
    BY <1>2, <1>4 DEF CafeInv, CafeTypeOK, AllTracked

(* Every reachable state of the cafe satisfies its invariant, for any      *)
(* items, notes and bounds.                                                *)
THEOREM CafeInvariance == CafeSpec => []CafeInv
  <1>1. CafeInv /\ [CafeNext]_cafeVars => CafeInv'
    <2> SUFFICES ASSUME CafeInv, [CafeNext]_cafeVars PROVE CafeInv'
      OBVIOUS
    <2>1. CASE UNCHANGED cafeVars
      BY <2>1 DEF cafeVars, CafeInv, CafeTypeOK, AllTracked
    <2>2. ASSUME NEW n \in Notes, Answers(n) PROVE CafeInv'
      BY <2>2, SimpleAnswersKeepCafe, RequestsKeepCafe, OrdersKeepCafe, StatusAndCancelKeepCafe
         DEF Answers
    <2> QED
      BY <2>1, <2>2, CommitKeepsCafe, SettlingKeepsCafe DEF CafeNext
  <1> QED
    BY <1>1, CafeStarts, PTL DEF CafeSpec

(* A repeated message never asks for the same money twice, and no prompt   *)
(* goes unwatched while the poll can be queued: fast_orders.py behaves as  *)
(* TLC finds on the small instance, for every value of the constants.      *)
THEOREM PromptsStayTracked == CafeSpec => []PromptsAreTracked
  <1>1. CafeInv => PromptsAreTracked
    BY DEF CafeInv, AllTracked, Tracked, PromptsAreTracked, RepeatsDoNotPush, PollFollowsPush
  <1> QED
    BY <1>1, CafeInvariance, PTL

-----------------------------------------------------------------------------
(* The sessions opened for a payment.                                      *)
RequestedFor(k) == {i \in DOMAIN sessions : sessions[i].key = k}

(* The tools of a round are few enough, only a round of tools asks a       *)
(* provider, and the orders in the hand of the agent exist.                *)
HandsAreFull ==
    /\ agent.made \in 0..Len(tickets)
    /\ \A q \in agent.paying : q.order \in 0..Len(tickets)
    /\ agent.stage # "tools" => photo.flying = 0 /\ agent.paying = {}
    /\ photo.flying + agent.left <= MaxBatch

(* The committed orders are some of those the turn sees, and all of them   *)
(* between turns.                                                          *)
SavedFollows ==
    /\ Len(tickets) <= MaxTickets /\ Len(saved) <= Len(tickets)
    /\ agent.stage = "idle" => saved = tickets

(* A session of an order that was kept is on that order, or a later one    *)
(* is.                                                                     *)
SessionsAreNamed ==
    \A s \in DOMAIN sessions :
        sessions[s].sure /\ sessions[s].order # 0 =>
            /\ sessions[s].order \in DOMAIN tickets
            /\ tickets[sessions[s].order].checkout >= s

(* A payment has one session more than its key was renewed, and none more  *)
(* while the key is free.                                                  *)
KeysCount ==
    \A k \in PayKeys :
        /\ Cardinality(RequestedFor(k)) <= 1 + renewed[k]
        /\ k \notin payKey => Cardinality(RequestedFor(k)) <= renewed[k]

(* A payment being requested holds its key, alone and without a session    *)
(* yet.                                                                    *)
HoldsItsKey(q) == q.key \in payKey /\ Cardinality(RequestedFor(q.key)) <= renewed[q.key]

RequestsCount ==
    /\ \A q \in agent.paying : HoldsItsKey(q)
    /\ \A q, p \in agent.paying : q.key = p.key => q = p

(* A photo was sent again once for each cut, and one more cut is left for  *)
(* a photo that went out unrecorded.                                       *)
PhotosCount ==
    /\ photo.again <= cuts
    /\ photo.out /\ ~photo.stored /\ photo.flying = 0 => photo.again + 1 <= cuts

(* What every step of the agent keeps.                                     *)
AgentInv ==
    /\ AgentTypeOK /\ HandsAreFull /\ SavedFollows
    /\ SessionsAreNamed /\ KeysCount /\ RequestsCount /\ PhotosCount

(* The invariant implies what the runs check.                              *)
LEMMA AgentInvMeans == AgentInv => ToolsActOnce
  <1> SUFFICES ASSUME AgentInv PROVE ToolsActOnce
    OBVIOUS
  <1>1. PushedOnce
    BY DEF AgentInv, KeysCount, RequestedFor, PushedOnce
  <1>2. NewestSessionCounts
    <2> SUFFICES ASSUME agent.stage = "idle", NEW i \in DOMAIN saved, NEW s \in DOMAIN sessions,
                        sessions[s].order = i, sessions[s].sure
                 PROVE  saved[i].checkout >= s
      BY DEF NewestSessionCounts
    <2>1. saved = tickets /\ i # 0
      BY DEF AgentInv, SavedFollows, AgentTypeOK
    <2> QED
      BY <2>1 DEF AgentInv, SessionsAreNamed
  <1>3. PhotosRest
    BY DEF AgentInv, PhotosCount, PhotosRest
  <1> QED
    BY <1>1, <1>2, <1>3 DEF ToolsActOnce

(* The session that no tool asked for is no payment of the model.          *)
LEMMA AgentNames ==
    /\ Automatic \notin PayKeys
    /\ MaxBatch \in Nat \ {0} /\ MaxTickets \in Nat /\ MaxSessions \in Nat
    /\ MaxTurns \in Nat /\ MaxCuts \in Nat
  <1>1. ASSUME Automatic \in PayKeys PROVE FALSE
    <2>1. Automatic \in (Baskets \cup {Loose}) \X Terms
      BY <1>1, AgentAssumption
    <2>2. Automatic[1] \in Baskets \cup {Loose}
      BY <2>1
    <2>3. Automatic[1] = "automatic"
      BY DEF Automatic
    <2> QED
      BY <2>2, <2>3, AgentAssumption
  <1> QED
    BY <1>1, AgentAssumption

(* The agent between turns.                                                *)
LEMMA RestingIsAgent ==
    /\ Resting \in AgentType
    /\ Resting.stage = "idle" /\ Resting.left = 0 /\ Resting.paying = {}
    /\ Resting.made = 0
  <1>1. 0 \in 0..MaxBatch /\ 0 \in 0..MaxTickets /\ 0 \in Nat /\ 1 \in 1..2
    BY AgentNames
  <1>2. {} \in SUBSET PayRequest
    OBVIOUS
  <1>3. Resting \in AgentType
    BY <1>1, <1>2 DEF Resting, AgentType
  <1> QED
    BY <1>3 DEF Resting

(* The agent starts at rest with nothing ordered.                          *)
LEMMA AgentStarts == AgentInit => AgentInv
  <1> SUFFICES ASSUME AgentInit PROVE AgentInv
    OBVIOUS
  <1>1. /\ tickets \in Seq(Ticket) /\ saved \in Seq(Ticket) /\ sessions \in Seq(PaySession)
        /\ Len(tickets) = 0 /\ saved = tickets /\ DOMAIN sessions = {}
    BY DEF AgentInit
  <1>2. payKey \subseteq PayKeys
    BY DEF AgentInit
  <1>3. renewed \in [PayKeys -> Nat] /\ \A k \in PayKeys : renewed[k] = 0
    BY DEF AgentInit
  <1>4. /\ photo \in PhotoType /\ photo.flying = 0 /\ photo.again = 0 /\ photo.out = FALSE
    <2>1. 0 \in 0..MaxBatch /\ 0 \in Nat
      BY AgentNames
    <2>2. photo = [stored |-> FALSE, flying |-> 0, out |-> FALSE, again |-> 0]
      BY DEF AgentInit
    <2>3. photo \in PhotoType
      BY <2>1, <2>2 DEF PhotoType
    <2> QED
      BY <2>2, <2>3
  <1>5. agent = Resting /\ turns \in 0..MaxTurns /\ cuts \in 0..MaxCuts /\ cuts = 0
    BY AgentNames DEF AgentInit
  <1>6. AgentTypeOK
    BY <1>1, <1>2, <1>3, <1>4, <1>5, RestingIsAgent DEF AgentTypeOK
  <1>7. HandsAreFull
    BY <1>1, <1>4, <1>5, RestingIsAgent, AgentNames DEF HandsAreFull
  <1>8. SavedFollows
    BY <1>1, AgentNames DEF SavedFollows
  <1>9. SessionsAreNamed
    BY <1>1 DEF SessionsAreNamed
  <1>10. KeysCount /\ RequestsCount
    <2>1. \A k \in PayKeys : Cardinality(RequestedFor(k)) = 0
      BY <1>1, FS_EmptySet DEF RequestedFor
    <2>2. agent.paying = {}
      BY <1>5, RestingIsAgent
    <2> QED
      BY <1>3, <2>1, <2>2 DEF KeysCount, RequestsCount
  <1>11. PhotosCount
    BY <1>4, <1>5 DEF PhotosCount
  <1> QED
    BY <1>6, <1>7, <1>8, <1>9, <1>10, <1>11 DEF AgentInv

(* The types that the steps below use.                                     *)
LEMMA AgentFields ==
    ASSUME AgentInv
    PROVE  /\ agent \in AgentType /\ agent.left \in 0..MaxBatch /\ agent.ran \in Nat
           /\ agent.made \in 0..Len(tickets)
           /\ agent.paying \subseteq PayRequest
           /\ photo \in PhotoType /\ photo.flying \in 0..MaxBatch /\ photo.again \in Nat
           /\ tickets \in Seq(Ticket) /\ saved \in Seq(Ticket) /\ sessions \in Seq(PaySession)
           /\ Len(tickets) \in 0..MaxTickets /\ Len(saved) \in Nat
           /\ cuts \in Nat /\ turns \in Nat
           /\ renewed \in [PayKeys -> Nat] /\ payKey \subseteq PayKeys
  BY AgentNames DEF AgentInv, AgentTypeOK, HandsAreFull, SavedFollows, AgentType, PhotoType

(* The room the tools of a round have.                                     *)
LEMMA RoomForTools ==
    ASSUME AgentInv
    PROVE  /\ photo.flying \in Nat /\ agent.left \in Nat /\ MaxBatch \in Nat
           /\ photo.flying + agent.left <= MaxBatch
           /\ agent.stage # "tools" => photo.flying = 0 /\ agent.paying = {}
  BY AgentFields, AgentNames DEF AgentInv, HandsAreFull

(* The sessions of a payment can be counted.                               *)
LEMMA SessionsAreCounted ==
    ASSUME AgentInv, NEW k
    PROVE  IsFiniteSet(RequestedFor(k)) /\ Cardinality(RequestedFor(k)) \in Nat
  <1>0. sessions \in Seq(PaySession)
    BY AgentFields
  <1>1. Len(sessions) \in Nat /\ RequestedFor(k) \subseteq 1..Len(sessions)
    BY <1>0 DEF RequestedFor
  <1>2. IsFiniteSet(1..Len(sessions))
    BY <1>1, FS_Interval
  <1> QED
    BY <1>1, <1>2, FS_Subset, FS_CardinalityType

(* A step that leaves orders, sessions and keys alone keeps the invariant  *)
(* when the agent and the photo are sound after it and no payment is       *)
(* requested that was not before.                                          *)
LEMMA AgentMoves ==
    ASSUME AgentInv, UNCHANGED <<tickets, sessions, payKey, renewed>>,
           saved' = saved \/ saved' = tickets,
           agent' \in AgentType, photo' \in PhotoType, turns' \in 0..MaxTurns,
           cuts' \in 0..MaxCuts, HandsAreFull', PhotosCount',
           agent'.stage = "idle" => saved' = tickets,
           agent'.paying \subseteq agent.paying
    PROVE  AgentInv'
  <1>1. AgentTypeOK'
    BY DEF AgentInv, AgentTypeOK
  <1>2. SavedFollows'
    BY AgentFields DEF AgentInv, SavedFollows
  <1>3. SessionsAreNamed'
    BY DEF AgentInv, SessionsAreNamed
  <1>4. KeysCount'
    BY DEF AgentInv, KeysCount, RequestedFor
  <1>5. RequestsCount'
    BY DEF AgentInv, RequestsCount, HoldsItsKey, RequestedFor
  <1> QED
    BY <1>1, <1>2, <1>3, <1>4, <1>5 DEF AgentInv

(* The agent at the start of an attempt.                                   *)
LEMMA BeginsIsAgent ==
    ASSUME NEW attempt \in 1..2
    PROVE  /\ Begins(attempt) \in AgentType /\ Begins(attempt).stage = "model"
           /\ Begins(attempt).left = 0 /\ Begins(attempt).paying = {}
           /\ Begins(attempt).made = 0
  BY RestingIsAgent DEF Begins, AgentType

(* The turn starts.                                                        *)
LEMMA BeginKeepsAgent == ASSUME AgentInv, BeginTurn PROVE AgentInv'
  <1>1. /\ agent' = Begins(1) /\ UNCHANGED <<tickets, saved, payKey, sessions, photo, renewed, cuts>>
        /\ turns' = turns + 1 /\ turns < MaxTurns /\ agent.stage = "idle"
    BY DEF BeginTurn
  <1>2. turns' \in 0..MaxTurns
    BY <1>1, AgentFields, AgentNames
  <1>5. /\ agent'.made = 0 /\ agent'.left = 0 /\ agent'.paying = {}
        /\ photo'.flying = 0 /\ tickets' = tickets
    BY <1>1, BeginsIsAgent, RoomForTools
  <1>3. HandsAreFull'
    BY <1>5, AgentFields, RoomForTools DEF HandsAreFull
  <1>4. PhotosCount' /\ cuts' \in 0..MaxCuts /\ photo' \in PhotoType
    BY <1>1 DEF AgentInv, PhotosCount, AgentTypeOK
  <1> QED
    BY <1>1, <1>2, <1>3, <1>4, BeginsIsAgent, AgentMoves

(* The model calls tools or replies.                                       *)
LEMMA ModelKeepsAgent == ASSUME AgentInv, ModelCalls \/ ModelReplies PROVE AgentInv'
  <1>1. /\ UNCHANGED <<tickets, saved, payKey, sessions, photo, renewed, cuts, turns>>
        /\ agent.stage = "model"
    BY DEF ModelCalls, ModelReplies
  <1>2. PICK n \in 0..MaxBatch : \/ agent' = [agent EXCEPT !.stage = "reply"]
                                 \/ agent' = [agent EXCEPT !.stage = "tools", !.left = n]
    <2>1. CASE ModelReplies
      <3>1. 0 \in 0..MaxBatch
        BY AgentNames
      <3> QED
        BY <2>1, <3>1 DEF ModelReplies
    <2>2. CASE ModelCalls
      <3>1. PICK n \in 1..MaxBatch : agent' = GoesOn(n)
        BY <2>2 DEF ModelCalls
      <3>2. n \in 0..MaxBatch
        BY AgentNames
      <3> QED
        BY <3>1, <3>2 DEF GoesOn
    <2> QED
      BY <2>1, <2>2
  <1>3. agent' \in AgentType
    BY <1>2, AgentFields DEF AgentType
  <1>4. /\ agent'.paying = agent.paying /\ agent'.made = agent.made
        /\ agent'.stage # "idle" /\ agent'.left \in {agent.left, n}
        /\ agent'.stage = "tools" \/ agent'.left = agent.left
    BY <1>2, AgentFields DEF AgentType
  <1>5. agent.paying = {} /\ photo.flying = 0
    BY <1>1 DEF AgentInv, HandsAreFull
  <1>8. /\ photo'.flying = 0 /\ tickets' = tickets /\ n \in Nat
        /\ photo'.flying + agent'.left <= MaxBatch
    BY <1>1, <1>4, <1>5, RoomForTools
  <1>6. HandsAreFull'
    BY <1>4, <1>5, <1>8, AgentFields DEF HandsAreFull
  <1>7. PhotosCount' /\ cuts' \in 0..MaxCuts /\ photo' \in PhotoType /\ turns' \in 0..MaxTurns
    BY <1>1 DEF AgentInv, PhotosCount, AgentTypeOK
  <1> QED
    BY <1>1, <1>3, <1>4, <1>6, <1>7, AgentMoves

(* The agent with one tool less to run.                                    *)
LEMMA AnsweredIsAgent ==
    ASSUME AgentInv, agent.left > 0
    PROVE  /\ Answered \in AgentType /\ Answered.stage = agent.stage
           /\ Answered.left = agent.left - 1 /\ Answered.paying = agent.paying
           /\ Answered.made = agent.made
  <1>1. PICK ran \in Nat : ran = agent.ran + 1
    BY AgentFields
  <1>2. PICK left \in 0..MaxBatch : left = agent.left - 1
    BY AgentFields, AgentNames
  <1>3. Answered = [agent EXCEPT !.ran = ran, !.left = left]
    BY <1>1, <1>2 DEF Answered
  <1>4. Answered \in AgentType
    BY <1>3, AgentFields DEF AgentType
  <1> QED
    BY <1>2, <1>3, <1>4, AgentFields DEF AgentType

(* The requests under way stay in hand when the orders do not get fewer.   *)
LEMMA HandsStayFull ==
    ASSUME AgentInv, Len(tickets') \in Nat, Len(tickets') >= Len(tickets),
           agent'.paying \subseteq agent.paying, agent'.made \in 0..Len(tickets'),
           agent'.stage = "tools" \/ (photo'.flying = 0 /\ agent'.paying = {}),
           photo'.flying + agent'.left <= MaxBatch
    PROVE  HandsAreFull'
  <1>1. ASSUME NEW q \in agent'.paying PROVE q.order \in 0..Len(tickets')
    <2>1. q.order \in 0..Len(tickets) /\ Len(tickets) \in Nat
      BY <1>1, AgentFields DEF AgentInv, HandsAreFull
    <2> QED
      BY <2>1
  <1> QED
    BY <1>1 DEF HandsAreFull

(* The tools that change nothing here.                                     *)
LEMMA AnswerKeepsAgent == ASSUME AgentInv, RefuseOrder \/ OtherTool PROVE AgentInv'
  <1>1. /\ UNCHANGED <<tickets, saved, payKey, sessions, photo, renewed, cuts, turns>>
        /\ agent' \in {Answered, [Answered EXCEPT !.made = 0]}
        /\ agent.stage = "tools" /\ agent.left > 0
    BY DEF RefuseOrder, OtherTool, Starts
  <1>2. 0 \in 0..MaxTickets
    BY AgentNames
  <1>3. /\ agent' \in AgentType /\ agent'.stage = "tools" /\ agent'.left = agent.left - 1
        /\ agent'.paying = agent.paying /\ agent'.made \in {agent.made, 0}
    BY <1>1, <1>2, AnsweredIsAgent DEF AgentType
  <1>6. photo'.flying + agent'.left <= MaxBatch /\ tickets' = tickets
    BY <1>1, <1>3, RoomForTools
  <1>7. 0 \in 0..Len(tickets) /\ Len(tickets) \in Nat
    BY AgentFields
  <1>4. HandsAreFull'
    BY <1>3, <1>6, <1>7, AgentFields, HandsStayFull
  <1>5. PhotosCount' /\ cuts' \in 0..MaxCuts /\ photo' \in PhotoType /\ turns' \in 0..MaxTurns
    BY <1>1 DEF AgentInv, PhotosCount, AgentTypeOK
  <1> QED
    BY <1>1, <1>3, <1>4, <1>5, AgentMoves

(* The key of the photo of the menu is claimed.                            *)
LEMMA ClaimPhotoKeepsAgent == ASSUME AgentInv, ClaimPhoto PROVE AgentInv'
  <1>1. /\ UNCHANGED <<tickets, saved, payKey, sessions, renewed, cuts, turns>>
        /\ agent.stage = "tools" /\ agent.left > 0
    BY DEF ClaimPhoto, Starts
  <1>2. PICK left \in 0..MaxBatch : left = agent.left - 1
    BY <1>1, AgentFields, RoomForTools
  <1>3. PICK ran \in Nat : agent' = [agent EXCEPT !.ran = ran, !.left = left]
    <2>1. agent.ran \in Nat /\ agent.ran + 1 \in Nat
      BY AgentFields
    <2>2. CASE photo.stored
      BY <1>2, <2>1, <2>2 DEF ClaimPhoto
    <2>3. CASE ~photo.stored
      <3>1. agent' = [agent EXCEPT !.left = left]
        BY <1>2, <2>3 DEF ClaimPhoto
      <3>2. [agent EXCEPT !.left = left] = [agent EXCEPT !.ran = agent.ran, !.left = left]
        BY AgentFields DEF AgentType
      <3> QED
        BY <2>1, <3>1, <3>2
    <2> QED
      BY <2>2, <2>3
  <1>4. /\ agent' \in AgentType /\ agent'.stage = "tools" /\ agent'.left = left
        /\ agent'.paying = agent.paying /\ agent'.made = agent.made
    BY <1>1, <1>3, AgentFields DEF AgentType
  <1>5. PICK again \in Nat :
            again = IF photo.out /\ photo.flying = 0 THEN photo.again + 1 ELSE photo.again
    BY AgentFields
  <1>6. PICK flying \in Nat : flying = photo.flying + 1
    BY AgentFields
  <1>7. /\ photo' \in PhotoType /\ photo'.flying + left <= MaxBatch
        /\ \/ photo' = photo
           \/ ~photo.stored /\ photo'.flying = flying /\ photo'.again = again
    <2>1. CASE photo.stored
      <3>1. photo' = photo
        BY <2>1 DEF ClaimPhoto
      <3> QED
        BY <1>2, <3>1, AgentFields, RoomForTools
    <2>2. CASE ~photo.stored
      <3>1. photo' = [photo EXCEPT !.flying = flying, !.again = again]
        BY <1>5, <1>6, <2>2 DEF ClaimPhoto
      <3>2. flying \in 0..MaxBatch /\ flying + left <= MaxBatch
        BY <1>1, <1>2, <1>6, RoomForTools
      <3> QED
        BY <2>2, <3>1, <3>2, AgentFields DEF PhotoType
    <2> QED
      BY <2>1, <2>2
  <1>8. HandsAreFull'
    BY <1>1, <1>4, <1>7, AgentFields, HandsStayFull
  <1>9. photo.again <= cuts /\ (photo.out /\ ~photo.stored /\ photo.flying = 0 => photo.again + 1 <= cuts)
    BY DEF AgentInv, PhotosCount
  <1>10. photo' # photo => photo'.again <= cuts /\ photo'.flying # 0
    <2>1. SUFFICES ASSUME photo' # photo PROVE photo'.again <= cuts /\ photo'.flying # 0
      OBVIOUS
    <2>2. ~photo.stored /\ photo'.flying = flying /\ photo'.again = again
      BY <1>7, <2>1
    <2>3. photo.flying \in Nat /\ photo.again \in Nat
      BY AgentFields
    <2>4. flying # 0
      BY <1>6, <2>3
    <2>5. again <= cuts
      <3>1. CASE photo.out /\ photo.flying = 0
        BY <1>5, <1>9, <2>2, <3>1
      <3>2. CASE ~(photo.out /\ photo.flying = 0)
        BY <1>5, <1>9, <3>2
      <3> QED
        BY <3>1, <3>2
    <2> QED
      BY <2>2, <2>4, <2>5
  <1>11. PhotosCount'
    BY <1>1, <1>9, <1>10 DEF PhotosCount
  <1>12. cuts' \in 0..MaxCuts /\ turns' \in 0..MaxTurns
    BY <1>1 DEF AgentInv, AgentTypeOK
  <1> QED
    BY <1>1, <1>4, <1>7, <1>8, <1>11, <1>12, AgentMoves

(* The photo goes out or is refused, and its result is kept or costs a cut. *)
LEMMA SendPhotoKeepsAgent == ASSUME AgentInv, SendPhoto PROVE AgentInv'
  <1>1. /\ UNCHANGED <<tickets, saved, payKey, sessions, renewed, turns>>
        /\ agent.stage = "tools"
    BY DEF SendPhoto
  <1>2. PICK flying \in 0..MaxBatch : flying = photo.flying - 1
    BY AgentFields, RoomForTools DEF SendPhoto
  <1>3. PICK sent \in BOOLEAN, kept \in BOOLEAN :
          /\ photo' = [photo EXCEPT !.stored = @ \/ kept, !.flying = @ - 1, !.out = @ \/ sent]
          /\ IF kept THEN UNCHANGED cuts ELSE Cut
    BY DEF SendPhoto
  <1>4. PICK out \in BOOLEAN, stored \in BOOLEAN :
          out = (photo.out \/ sent) /\ stored = (photo.stored \/ kept)
    OBVIOUS
  <1>5. photo' = [photo EXCEPT !.stored = stored, !.flying = flying, !.out = out]
    BY <1>2, <1>3, <1>4
  <1>6. /\ photo' \in PhotoType /\ photo'.stored = stored /\ photo'.again = photo.again
        /\ photo'.flying = flying
    BY <1>5, AgentFields DEF PhotoType
  <1>0. agent.ran + 1 \in Nat
    BY AgentFields
  <1>7. PICK ran \in Nat : agent' = [agent EXCEPT !.ran = ran]
    BY <1>0 DEF SendPhoto
  <1>8. /\ agent' \in AgentType /\ agent'.stage = "tools" /\ agent'.left = agent.left
        /\ agent'.paying = agent.paying /\ agent'.made = agent.made
    BY <1>1, <1>7, AgentFields DEF AgentType
  <1>9. photo'.flying + agent'.left <= MaxBatch
    BY <1>2, <1>6, <1>8, RoomForTools
  <1>10. HandsAreFull'
    BY <1>1, <1>8, <1>9, AgentFields, HandsStayFull
  <1>11. photo.again <= cuts /\ photo.again \in Nat /\ cuts \in 0..MaxCuts /\ MaxCuts \in Nat
    BY AgentNames DEF AgentInv, PhotosCount, AgentTypeOK, PhotoType
  <1>12. cuts' \in 0..MaxCuts /\ PhotosCount'
    <2>1. CASE kept
      <3>1. stored
        BY <1>4, <2>1, Zenon
      <3> QED
        BY <1>3, <1>6, <1>11, <2>1, <3>1 DEF PhotosCount
    <2>2. CASE ~kept
      <3>1. cuts' = cuts + 1 /\ cuts < MaxCuts
        BY <1>3, <2>2 DEF Cut
      <3>2. photo'.again <= cuts' /\ photo'.again + 1 <= cuts'
        BY <1>6, <1>11, <3>1
      <3> QED
        BY <1>11, <3>1, <3>2 DEF PhotosCount
    <2> QED
      BY <2>1, <2>2
  <1>13. turns' \in 0..MaxTurns
    BY <1>1 DEF AgentInv, AgentTypeOK
  <1> QED
    BY <1>1, <1>6, <1>8, <1>10, <1>12, <1>13, AgentMoves

(* The key of the photo expires.                                           *)
LEMMA ExpiryKeepsAgent == ASSUME AgentInv, PhotoKeyExpires PROVE AgentInv'
  <1>1. /\ UNCHANGED <<tickets, saved, payKey, sessions, agent, renewed, cuts, turns>>
        /\ photo' = [photo EXCEPT !.stored = FALSE, !.out = FALSE, !.again = 0]
    BY DEF PhotoKeyExpires
  <1>2. /\ photo' \in PhotoType /\ photo'.out = FALSE /\ photo'.again = 0
        /\ photo'.flying = photo.flying
    BY <1>1, AgentFields DEF PhotoType
  <1>3. HandsAreFull'
    BY <1>1, <1>2 DEF AgentInv, HandsAreFull
  <1>4. PhotosCount'
    BY <1>1, <1>2, AgentFields DEF PhotosCount
  <1>5. cuts' \in 0..MaxCuts /\ turns' \in 0..MaxTurns /\ agent' \in AgentType
        /\ (agent'.stage = "idle" => saved' = tickets)
    BY <1>1 DEF AgentInv, AgentTypeOK, SavedFollows
  <1> QED
    BY <1>1, <1>2, <1>3, <1>4, <1>5, AgentMoves

(* The round of tools ends, or the turn falls back to a reply of its own.  *)
LEMMA RoundEndsKeepAgent == ASSUME AgentInv, ToolsDone \/ FallBackReply PROVE AgentInv'
  <1>1. /\ UNCHANGED <<tickets, payKey, sessions, photo, renewed, cuts, turns>>
        /\ saved' = tickets /\ photo.flying = 0 /\ agent.paying = {}
        /\ \/ agent' = Resting
           \/ agent.left = 0 /\ agent' = [agent EXCEPT !.stage = "model"]
    BY RoomForTools DEF ToolsDone, FallBackReply
  <1>3. /\ agent' \in AgentType /\ agent'.left = 0 /\ agent'.paying = {}
        /\ agent'.made \in {0, agent.made}
    BY <1>1, RestingIsAgent, AgentFields DEF AgentType
  <1>4. 0 \in 0..Len(tickets) /\ photo'.flying + agent'.left <= MaxBatch
    BY <1>1, <1>3, AgentFields, RoomForTools
  <1>5. HandsAreFull'
    BY <1>1, <1>3, <1>4, AgentFields, HandsStayFull
  <1>6. PhotosCount' /\ cuts' \in 0..MaxCuts /\ photo' \in PhotoType /\ turns' \in 0..MaxTurns
    BY <1>1 DEF AgentInv, PhotosCount, AgentTypeOK
  <1> QED
    BY <1>1, <1>3, <1>5, <1>6, AgentMoves

(* The order a payment is for.                                             *)
LEMMA LatestIsThere ==
    ASSUME AgentInv
    PROVE  Latest \in 0..Len(tickets) /\ Latest \in 0..MaxTickets
  <1>1. Unpaid \in SUBSET (0..Len(tickets))
    BY AgentFields DEF Unpaid
  <1>4. Len(tickets) \in Nat /\ 0 \in 0..Len(tickets)
    BY AgentFields
  <1>2. Unpaid # {} => Max(Unpaid) \in Unpaid
    BY <1>1, <1>4, MaxIsThere
  <1>3. Latest \in 0..Len(tickets)
    BY <1>1, <1>2, <1>4 DEF Latest
  <1> QED
    BY <1>3, AgentFields, AgentNames

(* The agent once a request is answered.                                   *)
LEMMA SettledIsAgent ==
    ASSUME AgentInv, NEW q \in agent.paying, Settled(q)
    PROVE  /\ agent.stage = "tools" /\ agent' \in AgentType /\ agent'.stage = "tools"
           /\ agent'.left = agent.left /\ agent'.made = agent.made
           /\ agent'.paying = agent.paying \ {q} /\ q.key \in PayKeys /\ q.order \in 0..Len(tickets)
  <1>1. PICK ran \in Nat : ran = agent.ran + 1
    BY AgentFields
  <1>2. PICK paying \in SUBSET PayRequest : paying = agent.paying \ {q}
    BY AgentFields
  <1>3. agent' = [agent EXCEPT !.ran = ran, !.paying = paying] /\ agent.stage = "tools"
    BY <1>1, <1>2 DEF Settled
  <1>4. agent' \in AgentType /\ agent'.stage = agent.stage
        /\ agent'.left = agent.left /\ agent'.made = agent.made /\ agent'.paying = paying
    BY <1>3, AgentFields DEF AgentType
  <1>5. q \in PayRequest /\ q.order \in 0..Len(tickets)
    BY AgentFields DEF AgentInv, HandsAreFull
  <1> QED
    BY <1>2, <1>3, <1>4, <1>5 DEF PayRequest

(* The payment tool is refused.                                            *)
LEMMA RefusalKeepsAgent == ASSUME AgentInv, NEW q \in agent.paying, PaymentRefused(q) PROVE AgentInv'
  <1>1. UNCHANGED <<tickets, saved, payKey, sessions, photo, renewed, turns, cuts>> /\ Settled(q)
    BY DEF PaymentRefused
  <1>2. /\ agent' \in AgentType /\ agent'.stage = "tools" /\ agent'.left = agent.left
        /\ agent'.made = agent.made /\ agent'.paying \subseteq agent.paying
    BY <1>1, SettledIsAgent
  <1>3. photo'.flying + agent'.left <= MaxBatch
    BY <1>1, <1>2, RoomForTools
  <1>4. HandsAreFull'
    BY <1>1, <1>2, <1>3, AgentFields, HandsStayFull
  <1>5. PhotosCount' /\ cuts' \in 0..MaxCuts /\ photo' \in PhotoType /\ turns' \in 0..MaxTurns
    BY <1>1 DEF AgentInv, PhotosCount, AgentTypeOK
  <1> QED
    BY <1>1, <1>2, <1>4, <1>5, AgentMoves

(* The sessions of a payment are at most one more than its renewals.       *)
LEMMA CountsAreBound ==
    ASSUME AgentInv, NEW k \in PayKeys
    PROVE  /\ Cardinality(RequestedFor(k)) \in Nat /\ renewed[k] \in Nat
           /\ Cardinality(RequestedFor(k)) <= 1 + renewed[k]
           /\ k \notin payKey => Cardinality(RequestedFor(k)) <= renewed[k]
  BY SessionsAreCounted, AgentFields DEF AgentInv, KeysCount

(* The key of a payment is claimed.                                        *)
LEMMA ClaimKeepsAgent == ASSUME AgentInv, NEW k \in PayKeys, ClaimPayment(k) PROVE AgentInv'
  <1>1. /\ UNCHANGED <<tickets, saved, sessions, photo, renewed, turns, cuts>>
        /\ agent.stage = "tools" /\ agent.left > 0 /\ payKey' = payKey \cup {k}
    BY DEF ClaimPayment, Starts
  <1>2. /\ Answered \in AgentType /\ Answered.stage = "tools" /\ Answered.left = agent.left - 1
        /\ Answered.paying = agent.paying /\ Answered.made = agent.made
    BY <1>1, AnsweredIsAgent
  <1>3. PICK q : q = [key |-> k, order |-> Latest]
    OBVIOUS
  <1>4. q \in PayRequest /\ q.key = k /\ q.order \in 0..Len(tickets)
    BY <1>3, LatestIsThere DEF PayRequest
  <1>5. \/ agent' = Answered
        \/ /\ k \notin payKey
           /\ agent' = [agent EXCEPT !.left = @ - 1, !.paying = @ \cup {q}]
    BY <1>3 DEF ClaimPayment, Requests
  <1>6. /\ agent' \in AgentType /\ agent'.stage = "tools" /\ agent'.left = agent.left - 1
        /\ agent'.made = agent.made
        /\ \/ agent'.paying = agent.paying
           \/ k \notin payKey /\ agent'.paying = agent.paying \cup {q}
    <2>1. CASE agent' = Answered
      BY <1>2, <2>1
    <2>2. CASE k \notin payKey /\ agent' = [agent EXCEPT !.left = @ - 1, !.paying = @ \cup {q}]
      <3>1. PICK left \in 0..MaxBatch : left = agent.left - 1
        BY <1>1, AgentFields, AgentNames
      <3>2. PICK paying \in SUBSET PayRequest : paying = agent.paying \cup {q}
        BY <1>4, AgentFields
      <3>3. agent' = [agent EXCEPT !.left = left, !.paying = paying]
        BY <2>2, <3>1, <3>2
      <3> QED
        BY <1>1, <2>2, <3>1, <3>2, <3>3, AgentFields DEF AgentType
    <2> QED
      BY <1>5, <2>1, <2>2
  <1>7. AgentTypeOK'
    BY <1>1, <1>6, AgentFields DEF AgentInv, AgentTypeOK
  <1>8. photo'.flying + agent'.left <= MaxBatch
    BY <1>1, <1>6, RoomForTools
  <1>9. HandsAreFull'
    BY <1>1, <1>4, <1>6, <1>8 DEF AgentInv, HandsAreFull
  <1>10. SavedFollows' /\ SessionsAreNamed' /\ PhotosCount'
    BY <1>1, <1>6 DEF AgentInv, SavedFollows, SessionsAreNamed, PhotosCount
  <1>11. KeysCount'
    BY <1>1 DEF AgentInv, KeysCount, RequestedFor
  <1>12. RequestsCount'
    <2>1. \A j \in PayKeys : RequestedFor(j)' = RequestedFor(j)
      BY <1>1 DEF RequestedFor
    <2>2. k \notin payKey => Cardinality(RequestedFor(k)) <= renewed[k]
      BY CountsAreBound
    <2>3. /\ \A p \in agent.paying : HoldsItsKey(p) /\ p.key \in PayKeys
          /\ \A p, o \in agent.paying : p.key = o.key => p = o
      BY AgentFields DEF AgentInv, RequestsCount, PayRequest
    <2>4. ASSUME NEW p \in agent.paying PROVE HoldsItsKey(p)'
      BY <1>1, <2>1, <2>3 DEF HoldsItsKey
    <2>5. CASE agent'.paying = agent.paying
      BY <2>3, <2>4, <2>5 DEF RequestsCount
    <2>6. CASE k \notin payKey /\ agent'.paying = agent.paying \cup {q}
      <3>1. HoldsItsKey(q)'
        BY <1>1, <1>4, <2>1, <2>2, <2>6 DEF HoldsItsKey
      <3>2. \A p \in agent.paying : p.key # q.key
        BY <1>4, <2>3, <2>6 DEF HoldsItsKey
      <3> QED
        BY <2>3, <2>4, <2>6, <3>1, <3>2 DEF RequestsCount
    <2> QED
      BY <1>6, <2>5, <2>6
  <1> QED
    BY <1>7, <1>9, <1>10, <1>11, <1>12 DEF AgentInv

(* The order tool.                                                         *)
LEMMA CreateKeepsAgent == ASSUME AgentInv, NEW basket \in Baskets, CreateOrder(basket) PROVE AgentInv'
  <1>1. /\ UNCHANGED <<saved, payKey, sessions, photo, renewed, turns, cuts>>
        /\ agent.stage = "tools" /\ agent.left > 0
    BY DEF CreateOrder, Starts
  <1>2. CASE Same(basket) # {}
    <2>1. RefuseOrder
      BY <1>2 DEF CreateOrder, RefuseOrder
    <2> QED
      BY <2>1, AnswerKeepsAgent
  <1>3. CASE Same(basket) = {}
    <2>1. PICK t : t = [basket |-> basket, status |-> "pending", checkout |-> 0]
      OBVIOUS
    <2>2. /\ Len(tickets) < MaxTickets /\ tickets' = Append(tickets, t)
          /\ agent' = [Answered EXCEPT !.made = Len(tickets')]
      BY <1>3, <2>1 DEF CreateOrder
    <2>3. t \in Ticket
      BY <2>1, AgentNames DEF Ticket
    <2>4. /\ tickets' \in Seq(Ticket) /\ Len(tickets') = Len(tickets) + 1
          /\ DOMAIN tickets' = 1..(Len(tickets) + 1)
          /\ \A i \in DOMAIN tickets : i \in DOMAIN tickets' /\ tickets'[i] = tickets[i]
      BY <2>2, <2>3, AgentFields, AppendProperties
    <2>5. Len(tickets) \in Nat /\ Len(tickets') \in 0..MaxTickets
      BY <2>2, <2>4, AgentFields, AgentNames
    <2>6. /\ agent' \in AgentType /\ agent'.stage = "tools" /\ agent'.left = agent.left - 1
          /\ agent'.paying = agent.paying /\ agent'.made = Len(tickets')
      BY <1>1, <2>2, <2>5, AnsweredIsAgent DEF AgentType
    <2>7. AgentTypeOK'
      BY <1>1, <2>4, <2>6 DEF AgentInv, AgentTypeOK
    <2>8. photo'.flying + agent'.left <= MaxBatch /\ 0 \in 0..Len(tickets')
          /\ Len(tickets') \in 0..Len(tickets') /\ Len(tickets') >= Len(tickets)
      BY <1>1, <2>4, <2>5, <2>6, RoomForTools
    <2>9. HandsAreFull'
      BY <2>5, <2>6, <2>8, HandsStayFull
    <2>10. SavedFollows'
      BY <1>1, <2>4, <2>5, <2>6, AgentFields, AgentNames DEF AgentInv, SavedFollows
    <2>11. SessionsAreNamed' /\ PhotosCount'
      BY <1>1, <2>4 DEF AgentInv, SessionsAreNamed, PhotosCount
    <2>12. KeysCount' /\ RequestsCount'
      BY <1>1, <2>6 DEF AgentInv, KeysCount, RequestsCount, HoldsItsKey, RequestedFor
    <2> QED
      BY <2>7, <2>9, <2>10, <2>11, <2>12 DEF AgentInv
  <1> QED
    BY <1>2, <1>3

(* Recording the newest session on its order changes nothing else.         *)
LEMMA RecordingTickets ==
    ASSUME AgentInv, NEW order \in 0..Len(tickets), Len(sessions) < MaxSessions
    PROVE  /\ Recorded(order) \in Seq(Ticket) /\ Len(Recorded(order)) = Len(tickets)
           /\ DOMAIN Recorded(order) = DOMAIN tickets
           /\ \A i \in DOMAIN tickets :
                 Recorded(order)[i].checkout = IF i = order THEN Len(sessions) + 1
                                                            ELSE tickets[i].checkout
  <1>1. tickets \in Seq(Ticket) /\ Len(tickets) \in Nat /\ Len(sessions) + 1 \in 0..MaxSessions
    BY AgentFields, AgentNames
  <1>2. CASE order = 0
    BY <1>1, <1>2 DEF Recorded
  <1>3. CASE order # 0
    <2>1. order \in DOMAIN tickets /\ tickets[order] \in Ticket
      BY <1>1, <1>3
    <2>2. PICK t : t = [tickets[order] EXCEPT !.checkout = Len(sessions) + 1]
      OBVIOUS
    <2>3. t \in Ticket /\ t.checkout = Len(sessions) + 1
      BY <1>1, <2>1, <2>2 DEF Ticket
    <2>4. Recorded(order) = [tickets EXCEPT ![order] = t]
      BY <1>3, <2>1, <2>2 DEF Recorded
    <2>5. /\ Recorded(order) \in Seq(Ticket) /\ Len(Recorded(order)) = Len(tickets)
          /\ DOMAIN Recorded(order) = DOMAIN tickets
      BY <1>1, <2>1, <2>3, <2>4, ExceptSeq
    <2> QED
      BY <2>1, <2>3, <2>4, <2>5
  <1> QED
    BY <1>2, <1>3

(* A session is opened: one more for its payment, and none for the others. *)
LEMMA OpeningSessions ==
    ASSUME AgentInv, NEW key \in PayKeys \cup {Automatic}, NEW order \in 0..Len(tickets),
           NEW sure \in BOOLEAN, Opens(key, order, sure)
    PROVE  /\ sessions' \in Seq(PaySession) /\ Len(sessions) < MaxSessions
           /\ DOMAIN sessions' = 1..(Len(sessions) + 1)
           /\ \A i \in DOMAIN sessions : sessions'[i] = sessions[i]
           /\ sessions'[Len(sessions) + 1].order = order
           /\ sessions'[Len(sessions) + 1].sure = sure
           /\ \A k \in PayKeys : k # key =>
                 Cardinality(RequestedFor(k)') = Cardinality(RequestedFor(k))
           /\ \A k \in PayKeys :
                 /\ Cardinality(RequestedFor(k)') \in Nat
                 /\ Cardinality(RequestedFor(k)') <= Cardinality(RequestedFor(k)) + 1
  <1>1. PICK s : s = [key |-> key, order |-> order, sure |-> sure]
    OBVIOUS
  <1>2. Len(sessions) < MaxSessions /\ sessions' = Append(sessions, s)
    BY <1>1 DEF Opens
  <1>3. order \in 0..MaxTickets
    BY AgentFields, AgentNames
  <1>4. s \in PaySession /\ s.key = key /\ s.order = order /\ s.sure = sure
    BY <1>1, <1>3 DEF PaySession
  <1>5. sessions \in Seq(PaySession) /\ Len(sessions) \in Nat /\ DOMAIN sessions = 1..Len(sessions)
    BY AgentFields
  <1>6. /\ sessions' \in Seq(PaySession) /\ DOMAIN sessions' = 1..(Len(sessions) + 1)
        /\ \A i \in 1..Len(sessions) : sessions'[i] = sessions[i]
        /\ sessions'[Len(sessions) + 1] = s
    BY <1>2, <1>4, <1>5, AppendProperties
  <1>7. ASSUME NEW k \in PayKeys
        PROVE  /\ k # key => Cardinality(RequestedFor(k)') = Cardinality(RequestedFor(k))
               /\ Cardinality(RequestedFor(k)') \in Nat
               /\ Cardinality(RequestedFor(k)') <= Cardinality(RequestedFor(k)) + 1
    <2>1. RequestedFor(k)' = IF k = key THEN RequestedFor(k) \cup {Len(sessions) + 1}
                                        ELSE RequestedFor(k)
      <3>1. \A i \in 1..(Len(sessions) + 1) :
               i \in 1..Len(sessions) \/ i = Len(sessions) + 1
        BY <1>5
      <3>2. RequestedFor(k)' = {i \in 1..(Len(sessions) + 1) : sessions'[i].key = k}
        BY <1>6 DEF RequestedFor
      <3>3. RequestedFor(k) = {i \in 1..Len(sessions) : sessions[i].key = k}
        BY <1>5 DEF RequestedFor
      <3>4. 1..Len(sessions) \subseteq 1..(Len(sessions) + 1)
            /\ Len(sessions) + 1 \in 1..(Len(sessions) + 1)
        BY <1>5
      <3>5. \A i \in 1..Len(sessions) : sessions'[i].key = sessions[i].key
        BY <1>5, <1>6
      <3> QED
        BY <1>4, <1>6, <3>1, <3>2, <3>3, <3>4, <3>5
    <2>2. Len(sessions) + 1 \notin RequestedFor(k)
      BY <1>5 DEF RequestedFor
    <2>3. Cardinality(RequestedFor(k) \cup {Len(sessions) + 1}) = Cardinality(RequestedFor(k)) + 1
      BY <2>2, SessionsAreCounted, FS_AddElement
    <2> QED
      BY <2>1, <2>3, SessionsAreCounted
  <1> QED
    BY <1>2, <1>4, <1>5, <1>6, <1>7

(* A session opened for an order, and recorded on it when it is sure,      *)
(* leaves every session on its order.                                      *)
LEMMA OpenedStayNamed ==
    ASSUME AgentInv, NEW key \in PayKeys \cup {Automatic}, NEW order \in 0..Len(tickets),
           NEW sure \in BOOLEAN, Opens(key, order, sure),
           sure => tickets' = Recorded(order), ~sure => tickets' = tickets
    PROVE  /\ SessionsAreNamed' /\ tickets' \in Seq(Ticket) /\ Len(tickets') = Len(tickets)
  <1>1. /\ Len(sessions) < MaxSessions /\ DOMAIN sessions' = 1..(Len(sessions) + 1)
        /\ \A i \in DOMAIN sessions : sessions'[i] = sessions[i]
        /\ sessions'[Len(sessions) + 1].order = order
        /\ sessions'[Len(sessions) + 1].sure = sure
    BY OpeningSessions
  <1>2. /\ sessions \in Seq(PaySession) /\ Len(sessions) \in Nat
        /\ DOMAIN sessions = 1..Len(sessions)
    BY AgentFields
  <1>3. /\ \A s \in 1..(Len(sessions) + 1) : s \in DOMAIN sessions \/ s = Len(sessions) + 1
        /\ \A s \in DOMAIN sessions : s <= Len(sessions) + 1
        /\ Len(sessions) + 1 <= Len(sessions) + 1
    BY <1>2
  <1>4. CASE sure
    <2>1. /\ tickets' \in Seq(Ticket) /\ Len(tickets') = Len(tickets)
          /\ DOMAIN tickets' = DOMAIN tickets
          /\ \A i \in DOMAIN tickets :
                tickets'[i].checkout = IF i = order THEN Len(sessions) + 1
                                                    ELSE tickets[i].checkout
      BY <1>1, <1>4, RecordingTickets
    <2>2. order # 0 => order \in DOMAIN tickets
      BY AgentFields
    <2> QED
      BY <1>1, <1>3, <2>1, <2>2 DEF AgentInv, SessionsAreNamed
  <1>5. CASE ~sure
    <2>1. tickets' = tickets
      BY <1>5
    <2> QED
      BY <1>1, <1>3, <1>5, <2>1, AgentFields DEF AgentInv, SessionsAreNamed
  <1> QED
    BY <1>4, <1>5

(* A requested payment gets its session.                                   *)
LEMMA OpenedKeepsAgent ==
    ASSUME AgentInv, NEW q \in agent.paying, NEW sure \in BOOLEAN,
           Opens(q.key, q.order, sure),
           sure => tickets' = Recorded(q.order), ~sure => tickets' = tickets,
           UNCHANGED <<saved, payKey, photo, renewed, turns, cuts>>, Settled(q)
    PROVE  AgentInv'
  <1>3. /\ agent.stage = "tools" /\ agent' \in AgentType /\ agent'.stage = "tools"
        /\ agent'.left = agent.left /\ agent'.made = agent.made
        /\ agent'.paying = agent.paying \ {q} /\ q.key \in PayKeys /\ q.order \in 0..Len(tickets)
    BY SettledIsAgent
  <1>1. q.key \in PayKeys \cup {Automatic} /\ q.order \in 0..Len(tickets)
    BY <1>3
  <1>4. /\ sessions' \in Seq(PaySession)
        /\ \A k \in PayKeys : k # q.key =>
              Cardinality(RequestedFor(k)') = Cardinality(RequestedFor(k))
        /\ \A k \in PayKeys :
              /\ Cardinality(RequestedFor(k)') \in Nat
              /\ Cardinality(RequestedFor(k)') <= Cardinality(RequestedFor(k)) + 1
    BY <1>1, OpeningSessions
  <1>5. SessionsAreNamed' /\ tickets' \in Seq(Ticket) /\ Len(tickets') = Len(tickets)
    BY <1>1, OpenedStayNamed
  <1>6. AgentTypeOK'
    BY <1>3, <1>4, <1>5 DEF AgentInv, AgentTypeOK
  <1>7. photo'.flying + agent'.left <= MaxBatch
    BY <1>3, RoomForTools
  <1>8. HandsAreFull'
    BY <1>3, <1>5, <1>7, AgentFields, HandsStayFull
  <1>9. SavedFollows' /\ PhotosCount'
    BY <1>3, <1>5 DEF AgentInv, SavedFollows, PhotosCount
  <1>10. /\ \A p \in agent.paying : HoldsItsKey(p) /\ p.key \in PayKeys
         /\ \A p, o \in agent.paying : p.key = o.key => p = o
    BY AgentFields DEF AgentInv, RequestsCount, PayRequest
  <1>11. KeysCount'
    <2> SUFFICES ASSUME NEW k \in PayKeys
                 PROVE  /\ Cardinality(RequestedFor(k)') <= 1 + renewed[k]
                        /\ k \notin payKey => Cardinality(RequestedFor(k)') <= renewed[k]
      BY DEF KeysCount
    <2>1. CASE k = q.key
      <3>1. k \in payKey /\ Cardinality(RequestedFor(k)) <= renewed[k]
        BY <1>10, <2>1 DEF HoldsItsKey
      <3>2. /\ Cardinality(RequestedFor(k)') \in Nat
            /\ Cardinality(RequestedFor(k)') <= Cardinality(RequestedFor(k)) + 1
        BY <1>4
      <3>3. Cardinality(RequestedFor(k)) \in Nat /\ renewed[k] \in Nat
        BY CountsAreBound
      <3> QED
        BY <3>1, <3>2, <3>3
    <2>2. CASE k # q.key
      <3>1. Cardinality(RequestedFor(k)') = Cardinality(RequestedFor(k))
        BY <1>4, <2>2
      <3> QED
        BY <3>1, CountsAreBound
    <2> QED
      BY <2>1, <2>2
  <1>12. RequestsCount'
    <2>1. ASSUME NEW p \in agent'.paying PROVE HoldsItsKey(p)'
      <3>1. p \in agent.paying /\ p.key # q.key /\ p.key \in PayKeys /\ HoldsItsKey(p)
        BY <1>3, <1>10, <2>1
      <3>2. Cardinality(RequestedFor(p.key)') = Cardinality(RequestedFor(p.key))
        BY <1>4, <3>1
      <3> QED
        BY <3>1, <3>2 DEF HoldsItsKey
    <2> QED
      BY <1>3, <1>10, <2>1 DEF RequestsCount
  <1> QED
    BY <1>5, <1>6, <1>8, <1>9, <1>11, <1>12 DEF AgentInv

(* The provider opens a session; its answer is recorded, or lost.          *)
LEMMA StartKeepsAgent ==
    ASSUME AgentInv, NEW q \in agent.paying, PaymentStarted(q) \/ PaymentLost(q)
    PROVE  AgentInv'
  <1>1. UNCHANGED <<saved, payKey, photo, renewed, turns, cuts>> /\ Settled(q)
    BY DEF PaymentStarted, PaymentLost
  <1>2. CASE PaymentStarted(q)
    <2>1. Opens(q.key, q.order, TRUE) /\ tickets' = Recorded(q.order)
      BY <1>2 DEF PaymentStarted
    <2> QED
      BY <1>1, <2>1, OpenedKeepsAgent
  <1>3. CASE PaymentLost(q)
    <2>1. Opens(q.key, q.order, FALSE) /\ tickets' = tickets
      BY <1>3 DEF PaymentLost
    <2> QED
      BY <1>1, <2>1, OpenedKeepsAgent
  <1> QED
    BY <1>2, <1>3

(* The payment succeeds.                                                   *)
LEMMA PaymentsEnd ==
    ASSUME AgentInv, NEW i \in DOMAIN saved, Paid(i)
    PROVE  AgentInv'
  <1>1. /\ i \in DOMAIN tickets /\ saved' = [saved EXCEPT ![i].status = "paid"]
        /\ tickets' = [tickets EXCEPT ![i].status = "paid"]
        /\ UNCHANGED <<payKey, sessions, agent, photo, renewed, turns, cuts>>
    BY DEF Paid
  <1>2. tickets \in Seq(Ticket) /\ saved \in Seq(Ticket) /\ tickets[i] \in Ticket /\ saved[i] \in Ticket
    BY <1>1, AgentFields
  <1>3. PICK t, s : t = [tickets[i] EXCEPT !.status = "paid"] /\ s = [saved[i] EXCEPT !.status = "paid"]
    OBVIOUS
  <1>4. t \in Ticket /\ s \in Ticket /\ t.checkout = tickets[i].checkout
    BY <1>2, <1>3 DEF Ticket
  <1>5. tickets' = [tickets EXCEPT ![i] = t] /\ saved' = [saved EXCEPT ![i] = s]
    BY <1>1, <1>3
  <1>6. /\ tickets' \in Seq(Ticket) /\ Len(tickets') = Len(tickets) /\ DOMAIN tickets' = DOMAIN tickets
        /\ saved' \in Seq(Ticket) /\ Len(saved') = Len(saved)
    <2>1. tickets' \in Seq(Ticket) /\ Len(tickets') = Len(tickets) /\ DOMAIN tickets' = DOMAIN tickets
      <3>1. i \in DOMAIN tickets
        BY <1>1
      <3> QED
        BY <1>2, <1>4, <1>5, <3>1, ExceptSeq
    <2>2. saved' \in Seq(Ticket) /\ Len(saved') = Len(saved)
      BY <1>2, <1>4, <1>5, ExceptSeq
    <2> QED
      BY <2>1, <2>2
  <1>7. \A j \in DOMAIN tickets : tickets'[j].checkout = tickets[j].checkout
    BY <1>2, <1>4, <1>5
  <1>8. AgentTypeOK'
    BY <1>1, <1>6 DEF AgentInv, AgentTypeOK
  <1>9. HandsAreFull' /\ PhotosCount' /\ KeysCount' /\ RequestsCount'
    BY <1>1, <1>6 DEF AgentInv, HandsAreFull, PhotosCount, KeysCount, RequestsCount,
       HoldsItsKey, RequestedFor
  <1>10. saved = tickets => saved' = tickets'
    BY <1>1
  <1>11. SavedFollows'
    BY <1>1, <1>6, <1>10 DEF AgentInv, SavedFollows
  <1>12. SessionsAreNamed'
    BY <1>1, <1>6, <1>7 DEF AgentInv, SessionsAreNamed
  <1> QED
    BY <1>8, <1>9, <1>11, <1>12 DEF AgentInv

(* The key of a payment is forgotten.                                      *)
LEMMA RenewalKeepsAgent == ASSUME AgentInv, NEW k \in PayKeys, PayKeyExpires(k) PROVE AgentInv'
  <1>1. /\ agent.stage = "idle" /\ payKey' = payKey \ {k}
        /\ renewed' = [renewed EXCEPT ![k] = renewed[k] + 1]
        /\ UNCHANGED <<tickets, saved, sessions, photo, agent, turns, cuts>>
    BY DEF PayKeyExpires
  <1>2. renewed[k] \in Nat /\ renewed[k] + 1 \in Nat
    BY AgentFields
  <1>3. payKey' \subseteq PayKeys /\ renewed' \in [PayKeys -> Nat]
    BY <1>1, <1>2, AgentFields
  <1>4. AgentTypeOK'
    BY <1>1, <1>3 DEF AgentInv, AgentTypeOK
  <1>5. HandsAreFull' /\ PhotosCount' /\ SavedFollows' /\ SessionsAreNamed'
    BY <1>1 DEF AgentInv, HandsAreFull, PhotosCount, SavedFollows, SessionsAreNamed
  <1>6. KeysCount'
    <2> SUFFICES ASSUME NEW j \in PayKeys
                 PROVE  /\ Cardinality(RequestedFor(j)) <= 1 + renewed'[j]
                        /\ j \notin payKey' => Cardinality(RequestedFor(j)) <= renewed'[j]
      <3>1. \A j \in PayKeys : RequestedFor(j)' = RequestedFor(j)
        BY <1>1 DEF RequestedFor
      <3> QED
        BY <3>1 DEF KeysCount
    <2>1. /\ renewed'[j] = IF j = k THEN renewed[k] + 1 ELSE renewed[j]
          /\ j # k => (j \in payKey' <=> j \in payKey)
      BY <1>1, AgentFields
    <2>2. CASE j = k
      BY <2>1, <2>2, CountsAreBound
    <2>3. CASE j # k
      BY <2>1, <2>3, CountsAreBound
    <2> QED
      BY <2>2, <2>3
  <1>7. RequestsCount'
    <2>1. agent'.paying = {}
      BY <1>1, RoomForTools
    <2> QED
      BY <2>1 DEF RequestsCount
  <1> QED
    BY <1>4, <1>5, <1>6, <1>7 DEF AgentInv

(* The agent replies, and asks for the money of the order it made when no  *)
(* tool did.                                                               *)
LEMMA ReplyKeepsAgent == ASSUME AgentInv, AgentReplies PROVE AgentInv'
  <1>1. /\ agent.stage = "reply" /\ saved' = tickets' /\ agent' = Resting
        /\ UNCHANGED <<payKey, photo, renewed, turns, cuts>>
    BY DEF AgentReplies
  <1>2. photo'.flying = 0 /\ photo'.flying + agent'.left <= MaxBatch
    BY <1>1, RestingIsAgent, RoomForTools
  <1>3. /\ tickets' \in Seq(Ticket) /\ sessions' \in Seq(PaySession) /\ Len(tickets') = Len(tickets)
        /\ SessionsAreNamed'
        /\ \A k \in PayKeys : Cardinality(RequestedFor(k)') = Cardinality(RequestedFor(k))
    <2>1. CASE UNCHANGED <<tickets, sessions>>
      BY <2>1, AgentFields DEF AgentInv, SessionsAreNamed, RequestedFor
    <2>2. ASSUME NEW sure \in BOOLEAN, Opens(Automatic, agent.made, sure),
                 tickets' = IF sure THEN Recorded(agent.made) ELSE tickets
          PROVE  /\ tickets' \in Seq(Ticket) /\ sessions' \in Seq(PaySession)
                 /\ Len(tickets') = Len(tickets) /\ SessionsAreNamed'
                 /\ \A k \in PayKeys : Cardinality(RequestedFor(k)') = Cardinality(RequestedFor(k))
      <3>1. agent.made \in 0..Len(tickets)
        BY AgentFields
      <3>2. /\ sure => tickets' = Recorded(agent.made)
            /\ ~sure => tickets' = tickets
        BY <2>2
      <3>3. SessionsAreNamed' /\ tickets' \in Seq(Ticket) /\ Len(tickets') = Len(tickets)
        BY <2>2, <3>1, <3>2, OpenedStayNamed
      <3>4. /\ sessions' \in Seq(PaySession)
            /\ \A k \in PayKeys : k # Automatic =>
                  Cardinality(RequestedFor(k)') = Cardinality(RequestedFor(k))
        BY <2>2, <3>1, OpeningSessions
      <3> QED
        BY <3>3, <3>4, AgentNames
    <2> QED
      BY <2>1, <2>2 DEF AgentReplies
  <1>4. AgentTypeOK'
    BY <1>1, <1>3, RestingIsAgent DEF AgentInv, AgentTypeOK
  <1>0. agent'.made = 0 /\ agent'.paying = {} /\ Len(tickets) \in Nat
    BY <1>1, RestingIsAgent, AgentFields
  <1>5. HandsAreFull'
    BY <1>0, <1>2, <1>3, HandsStayFull
  <1>6. SavedFollows'
    BY <1>1, <1>3, AgentFields DEF AgentInv, SavedFollows
  <1>7. KeysCount' /\ RequestsCount'
    BY <1>0, <1>1, <1>3 DEF AgentInv, KeysCount, RequestsCount
  <1>8. PhotosCount'
    BY <1>1 DEF AgentInv, PhotosCount
  <1> QED
    BY <1>3, <1>4, <1>5, <1>6, <1>7, <1>8 DEF AgentInv

(* What a failed attempt leaves of its sessions: the same payments and     *)
(* orders, and no more sure of any.                                        *)
LEMMA ForgettingSessions ==
    ASSUME AgentInv, NEW kept \in BOOLEAN
    PROVE  /\ Forget(kept) \in Seq(PaySession) /\ Len(Forget(kept)) = Len(sessions)
           /\ DOMAIN Forget(kept) = DOMAIN sessions
           /\ \A i \in DOMAIN sessions :
                 /\ Forget(kept)[i].key = sessions[i].key
                 /\ Forget(kept)[i].order = sessions[i].order
                 /\ Forget(kept)[i].sure => sessions[i].sure /\ (kept \/ InSaved(i))
  <1>1. sessions \in Seq(PaySession) /\ Len(sessions) \in Nat /\ DOMAIN sessions = 1..Len(sessions)
    BY AgentFields
  <1>2. ASSUME NEW i \in DOMAIN sessions
        PROVE  /\ Forget(kept)[i] \in PaySession
               /\ Forget(kept)[i].key = sessions[i].key
               /\ Forget(kept)[i].order = sessions[i].order
               /\ Forget(kept)[i].sure => sessions[i].sure /\ (kept \/ InSaved(i))
    <2>1. PICK sure \in BOOLEAN : sure = (sessions[i].sure /\ (kept \/ InSaved(i)))
      OBVIOUS
    <2>2. Forget(kept)[i] = [sessions[i] EXCEPT !.sure = sure]
      BY <2>1 DEF Forget
    <2>3. sessions[i] \in PaySession
      BY <1>1
    <2> QED
      BY <2>1, <2>2, <2>3 DEF PaySession
  <1>3. DOMAIN Forget(kept) = 1..Len(sessions)
    BY <1>1 DEF Forget
  <1>4. Forget(kept) = [i \in 1..Len(sessions) |-> Forget(kept)[i]]
    BY <1>1 DEF Forget
  <1>5. Forget(kept) \in [1..Len(sessions) -> PaySession]
    BY <1>1, <1>2, <1>4
  <1>6. Forget(kept) \in Seq(PaySession) /\ Len(Forget(kept)) = Len(sessions)
    BY <1>1, <1>3, <1>5
  <1> QED
    BY <1>1, <1>2, <1>3, <1>6

(* The photos a cut turn had in flight.                                    *)
LEMMA DroppingPhotos ==
    ASSUME AgentInv, Cut, photo' \in Dropped
    PROVE  photo' \in PhotoType /\ photo'.flying = 0 /\ PhotosCount' /\ cuts' \in 0..MaxCuts
  <1>1. PICK sent \in {FALSE, photo.flying > 0} :
          photo' = [photo EXCEPT !.flying = 0, !.out = photo.out \/ sent]
    BY DEF Dropped
  <1>2. PICK out \in BOOLEAN : out = (photo.out \/ sent)
    OBVIOUS
  <1>3. photo' = [photo EXCEPT !.flying = 0, !.out = out] /\ 0 \in 0..MaxBatch
    BY <1>1, <1>2, AgentNames
  <1>4. /\ photo' \in PhotoType /\ photo'.flying = 0 /\ photo'.again = photo.again
    BY <1>3, AgentFields DEF PhotoType
  <1>5. cuts' = cuts + 1 /\ cuts' \in 0..MaxCuts
    BY AgentFields, AgentNames DEF Cut
  <1>6. photo.again <= cuts
    BY DEF AgentInv, PhotosCount
  <1>7. photo'.again <= cuts' /\ photo'.again + 1 <= cuts'
    BY <1>4, <1>5, <1>6, AgentFields
  <1> QED
    BY <1>4, <1>5, <1>7 DEF PhotosCount

(* A step that cuts the turn short keeps the invariant when the orders and *)
(* the sessions it leaves agree.                                           *)
LEMMA StartingOver ==
    ASSUME AgentInv, Cut, photo' \in Dropped, UNCHANGED <<saved, payKey, renewed, turns>>,
           agent' \in AgentType, agent'.left = 0, agent'.paying = {},
           agent'.made = 0, tickets' = tickets \/ tickets' = saved,
           agent'.stage = "idle" => tickets' = saved,
           sessions' \in Seq(PaySession), SessionsAreNamed',
           \A k \in PayKeys : RequestedFor(k)' = RequestedFor(k)
    PROVE  AgentInv'
  <1>1. tickets' \in Seq(Ticket) /\ Len(tickets') \in 0..MaxTickets /\ Len(saved) <= Len(tickets')
    <2>1. Len(saved) \in 0..MaxTickets /\ Len(saved) <= Len(tickets)
      BY AgentFields, AgentNames DEF AgentInv, SavedFollows
    <2> QED
      BY <2>1, AgentFields, AgentNames
  <1>2. AgentTypeOK'
    BY <1>1, DroppingPhotos DEF AgentInv, AgentTypeOK
  <1>3. 0 \in 0..Len(tickets') /\ photo'.flying + agent'.left <= MaxBatch
    BY <1>1, DroppingPhotos, AgentNames
  <1>4. HandsAreFull'
    BY <1>3, DroppingPhotos DEF HandsAreFull
  <1>5. Len(tickets') <= MaxTickets
    BY <1>1, AgentNames
  <1>6. SavedFollows'
    BY <1>1, <1>5 DEF SavedFollows
  <1>7. KeysCount' /\ RequestsCount'
    BY DEF AgentInv, KeysCount, RequestsCount
  <1> QED
    BY <1>2, <1>4, <1>6, <1>7, DroppingPhotos DEF AgentInv

(* The sessions left by a failed attempt are on the orders it leaves.      *)
LEMMA ForgottenStayNamed ==
    ASSUME AgentInv, NEW kept \in BOOLEAN, sessions' = Forget(kept),
           tickets' = IF kept THEN tickets ELSE saved
    PROVE  /\ sessions' \in Seq(PaySession) /\ SessionsAreNamed'
           /\ \A k \in PayKeys : RequestedFor(k)' = RequestedFor(k)
  <1>1. SessionsAreNamed'
    <2> SUFFICES ASSUME NEW s \in DOMAIN sessions, sessions'[s].sure, sessions'[s].order # 0
                 PROVE  /\ sessions'[s].order \in DOMAIN tickets'
                        /\ tickets'[sessions'[s].order].checkout >= s
      BY ForgettingSessions DEF SessionsAreNamed
    <2>1. /\ sessions'[s].order = sessions[s].order /\ sessions[s].sure
          /\ kept \/ InSaved(s)
      BY ForgettingSessions
    <2>2. CASE kept
      BY <2>1, <2>2 DEF AgentInv, SessionsAreNamed
    <2>3. CASE ~kept
      BY <2>1, <2>3 DEF InSaved
    <2> QED
      BY <2>2, <2>3
  <1> QED
    BY <1>1, ForgettingSessions DEF RequestedFor

(* The agent after a failed attempt.                                       *)
LEMMA FailureIsAgent ==
    /\ AfterFailure \in AgentType /\ AfterFailure.stage # "idle"
    /\ AfterFailure.left = 0 /\ AfterFailure.paying = {} /\ AfterFailure.made = 0
  <1>1. PICK rests : rests = [Resting EXCEPT !.stage = "fallback"]
    OBVIOUS
  <1>2. /\ rests \in AgentType /\ rests.stage # "idle" /\ rests.left = 0
        /\ rests.paying = {} /\ rests.made = 0
    BY <1>1, RestingIsAgent DEF AgentType
  <1>3. AfterFailure = Begins(2) \/ AfterFailure = rests
    BY <1>1 DEF AfterFailure
  <1> QED
    BY <1>2, <1>3, BeginsIsAgent

(* The attempt raises or the process dies.                                 *)
LEMMA RaiseKeepsAgent == ASSUME AgentInv, AttemptRaises \/ TurnDies PROVE AgentInv'
  <1>1. /\ Cut /\ photo' \in Dropped /\ UNCHANGED <<saved, payKey, renewed, turns>>
        /\ tickets' = saved /\ sessions' = Forget(FALSE)
        /\ agent' = AfterFailure \/ agent' = Resting
    BY DEF AttemptRaises, TurnDies
  <1>2. /\ agent' \in AgentType /\ agent'.left = 0 /\ agent'.paying = {} /\ agent'.made = 0
    BY <1>1, FailureIsAgent, RestingIsAgent
  <1>3. /\ sessions' \in Seq(PaySession) /\ SessionsAreNamed'
        /\ \A k \in PayKeys : RequestedFor(k)' = RequestedFor(k)
    BY <1>1, ForgottenStayNamed
  <1> QED
    BY <1>1, <1>2, <1>3, StartingOver

(* The attempt times out.                                                  *)
LEMMA TimeoutKeepsAgent == ASSUME AgentInv, AttemptTimesOut PROVE AgentInv'
  <1>1. PICK kept \in BOOLEAN : /\ tickets' = IF kept THEN tickets ELSE saved
                               /\ sessions' = Forget(kept)
    BY DEF AttemptTimesOut
  <1>2. /\ Cut /\ photo' \in Dropped /\ UNCHANGED <<saved, payKey, renewed, turns>>
        /\ agent' = AfterFailure
    BY DEF AttemptTimesOut
  <1>3. /\ sessions' \in Seq(PaySession) /\ SessionsAreNamed'
        /\ \A k \in PayKeys : RequestedFor(k)' = RequestedFor(k)
    BY <1>1, ForgottenStayNamed
  <1> QED
    BY <1>1, <1>2, <1>3, FailureIsAgent, StartingOver

(* Every reachable state of the agent satisfies its invariant, for any     *)
(* number of turns, tools and cuts.                                        *)
THEOREM AgentInvariance == AgentSpec => []AgentInv
  <1>1. AgentInv /\ [AgentNext]_agentVars => AgentInv'
    <2> SUFFICES ASSUME AgentInv, [AgentNext]_agentVars PROVE AgentInv'
      OBVIOUS
    <2>1. CASE UNCHANGED agentVars
      BY <2>1 DEF agentVars, AgentInv, AgentTypeOK, HandsAreFull, SavedFollows,
         SessionsAreNamed, KeysCount, RequestsCount, HoldsItsKey, RequestedFor, PhotosCount
    <2>2. CASE AgentStep
      BY <2>2, ModelKeepsAgent, AnswerKeepsAgent, ClaimPhotoKeepsAgent, SendPhotoKeepsAgent,
         CreateKeepsAgent, ClaimKeepsAgent, RefusalKeepsAgent, StartKeepsAgent,
         RoundEndsKeepAgent, ReplyKeepsAgent
         DEF AgentStep
    <2> QED
      BY <2>1, <2>2, BeginKeepsAgent, RaiseKeepsAgent, TimeoutKeepsAgent, ExpiryKeepsAgent,
         PaymentsEnd, RenewalKeepsAgent
         DEF AgentNext
  <1> QED
    BY <1>1, AgentStarts, PTL DEF AgentSpec

(* The tools act once, whatever the model calls and wherever the turn is   *)
(* cut: one session for each claim of a payment, of a reference, a phone,  *)
(* a currency and an amount, the newest session whose answer arrived on    *)
(* its order, and one photo more for each cut or result not stored.        *)
THEOREM ToolsStayInHand == AgentSpec => []ToolsActOnce
  <1> QED
    BY AgentInvMeans, AgentInvariance, PTL

-----------------------------------------------------------------------------
\* The rules of a list that apply, and what the first of them says.
Fires(rules) == {i \in DOMAIN rules : rules[i][2]}
(* What the first rule that applies says.                                  *)
First(rules) == rules[Min(Fires(rules))][1]

(* The elements of two lists put together.                                 *)
LEMMA Joined ==
    ASSUME NEW S, NEW s \in Seq(S), NEW t \in Seq(S)
    PROVE  /\ Len(s) \in Nat /\ Len(t) \in Nat /\ DOMAIN s = 1..Len(s) /\ DOMAIN t = 1..Len(t)
           /\ s \o t \in Seq(S)
           /\ DOMAIN (s \o t) = 1..(Len(s) + Len(t))
           /\ \A k \in 1..Len(s) : (s \o t)[k] = s[k]
           /\ \A k \in 1..Len(t) : (s \o t)[Len(s) + k] = t[k]
  BY ConcatProperties

(* The first rule of two lists is the first of the first list, or of the   *)
(* second when none of the first applies.                                  *)
LEMMA FirstOfTwo ==
    ASSUME NEW S, NEW s \in Seq(S), NEW t \in Seq(S), Fires(s \o t) # {}
    PROVE  \/ Fires(s) # {} /\ First(s \o t) = First(s)
           \/ Fires(s) = {} /\ Fires(t) # {} /\ First(s \o t) = First(t)
  <1> DEFINE i == Min(Fires(s \o t))
  <1>1. /\ Len(s) \in Nat /\ Len(t) \in Nat /\ DOMAIN s = 1..Len(s) /\ DOMAIN t = 1..Len(t)
        /\ DOMAIN (s \o t) = 1..(Len(s) + Len(t))
        /\ \A k \in 1..Len(s) : (s \o t)[k] = s[k]
        /\ \A k \in 1..Len(t) : (s \o t)[Len(s) + k] = t[k]
    BY ConcatProperties
  <1>2. Fires(s \o t) \in SUBSET Nat /\ Fires(s) \in SUBSET Nat /\ Fires(t) \in SUBSET Nat
    BY <1>1 DEF Fires
  <1>3. i \in Fires(s \o t) /\ \A k \in Fires(s \o t) : i <= k
    BY <1>2, MinIsThere
  <1>4. CASE Fires(s) # {}
    <2> DEFINE j == Min(Fires(s))
    <2>1. j \in Fires(s) /\ \A k \in Fires(s) : j <= k
      BY <1>2, <1>4, MinIsThere
    <2>2. j \in Fires(s \o t)
      BY <1>1, <2>1 DEF Fires
    <2>3. i <= j /\ i \in 1..Len(s)
      <3>1. i <= j
        BY <1>3, <2>2
      <3>2. i \in 1..(Len(s) + Len(t)) /\ j \in 1..Len(s)
        BY <1>1, <1>3, <2>1 DEF Fires
      <3> HIDE DEF i, j
      <3> QED
        BY <1>1, <3>1, <3>2
    <2>4. i \in Fires(s)
      BY <1>1, <1>3, <2>3 DEF Fires
    <2>5. i = j
      BY <1>2, <2>1, <2>3, <2>4
    <2>6. First(s \o t) = (s \o t)[i][1] /\ First(s) = s[j][1]
      BY DEF First
    <2> HIDE DEF i, j
    <2> QED
      BY <1>1, <1>4, <2>3, <2>5, <2>6
  <1>5. CASE Fires(s) = {}
    <2>1. i \in 1..(Len(s) + Len(t)) /\ ~(i \in 1..Len(s))
      BY <1>1, <1>3, <1>5 DEF Fires
    <2>2. PICK k \in 1..Len(t) : i = Len(s) + k
      <3> HIDE DEF i
      <3>1. i - Len(s) \in 1..Len(t) /\ i = Len(s) + (i - Len(s))
        BY <1>1, <2>1
      <3> QED
        BY <3>1
    <2>3. k \in Fires(t)
      BY <1>1, <1>3, <2>2 DEF Fires
    <2> DEFINE j == Min(Fires(t))
    <2>4. j \in Fires(t) /\ \A l \in Fires(t) : j <= l
      BY <1>2, <2>3, MinIsThere
    <2>5. Len(s) + j \in Fires(s \o t)
      BY <1>1, <2>4 DEF Fires
    <2>6. Len(s) + k <= Len(s) + j
      BY <1>3, <2>2, <2>5
    <2>7. j = k
      BY <1>1, <1>2, <2>3, <2>4, <2>6
    <2>8. First(s \o t) = (s \o t)[i][1] /\ First(t) = t[j][1]
      BY DEF First
    <2> HIDE DEF i, j
    <2> QED
      BY <1>1, <1>5, <2>2, <2>3, <2>7, <2>8
  <1> QED
    BY <1>4, <1>5

(* The first rule applies, and none before it does.                        *)
LEMMA FirstFires ==
    ASSUME NEW S, NEW s \in Seq(S), Fires(s) # {}
    PROVE  \E i \in Fires(s) : /\ i \in 1..Len(s) /\ First(s) = s[i][1]
                               /\ \A j \in Fires(s) : i <= j
  <1> DEFINE i == Min(Fires(s))
  <1>1. DOMAIN s = 1..Len(s) /\ Fires(s) \in SUBSET (1..Len(s)) /\ Fires(s) \in SUBSET Nat
    BY DEF Fires
  <1>2. i \in Fires(s) /\ \A k \in Fires(s) : i <= k
    BY <1>1, MinIsThere
  <1>3. First(s) = s[i][1]
    BY DEF First
  <1> HIDE DEF i
  <1> QED
    BY <1>1, <1>2, <1>3

(* The rules of the chat are lists of rules.                               *)
LEMMA RulesAreLists ==
    ASSUME NEW m, NEW d
    PROVE  \E S : /\ Desk(m) \in Seq(S) /\ Gate(m, d) \in Seq(S) /\ Interrupts(m, d) \in Seq(S)
                  /\ DraftRules(m, d) \in Seq(S) /\ OrderRules(m) \in Seq(S) /\ LastRules \in Seq(S)
                  /\ Len(Desk(m)) = 2 /\ Len(Gate(m, d)) = 5 /\ Len(Interrupts(m, d)) = 6
                  /\ Len(DraftRules(m, d)) = 5 /\ Len(OrderRules(m)) = 5 /\ Len(LastRules) = 1
  <1>1. PICK a1, a2 : Desk(m) = <<a1, a2>>
    BY DEF Desk
  <1>2. PICK b1, b2, b3, b4, b5 : Gate(m, d) = <<b1, b2, b3, b4, b5>>
    BY DEF Gate
  <1>3. PICK c1, c2, c3, c4, c5, c6 : Interrupts(m, d) = <<c1, c2, c3, c4, c5, c6>>
    BY DEF Interrupts
  <1>4. PICK d1, d2, d3, d4, d5 : DraftRules(m, d) = <<d1, d2, d3, d4, d5>>
    BY DEF DraftRules
  <1>5. PICK e1, e2, e3, e4, e5 : OrderRules(m) = <<e1, e2, e3, e4, e5>>
    BY DEF OrderRules
  <1>6. PICK f1 : LastRules = <<f1>>
    BY DEF LastRules
  <1> DEFINE S == {a1, a2, b1, b2, b3, b4, b5, c1, c2, c3, c4, c5, c6,
                   d1, d2, d3, d4, d5, e1, e2, e3, e4, e5, f1}
  <1>7. Desk(m) \in Seq(S) /\ Len(Desk(m)) = 2 /\ LastRules \in Seq(S) /\ Len(LastRules) = 1
    BY <1>1, <1>6
  <1>8. Gate(m, d) \in Seq(S) /\ Len(Gate(m, d)) = 5
    BY <1>2
  <1>9. Interrupts(m, d) \in Seq(S) /\ Len(Interrupts(m, d)) = 6
    BY <1>3
  <1>10. DraftRules(m, d) \in Seq(S) /\ Len(DraftRules(m, d)) = 5
    BY <1>4
  <1>11. OrderRules(m) \in Seq(S) /\ Len(OrderRules(m)) = 5
    BY <1>5
  <1> HIDE DEF S
  <1> QED
    BY <1>7, <1>8, <1>9, <1>10, <1>11


(* The desk answers without moving a draft.                                *)
LEMMA DeskSays ==
    ASSUME NEW m, NEW i \in 1..2
    PROVE  Desk(m)[i][1] \in {"drop", "aside"}
  <1>1. i = 1 \/ i = 2
    OBVIOUS
  <1>2. Desk(m)[1][1] = "drop" /\ Desk(m)[2][1] = "aside"
    BY DEF Desk
  <1> QED
    BY <1>1, <1>2

(* The gate answers without moving a draft.                                *)
LEMMA GateSays ==
    ASSUME NEW m, NEW d, NEW i \in 1..5
    PROVE  Gate(m, d)[i][1] \in {"resend", "clear", "drop", "aside"}
  <1>1. i = 1 \/ i = 2 \/ i = 3 \/ i = 4 \/ i = 5
    OBVIOUS
  <1>2. /\ Gate(m, d)[1][1] = "resend" /\ Gate(m, d)[2][1] = "clear"
        /\ Gate(m, d)[3][1] = "resend" /\ Gate(m, d)[4][1] = "aside"
        /\ Gate(m, d)[5][1] = "drop"
    BY DEF Gate
  <1> QED
    BY <1>1, <1>2

(* A form that interrupts names its box, and a pause has a draft.          *)
LEMMA InterruptSays ==
    ASSUME NEW m, NEW d, NEW i \in 1..6, i \in Fires(Interrupts(m, d))
    PROVE  \/ Interrupts(m, d)[i][1] \in {"aside", "catalog", "drop"}
           \/ Interrupts(m, d)[i][1] = "submit" /\ m.box # None
           \/ Interrupts(m, d)[i][1] = "pause" /\ d # None
  <1>1. i = 1 \/ i = 2 \/ i = 3 \/ i = 4 \/ i = 5 \/ i = 6
    OBVIOUS
  <1>2. /\ Interrupts(m, d)[1][1] = "aside" /\ Interrupts(m, d)[2][1] = "aside"
        /\ Interrupts(m, d)[3][1] = "catalog" /\ Interrupts(m, d)[4][1] = "submit"
        /\ Interrupts(m, d)[5][1] = "drop" /\ Interrupts(m, d)[6][1] = "pause"
    BY DEF Interrupts
  <1>3. 4 \in Fires(Interrupts(m, d)) => m.box # None
    <2>1. Interrupts(m, d)[4][2] => m.box # None
      BY DEF Interrupts
    <2>2. 4 \in DOMAIN Interrupts(m, d)
      BY DEF Interrupts
    <2> QED
      BY <2>1, <2>2 DEF Fires
  <1>4. 6 \in Fires(Interrupts(m, d)) => d # None
    <2>1. Interrupts(m, d)[6][2] => d # None
      BY DEF Interrupts
    <2>2. 6 \in DOMAIN Interrupts(m, d)
      BY DEF Interrupts
    <2> QED
      BY <2>1, <2>2 DEF Fires
  <1> QED
    BY <1>1, <1>2, <1>3, <1>4

(* A draft is moved by its own rules, and confirmed when it waits for      *)
(* that.                                                                   *)
LEMMA DraftSays ==
    ASSUME NEW m, NEW d, NEW i \in 1..5, i \in Fires(DraftRules(m, d)),
           \A j \in Fires(DraftRules(m, d)) : i <= j
    PROVE  \/ DraftRules(m, d)[i][1] = "edit" /\ d # None /\ m.edit # None
           \/ DraftRules(m, d)[i][1] \in {"back", "reopen"} /\ d # None
           \/ DraftRules(m, d)[i][1] = "answer" /\ d # None /\ d.step # "confirm"
           \/ DraftRules(m, d)[i][1] = "confirm" /\ d # None /\ d.step = "confirm"
  <1>1. i = 1 \/ i = 2 \/ i = 3 \/ i = 4 \/ i = 5
    OBVIOUS
  <1>2. /\ DraftRules(m, d)[1][1] = "edit" /\ DraftRules(m, d)[2][1] = "back"
        /\ DraftRules(m, d)[3][1] = "answer" /\ DraftRules(m, d)[4][1] = "confirm"
        /\ DraftRules(m, d)[5][1] = "reopen"
    BY DEF DraftRules
  <1>3. 1 \in Fires(DraftRules(m, d)) => d # None /\ m.edit # None
    <2>1. DraftRules(m, d)[1][2] => d # None /\ m.edit # None
      BY DEF DraftRules
    <2>2. 1 \in DOMAIN DraftRules(m, d)
      BY DEF DraftRules
    <2> QED
      BY <2>1, <2>2 DEF Fires
  <1>4. 2 \in Fires(DraftRules(m, d)) => d # None
    <2>1. DraftRules(m, d)[2][2] => d # None
      BY DEF DraftRules
    <2>2. 2 \in DOMAIN DraftRules(m, d)
      BY DEF DraftRules
    <2> QED
      BY <2>1, <2>2 DEF Fires
  <1>5. 3 \in Fires(DraftRules(m, d)) <=> d # None /\ d.step # "confirm"
    <2>1. DraftRules(m, d)[3][2] <=> d # None /\ d.step # "confirm"
      BY DEF DraftRules
    <2>2. 3 \in DOMAIN DraftRules(m, d)
      BY DEF DraftRules
    <2> QED
      BY <2>1, <2>2 DEF Fires
  <1>6. 4 \in Fires(DraftRules(m, d)) => d # None
    <2>1. DraftRules(m, d)[4][2] => d # None
      BY DEF DraftRules
    <2>2. 4 \in DOMAIN DraftRules(m, d)
      BY DEF DraftRules
    <2> QED
      BY <2>1, <2>2 DEF Fires
  <1>7. 5 \in Fires(DraftRules(m, d)) => d # None
    <2>1. DraftRules(m, d)[5][2] => d # None
      BY DEF DraftRules
    <2>2. 5 \in DOMAIN DraftRules(m, d)
      BY DEF DraftRules
    <2> QED
      BY <2>1, <2>2 DEF Fires
  <1>8. i = 4 => 3 \notin Fires(DraftRules(m, d))
    OBVIOUS
  <1> QED
    BY <1>1, <1>2, <1>3, <1>4, <1>5, <1>6, <1>7, <1>8

(* An order names its box, and a checkout starts from an unfinished form.  *)
LEMMA OrderSays ==
    ASSUME NEW m, NEW i \in 1..5, i \in Fires(OrderRules(m)),
           \A j \in Fires(OrderRules(m)) : i <= j
    PROVE  \/ OrderRules(m)[i][1] = "aside"
           \/ /\ OrderRules(m)[i][1] \in {"submit", "start"}
              /\ m.box # None \/ "customForm" \in m.hits
              /\ OrderRules(m)[i][1] = "start" => ~FormComplete(m)
  <1>1. i = 1 \/ i = 2 \/ i = 3 \/ i = 4 \/ i = 5
    OBVIOUS
  <1>2. /\ OrderRules(m)[1][1] = "submit" /\ OrderRules(m)[2][1] = "start"
        /\ OrderRules(m)[3][1] = "aside" /\ OrderRules(m)[4][1] = "submit"
        /\ OrderRules(m)[5][1] = "start"
    BY DEF OrderRules
  <1>3. 1 \in Fires(OrderRules(m)) => "customForm" \in m.hits
    <2>1. OrderRules(m)[1][2] => "customForm" \in m.hits
      BY DEF OrderRules
    <2>2. 1 \in DOMAIN OrderRules(m)
      BY DEF OrderRules
    <2> QED
      BY <2>1, <2>2 DEF Fires
  <1>4. 2 \in Fires(OrderRules(m)) => "customForm" \in m.hits
    <2>1. OrderRules(m)[2][2] => "customForm" \in m.hits
      BY DEF OrderRules
    <2>2. 2 \in DOMAIN OrderRules(m)
      BY DEF OrderRules
    <2> QED
      BY <2>1, <2>2 DEF Fires
  <1>5. m.box = None => 3 \in Fires(OrderRules(m))
    <2>1. m.box = None => OrderRules(m)[3][2]
      BY DEF OrderRules
    <2>2. 3 \in DOMAIN OrderRules(m)
      BY DEF OrderRules
    <2> QED
      BY <2>1, <2>2 DEF Fires
  <1>6. i \in {4, 5} => 3 \notin Fires(OrderRules(m))
    OBVIOUS
  <1>7. "customForm" \in m.hits /\ FormComplete(m) => 1 \in Fires(OrderRules(m))
    <2>1. "customForm" \in m.hits /\ FormComplete(m) => OrderRules(m)[1][2]
      BY DEF OrderRules
    <2>2. 1 \in DOMAIN OrderRules(m)
      BY DEF OrderRules
    <2> QED
      BY <2>1, <2>2 DEF Fires
  <1>8. 5 \in Fires(OrderRules(m)) /\ FormComplete(m) => 4 \in Fires(OrderRules(m))
    <2>1. OrderRules(m)[5][2] => Sees(m, {"orderTap", "orderIntent"})
      BY DEF OrderRules
    <2>2. Sees(m, {"orderTap", "orderIntent"}) /\ FormComplete(m) => OrderRules(m)[4][2]
      BY DEF OrderRules
    <2>3. 4 \in DOMAIN OrderRules(m)
      BY DEF OrderRules
    <2> QED
      BY <2>1, <2>2, <2>3 DEF Fires
  <1>9. i = 2 => 1 \notin Fires(OrderRules(m))
    OBVIOUS
  <1>10. i = 5 => 4 \notin Fires(OrderRules(m))
    OBVIOUS
  <1>11. (i = 2 \/ i = 5) => ~FormComplete(m)
    BY <1>4, <1>7, <1>8, <1>9, <1>10
  <1> QED
    BY <1>1, <1>2, <1>3, <1>4, <1>5, <1>6, <1>11

(* The same of six lists, as Route puts them together.                     *)
LEMMA FirstOfSix ==
    ASSUME NEW S, NEW a \in Seq(S), NEW b \in Seq(S), NEW c \in Seq(S),
           NEW d \in Seq(S), NEW e \in Seq(S), NEW f \in Seq(S),
           NEW r, r = First(a \o b \o c \o d \o e \o f), 1 \in Fires(f)
    PROVE  \/ (Fires(a) # {} /\ r = First(a)) \/ (Fires(b) # {} /\ r = First(b))
           \/ (Fires(c) # {} /\ r = First(c)) \/ (Fires(d) # {} /\ r = First(d))
           \/ (Fires(e) # {} /\ r = First(e)) \/ (Fires(f) # {} /\ r = First(f))
  <1>1. PICK ab \in Seq(S) : ab = a \o b
    BY ConcatProperties
  <1>2. PICK ac \in Seq(S) : ac = ab \o c
    BY ConcatProperties
  <1>3. PICK ad \in Seq(S) : ad = ac \o d
    BY ConcatProperties
  <1>4. PICK ae \in Seq(S) : ae = ad \o e
    BY ConcatProperties
  <1>5. a \o b \o c \o d \o e \o f = ae \o f
    BY <1>1, <1>2, <1>3, <1>4
  <1>6. Fires(ae \o f) # {}
    <2>1. 1 \in 1..Len(f) /\ f[1][2]
      BY DEF Fires
    <2>2. /\ Len(ae) \in Nat /\ Len(f) \in Nat
          /\ DOMAIN (ae \o f) = 1..(Len(ae) + Len(f))
          /\ \A k \in 1..Len(f) : (ae \o f)[Len(ae) + k] = f[k]
      BY Joined
    <2>3. Len(ae) + 1 \in DOMAIN (ae \o f)
      BY <2>1, <2>2
    <2>4. (ae \o f)[Len(ae) + 1] = f[1]
      BY <2>1, <2>2
    <2> QED
      BY <2>1, <2>3, <2>4 DEF Fires
  <1>7. \/ (Fires(ae) # {} /\ First(ae \o f) = First(ae))
        \/ (Fires(f) # {} /\ First(ae \o f) = First(f))
    BY <1>6, FirstOfTwo
  <1>8. Fires(ae) # {} => \/ (Fires(ad) # {} /\ First(ae) = First(ad))
                          \/ (Fires(e) # {} /\ First(ae) = First(e))
    <2>1. Fires(ad \o e) # {} => \/ (Fires(ad) # {} /\ First(ad \o e) = First(ad))
                                 \/ (Fires(e) # {} /\ First(ad \o e) = First(e))
      BY FirstOfTwo
    <2> QED
      BY <1>4, <2>1
  <1>9. Fires(ad) # {} => \/ (Fires(ac) # {} /\ First(ad) = First(ac))
                          \/ (Fires(d) # {} /\ First(ad) = First(d))
    <2>1. Fires(ac \o d) # {} => \/ (Fires(ac) # {} /\ First(ac \o d) = First(ac))
                                 \/ (Fires(d) # {} /\ First(ac \o d) = First(d))
      BY FirstOfTwo
    <2> QED
      BY <1>3, <2>1
  <1>10. Fires(ac) # {} => \/ (Fires(ab) # {} /\ First(ac) = First(ab))
                           \/ (Fires(c) # {} /\ First(ac) = First(c))
    <2>1. Fires(ab \o c) # {} => \/ (Fires(ab) # {} /\ First(ab \o c) = First(ab))
                                 \/ (Fires(c) # {} /\ First(ab \o c) = First(c))
      BY FirstOfTwo
    <2> QED
      BY <1>2, <2>1
  <1>11. Fires(ab) # {} => \/ (Fires(a) # {} /\ First(ab) = First(a))
                           \/ (Fires(b) # {} /\ First(ab) = First(b))
    <2>1. Fires(a \o b) # {} => \/ (Fires(a) # {} /\ First(a \o b) = First(a))
                                \/ (Fires(b) # {} /\ First(a \o b) = First(b))
      BY FirstOfTwo
    <2> QED
      BY <1>1, <2>1
  <1> QED
    BY <1>5, <1>7, <1>8, <1>9, <1>10, <1>11

(* What a route says of its message and its draft: only a draft is moved,  *)
(* only a finished one is confirmed, and what is ordered or started has a  *)
(* box.                                                                    *)
LEMMA RouteMeans ==
    ASSUME NEW m, NEW d, NEW r, r = Route(m, d)
    PROVE  /\ r \in {"edit", "back", "answer", "confirm", "reopen", "pause"} => d # None
           /\ r = "edit" => m.edit # None
           /\ r = "answer" => d.step # "confirm"
           /\ r = "confirm" => d.step = "confirm"
           /\ r \in {"submit", "start"} => m.box # None \/ "customForm" \in m.hits
           /\ r = "start" => ~FormComplete(m)
  <1> DEFINE A == Desk(m)
             B == Gate(m, d)
             C == Interrupts(m, d)
             D == DraftRules(m, d)
             E == OrderRules(m)
             F == LastRules
  <1>1. PICK S : /\ A \in Seq(S) /\ B \in Seq(S) /\ C \in Seq(S) /\ D \in Seq(S) /\ E \in Seq(S)
                 /\ F \in Seq(S) /\ Len(A) = 2 /\ Len(B) = 5 /\ Len(C) = 6 /\ Len(D) = 5
                 /\ Len(E) = 5 /\ Len(F) = 1
    BY RulesAreLists
  <1>2. r = First(A \o B \o C \o D \o E \o F)
    BY DEF Route, First, Fires
  <1>3. 1 \in Fires(F)
    <2>1. LastRules[1][2]
      BY DEF LastRules
    <2>2. 1 \in DOMAIN LastRules
      BY DEF LastRules
    <2> QED
      BY <2>1, <2>2 DEF Fires
  <1>4. \/ (Fires(A) # {} /\ r = First(A)) \/ (Fires(B) # {} /\ r = First(B))
        \/ (Fires(C) # {} /\ r = First(C)) \/ (Fires(D) # {} /\ r = First(D))
        \/ (Fires(E) # {} /\ r = First(E)) \/ (Fires(F) # {} /\ r = First(F))
    <2> HIDE DEF A, B, C, D, E, F
    <2>1. /\ A \in Seq(S) /\ B \in Seq(S) /\ C \in Seq(S) /\ D \in Seq(S) /\ E \in Seq(S)
          /\ F \in Seq(S) /\ Len(F) = 1
      BY <1>1
    <2>2. r = First(A \o B \o C \o D \o E \o F)
      BY <1>2
    <2>3. 1 \in Fires(F)
      BY <1>3
    <2> QED
      BY <2>1, <2>2, <2>3, FirstOfSix
  <1>5. CASE Fires(A) # {} /\ r = First(A)
    <2>1. PICK i \in 1..2 : r = A[i][1]
      BY <1>1, <1>5, FirstFires
    <2>2. r \in {"drop", "aside"}
      BY <2>1, DeskSays
    <2> QED
      BY <2>2
  <1>6. CASE Fires(B) # {} /\ r = First(B)
    <2>1. PICK i \in 1..5 : r = B[i][1]
      BY <1>1, <1>6, FirstFires
    <2>2. r \in {"resend", "clear", "drop", "aside"}
      BY <2>1, GateSays
    <2> QED
      BY <2>2
  <1>7. CASE Fires(C) # {} /\ r = First(C)
    <2>1. PICK i \in 1..6 : i \in Fires(C) /\ r = C[i][1]
      BY <1>1, <1>7, FirstFires
    <2>2. \/ r \in {"aside", "catalog", "drop"}
          \/ r = "submit" /\ m.box # None
          \/ r = "pause" /\ d # None
      BY <2>1, InterruptSays
    <2> QED
      BY <2>2
  <1>8. CASE Fires(D) # {} /\ r = First(D)
    <2>1. PICK i \in 1..5 : /\ i \in Fires(D) /\ r = D[i][1]
                            /\ \A j \in Fires(D) : i <= j
      BY <1>1, <1>8, FirstFires
    <2>2. \/ r = "edit" /\ d # None /\ m.edit # None
          \/ r \in {"back", "reopen"} /\ d # None
          \/ r = "answer" /\ d # None /\ d.step # "confirm"
          \/ r = "confirm" /\ d # None /\ d.step = "confirm"
      BY <2>1, DraftSays
    <2> QED
      BY <2>2
  <1>9. CASE Fires(E) # {} /\ r = First(E)
    <2>1. PICK i \in 1..5 : /\ i \in Fires(E) /\ r = E[i][1]
                            /\ \A j \in Fires(E) : i <= j
      BY <1>1, <1>9, FirstFires
    <2>2. \/ r = "aside"
          \/ /\ r \in {"submit", "start"} /\ (m.box # None \/ "customForm" \in m.hits)
             /\ r = "start" => ~FormComplete(m)
      BY <2>1, OrderSays
    <2> QED
      BY <2>2
  <1>10. CASE Fires(F) # {} /\ r = First(F)
    <2>1. PICK i \in 1..1 : r = F[i][1]
      BY <1>1, <1>10, FirstFires
    <2>2. F[1][1] = "aside"
      BY DEF LastRules
    <2>3. i = 1
      OBVIOUS
    <2>4. r = "aside"
      BY <2>1, <2>2, <2>3
    <2> QED
      BY <2>4
  <1> QED
    BY <1>4, <1>5, <1>6, <1>7, <1>8, <1>9, <1>10

(* A draft waits for its confirmation only when it is complete, is paid    *)
(* for in a known way, and is one of the first n.                          *)
SoundDraft(d, n) ==
    d # None => /\ d.step = "confirm" => NextStep(d.has) = "confirm"
                /\ d.has["payment"] \in {"KES", "USD", None}
                /\ d.id <= n

\* An order that PaidOncePerDraft would count.
Counts(o) == o.sure /\ ~o.failed

(* An order is as its customer was shown it, and is asked for in a method  *)
(* it was confirmed with.                                                  *)
AsShown(o) ==
    /\ o.has["name"] = o.named
    /\ \A s \in Rewritten : o.seen[s] = o.has[s] \/ o.seen[s] = None
    /\ o.currency \in o.chose /\ (o.session = None \/ o.session \in o.chose)

(* The orders are of the first n drafts and as shown, and one at most of   *)
(* each draft counts.                                                      *)
SoundOrders(some, n) ==
    /\ \A i \in DOMAIN some : AsShown(some[i]) /\ some[i].draft <= n
    /\ \A i, j \in DOMAIN some :
          Counts(some[i]) /\ Counts(some[j]) /\ some[i].draft = some[j].draft => i = j

\* A draft with every question answered was seen as it is.
Shows(d, seen) == d # None /\ NextStep(d.has) = "confirm" => seen = d.has

\* A draft in hand has not been ordered, unless its payment failed.
Unordered(d, some) ==
    d # None /\ ~d.failed => \A i \in DOMAIN some : Counts(some[i]) => some[i].draft # d.id

(* What the conversation holds is shown and not yet ordered.               *)
InHand(d, seen, some) == Shows(d, seen) /\ Unordered(d, some)

\* The turn under way has put its draft in Redis.
RedisAhead == turn # Idle /\ turn.touched /\ turn.wrote

(* What the turn under way will commit is as sound as what was committed,  *)
(* and Redis has it if it was written.                                     *)
TurnIsSound ==
    turn # Idle => /\ SoundDraft(turn.draft, drafts) /\ SoundOrders(turn.orders, drafts)
                   /\ clean => InHand(turn.draft, turn.shown, turn.orders)
                   /\ turn.touched /\ turn.wrote => redis = turn.draft
                   /\ ~turn.touched => turn.draft = meta

(* What every step of the gift checkout keeps.  Nothing is promised of a   *)
(* summary or of a second order once Redis and the row went apart.         *)
GiftInv ==
    /\ TypeOK
    /\ SoundDraft(redis, drafts) /\ SoundDraft(meta, drafts) /\ SoundOrders(orders, drafts)
    /\ clean => InHand(meta, shown, orders)
    /\ clean /\ ~RedisAhead => redis \in {None, meta}
    /\ TurnIsSound

(* The questions of a checkout and their order.                            *)
LEMMA StepsInOrder ==
    /\ DOMAIN StepOrder = 1..7
    /\ StepOrder[7] = "confirm"
    /\ \A i \in 1..6 : StepOrder[i] \in Asked
    /\ \A s \in Asked : \E i \in 1..6 : StepOrder[i] = s
    /\ \A i \in 1..7 : StepOrder[i] \in Steps
  <1>1. DOMAIN StepOrder = 1..7
    BY DEF StepOrder
  <1>2. /\ StepOrder[1] = "name" /\ StepOrder[2] = "delivery_type" /\ StepOrder[3] = "location"
        /\ StepOrder[4] = "window" /\ StepOrder[5] = "payment" /\ StepOrder[6] = "contact"
        /\ StepOrder[7] = "confirm"
    BY DEF StepOrder
  <1>3. \A i \in 1..6 : i = 1 \/ i = 2 \/ i = 3 \/ i = 4 \/ i = 5 \/ i = 6
    OBVIOUS
  <1>4. 1 \in 1..6 /\ 2 \in 1..6 /\ 3 \in 1..6 /\ 4 \in 1..6 /\ 5 \in 1..6 /\ 6 \in 1..6
    OBVIOUS
  <1>5. \A i \in 1..6 : StepOrder[i] \in Asked
    BY <1>2, <1>3 DEF Asked
  <1>6. \A s \in Asked : \E i \in 1..6 : StepOrder[i] = s
    BY <1>2, <1>4 DEF Asked
  <1> QED
    BY <1>1, <1>2, <1>5, <1>6 DEF Steps

(* The next step is a question that is open, if there is one.              *)
LEMMA NextStepIsOpen ==
    ASSUME NEW has
    PROVE  /\ NextStep(has) \in Steps
           /\ \A s \in Asked : ~Suits(has, s) => NextStep(has) # "confirm"
  <1> DEFINE open == {i \in DOMAIN StepOrder :
                        StepOrder[i] = "confirm" \/ ~Suits(has, StepOrder[i])}
  <1>1. open \in SUBSET (1..7) /\ 7 \in open
    BY StepsInOrder
  <1>2. open \in SUBSET Nat /\ open # {}
    BY <1>1
  <1>3. NextStep(has) = StepOrder[Min(open)]
    BY DEF NextStep
  <1>4. Min(open) \in open /\ \A y \in open : Min(open) <= y
    BY <1>2, MinIsThere
  <1>5. NextStep(has) \in Steps
    BY <1>1, <1>3, <1>4, StepsInOrder
  <1>6. ASSUME NEW s \in Asked, ~Suits(has, s) PROVE NextStep(has) # "confirm"
    <2>1. PICK i \in 1..6 : StepOrder[i] = s
      BY StepsInOrder
    <2>2. i \in open
      BY <1>6, <2>1, StepsInOrder
    <2>3. Min(open) \in 1..6
      BY <1>1, <1>4, <2>2
    <2>4. StepOrder[Min(open)] \in Asked
      BY <2>3, StepsInOrder
    <2> QED
      BY <1>3, <2>4 DEF Asked
  <1> QED
    BY <1>5, <1>6

(* Going back never leads to the confirmation.                             *)
LEMMA BackIsAQuestion == \A s \in Steps : StepBefore(s) \in Asked
  <1> SUFFICES ASSUME NEW s \in Steps PROVE StepBefore(s) \in Asked
    OBVIOUS
  <1> DEFINE i == CHOOSE k \in DOMAIN StepOrder : StepOrder[k] = s
  <1>1. \E k \in DOMAIN StepOrder : StepOrder[k] = s
    BY DEF Steps
  <1>2. i \in 1..7
    BY <1>1, StepsInOrder
  <1>3. StepBefore(s) = StepOrder[IF i = 1 THEN 1 ELSE i - 1]
    BY DEF StepBefore
  <1> HIDE DEF i
  <1>4. PICK k \in 1..6 : k = (IF i = 1 THEN 1 ELSE i - 1)
    BY <1>2
  <1> QED
    BY <1>3, <1>4, StepsInOrder

(* Every step but the confirmation is a question.                          *)
LEMMA QuestionsAreSteps ==
    /\ Asked \subseteq Steps
    /\ "confirm" \notin Asked
    /\ "confirm" \in Steps
    /\ \A s \in Steps : s # "confirm" => s \in Asked
  <1>1. /\ StepOrder[1] = "name" /\ StepOrder[2] = "delivery_type" /\ StepOrder[3] = "location"
        /\ StepOrder[4] = "window" /\ StepOrder[5] = "payment" /\ StepOrder[6] = "contact"
        /\ StepOrder[7] = "confirm"
    BY DEF StepOrder
  <1>2. \A i \in 1..7 : i = 1 \/ i = 2 \/ i = 3 \/ i = 4 \/ i = 5 \/ i = 6 \/ i = 7
    OBVIOUS
  <1>3. \A s \in Steps : s # "confirm" => s \in Asked
    BY <1>1, <1>2, StepsInOrder DEF Steps, Asked
  <1>4. Asked \subseteq Steps
    BY StepsInOrder
  <1>5. "confirm" \in Steps
    BY StepsInOrder
  <1> QED
    BY <1>3, <1>4, <1>5 DEF Asked

(* What is sound stays so when more drafts are started.                    *)
LEMMA SoundLater ==
    ASSUME NEW d \in Draft \cup {None}, NEW some \in Seq(Order),
           NEW n \in Nat, NEW k \in Nat, n <= k
    PROVE  /\ SoundDraft(d, n) => SoundDraft(d, k)
           /\ SoundOrders(some, n) => SoundOrders(some, k)
  <1>1. d # None => d.id \in Nat
    BY DEF Draft
  <1>2. \A i \in DOMAIN some : some[i].draft \in Nat
    <2>1. \A o \in Order : o.draft \in Nat
      BY CheckoutAssumption DEF Order
    <2>2. \A i \in DOMAIN some : some[i] \in Order
      OBVIOUS
    <2> QED
      BY <2>1, <2>2
  <1>3. SoundDraft(d, n) => SoundDraft(d, k)
    BY <1>1 DEF SoundDraft
  <1>4. SoundOrders(some, n) => SoundOrders(some, k)
    BY <1>2 DEF SoundOrders
  <1> QED
    BY <1>3, <1>4

(* An order may change its status, its session and its currency.           *)
LEMMA OrderReplaced ==
    ASSUME NEW some \in Seq(Order), NEW n \in Nat, SoundOrders(some, n),
           NEW i \in DOMAIN some, NEW x \in Order,
           x.draft = some[i].draft, x.failed = some[i].failed, AsShown(x),
           x.sure => some[i].sure
    PROVE  /\ [some EXCEPT ![i] = x] \in Seq(Order)
           /\ SoundOrders([some EXCEPT ![i] = x], n)
           /\ \A d : Unordered(d, some) => Unordered(d, [some EXCEPT ![i] = x])
  <1>0. i \in 1..Len(some)
    OBVIOUS
  <1>1. PICK new \in Seq(Order) : new = [some EXCEPT ![i] = x]
    BY <1>0, ExceptSeq
  <1>2. DOMAIN new = DOMAIN some /\ new[i] = x /\ \A j \in DOMAIN some : j # i => new[j] = some[j]
    BY <1>1
  <1>3. \A j \in DOMAIN some : /\ new[j].draft = some[j].draft /\ AsShown(new[j])
                               /\ Counts(new[j]) => Counts(some[j])
    BY <1>2 DEF SoundOrders, Counts
  <1>4. SoundOrders(new, n)
    BY <1>2, <1>3 DEF SoundOrders
  <1>5. \A d : Unordered(d, some) => Unordered(d, new)
    BY <1>2, <1>3 DEF Unordered
  <1> QED
    BY <1>1, <1>4, <1>5

(* An order may be added when no other of its draft counts.                *)
LEMMA OrderAdded ==
    ASSUME NEW some \in Seq(Order), NEW n \in Nat, SoundOrders(some, n),
           NEW x \in Order, AsShown(x), x.draft <= n,
           Counts(x) => \A i \in DOMAIN some : Counts(some[i]) => some[i].draft # x.draft
    PROVE  Append(some, x) \in Seq(Order) /\ SoundOrders(Append(some, x), n)
  <1>1. PICK new \in Seq(Order) : new = Append(some, x)
    BY AppendProperties
  <1>2. PICK k \in Nat : k = Len(some)
    OBVIOUS
  <1>3. DOMAIN some = 1..k /\ DOMAIN new = 1..(k + 1)
    BY <1>1, <1>2
  <1>4. new[k + 1] = x /\ \A j \in 1..k : new[j] = some[j]
    BY <1>1, <1>2
  <1>5. \A j \in 1..(k + 1) : j \in 1..k \/ j = k + 1
    BY <1>2
  <1>6. \A j \in DOMAIN new : AsShown(new[j]) /\ new[j].draft <= n
    BY <1>3, <1>4, <1>5 DEF SoundOrders
  <1>7. ASSUME NEW a \in DOMAIN new, NEW b \in DOMAIN new,
               Counts(new[a]), Counts(new[b]), new[a].draft = new[b].draft
        PROVE  a = b
    <2>1. CASE a \in 1..k /\ b \in 1..k
      BY <1>3, <1>4, <1>7, <2>1 DEF SoundOrders
    <2>2. CASE a \in 1..k /\ b = k + 1
      BY <1>3, <1>4, <1>7, <2>2
    <2>3. CASE a = k + 1 /\ b \in 1..k
      BY <1>3, <1>4, <1>7, <2>3
    <2>4. CASE a = k + 1 /\ b = k + 1
      BY <2>4
    <2> QED
      BY <1>3, <1>5, <2>1, <2>2, <2>3, <2>4
  <1>8. SoundOrders(new, n)
    BY <1>6, <1>7 DEF SoundOrders
  <1> QED
    BY <1>1, <1>8

(* A conversation starts without a draft and without orders.               *)
LEMMA CheckoutStarts == Init => GiftInv
  <1> SUFFICES ASSUME Init PROVE GiftInv
    OBVIOUS
  <1>1. redis = None /\ meta = None /\ shown = None /\ turn = Idle /\ clean = TRUE
    BY DEF Init
  <1>2. orders \in Seq(Order) /\ DOMAIN orders = {}
    BY DEF Init
  <1>3. drafts \in 0..MaxDrafts /\ faults \in 0..MaxFaults
    BY CheckoutAssumption DEF Init
  <1>4. TypeOK
    BY <1>1, <1>2, <1>3 DEF TypeOK, TurnType
  <1>5. SoundOrders(orders, drafts)
    BY <1>2 DEF SoundOrders
  <1>6. \A n, some : SoundDraft(None, n) /\ InHand(None, shown, some)
    BY DEF SoundDraft, InHand, Shows, Unordered
  <1> QED
    BY <1>1, <1>4, <1>5, <1>6 DEF GiftInv, TurnIsSound

(* The draft a turn reads is sound, and the committed one while Redis kept *)
(* pace.                                                                   *)
LEMMA DraftIsRead ==
    ASSUME GiftInv, turn = Idle, NEW d \in Readable
    PROVE  d \in Draft \cup {None} /\ SoundDraft(d, drafts) /\ (clean => d = meta)
  BY DEF GiftInv, TypeOK, Readable, Current, RedisAhead

(* What a turn leaves behind is a turn.                                    *)
LEMMA TurnIsTyped ==
    ASSUME NEW draft \in Draft \cup {None}, NEW newOrders \in Seq(Order),
           NEW newShown \in Fields \cup {None}, NEW touched \in BOOLEAN, NEW wrote \in BOOLEAN
    PROVE  [stage |-> "handled", draft |-> draft, orders |-> newOrders,
            shown |-> newShown, touched |-> touched, wrote |-> wrote] \in TurnType
  BY DEF TurnType

(* A turn that leaves a sound draft.                                       *)
LEMMA LeaveKeeps ==
    ASSUME GiftInv, turn = Idle, drafts' \in 0..MaxDrafts, drafts <= drafts',
           NEW draft \in Draft \cup {None}, NEW newOrders \in Seq(Order),
           NEW newShown \in Fields \cup {None}, Leave(draft, newOrders, newShown),
           SoundDraft(draft, drafts'), SoundOrders(newOrders, drafts'),
           clean => InHand(draft, newShown, newOrders)
    PROVE  GiftInv'
  <1>1. PICK wrote \in BOOLEAN :
            /\ turn' = [stage |-> "handled", draft |-> draft, orders |-> newOrders,
                        shown |-> newShown, touched |-> TRUE, wrote |-> wrote]
            /\ IF wrote THEN redis' = draft /\ UNCHANGED faults
                        ELSE Fault /\ UNCHANGED redis
    BY DEF Leave
  <1>2. UNCHANGED <<meta, orders, shown, clean>>
    BY DEF Leave
  <1>3. turn' \in TurnType
    BY <1>1, TurnIsTyped
  <1>4. /\ turn'.draft = draft /\ turn'.orders = newOrders /\ turn'.shown = newShown
        /\ turn'.touched = TRUE /\ turn'.wrote = wrote
    BY <1>1
  <1>5. faults' \in 0..MaxFaults
    BY <1>1, CheckoutAssumption DEF Fault, GiftInv, TypeOK
  <1>6. redis' = draft \/ redis' = redis
    BY <1>1
  <1>7. TypeOK'
    BY <1>2, <1>3, <1>5, <1>6 DEF GiftInv, TypeOK
  <1>8. drafts \in Nat /\ drafts' \in Nat
    BY CheckoutAssumption DEF GiftInv, TypeOK
  <1>9. SoundDraft(redis, drafts') /\ SoundDraft(meta, drafts') /\ SoundOrders(orders, drafts')
    <2>1. /\ redis \in Draft \cup {None} /\ meta \in Draft \cup {None} /\ orders \in Seq(Order)
          /\ SoundDraft(redis, drafts) /\ SoundDraft(meta, drafts) /\ SoundOrders(orders, drafts)
      BY DEF GiftInv, TypeOK
    <2> QED
      BY <1>8, <2>1, SoundLater
  <1>10. SoundDraft(redis', drafts') /\ SoundDraft(meta', drafts') /\ SoundOrders(orders', drafts')
    BY <1>2, <1>6, <1>9
  <1>11. clean' => InHand(meta', shown', orders')
    BY <1>2 DEF GiftInv
  <1>12. RedisAhead' = (turn' # Idle /\ wrote)
    BY <1>4 DEF RedisAhead
  <1>13. turn' # Idle
    BY <1>1 DEF Idle
  <1>14. clean' /\ ~RedisAhead' => redis' \in {None, meta'}
    BY <1>1, <1>2, <1>12, <1>13 DEF GiftInv, RedisAhead
  <1>15. wrote => redis' = draft
    BY <1>1
  <1>16. TurnIsSound'
    BY <1>2, <1>4, <1>15 DEF TurnIsSound
  <1> QED
    BY <1>7, <1>10, <1>11, <1>14, <1>16 DEF GiftInv

(* A turn that leaves the draft untouched.                                 *)
LEMMA ReplyKeeps ==
    ASSUME GiftInv, turn = Idle, NEW newOrders \in Seq(Order), Reply(newOrders),
           UNCHANGED drafts, SoundOrders(newOrders, drafts),
           \A d : Unordered(d, orders) => Unordered(d, newOrders)
    PROVE  GiftInv'
  <1>1. turn' = [stage |-> "handled", draft |-> meta, orders |-> newOrders,
                 shown |-> shown, touched |-> FALSE, wrote |-> TRUE]
    BY DEF Reply
  <1>2. UNCHANGED <<redis, meta, orders, shown, clean, faults>>
    BY DEF Reply
  <1>3. turn' \in TurnType
    BY <1>1, TurnIsTyped DEF GiftInv, TypeOK
  <1>4. /\ turn'.draft = meta /\ turn'.orders = newOrders /\ turn'.shown = shown
        /\ turn'.touched = FALSE /\ turn'.wrote = TRUE
    BY <1>1
  <1>5. TypeOK'
    BY <1>2, <1>3 DEF GiftInv, TypeOK
  <1>6. ~RedisAhead' /\ ~RedisAhead
    BY <1>4 DEF RedisAhead
  <1>7. TurnIsSound'
    <2>1. clean => InHand(meta, shown, newOrders)
      BY DEF GiftInv, InHand
    <2> QED
      BY <1>2, <1>4, <2>1 DEF TurnIsSound, GiftInv
  <1> QED
    BY <1>2, <1>5, <1>6, <1>7 DEF GiftInv

(* Asking for money changes only the session of the order, and asks in a   *)
(* method it was confirmed with if the currency is one.                    *)
LEMMA AsksKeepsOrder ==
    ASSUME NEW o \in Order, NEW currency \in {"KES", "USD"}, NEW x \in Asks(o, currency),
           AsShown(o), currency \in o.chose
    PROVE  /\ x \in Order /\ x.draft = o.draft /\ x.failed = o.failed /\ AsShown(x)
           /\ x.sure = o.sure
  <1>1. CASE x = o
    BY <1>1
  <1>2. CASE x = [o EXCEPT !.session = currency]
    <2>1. /\ x \in Order /\ x.draft = o.draft /\ x.failed = o.failed /\ x.sure = o.sure
          /\ x.has = o.has /\ x.named = o.named /\ x.seen = o.seen /\ x.chose = o.chose
          /\ x.currency = o.currency /\ x.session = currency
      BY <1>2 DEF Order
    <2> QED
      BY <2>1 DEF AsShown
  <1> QED
    BY <1>1, <1>2 DEF Asks

(* What a confirmation writes over an order that is new or as shown makes  *)
(* it as shown now, in the method chosen now or in the dollars of before.  *)
LEMMA ConfirmedAsShown ==
    ASSUME NEW o \in Order, NEW d \in Draft, clean \in BOOLEAN,
           d.has["payment"] \in {"KES", "USD"},
           o.has["name"] = o.named, o.session = None \/ o.session \in o.chose,
           o.currency = "KES" \/ o.currency \in o.chose
    PROVE  LET own == Confirmed(o, d, d.has)
           IN  /\ own \in Order /\ AsShown(own) /\ own.draft = o.draft /\ own.failed = o.failed
               /\ d.has["payment"] \in own.chose
               /\ own.sure => o.sure /\ clean
  <1> DEFINE own == Confirmed(o, d, d.has)
             pay == d.has["payment"]
             told == [s \in Rewritten |-> d.has[s]]
             stored == [s \in Asked |-> IF s \in Rewritten /\ d.has[s] # None
                                         THEN d.has[s] ELSE o.has[s]]
  <1>1. d.has \in Fields /\ o.has \in Fields
    BY DEF Draft, Order
  <1>2. Rewritten \subseteq Asked /\ "name" \in Asked /\ "name" \notin Rewritten
    BY DEF Rewritten, Asked
  <1>3. stored \in Fields /\ told \in [Rewritten -> Values \cup {None}]
    BY <1>1, <1>2 DEF Fields
  <1>4. stored["name"] = o.has["name"] /\ \A s \in Rewritten : told[s] = stored[s] \/ told[s] = None
    BY <1>2
  <1>5. own = [o EXCEPT !.currency = IF pay = "USD" THEN "USD" ELSE @, !.has = stored,
                        !.seen = told, !.chose = @ \cup {pay}, !.sure = @ /\ clean]
    BY DEF Confirmed
  <1> HIDE DEF own, stored, told
  <1>6. /\ own.currency = (IF pay = "USD" THEN "USD" ELSE o.currency)
        /\ own.has = stored /\ own.seen = told /\ own.chose = o.chose \cup {pay}
        /\ own.session = o.session /\ own.named = o.named
        /\ own.draft = o.draft /\ own.failed = o.failed
    BY <1>5 DEF Order
  <1>7. own.sure = (o.sure /\ clean)
    BY <1>5 DEF Order
  <1>8. own \in Order
    <2>1. (IF pay = "USD" THEN "USD" ELSE o.currency) \in {"KES", "USD"}
      BY DEF Order
    <2>2. o.chose \cup {pay} \in SUBSET {"KES", "USD"}
      BY DEF Order
    <2>3. (o.sure /\ clean) \in BOOLEAN
      BY DEF Order
    <2>4. PICK cur \in {"KES", "USD"} : cur = (IF pay = "USD" THEN "USD" ELSE o.currency)
      BY <2>1
    <2>5. own = [o EXCEPT !.currency = cur, !.has = stored, !.seen = told,
                          !.chose = o.chose \cup {pay}, !.sure = (o.sure /\ clean)]
      BY <1>5, <2>4 DEF Order
    <2> QED
      BY <1>3, <2>2, <2>3, <2>4, <2>5 DEF Order
  <1>9. own.currency \in own.chose
    <2>1. CASE pay = "USD"
      BY <1>6, <2>1
    <2>2. CASE pay = "KES"
      BY <1>6, <2>2
    <2> QED
      BY <2>1, <2>2
  <1>10. own.session = None \/ own.session \in own.chose
    BY <1>6
  <1>11. own.has["name"] = own.named /\ \A s \in Rewritten : own.seen[s] = own.has[s] \/ own.seen[s] = None
    BY <1>4, <1>6
  <1>12. AsShown(own)
    BY <1>9, <1>10, <1>11 DEF AsShown
  <1> QED
    BY <1>6, <1>7, <1>8, <1>12 DEF own

(* The newest of some orders is one of them.                               *)
LEMMA NewestPending ==
    ASSUME orders \in Seq(Order), NEW S \in SUBSET DOMAIN orders, S # {}
    PROVE  Max(S) \in S
  <1>1. Len(orders) \in Nat /\ S \in SUBSET (0..Len(orders))
    OBVIOUS
  <1> QED
    BY <1>1, MaxIsThere

(* An order that is made has the name it was made with.                    *)
LEMMA NewOrderIsTyped ==
    ASSUME NEW d \in Draft, NEW new, new = NewOrder(d, d.has)
    PROVE  new \in Order /\ new.has["name"] = new.named
  <1>1. d.has \in Fields /\ d.box \in Boxes /\ d.id \in 1..MaxDrafts /\ d.failed \in BOOLEAN
    BY DEF Draft
  <1>2. Rewritten \subseteq Asked /\ "name" \in Asked
    BY DEF Rewritten, Asked
  <1>3. PICK stored \in Fields : /\ stored = [s \in Asked |-> IF s = "name" THEN d.has[s] ELSE None]
                                 /\ stored["name"] = d.has["name"]
    <2>1. \A s \in Asked : (IF s = "name" THEN d.has[s] ELSE None) \in Values \cup {None}
      BY <1>1 DEF Fields
    <2>2. [s \in Asked |-> IF s = "name" THEN d.has[s] ELSE None] \in Fields
      BY <2>1 DEF Fields
    <2> QED
      BY <1>2, <2>2
  <1>4. PICK told \in [Rewritten -> Values \cup {None}] : told = [s \in Rewritten |-> d.has[s]]
    BY <1>1, <1>2 DEF Fields
  <1>5. d.has["name"] \in Values \cup {None}
    BY <1>1, <1>2 DEF Fields
  <1>6. new = [box |-> d.box, draft |-> d.id, status |-> "pending", currency |-> "KES",
               session |-> None, has |-> stored, named |-> d.has["name"], seen |-> told,
               chose |-> {}, sure |-> TRUE, failed |-> d.failed]
    BY <1>3, <1>4 DEF NewOrder
  <1>7. new \in Order
    BY <1>1, <1>3, <1>4, <1>5, <1>6 DEF Order
  <1> QED
    BY <1>3, <1>6, <1>7

(* The confirmation of a draft that was shown and not yet ordered: the     *)
(* order it makes or takes up again is as shown, no other of the draft     *)
(* counts, and the draft is gone or marked as failed.                      *)
LEMMA FinalizeKeeps ==
    ASSUME GiftInv, turn = Idle, drafts' \in 0..MaxDrafts, drafts <= drafts',
           NEW d \in Draft, NEW seen \in Fields \cup {None}, Finalize(d, seen),
           d.has["payment"] \in {"KES", "USD"}, d.id <= drafts', clean => seen = d.has,
           clean /\ ~d.failed =>
               \A i \in DOMAIN orders : Counts(orders[i]) => orders[i].draft # d.id
    PROVE  GiftInv'
  <1> DEFINE pay  == d.has["payment"]
             same == SameItems(d.box)
             at   == IF same = {} THEN Len(orders) + 1 ELSE Max(same)
             o    == IF same = {} THEN NewOrder(d, d.has) ELSE orders[at]
             own  == Confirmed(o, d, d.has)
             With(x) == IF at > Len(orders) THEN Append(orders, x)
                                            ELSE [orders EXCEPT ![at] = x]
             kept == [d EXCEPT !.step = "payment", !.failed = TRUE]
  <1>1. /\ orders \in Seq(Order) /\ clean \in BOOLEAN /\ drafts \in Nat /\ drafts' \in Nat
        /\ SoundOrders(orders, drafts')
    <2>1. orders \in Seq(Order) /\ SoundOrders(orders, drafts)
      BY DEF GiftInv, TypeOK
    <2>2. drafts \in Nat /\ drafts' \in Nat
      BY CheckoutAssumption DEF GiftInv, TypeOK
    <2>3. SoundOrders(orders, drafts')
      BY <2>1, <2>2, SoundLater
    <2> QED
      BY <2>1, <2>2, <2>3 DEF GiftInv, TypeOK
  <1>2. /\ d.has \in Fields /\ d.box \in Boxes /\ d.id \in 1..MaxDrafts /\ d.failed \in BOOLEAN
        /\ pay \in {"KES", "USD"} /\ d.id <= drafts'
    BY DEF Draft
  <1>3. same \in SUBSET DOMAIN orders
    BY DEF SameItems, Pending
  <1>4. same # {} => at \in DOMAIN orders /\ at = Max(same)
    BY <1>1, <1>3, NewestPending
  <1>5. same = {} => at > Len(orders) /\ at = Len(orders) + 1
    BY <1>1
  <1>6. /\ o \in Order /\ o.has["name"] = o.named /\ (o.session = None \/ o.session \in o.chose)
        /\ o.currency = "KES" \/ o.currency \in o.chose
        /\ same = {} => o.draft = d.id /\ o.failed = d.failed
        /\ same # {} => o = orders[at]
    <2>1. CASE same = {}
      <3>1. PICK new : new = NewOrder(d, d.has)
        OBVIOUS
      <3>2. new \in Order /\ new.has["name"] = new.named
        BY <1>2, <3>1, NewOrderIsTyped
      <3>3. /\ new.draft = d.id /\ new.failed = d.failed /\ new.session = None
            /\ new.currency = "KES"
        BY <3>1 DEF NewOrder
      <3> QED
        BY <1>2, <2>1, <3>1, <3>2, <3>3
    <2>2. CASE same # {}
      <3>1. PICK old : old = orders[at]
        OBVIOUS
      <3>2. old \in Order /\ AsShown(old)
        BY <1>1, <1>4, <2>2, <3>1 DEF SoundOrders
      <3> QED
        BY <2>2, <3>1, <3>2 DEF AsShown
    <2> QED
      BY <2>1, <2>2
  <1>7. /\ own \in Order /\ AsShown(own) /\ own.draft = o.draft /\ own.failed = o.failed
        /\ pay \in own.chose
        /\ own.sure => o.sure /\ clean
    <2> HIDE DEF o
    <2> QED
      BY <1>1, <1>6, ConfirmedAsShown
  <1>told. (IF clean THEN seen ELSE d.has) = d.has
    OBVIOUS
  <1> HIDE DEF own
  <1>8. ASSUME NEW x \in Order, x.draft = own.draft, x.failed = own.failed, AsShown(x),
               x.sure = own.sure
        PROVE  With(x) \in Seq(Order) /\ SoundOrders(With(x), drafts')
    <2>1. CASE same = {}
      <3>1. With(x) = Append(orders, x)
        BY <1>5, <2>1
      <3>2. AsShown(x) /\ x.draft <= drafts' /\ x.draft = d.id
        BY <1>2, <1>6, <1>7, <1>8, <2>1
      <3>3. Counts(x) => clean /\ ~d.failed
        BY <1>6, <1>7, <1>8, <2>1 DEF Counts
      <3>5. Counts(x) => \A i \in DOMAIN orders : Counts(orders[i]) => orders[i].draft # x.draft
        BY <3>2, <3>3
      <3> QED
        BY <1>1, <3>1, <3>2, <3>5, OrderAdded
    <2>2. CASE same # {}
      <3>1. at \in DOMAIN orders /\ at \in Nat /\ ~(at > Len(orders)) /\ Len(orders) \in Nat
        BY <1>1, <1>4, <2>2
      <3>2. With(x) = [orders EXCEPT ![at] = x]
        BY <3>1
      <3>3. /\ x.draft = orders[at].draft /\ x.failed = orders[at].failed /\ AsShown(x)
            /\ x.sure => orders[at].sure
        BY <1>6, <1>7, <1>8, <2>2
      <3>4. PICK k \in DOMAIN orders : k = at
        BY <3>1
      <3>5. With(x) = [orders EXCEPT ![k] = x]
        BY <3>2, <3>4
      <3>6. /\ x.draft = orders[k].draft /\ x.failed = orders[k].failed
            /\ x.sure => orders[k].sure
        BY <3>3, <3>4
      <3> HIDE DEF at, With
      <3>7. /\ [orders EXCEPT ![k] = x] \in Seq(Order)
            /\ SoundOrders([orders EXCEPT ![k] = x], drafts')
        BY <1>1, <1>8, <3>3, <3>6, OrderReplaced
      <3> QED
        BY <3>5, <3>7
    <2> QED
      BY <2>1, <2>2
  <1>9. /\ kept \in Draft /\ kept.has = d.has /\ kept.step = "payment" /\ kept.failed = TRUE
        /\ kept.id = d.id
    BY QuestionsAreSteps DEF Draft, Asked
  <1>10. SoundDraft(kept, drafts') /\ (clean => \A some : InHand(kept, seen, some))
    <2> HIDE DEF kept
    <2>1. clean => seen = kept.has
      BY <1>9
    <2> QED
      BY <1>2, <1>9, <2>1 DEF SoundDraft, InHand, Shows, Unordered
  <1>11. SoundDraft(None, drafts') /\ \A some : InHand(None, None, some)
    BY DEF SoundDraft, InHand, Shows, Unordered
  <1>12. CASE own.session # None
    <2>1. Leave(None, With(own), None)
      BY <1>12, <1>told DEF Finalize, own
    <2>2. With(own) \in Seq(Order) /\ SoundOrders(With(own), drafts')
      BY <1>7, <1>8
    <2> HIDE DEF With
    <2> QED
      BY <1>11, <2>1, <2>2, LeaveKeeps
  <1>13. CASE own.session = None
    <2>1. PICK x \in Asks(own, pay) : IF x.session # None
                                       THEN Leave(None, With(x), None)
                                       ELSE Leave(kept, With(x), seen)
      BY <1>13, <1>told DEF Finalize, own
    <2>2. /\ x \in Order /\ x.draft = own.draft /\ x.failed = own.failed /\ AsShown(x)
          /\ x.sure = own.sure
      BY <1>2, <1>7, AsksKeepsOrder
    <2>3. With(x) \in Seq(Order) /\ SoundOrders(With(x), drafts')
      BY <1>8, <2>2
    <2> HIDE DEF With, kept
    <2>4. CASE x.session # None
      BY <1>11, <2>1, <2>3, <2>4, LeaveKeeps
    <2>5. CASE x.session = None
      BY <1>9, <1>10, <2>1, <2>3, <2>5, LeaveKeeps
    <2> QED
      BY <2>4, <2>5
  <1> QED
    BY <1>12, <1>13

(* The newest unpaid order is asked for again.                             *)
LEMMA ResendKeeps == ASSUME GiftInv, turn = Idle, NEW r, Resend(r) PROVE GiftInv'
  <1>1. UNCHANGED drafts /\ orders \in Seq(Order) /\ SoundOrders(orders, drafts) /\ drafts \in Nat
    BY CheckoutAssumption DEF Resend, GiftInv, TypeOK
  <1>2. CASE Pending = {}
    BY <1>1, <1>2, ReplyKeeps DEF Resend
  <1>3. CASE Pending # {}
    <2>1. PICK i \in DOMAIN orders : i = Max(Pending)
      BY <1>1, <1>3, NewestPending DEF Pending
    <2>2. PICK x \in Asks(orders[i], orders[i].currency) : Reply([orders EXCEPT ![i] = x])
      BY <1>3, <2>1 DEF Resend
    <2>3. orders[i] \in Order /\ AsShown(orders[i])
      BY <1>1 DEF SoundOrders
    <2>4. orders[i].currency \in {"KES", "USD"} /\ orders[i].currency \in orders[i].chose
      BY <2>3 DEF Order, AsShown
    <2>5. /\ x \in Order /\ x.draft = orders[i].draft /\ x.failed = orders[i].failed
          /\ AsShown(x) /\ x.sure = orders[i].sure
      <3>1. PICK o \in Order : o = orders[i]
        BY <2>3
      <3>2. PICK currency \in {"KES", "USD"} : currency = orders[i].currency
        BY <2>4
      <3>3. x \in Asks(o, currency)
        BY <3>1, <3>2
      <3>4. AsShown(o) /\ currency \in o.chose
        BY <2>3, <2>4, <3>1, <3>2
      <3>5. /\ x \in Order /\ x.draft = o.draft /\ x.failed = o.failed
            /\ AsShown(x) /\ x.sure = o.sure
        BY <3>3, <3>4, AsksKeepsOrder
      <3> QED
        BY <3>1, <3>5
    <2>6. AsShown(x) /\ (x.sure => orders[i].sure)
      BY <2>3, <2>5
    <2>7. PICK new : new = [orders EXCEPT ![i] = x]
      OBVIOUS
    <2>8. /\ new \in Seq(Order) /\ SoundOrders(new, drafts)
          /\ \A d : Unordered(d, orders) => Unordered(d, new)
      BY <1>1, <2>5, <2>6, <2>7, OrderReplaced
    <2> QED
      BY <1>1, <2>2, <2>7, <2>8, ReplyKeeps
  <1> QED
    BY <1>2, <1>3

(* Without a draft nothing is promised of one.                             *)
LEMMA NothingLeft ==
    \A n, some, seen : SoundDraft(None, n) /\ InHand(None, seen, some)
  BY DEF SoundDraft, InHand, Shows, Unordered

(* A status changes nothing else.                                          *)
LEMMA StatusKeeps ==
    ASSUME NEW o \in Order, NEW to \in {"pending", "paid", "delivered", "closed"}
    PROVE  /\ [o EXCEPT !.status = to] \in Order
           /\ [o EXCEPT !.status = to].draft = o.draft
           /\ [o EXCEPT !.status = to].failed = o.failed
           /\ AsShown(o) => AsShown([o EXCEPT !.status = to])
           /\ [o EXCEPT !.status = to].sure = o.sure
  <1>1. PICK x : x = [o EXCEPT !.status = to]
    OBVIOUS
  <1>2. /\ x \in Order /\ x.draft = o.draft /\ x.failed = o.failed /\ x.sure = o.sure
        /\ x.has = o.has /\ x.named = o.named /\ x.seen = o.seen /\ x.chose = o.chose
        /\ x.currency = o.currency /\ x.session = o.session
    BY <1>1 DEF Order
  <1>3. AsShown(o) => AsShown(x)
    BY <1>2 DEF AsShown
  <1> QED
    BY <1>1, <1>2, <1>3

(* The newest unpaid order is closed.                                      *)
LEMMA ClearCartKeeps == ASSUME GiftInv, turn = Idle, NEW r, ClearCart(r) PROVE GiftInv'
  <1> DEFINE Closed == [i \in DOMAIN orders |->
                          IF Pending # {} /\ i = Max(Pending)
                            THEN [orders[i] EXCEPT !.status = "closed"] ELSE orders[i]]
  <1>1. Leave(None, Closed, None) /\ UNCHANGED drafts
    BY DEF ClearCart
  <1>2. orders \in Seq(Order) /\ SoundOrders(orders, drafts)
    BY DEF GiftInv, TypeOK
  <1>3. /\ drafts' \in 0..MaxDrafts /\ drafts <= drafts' /\ drafts' = drafts
    BY <1>1, CheckoutAssumption DEF GiftInv, TypeOK
  <1>4. \A i \in DOMAIN orders : orders[i] \in Order
    BY <1>2
  <1>5. PICK new : new = Closed
    OBVIOUS
  <1>6. /\ DOMAIN new = DOMAIN orders
        /\ \A i \in DOMAIN orders : \/ new[i] = orders[i]
                                    \/ new[i] = [orders[i] EXCEPT !.status = "closed"]
    BY <1>5
  <1>7. ASSUME NEW i \in DOMAIN orders
        PROVE  /\ new[i] \in Order /\ new[i].draft = orders[i].draft
               /\ new[i].failed = orders[i].failed /\ (AsShown(orders[i]) => AsShown(new[i]))
               /\ new[i].sure = orders[i].sure
    <2>1. PICK o \in Order : o = orders[i]
      BY <1>4
    <2>2. CASE new[i] = orders[i]
      BY <2>1, <2>2
    <2>3. CASE new[i] = [orders[i] EXCEPT !.status = "closed"]
      <3>1. PICK x : x = [o EXCEPT !.status = "closed"]
        OBVIOUS
      <3>2. x \in Order /\ x.draft = o.draft /\ x.failed = o.failed
            /\ (AsShown(o) => AsShown(x)) /\ x.sure = o.sure
        BY <3>1, StatusKeeps
      <3> QED
        BY <2>1, <2>3, <3>1, <3>2
    <2> QED
      BY <1>6, <2>2, <2>3
  <1>8. new \in Seq(Order)
    <2>1. DOMAIN orders = 1..Len(orders) /\ Len(orders) \in Nat
      BY <1>2
    <2>2. new \in [1..Len(orders) -> Order]
      BY <1>5, <1>7, <2>1
    <2> QED
      BY <2>1, <2>2
  <1>9. SoundOrders(new, drafts)
    BY <1>2, <1>6, <1>7 DEF SoundOrders, Counts
  <1>10. Leave(None, new, None)
    BY <1>1, <1>5
  <1>11. SoundDraft(None, drafts') /\ InHand(None, None, new)
    BY NothingLeft
  <1> QED
    BY <1>3, <1>8, <1>9, <1>10, <1>11, LeaveKeeps

(* The answers that leave the draft alone.                                 *)
LEMMA AsideKeeps ==
    ASSUME GiftInv, turn = Idle, Reply(orders), UNCHANGED drafts PROVE GiftInv'
  BY ReplyKeeps DEF GiftInv, TypeOK

(* The draft is dropped.                                                   *)
LEMMA DropKeeps == ASSUME GiftInv, turn = Idle, NEW d, NEW r, Drop(d, r) PROVE GiftInv'
  <1>1. Leave(None, orders, None) /\ drafts' = drafts
    BY DEF Drop
  <1>2. orders \in Seq(Order) /\ SoundOrders(orders, drafts')
    BY <1>1 DEF GiftInv, TypeOK
  <1>3. drafts' \in 0..MaxDrafts /\ drafts <= drafts'
    BY <1>1, CheckoutAssumption DEF GiftInv, TypeOK
  <1>4. SoundDraft(None, drafts') /\ InHand(None, None, orders)
    BY NothingLeft
  <1> QED
    BY <1>1, <1>2, <1>3, <1>4, LeaveKeeps

(* A draft may be moved to any question, and to the confirmation when no   *)
(* question is open.                                                       *)
LEMMA StepMoves ==
    ASSUME GiftInv, turn = Idle, UNCHANGED drafts, NEW d \in Readable, d # None,
           NEW step \in Steps, step = "confirm" => NextStep(d.has) = "confirm",
           Leave([d EXCEPT !.step = step], orders, shown)
    PROVE  GiftInv'
  <1> DEFINE new == [d EXCEPT !.step = step]
  <1>1. d \in Draft /\ SoundDraft(d, drafts) /\ (clean => d = meta)
    BY DraftIsRead
  <1>2. /\ new \in Draft /\ new.has = d.has /\ new.id = d.id /\ new.failed = d.failed
        /\ new.step = step
    BY <1>1 DEF Draft
  <1>3. orders \in Seq(Order) /\ shown \in Fields \cup {None} /\ SoundOrders(orders, drafts')
    BY DEF GiftInv, TypeOK
  <1>4. drafts' \in 0..MaxDrafts /\ drafts <= drafts'
    BY CheckoutAssumption DEF GiftInv, TypeOK
  <1>5. clean => InHand(d, shown, orders)
    BY <1>1 DEF GiftInv
  <1>6. Leave(new, orders, shown)
    OBVIOUS
  <1> HIDE DEF new
  <1>7. SoundDraft(new, drafts')
    BY <1>1, <1>2 DEF SoundDraft
  <1>8. clean => InHand(new, shown, orders)
    BY <1>2, <1>5 DEF InHand, Shows, Unordered
  <1> QED
    BY <1>2, <1>3, <1>4, <1>6, <1>7, <1>8, LeaveKeeps

(* A pause.                                                                *)
LEMMA PauseKeeps ==
    ASSUME GiftInv, turn = Idle, NEW d \in Readable, d # None, NEW r, Pause(d, r) PROVE GiftInv'
  <1>1. NextStep(d.has) \in Steps
    BY NextStepIsOpen
  <1> QED
    BY <1>1, StepMoves DEF Pause

(* An edit, a step back, a draft opened again.                             *)
LEMMA MoveToKeeps ==
    ASSUME GiftInv, turn = Idle, NEW m \in Messages, NEW d \in Readable, d # None, NEW r,
           r = "edit" => m.edit # None, MoveTo(m, d, r)
    PROVE  GiftInv'
  <1>1. UNCHANGED drafts
    BY DEF MoveTo
  <1>2. CASE r = "edit" /\ Leave([d EXCEPT !.step = m.edit], orders, shown)
    <2>1. m.edit \in Asked
      BY <1>2, CheckoutAssumption DEF Message
    <2>2. m.edit \in Steps /\ m.edit # "confirm"
      BY <2>1, QuestionsAreSteps
    <2> QED
      BY <1>1, <1>2, <2>2, StepMoves
  <1>3. CASE Leave([d EXCEPT !.step = StepBefore(@)], orders, shown)
    <2>1. d \in Draft
      BY DraftIsRead
    <2>2. d.step \in Steps
      BY <2>1 DEF Draft
    <2>3. StepBefore(d.step) \in Steps /\ StepBefore(d.step) # "confirm"
      BY <2>2, BackIsAQuestion, QuestionsAreSteps
    <2>4. Leave([d EXCEPT !.step = StepBefore(d.step)], orders, shown)
      BY <1>3
    <2> QED
      BY <1>1, <2>3, <2>4, StepMoves
  <1>4. CASE Leave([d EXCEPT !.step = "name"], orders, shown)
    <2>1. "name" \in Steps
      BY QuestionsAreSteps DEF Asked
    <2> QED
      BY <1>1, <1>4, <2>1, StepMoves
  <1> QED
    BY <1>2, <1>3, <1>4 DEF MoveTo

(* What a message says and carries.                                        *)
LEMMA MessageIsTyped ==
    ASSUME NEW m \in Messages
    PROVE  /\ m.says \in Fields /\ m.form \in Fields /\ m.box \in Boxes \cup {None}
           /\ m.says["payment"] \in {"KES", "USD", None}
           /\ m.form["payment"] \in {"KES", "USD", None}
           /\ "customForm" \in m.hits => m.box # None
  <1>1. m \in Message
    BY CheckoutAssumption
  <1>2. m.says \in Fields /\ m.form \in Fields /\ m.box \in Boxes \cup {None}
    BY <1>1 DEF Message
  <1>3. {m.says["payment"], m.form["payment"]} \subseteq {"KES", "USD", None}
    BY CheckoutAssumption
  <1>4. "customForm" \in m.hits => m.box # None
    BY CheckoutAssumption
  <1> QED
    BY <1>2, <1>3, <1>4

(* An answer is stored and the next question asked, or the summary sent.   *)
LEMMA AnswerKeeps ==
    ASSUME GiftInv, turn = Idle, NEW m \in Messages, NEW d \in Readable, d # None,
           d.step # "confirm", NEW r, Answer(m, d, r)
    PROVE  GiftInv'
  <1> DEFINE answers == [d.has EXCEPT ![d.step] = m.says[d.step]]
             new == Advanced(d, answers)
  <1>1. d \in Draft /\ SoundDraft(d, drafts) /\ (clean => d = meta)
    BY DraftIsRead
  <1>2. d.has \in Fields /\ d.step \in Asked
    BY <1>1, QuestionsAreSteps DEF Draft
  <1>3. PICK s \in Asked : s = d.step
    BY <1>2
  <1>4. m.says[s] \in Values \cup {None}
    BY MessageIsTyped DEF Fields
  <1>5. answers \in Fields
    BY <1>2, <1>3, <1>4 DEF Fields
  <1>6. answers["payment"] \in {"KES", "USD", None}
    <2>1. d.has["payment"] \in {"KES", "USD", None}
      BY <1>1 DEF SoundDraft
    <2>2. answers["payment"] = IF s = "payment" THEN m.says["payment"] ELSE d.has["payment"]
      BY <1>2, <1>3 DEF Fields, Asked
    <2> HIDE DEF answers
    <2> QED
      BY <2>1, <2>2, MessageIsTyped
  <1>7. orders \in Seq(Order) /\ shown \in Fields \cup {None} /\ SoundOrders(orders, drafts)
    BY DEF GiftInv, TypeOK
  <1>8. UNCHANGED drafts /\ drafts' \in 0..MaxDrafts /\ drafts <= drafts'
    BY CheckoutAssumption DEF Answer, GiftInv, TypeOK
  <1>9. CASE Reply(orders)
    BY <1>8, <1>9, AsideKeeps
  <1>10. CASE Leave(new, orders, Summarised(answers))
    <2> HIDE DEF answers
    <2>1. /\ new \in Draft /\ new.has = answers /\ new.step = NextStep(answers)
          /\ new.id = d.id /\ new.failed = d.failed
      BY <1>1, <1>5, NextStepIsOpen DEF Advanced, Draft
    <2> HIDE DEF new
    <2>2. SoundDraft(new, drafts')
      <3>1. d.id <= drafts
        BY <1>1 DEF SoundDraft
      <3> QED
        BY <1>6, <1>8, <2>1, <3>1 DEF SoundDraft
    <2>3. Summarised(answers) \in Fields \cup {None}
      BY <1>5, <1>7 DEF Summarised
    <2>4. Shows(new, Summarised(answers))
      BY <2>1 DEF Shows, Summarised
    <2>5. clean => Unordered(new, orders)
      <3>1. clean => Unordered(d, orders)
        BY <1>1 DEF GiftInv, InHand
      <3> QED
        BY <2>1, <3>1 DEF Unordered
    <2> QED
      BY <1>7, <1>8, <1>10, <2>1, <2>2, <2>3, <2>4, <2>5, LeaveKeeps DEF InHand
  <1> QED
    BY <1>9, <1>10 DEF Answer

(* The customer confirms what was shown.                                   *)
LEMMA ConfirmKeeps ==
    ASSUME GiftInv, turn = Idle, NEW d \in Readable, d # None, d.step = "confirm",
           NEW r, Confirm(d, r)
    PROVE  GiftInv'
  <1>1. d \in Draft /\ SoundDraft(d, drafts) /\ (clean => d = meta)
    BY DraftIsRead
  <1>2. Finalize(d, shown) /\ UNCHANGED drafts
    BY DEF Confirm
  <1>3. shown \in Fields \cup {None} /\ drafts' \in 0..MaxDrafts /\ drafts <= drafts'
    BY <1>2, CheckoutAssumption DEF GiftInv, TypeOK
  <1>4. /\ d.has["payment"] \in {"KES", "USD"} /\ d.id <= drafts'
        /\ NextStep(d.has) = "confirm"
    <2>1. /\ d.has["payment"] \in {"KES", "USD", None} /\ d.id <= drafts'
          /\ NextStep(d.has) = "confirm"
      BY <1>1, <1>2 DEF SoundDraft
    <2>2. Suits(d.has, "payment")
      BY <2>1, NextStepIsOpen DEF Asked
    <2> QED
      BY <2>1, <2>2 DEF Suits
  <1>5. clean => InHand(d, shown, orders)
    BY <1>1 DEF GiftInv
  <1>6. clean => shown = d.has
    BY <1>4, <1>5 DEF InHand, Shows
  <1>7. clean /\ ~d.failed => \A i \in DOMAIN orders : Counts(orders[i]) => orders[i].draft # d.id
    BY <1>5 DEF InHand, Unordered
  <1> QED
    BY <1>1, <1>2, <1>3, <1>4, <1>6, <1>7, FinalizeKeeps

(* A new draft holds what its form says, and no order is of it yet.        *)
LEMMA OpenedIsNew ==
    ASSUME GiftInv, NEW m \in Messages, m.box # None, drafts < MaxDrafts,
           NEW payment \in {"KES", "USD", None}
    PROVE  LET new == Opened(m, payment) IN
           /\ new \in Draft /\ new.id = drafts + 1 /\ new.failed = FALSE
           /\ new.has["payment"] = payment /\ new.step = NextStep(new.has)
           /\ \A s \in Asked : s # "payment" => new.has[s] = m.form[s]
           /\ \A i \in DOMAIN orders : orders[i].draft # new.id
  <1>0. PICK new : new = Opened(m, payment)
    OBVIOUS
  <1>1. m.form \in Fields /\ m.box \in Boxes
    BY MessageIsTyped
  <1>2. payment \in Values \cup {None} /\ "payment" \in Asked
    BY CheckoutAssumption DEF Asked
  <1>3. PICK answers \in Fields : answers = [m.form EXCEPT !["payment"] = payment]
    BY <1>1, <1>2 DEF Fields
  <1>4. answers["payment"] = payment /\ \A s \in Asked : s # "payment" => answers[s] = m.form[s]
    BY <1>1, <1>2, <1>3 DEF Fields
  <1>5. drafts + 1 \in 1..MaxDrafts
    BY CheckoutAssumption DEF GiftInv, TypeOK
  <1>6. PICK n \in 1..MaxDrafts : n = drafts + 1
    BY <1>5
  <1>7. new = [id |-> n, box |-> m.box, step |-> NextStep(answers), has |-> answers,
               failed |-> FALSE]
    BY <1>0, <1>3, <1>6 DEF Opened
  <1>8. NextStep(answers) \in Steps
    BY NextStepIsOpen
  <1>9. new \in Draft
    BY <1>1, <1>7, <1>8 DEF Draft
  <1>10. \A i \in DOMAIN orders : orders[i].draft # n
    <2>1. orders \in Seq(Order) /\ drafts \in Nat
      BY CheckoutAssumption DEF GiftInv, TypeOK
    <2>2. \A i \in DOMAIN orders : orders[i] \in Order /\ orders[i].draft <= drafts
      BY <2>1 DEF GiftInv, SoundOrders
    <2>3. \A o \in Order : o.draft \in Nat
      BY CheckoutAssumption DEF Order
    <2> QED
      BY <1>6, <2>1, <2>2, <2>3
  <1>11. /\ new.id = n /\ new.failed = FALSE /\ new.has = answers
         /\ new.step = NextStep(answers)
    BY <1>7
  <1> QED
    BY <1>0, <1>4, <1>6, <1>9, <1>10, <1>11

(* A form with everything in it is ordered at once.                        *)
LEMMA SubmitKeeps ==
    ASSUME GiftInv, turn = Idle, NEW m \in Messages, m.box # None, NEW r, Submit(m, r)
    PROVE  GiftInv'
  <1>1. PICK payment \in {"KES", "USD"} :
            payment = (IF m.form["payment"] = None THEN "USD" ELSE m.form["payment"])
    BY MessageIsTyped
  <1>2. PICK new : new = Opened(m, payment)
    OBVIOUS
  <1>3. drafts < MaxDrafts /\ drafts' = drafts + 1 /\ Finalize(new, new.has)
    BY <1>1, <1>2 DEF Submit
  <1>4. /\ new \in Draft /\ new.id = drafts + 1 /\ new.failed = FALSE
        /\ new.has["payment"] = payment
        /\ \A i \in DOMAIN orders : orders[i].draft # new.id
    BY <1>2, <1>3, OpenedIsNew
  <1>5. drafts' \in 0..MaxDrafts /\ drafts <= drafts' /\ new.id <= drafts'
    BY <1>3, <1>4, CheckoutAssumption DEF GiftInv, TypeOK
  <1>6. new.has \in Fields \cup {None}
    BY <1>4 DEF Draft
  <1> QED
    BY <1>3, <1>4, <1>5, <1>6, FinalizeKeeps

(* A checkout starts with a question that is open.                         *)
LEMMA StartKeeps ==
    ASSUME GiftInv, turn = Idle, NEW m \in Messages, m.box # None, ~FormComplete(m),
           NEW r, Start(m, r)
    PROVE  GiftInv'
  <1>1. PICK payment \in {"KES", "USD", None} : payment = m.form["payment"]
    BY MessageIsTyped
  <1>2. PICK new : new = Opened(m, payment)
    OBVIOUS
  <1>3. drafts < MaxDrafts /\ drafts' = drafts + 1 /\ Leave(new, orders, None)
    BY <1>1, <1>2 DEF Start
  <1>4. /\ new \in Draft /\ new.id = drafts + 1 /\ new.failed = FALSE
        /\ new.has["payment"] = payment /\ new.step = NextStep(new.has)
        /\ \A s \in Asked : s # "payment" => new.has[s] = m.form[s]
        /\ \A i \in DOMAIN orders : orders[i].draft # new.id
    BY <1>2, <1>3, OpenedIsNew
  <1>5. drafts' \in 0..MaxDrafts /\ drafts <= drafts' /\ new.id <= drafts' /\ drafts \in Nat
        /\ drafts' \in Nat
    BY <1>3, <1>4, CheckoutAssumption DEF GiftInv, TypeOK
  <1>6. PICK s \in {"name", "location", "window", "contact"} : m.form[s] = None
    BY DEF FormComplete
  <1>7. s \in Asked /\ s # "payment"
    BY DEF Asked
  <1>8. ~Suits(new.has, s)
    BY <1>4, <1>6, <1>7 DEF Suits
  <1>9. NextStep(new.has) # "confirm"
    BY <1>7, <1>8, NextStepIsOpen
  <1>10. SoundDraft(new, drafts')
    BY <1>4, <1>5, <1>9 DEF SoundDraft
  <1>11. InHand(new, None, orders)
    BY <1>4, <1>9 DEF InHand, Shows, Unordered
  <1>12. orders \in Seq(Order) /\ SoundOrders(orders, drafts')
    <2>1. orders \in Seq(Order) /\ SoundOrders(orders, drafts)
      BY DEF GiftInv, TypeOK
    <2> QED
      BY <1>5, <2>1, SoundLater
  <1> QED
    BY <1>3, <1>4, <1>5, <1>10, <1>11, <1>12, LeaveKeeps

(* The fields of a turn under way.                                         *)
LEMMA TurnIsHandled ==
    ASSUME GiftInv, turn # Idle
    PROVE  /\ turn.draft \in Draft \cup {None} /\ turn.orders \in Seq(Order)
           /\ turn.shown \in Fields \cup {None} /\ turn.touched \in BOOLEAN
           /\ turn.wrote \in BOOLEAN
  BY DEF GiftInv, TypeOK, TurnType

(* The turn commits.                                                       *)
LEMMA CommitKeeps == ASSUME GiftInv, Commit PROVE GiftInv'
  <1>1. /\ turn # Idle /\ turn' = Idle /\ meta' = turn.draft /\ orders' = turn.orders
        /\ shown' = turn.shown /\ UNCHANGED <<redis, drafts, faults>>
    BY DEF Commit
  <1>2. clean' = IF turn.touched THEN turn.wrote /\ (clean \/ turn.draft = None) ELSE clean
    BY DEF Commit
  <1>3. /\ turn.draft \in Draft \cup {None} /\ turn.orders \in Seq(Order)
        /\ turn.shown \in Fields \cup {None} /\ turn.touched \in BOOLEAN
        /\ turn.wrote \in BOOLEAN
    BY <1>1, TurnIsHandled
  <1>4. clean' \in BOOLEAN
    BY <1>2, <1>3 DEF GiftInv, TypeOK
  <1>5. TypeOK'
    BY <1>1, <1>3, <1>4 DEF GiftInv, TypeOK, TurnType
  <1>6. SoundDraft(turn.draft, drafts) /\ SoundOrders(turn.orders, drafts)
    BY <1>1 DEF GiftInv, TurnIsSound
  <1>7. clean' => clean \/ turn.draft = None
    BY <1>2, <1>3
  <1>8. clean' => InHand(meta', shown', orders')
    <2>1. clean => InHand(turn.draft, turn.shown, turn.orders)
      BY <1>1 DEF GiftInv, TurnIsSound
    <2> QED
      BY <1>1, <1>7, <2>1, NothingLeft
  <1>9. clean' => redis' \in {None, meta'}
    <2>1. CASE turn.touched
      <3>1. clean' => turn.wrote
        BY <1>2, <2>1
      <3>2. turn.wrote => redis = turn.draft
        BY <1>1, <2>1 DEF GiftInv, TurnIsSound
      <3> QED
        BY <1>1, <3>1, <3>2
    <2>2. CASE ~turn.touched
      <3>1. clean' = clean /\ turn.draft = meta
        BY <1>1, <1>2, <2>2 DEF GiftInv, TurnIsSound
      <3>2. ~RedisAhead
        BY <2>2 DEF RedisAhead
      <3>3. clean => redis \in {None, meta}
        BY <3>2 DEF GiftInv
      <3> QED
        BY <1>1, <3>1, <3>3
    <2> QED
      BY <2>1, <2>2
  <1> QED
    BY <1>1, <1>5, <1>6, <1>8, <1>9 DEF GiftInv, TurnIsSound

(* The turn fails or its process dies.                                     *)
LEMMA TurnFailsKeeps == ASSUME GiftInv, TurnFails PROVE GiftInv'
  <1>1. turn # Idle /\ turn' = Idle /\ UNCHANGED <<redis, meta, orders, shown, drafts>>
    BY DEF TurnFails
  <1>2. clean' = (clean /\ ~(turn.touched /\ turn.wrote)) /\ faults' \in 0..MaxFaults
    BY CheckoutAssumption DEF TurnFails, Fault, GiftInv, TypeOK
  <1>3. clean' \in BOOLEAN /\ (clean' => clean /\ ~RedisAhead)
    BY <1>2, TurnIsHandled DEF RedisAhead
  <1>4. TypeOK'
    BY <1>1, <1>2, <1>3 DEF GiftInv, TypeOK, TurnType
  <1> QED
    BY <1>1, <1>3, <1>4 DEF GiftInv, TurnIsSound

(* Both copies expire.                                                     *)
LEMMA DraftExpiresKeeps == ASSUME GiftInv, DraftExpires PROVE GiftInv'
  <1>1. /\ turn = Idle /\ redis' = None /\ meta' = None /\ clean' = TRUE
        /\ UNCHANGED <<orders, shown, turn, drafts, faults>>
    BY DEF DraftExpires
  <1>2. TypeOK'
    BY <1>1 DEF GiftInv, TypeOK
  <1>3. SoundDraft(None, drafts) /\ InHand(None, shown, orders)
    BY NothingLeft
  <1> QED
    BY <1>1, <1>2, <1>3 DEF GiftInv, TurnIsSound

(* Redis forgets its copy.                                                 *)
LEMMA RedisForgetsKeeps == ASSUME GiftInv, RedisForgets PROVE GiftInv'
  <1>1. /\ turn = Idle /\ redis' = None /\ clean' = (clean \/ meta = None)
        /\ UNCHANGED <<meta, orders, shown, turn, drafts>>
    BY DEF RedisForgets
  <1>2. faults' \in 0..MaxFaults
    BY CheckoutAssumption DEF RedisForgets, Fault, GiftInv, TypeOK
  <1>3. TypeOK'
    BY <1>1, <1>2 DEF GiftInv, TypeOK
  <1>4. SoundDraft(None, drafts)
    BY NothingLeft
  <1>5. clean' => InHand(meta, shown, orders)
    BY <1>1, NothingLeft DEF GiftInv
  <1> QED
    BY <1>1, <1>3, <1>4, <1>5 DEF GiftInv, TurnIsSound

(* An order is paid, its payment fails, or it is delivered.                *)
LEMMA SetStatusKeeps ==
    ASSUME GiftInv, NEW i \in DOMAIN orders, NEW from,
           NEW to \in {"pending", "paid", "delivered", "closed"}, SetStatus(i, from, to)
    PROVE  GiftInv'
  <1>1. turn = Idle /\ UNCHANGED <<redis, meta, shown, turn, clean, drafts, faults>>
    BY DEF SetStatus
  <1>2. orders \in Seq(Order) /\ SoundOrders(orders, drafts) /\ drafts \in Nat
    BY CheckoutAssumption DEF GiftInv, TypeOK
  <1>3. orders[i] \in Order /\ AsShown(orders[i])
    BY <1>2 DEF SoundOrders
  <1>4. PICK x \in Order : x = [orders[i] EXCEPT !.status = to]
    BY <1>3, StatusKeeps
  <1>5. /\ x.draft = orders[i].draft /\ x.failed = orders[i].failed
        /\ AsShown(x) /\ (x.sure => orders[i].sure)
    BY <1>3, <1>4, StatusKeeps
  <1>6. orders' = [orders EXCEPT ![i] = x]
    BY <1>4 DEF SetStatus
  <1>7. /\ orders' \in Seq(Order) /\ SoundOrders(orders', drafts)
        /\ \A d : Unordered(d, orders) => Unordered(d, orders')
    BY <1>2, <1>5, <1>6, OrderReplaced
  <1>8. TypeOK'
    BY <1>1, <1>7 DEF GiftInv, TypeOK
  <1>9. clean => InHand(meta, shown, orders')
    BY <1>7 DEF GiftInv, InHand
  <1> QED
    BY <1>1, <1>7, <1>8, <1>9 DEF GiftInv, TurnIsSound, RedisAhead

(* Every answer to a message keeps the invariant.                          *)
LEMMA HandleKeeps ==
    ASSUME GiftInv, turn = Idle, NEW m \in Messages, NEW d \in Readable, NEW r,
           r = Route(m, d), Handle(m, d, r)
    PROVE  GiftInv'
  <1>1. /\ r \in {"edit", "back", "answer", "confirm", "reopen", "pause"} => d # None
        /\ r = "edit" => m.edit # None
        /\ r = "answer" => d.step # "confirm"
        /\ r = "confirm" => d.step = "confirm"
        /\ r \in {"submit", "start"} => m.box # None \/ "customForm" \in m.hits
        /\ r = "start" => ~FormComplete(m)
    BY RouteMeans
  <1>2. r \in {"submit", "start"} => m.box # None
    BY <1>1, MessageIsTyped
  <1>3. CASE Aside(r)
    BY <1>3, AsideKeeps DEF Aside
  <1>4. CASE Resend(r)
    BY <1>4, ResendKeeps
  <1>5. CASE ClearCart(r)
    BY <1>5, ClearCartKeeps
  <1>6. CASE Drop(d, r)
    BY <1>6, DropKeeps
  <1>7. CASE ShowCatalog(d, r)
    BY <1>7, AsideKeeps DEF ShowCatalog
  <1>8. CASE Pause(d, r)
    BY <1>1, <1>8, PauseKeeps DEF Pause
  <1>9. CASE MoveTo(m, d, r)
    <2>1. r \in {"edit", "back", "reopen"}
      BY <1>9 DEF MoveTo
    <2> QED
      BY <1>1, <1>9, <2>1, MoveToKeeps
  <1>10. CASE Answer(m, d, r)
    <2>1. r = "answer"
      BY <1>10 DEF Answer
    <2> QED
      BY <1>1, <1>10, <2>1, AnswerKeeps
  <1>11. CASE Confirm(d, r)
    <2>1. r = "confirm"
      BY <1>11 DEF Confirm
    <2> QED
      BY <1>1, <1>11, <2>1, ConfirmKeeps
  <1>12. CASE Submit(m, r)
    <2>1. r = "submit"
      BY <1>12 DEF Submit
    <2> QED
      BY <1>2, <1>12, <2>1, SubmitKeeps
  <1>13. CASE Start(m, r)
    <2>1. r = "start"
      BY <1>13 DEF Start
    <2> QED
      BY <1>1, <1>2, <1>13, <2>1, StartKeeps
  <1> QED
    BY <1>3, <1>4, <1>5, <1>6, <1>7, <1>8, <1>9, <1>10, <1>11, <1>12, <1>13 DEF Handle

(* Every step of the conversation does.                                    *)
LEMMA CheckoutStepKeeps == GiftInv /\ [Next]_vars => GiftInv'
  <1> SUFFICES ASSUME GiftInv, [Next]_vars PROVE GiftInv'
    OBVIOUS
  <1>1. CASE turn = Idle /\ \E m \in Messages : \E d \in Readable : \E r \in {Route(m, d)} :
                               Handle(m, d, r)
    BY <1>1, HandleKeeps
  <1>2. CASE Commit
    BY <1>2, CommitKeeps
  <1>3. CASE TurnFails
    BY <1>3, TurnFailsKeeps
  <1>4. CASE DraftExpires
    BY <1>4, DraftExpiresKeeps
  <1>5. CASE RedisForgets
    BY <1>5, RedisForgetsKeeps
  <1>6. CASE \E i \in DOMAIN orders : Pay(i) \/ PayFails(i) \/ Delivered(i)
    <2>1. PICK i \in DOMAIN orders : Pay(i) \/ PayFails(i) \/ Delivered(i)
      BY <1>6
    <2>2. \/ SetStatus(i, "pending", "paid") \/ SetStatus(i, "pending", "closed")
          \/ SetStatus(i, "paid", "delivered")
      BY <2>1 DEF Pay, PayFails, Delivered
    <2> QED
      BY <2>2, SetStatusKeeps
  <1>7. CASE UNCHANGED vars
    BY <1>7 DEF vars, GiftInv, TypeOK, TurnIsSound, RedisAhead
  <1> QED
    BY <1>1, <1>2, <1>3, <1>4, <1>5, <1>6, <1>7 DEF Next

(* Every reachable state of the gift checkout satisfies its invariant, for *)
(* any messages, boxes and bounds.                                         *)
THEOREM CheckoutInvariance == Spec => []GiftInv
  BY CheckoutStarts, CheckoutStepKeeps, PTL DEF Spec

(* Redis holds what the row holds, or nothing, until a write is lost or a  *)
(* turn fails after it, and a draft waits for its confirmation only when   *)
(* every question is answered.                                             *)
THEOREM DraftsStaySound == Spec => []DraftsAreSound
  <1>1. GiftInv => DraftsAreSound
    BY DEF GiftInv, DraftsAreSound, CopiesAgree, ConfirmIsComplete, RedisAhead, SoundDraft
  <1> QED
    BY <1>1, CheckoutInvariance, PTL

(* A set without two different members has one member at most.             *)
LEMMA OneOrNone ==
    ASSUME NEW S, \A x, y \in S : x = y
    PROVE  Cardinality(S) <= 1
  <1>1. CASE S = {}
    BY <1>1, FS_EmptySet
  <1>2. CASE S # {}
    <2>1. PICK x : S = {x}
      BY <1>2
    <2>2. Cardinality({x}) = 1
      BY FS_Singleton
    <2> QED
      BY <2>1, <2>2
  <1> QED
    BY <1>1, <1>2

(* An order goes where and when its customer last saw, keeps the name it   *)
(* was made with, and is asked for in a method it was confirmed with; and  *)
(* one draft is paid for once unless one of its payments failed to start   *)
(* (cafe_automation.py, gift_automation.py).                               *)
THEOREM OrdersStaySound == Spec => []OrdersAreSound
  <1>1. ASSUME GiftInv PROVE OrdersAreSound
    <2>1. OrderedAsShown
      BY <1>1 DEF GiftInv, SoundOrders, AsShown, OrderedAsShown
    <2>2. ASSUME NEW n \in 1..drafts
          PROVE  Cardinality({i \in PaidFor(n) : ~orders[i].failed}) <= 1
      <3> DEFINE counted == {i \in PaidFor(n) : ~orders[i].failed}
      <3>1. \A i \in counted : i \in DOMAIN orders /\ Counts(orders[i]) /\ orders[i].draft = n
        BY DEF PaidFor, Counts
      <3>2. \A i, j \in counted : i = j
        BY <1>1, <3>1 DEF GiftInv, SoundOrders
      <3> HIDE DEF counted
      <3>3. Cardinality(counted) <= 1
        BY <3>2, OneOrNone
      <3> QED
        BY <3>3 DEF counted
    <2> QED
      BY <2>1, <2>2 DEF OrdersAreSound, PaidOncePerDraft
  <1> QED
    BY <1>1, CheckoutInvariance, PTL

-----------------------------------------------------------------------------
(* The gifts recommended.                                                  *)

(* The rows of S that come before i.                                       *)
CheaperRows(S, rows, i) == {j \in S : \/ rows[j].price < rows[i].price
                                      \/ rows[j].price = rows[i].price /\ j < i}

(* A list of what is sold, by its number.                                  *)
Priced(rows) == IsFiniteSet(DOMAIN rows) /\ DOMAIN rows \subseteq Nat /\ \A i \in DOMAIN rows : rows[i].price \in Nat

(* The members of the two lists.                                           *)
LEMMA CatalogTypes ==
    /\ \A i \in DOMAIN Pieces : Pieces[i] \in [kind : Kinds, price : Nat]
    /\ \A b \in DOMAIN GiftBoxes : GiftBoxes[b] \in [items : SUBSET DOMAIN Pieces, price : Nat]
  <1>1. ASSUME NEW S, NEW rows \in Seq(S)
        PROVE  \A i \in DOMAIN rows : rows[i] \in S
    OBVIOUS
  <1> QED
    BY <1>1, CatalogAssumption

(* The pieces and the boxes of the catalog are sequences of priced rows.   *)
LEMMA CatalogIsPriced == Priced(Pieces) /\ Priced(GiftBoxes)
  <1>1. ASSUME NEW S, NEW rows \in Seq(S)
        PROVE  IsFiniteSet(DOMAIN rows) /\ DOMAIN rows \subseteq Nat
    <2>1. DOMAIN rows = 1..Len(rows) /\ Len(rows) \in Nat
      OBVIOUS
    <2> QED
      BY <2>1, FS_Interval
  <1>2. \A i \in DOMAIN Pieces : Pieces[i].price \in Nat
    BY CatalogTypes
  <1>3. \A i \in DOMAIN GiftBoxes : GiftBoxes[i].price \in Nat
    BY CatalogTypes
  <1> QED
    BY <1>1, <1>2, <1>3, CatalogAssumption DEF Priced

(* Of a set that is not empty the cheapest, first listed, is among the     *)
(* first n; and nothing that is left out is cheaper than what is in.       *)
LEMMA FirstAreCheapest ==
    ASSUME NEW rows, Priced(rows), NEW S \in SUBSET DOMAIN rows, NEW n \in Nat
    PROVE  /\ FirstByPrice(S, rows, n) \subseteq S
           /\ \A i \in FirstByPrice(S, rows, n), j \in S \ FirstByPrice(S, rows, n) :
                 rows[i].price <= rows[j].price
           /\ n # 0 /\ S # {} => FirstByPrice(S, rows, n) # {}
  <1>1. FirstByPrice(S, rows, n) = {i \in S : Cardinality(CheaperRows(S, rows, i)) < n}
    BY DEF FirstByPrice, CheaperRows
  <1>2. IsFiniteSet(S) /\ S \subseteq Nat /\ \A i \in S : rows[i].price \in Nat
    BY FS_Subset DEF Priced
  <1>3. \A i \in S : IsFiniteSet(CheaperRows(S, rows, i)) /\ Cardinality(CheaperRows(S, rows, i)) \in Nat
    <2>1. \A i \in S : CheaperRows(S, rows, i) \in SUBSET S
      BY DEF CheaperRows
    <2> QED
      BY <1>2, <2>1, FS_Subset, FS_CardinalityType
  <1>4. ASSUME NEW i \in FirstByPrice(S, rows, n), NEW j \in S \ FirstByPrice(S, rows, n)
        PROVE  rows[i].price <= rows[j].price
    <2>1. SUFFICES ASSUME rows[j].price < rows[i].price PROVE FALSE
      BY <1>1, <1>2
    <2>2. CheaperRows(S, rows, j) \in SUBSET CheaperRows(S, rows, i)
      BY <1>1, <1>2, <2>1 DEF CheaperRows
    <2>3. Cardinality(CheaperRows(S, rows, j)) <= Cardinality(CheaperRows(S, rows, i))
      BY <1>1, <1>3, <2>2, FS_Subset
    <2>4. Cardinality(CheaperRows(S, rows, i)) < n /\ ~(Cardinality(CheaperRows(S, rows, j)) < n)
      BY <1>1
    <2> QED
      BY <1>1, <1>3, <2>3, <2>4
  <1>5. ASSUME n # 0, S # {}
        PROVE  FirstByPrice(S, rows, n) # {}
    <2> DEFINE tags == {rows[i].price : i \in S}
    <2>1. PICK tag \in tags : \A other \in tags : tag <= other
      <3>1. tags \in SUBSET Nat /\ tags # {}
        BY <1>2, <1>5
      <3> QED
        BY <3>1, SomeLeast
    <2> DEFINE best == {i \in S : rows[i].price = tag}
    <2>2. PICK i \in best : \A j \in best : i <= j
      <3>1. best \in SUBSET Nat /\ best # {}
        BY <1>2
      <3> QED
        BY <3>1, SomeLeast
    <2>3. ASSUME NEW j \in CheaperRows(S, rows, i) PROVE FALSE
      <3>1. j \in S /\ rows[i].price = tag /\ rows[j].price \in tags
        BY DEF CheaperRows
      <3>2. rows[i].price <= rows[j].price
        BY <2>1, <3>1
      <3>3. rows[j].price = rows[i].price /\ j < i
        BY <1>2, <3>1, <3>2 DEF CheaperRows
      <3>4. j \in best
        BY <3>1, <3>3
      <3>5. i <= j
        BY <2>2, <3>4
      <3> QED
        BY <1>2, <3>1, <3>3, <3>5
    <2>4. Cardinality(CheaperRows(S, rows, i)) = 0
      BY <2>3, FS_EmptySet
    <2> QED
      BY <1>1, <1>5, <2>4
  <1> QED
    BY <1>1, <1>4, <1>5

(* What fits a text, from the catalog: the pieces and the boxes that the   *)
(* property calls suitable.                                                *)
LEMMA SuitableSuits ==
    ASSUME NEW text \in GiftTexts
    PROVE  /\ text.budget \in Nat
           /\ Suitable(text).pieces = {i \in DOMAIN Pieces : Pieces[i].price <= text.budget /\ IsOf(i, text.kinds)}
           /\ Suitable(text).boxes =
                 {b \in DOMAIN GiftBoxes : GiftBoxes[b].price <= text.budget /\ Holds(b, text.kinds)}
  <1> DEFINE pieces == {i \in Affordable(DOMAIN Pieces, Pieces, text.budget) :
                           text.kinds = {} \/ Pieces[i].kind \in text.kinds}
  <1>1. text.budget \in Nat
    <2>1. Unlimited \in Nat
      BY SMT DEF Unlimited
    <2> QED
      BY <2>1, CatalogAssumption DEF GiftTexts
  <1>2. pieces = {i \in DOMAIN Pieces : Pieces[i].price <= text.budget /\ IsOf(i, text.kinds)}
    BY DEF Affordable, IsOf
  <1>3. \A b \in DOMAIN GiftBoxes : GiftBoxes[b].items \subseteq DOMAIN Pieces
    BY CatalogTypes
  <1>4. ASSUME NEW b \in DOMAIN GiftBoxes, GiftBoxes[b].price <= text.budget
        PROVE  Holds(b, text.kinds) <=> (text.kinds = {} \/ GiftBoxes[b].items \cap pieces # {})
    <2>1. \A i \in GiftBoxes[b].items : Pieces[i].price <= text.budget
      <3>1. \A i \in GiftBoxes[b].items : Pieces[i].price <= GiftBoxes[b].price /\ Pieces[i].price \in Nat
        BY <1>3, CatalogAssumption, CatalogIsPriced DEF Priced
      <3> QED
        BY <1>1, <1>4, <3>1, CatalogIsPriced DEF Priced
    <2> HIDE DEF pieces
    <2>2. \A i \in GiftBoxes[b].items : i \in pieces <=> IsOf(i, text.kinds)
      BY <1>2, <1>3, <2>1
    <2> QED
      BY <2>2 DEF Holds, IsOf
  <1>5. Suitable(text).pieces = pieces
    BY DEF Suitable
  <1>6. Suitable(text).boxes = {b \in Affordable(DOMAIN GiftBoxes, GiftBoxes, text.budget) :
                                   text.kinds = {} \/ GiftBoxes[b].items \cap pieces # {}}
    BY DEF Suitable
  <1> HIDE DEF pieces
  <1>7. Suitable(text).boxes = {b \in DOMAIN GiftBoxes : GiftBoxes[b].price <= text.budget /\ Holds(b, text.kinds)}
    BY <1>4, <1>6 DEF Affordable
  <1> QED
    BY <1>1, <1>2, <1>5, <1>7

(* What is told is nothing yet, or the recommendation for a text.          *)
Advised == advice = NoAdvice \/ \E text \in GiftTexts : advice = Recommendation(text)

(* A recommendation of any kind suits its text.                            *)
LEMMA RecommendationSuits ==
    ASSUME NEW text \in GiftTexts, advice = Recommendation(text)
    PROVE  GiftsSuit
  <1> DEFINE found == Suitable(text)
             stock == Stocked(text)
             SuitsBox(b)   == GiftBoxes[b].price <= text.budget /\ Holds(b, text.kinds)
             SuitsPiece(i) == Pieces[i].price <= text.budget /\ IsOf(i, text.kinds)
  <1>1. /\ \A b \in DOMAIN GiftBoxes : b \in found.boxes <=> SuitsBox(b)
        /\ \A i \in DOMAIN Pieces : i \in found.pieces <=> SuitsPiece(i)
        /\ found.boxes \in SUBSET DOMAIN GiftBoxes /\ found.pieces \in SUBSET DOMAIN Pieces
    BY SuitableSuits
  <1>2. /\ stock.boxes \in SUBSET DOMAIN GiftBoxes /\ stock.boxes \subseteq text.boxes
        /\ stock.pieces \in SUBSET DOMAIN Pieces /\ stock.pieces \subseteq text.pieces
        /\ \A b \in stock.boxes : GiftBoxes[b].price <= text.budget
        /\ \A i \in stock.pieces : Pieces[i].price <= text.budget
    BY DEF Stocked, Affordable, GiftTexts
  <1>3. /\ NoGift.boxes = {} /\ NoGift.pieces = {}
        /\ \A n : FirstByPrice({}, GiftBoxes, n) = {} /\ FirstByPrice({}, Pieces, n) = {}
    BY DEF NoGift, FirstByPrice
  <1>5. \/ advice = Suggests(text, "stocked", stock, 2, 3)
        \/ advice = Suggests(text, "silent", NoGift, 0, 0)
        \/ found.boxes # {} /\ advice = Suggests(text, "pick", found, 2, 1)
        \/ found.boxes = {} /\ found.pieces # {} /\ advice = Suggests(text, "pick", found, 0, 3)
        \/ found.boxes = {} /\ found.pieces = {} /\ advice = Suggests(text, "nothing", NoGift, 0, 0)
    BY DEF Recommendation
  <1> HIDE DEF found, stock
  <1>6. CASE advice = Suggests(text, "stocked", stock, 2, 3)
    <2>1. /\ advice.text = text /\ advice.offer = "stocked"
          /\ advice.boxes = FirstByPrice(stock.boxes, GiftBoxes, 2)
          /\ advice.pieces = FirstByPrice(stock.pieces, Pieces, 3)
      BY <1>6 DEF Suggests
    <2>2. advice.boxes \subseteq stock.boxes /\ advice.pieces \subseteq stock.pieces
      BY <1>2, <2>1, FirstAreCheapest, CatalogIsPriced
    <2> QED
      BY <1>2, <2>1, <2>2 DEF GiftsSuit
  <1>7. ASSUME NEW boxes \in Nat, NEW pieces \in Nat, found.boxes # {} => boxes # 0,
               advice = Suggests(text, "pick", found, boxes, pieces)
        PROVE  GiftsSuit
    <2>1. /\ advice.text = text /\ advice.offer = "pick"
          /\ advice.boxes = FirstByPrice(found.boxes, GiftBoxes, boxes)
          /\ advice.pieces = FirstByPrice(found.pieces, Pieces, pieces)
      BY <1>7 DEF Suggests
    <2>2. /\ advice.boxes \subseteq found.boxes
          /\ \A b \in advice.boxes, c \in found.boxes \ advice.boxes : GiftBoxes[b].price <= GiftBoxes[c].price
          /\ found.boxes # {} => advice.boxes # {}
      BY <1>1, <1>7, <2>1, FirstAreCheapest, CatalogIsPriced
    <2>3. /\ advice.pieces \subseteq found.pieces
          /\ \A i \in advice.pieces, j \in found.pieces \ advice.pieces : Pieces[i].price <= Pieces[j].price
      BY <1>1, <1>7, <2>1, FirstAreCheapest, CatalogIsPriced
    <2>4. /\ \A b \in advice.boxes : b \in DOMAIN GiftBoxes /\ SuitsBox(b)
          /\ \A i \in advice.pieces : i \in DOMAIN Pieces /\ SuitsPiece(i)
      BY <1>1, <2>2, <2>3
    <2>5. /\ \A b \in advice.boxes, c \in DOMAIN GiftBoxes :
                SuitsBox(c) /\ c \notin advice.boxes => GiftBoxes[b].price <= GiftBoxes[c].price
          /\ \A i \in advice.pieces, j \in DOMAIN Pieces :
                SuitsPiece(j) /\ j \notin advice.pieces => Pieces[i].price <= Pieces[j].price
          /\ (\E b \in DOMAIN GiftBoxes : SuitsBox(b)) => advice.boxes # {}
      BY <1>1, <2>2, <2>3
    <2> QED
      BY <2>1, <2>4, <2>5 DEF GiftsSuit, CheapestOf
  <1>8. CASE found.boxes = {} /\ found.pieces = {} /\ advice = Suggests(text, "nothing", NoGift, 0, 0)
    <2>1. /\ advice.text = text /\ advice.offer = "nothing"
          /\ advice.boxes = FirstByPrice(NoGift.boxes, GiftBoxes, 0)
          /\ advice.pieces = FirstByPrice(NoGift.pieces, Pieces, 0)
      BY <1>8 DEF Suggests
    <2>2. advice.boxes = {} /\ advice.pieces = {}
      BY <1>3, <2>1
    <2>3. (\A b \in DOMAIN GiftBoxes : ~SuitsBox(b)) /\ (\A i \in DOMAIN Pieces : ~SuitsPiece(i))
      BY <1>1, <1>8
    <2> QED
      BY <2>1, <2>2, <2>3 DEF GiftsSuit
  <1>9. CASE advice = Suggests(text, "silent", NoGift, 0, 0)
    <2>1. /\ advice.text = text /\ advice.offer = "silent"
          /\ advice.boxes = FirstByPrice(NoGift.boxes, GiftBoxes, 0)
          /\ advice.pieces = FirstByPrice(NoGift.pieces, Pieces, 0)
      BY <1>9 DEF Suggests
    <2>2. advice.boxes = {} /\ advice.pieces = {}
      BY <1>3, <2>1
    <2> QED
      BY <2>1, <2>2 DEF GiftsSuit
  <1>10. CASE found.boxes # {} /\ advice = Suggests(text, "pick", found, 2, 1)
    BY <1>7, <1>10
  <1>11. CASE found.boxes = {} /\ advice = Suggests(text, "pick", found, 0, 3)
    BY <1>7, <1>11
  <1> QED
    BY <1>5, <1>6, <1>8, <1>9, <1>10, <1>11

(* Whatever is asked, the gifts recommended suit it: in the budget, of the *)
(* kinds asked for, none cheaper left out, a box whenever one suits, and   *)
(* "no match" only when nothing is (hazina_recommender.recommend).         *)
THEOREM GiftsAlwaysSuit == RecommenderSpec => []GiftsSuit
  <1>1. RecommenderInit => Advised
    BY DEF RecommenderInit, Advised
  <1>2. Advised /\ [RecommenderNext]_advice => Advised'
    BY DEF Advised, RecommenderNext, Recommend, Forgotten
  <1>3. Advised => GiftsSuit
    <2>1. advice = NoAdvice => GiftsSuit
      BY DEF GiftsSuit
    <2> QED
      BY <2>1, RecommendationSuits DEF Advised
  <1> QED
    BY <1>1, <1>2, <1>3, PTL DEF RecommenderSpec

-----------------------------------------------------------------------------
(* The prices quoted.                                                      *)

(* The menu of a shop: what each dish costs, 0 where it has none.          *)
MenuRows == [Dishes -> Prices \cup {0}]

(* The rows are those of the shop at some time since began: an item has    *)
(* still that price, or has lost it after, and got its price after.        *)
RowsSince(shop, rows, began) ==
    \A i \in Dishes :
        \/ menu[shop][i] = rows[i]
        \/ since[shop][i] >= began /\ (rows[i] # 0 => gone[shop][i][rows[i]] >= began)

(* The same of the prices that a shop's rows name.                         *)
PricesSince(shop, prices, began) ==
    /\ \A p \in prices : \E i \in Dishes : menu[shop][i] = p \/ gone[shop][i][p] >= began
    /\ \A i \in Dishes : menu[shop][i] = 0 \/ menu[shop][i] \in prices \/ since[shop][i] >= began

(* Types of the menu, its history and the counters.                        *)
QuoteTypes ==
    /\ menu \in [Shops -> MenuRows]
    /\ gone \in [Shops -> [Dishes -> [Prices -> Int]]]
    /\ since \in [Shops -> [Dishes -> Int]]
    /\ quoteClock \in 0..MaxQuoteTime
    /\ priceEdits \in 0..MaxPriceEdits /\ questions \in 0..MaxQuestions

\* An entry of either cache was read after its time began.
Began(until) == until - QuoteTtl

(* The times until which an entry is kept.                                 *)
Untils == Never..(MaxQuoteTime + QuoteTtl)

(* The entries of the menu cache.                                          *)
CacheEntries == [key : Shops \X {8, 10}, until : Untils, rows : MenuRows]

(* An entry was read at some time, and its rows are of that time or later. *)
EntrySound(entry) ==
    Began(entry.until) <= quoteClock /\ RowsSince(entry.key[1], entry.rows, Began(entry.until))

(* All entries of the menu cache are such.                                 *)
CacheSound(cache) ==
    /\ cache \in Seq(CacheEntries) /\ Len(cache) <= MenuKeep
    /\ \A n \in 1..Len(cache) : EntrySound(cache[n])

(* The entries of the price cache.                                         *)
CachedPrices == [until : Untils, prices : SUBSET Prices]

(* The same of the price cache's entry of a shop.                          *)
PriceSound(shop, cached) ==
    Began(cached.until) <= quoteClock /\ PricesSince(shop, cached.prices, Began(cached.until))

Asking   == {"menu", "search", "menuRead", "searched"}
(* The stages of a turn that checks a draft; Asking, above, are those of a *)
(* turn that answers a question.                                           *)
Checking == {"prices", "pricesRead"}

(* The turns under way.                                                    *)
QuoteJobs == [stage : Asking, ask : Questions, began : Nat, rows : MenuRows]
                \cup [stage : Checking, ask : Drafts, began : Nat, rows : MenuRows]

(* What a turn has read it has read since it began, and it waits no longer *)
(* than a query takes.                                                     *)
JobSound(job) ==
    job # NoTurn =>
        /\ job.began <= quoteClock /\ quoteClock <= job.began + QueryTime
        /\ job.stage \in {"menuRead", "searched", "pricesRead"} => RowsSince(job.ask.shop, job.rows, job.began)

(* The invariant of the quotes: both caches, and the rows in the hands of  *)
(* turns, are no older than they say.                                      *)
QuoteInv ==
    /\ QuoteTypes
    /\ CacheSound(menuCache)
    /\ priceCache \in [Shops -> CachedPrices] /\ \A s \in Shops : PriceSound(s, priceCache[s])
    /\ quoting \in [QuoteTurns -> QuoteJobs \cup {NoTurn}]
    /\ \A t \in QuoteTurns : JobSound(quoting[t])
    /\ PricesAreRight

(* What the catalogs and the clock are, for the prover.                    *)
LEMMA QuoteFacts ==
    /\ Prices \subseteq Nat \ {0} /\ 0 \notin Prices /\ 0 \notin Dishes
    /\ QuoteTtl \in Nat \ {0} /\ QueryTime \in Nat /\ QueryTime < QuoteTtl
    /\ MenuKeep \in Nat \ {0} /\ MaxQuoteTime \in Nat
    /\ \A ask \in Questions : ask.shop \in Shops
    /\ \A draft \in Drafts : draft.shop \in Shops /\ draft.says \subseteq Prices
    /\ Never \in Int /\ Never \in Untils /\ Untils \subseteq Int
  BY QuotesAssumption DEF Untils, Never

(* The times of both caches.                                               *)
LEMMA BeganIsTyped == \A until \in Untils : Began(until) \in Int
  BY QuoteFacts DEF Began

(* What is kept of an item.                                                *)
LEMMA TimesAreTyped ==
    ASSUME QuoteInv
    PROVE  /\ quoteClock \in Nat /\ quoteClock <= MaxQuoteTime
           /\ \A s \in Shops, i \in Dishes :
                 /\ menu[s][i] \in Prices \cup {0} /\ since[s][i] \in Int
                 /\ \A p \in Prices : gone[s][i][p] \in Int
  <1>1. quoteClock \in Nat /\ quoteClock <= MaxQuoteTime
    BY QuoteFacts DEF QuoteInv, QuoteTypes
  <1>2. \A s \in Shops, i \in Dishes : menu[s][i] \in Prices \cup {0}
    BY DEF QuoteInv, QuoteTypes, MenuRows
  <1>3. \A s \in Shops, i \in Dishes : since[s][i] \in Int
    BY DEF QuoteInv, QuoteTypes
  <1>4. \A s \in Shops, i \in Dishes, p \in Prices : gone[s][i][p] \in Int
    BY DEF QuoteInv, QuoteTypes
  <1> QED
    BY <1>1, <1>2, <1>3, <1>4

(* What a reply answers: a question, or the search for one.                *)
IsAsked(ask) ==
    /\ ask.shop \in Shops
    /\ ask.kind \in {"price", "demo", "available", "full", "category", "recommend"}

(* The search that follows a question is for the same shop.                *)
LEMMA QuestionsAreAsked ==
    ASSUME NEW ask \in Questions
    PROVE  IsAsked(ask) /\ IsAsked(Searched(ask)) /\ Searched(ask).shop = ask.shop
  BY QuotesAssumption DEF IsAsked, Searched

(* Those that come first are of the items, and those within the budget.    *)
LEMMA ForemostAreOf ==
    ASSUME NEW rows
    PROVE  /\ \A n, items, words : Foremost(n, items, words, rows) \subseteq items
           /\ \A n, items : Cheapest(n, items, rows) \subseteq items
           /\ \A items, budget : Fitting(items, rows, budget) \subseteq items
           /\ \A c : InCategory(c, rows) \subseteq Listed(rows)
  BY DEF Foremost, Cheapest, Fitting, InCategory

(* The items a reply names are listed.                                     *)
LEMMA NamedAreListed ==
    ASSUME NEW ask, IsAsked(ask), NEW rows
    PROVE  ItemsNamed(ask, rows) \subseteq Listed(rows)
  <1>1. Recommended(ask, rows) \subseteq Listed(rows)
    <2> DEFINE hinted == InCategory(ask.category, rows)
               among  == IF hinted # {} THEN hinted ELSE Listed(rows)
               room   == IF hinted = {} /\ \A i \in among : ~Fits(i, rows, ask.budget)
                         THEN 1 ELSE 3
               chosen == Foremost(room, Fitting(among, rows, ask.budget), ask.words, rows)
               others == Fitting(Listed(rows), rows, ask.budget) \ chosen
    <2>1. among \subseteq Listed(rows)
      BY ForemostAreOf
    <2>2. chosen \subseteq Listed(rows)
      <3> HIDE DEF among, room
      <3> QED
        BY <2>1, ForemostAreOf
    <2>3. others \subseteq Listed(rows)
      <3> HIDE DEF chosen
      <3> QED
        BY ForemostAreOf
    <2>4. Recommended(ask, rows) =
              IF ask.category # "any" /\ Cardinality(chosen) < 2
              THEN chosen \cup Cheapest(3 - Cardinality(chosen), others, rows)
              ELSE chosen
      BY DEF Recommended
    <2> HIDE DEF chosen, others
    <2> QED
      BY <2>2, <2>3, <2>4, ForemostAreOf
  <1>2. MostAlike(ask, rows) \subseteq Listed(rows)
    BY DEF MostAlike
  <1>3. CategoryShown(ask, rows) \subseteq Listed(rows)
    BY ForemostAreOf DEF CategoryShown
  <1>4. CASE ask.kind = "price"
    BY <1>2, <1>4 DEF ItemsNamed
  <1>5. CASE ask.kind = "demo"
    BY <1>5 DEF ItemsNamed
  <1>6. CASE ask.kind = "available"
    <2>1. ItemsNamed(ask, rows) = Cheapest(3, InCategory(ask.category, rows), rows)
      BY <1>6 DEF ItemsNamed
    <2> QED
      BY <2>1, ForemostAreOf
  <1>7. CASE ask.kind = "full"
    BY <1>7 DEF ItemsNamed
  <1>8. CASE ask.kind = "category"
    BY <1>3, <1>8 DEF ItemsNamed
  <1>9. CASE ask.kind = "recommend"
    BY <1>1, <1>9 DEF ItemsNamed
  <1> QED
    BY <1>4, <1>5, <1>6, <1>7, <1>8, <1>9 DEF IsAsked

(* What is recommended fits the budget, if anything of what was asked for  *)
(* does.                                                                   *)
LEMMA PicksFit ==
    ASSUME NEW ask, NEW rows, NEW asked,
           asked = IF InCategory(ask.category, rows) # {}
                   THEN InCategory(ask.category, rows) ELSE Listed(rows),
           \E i \in asked : Fits(i, rows, ask.budget)
    PROVE  \A i \in Recommended(ask, rows) : Fits(i, rows, ask.budget)
  <1> DEFINE hinted == InCategory(ask.category, rows)
             among  == IF hinted # {} THEN hinted ELSE Listed(rows)
             room   == IF hinted = {} /\ \A i \in among : ~Fits(i, rows, ask.budget)
                       THEN 1 ELSE 3
             chosen == Foremost(room, Fitting(among, rows, ask.budget), ask.words, rows)
             others == Fitting(Listed(rows), rows, ask.budget) \ chosen
  <1>1. among = asked /\ asked \subseteq Listed(rows)
    BY DEF InCategory
  <1>2. /\ \A n, items, words : Foremost(n, items, words, rows) \subseteq items
        /\ \A n, items : Cheapest(n, items, rows) \subseteq items
    BY ForemostAreOf
  <1>3. \A items : (\E i \in items : Fits(i, rows, ask.budget)) =>
                       \A i \in Fitting(items, rows, ask.budget) : Fits(i, rows, ask.budget)
    BY DEF Fitting
  <1>4. \A i \in chosen : Fits(i, rows, ask.budget)
    <2> HIDE DEF among, room
    <2> QED
      BY <1>1, <1>2, <1>3
  <1>5. \A i \in others : Fits(i, rows, ask.budget)
    <2> HIDE DEF chosen
    <2> QED
      BY <1>1, <1>3
  <1>6. Recommended(ask, rows) =
            IF ask.category # "any" /\ Cardinality(chosen) < 2
            THEN chosen \cup Cheapest(3 - Cardinality(chosen), others, rows)
            ELSE chosen
    BY DEF Recommended
  <1> HIDE DEF chosen, others
  <1> QED
    BY <1>2, <1>4, <1>5, <1>6

(* What is quoted is a listed row's price, or the demo espresso's.         *)
LEMMA QuotesAreOfRows ==
    ASSUME NEW ask, IsAsked(ask), NEW rows \in MenuRows, NEW quote \in Quoted(ask, rows)
    PROVE  \/ quote[1] = 0 /\ ask.kind = "demo"
           \/ /\ quote[1] \in ItemsNamed(ask, rows) /\ quote[1] \in Dishes /\ quote[1] # 0
              /\ quote[2] = rows[quote[1]] /\ rows[quote[1]] \in Prices
  <1>1. CASE quote \in {<<i, rows[i]>> : i \in ItemsNamed(ask, rows)}
    <2>1. PICK i \in ItemsNamed(ask, rows) : quote = <<i, rows[i]>>
      BY <1>1
    <2>2. i \in Dishes /\ rows[i] # 0
      BY <2>1, NamedAreListed DEF Listed
    <2>3. i # 0 /\ rows[i] \in Prices
      BY <2>2, QuoteFacts DEF MenuRows
    <2> QED
      BY <2>1, <2>2, <2>3
  <1>2. CASE ask.kind = "demo" /\ quote = <<0, DemoPrice>>
    BY <1>2
  <1> QED
    BY <1>1, <1>2 DEF Quoted

(* Rows read no longer ago than QuoteTtl may be quoted.                    *)
LEMMA MenuReplyIsRight ==
    ASSUME QuoteInv, UNCHANGED <<menu, gone, since, quoteClock>>,
           NEW ask, IsAsked(ask), NEW rows \in MenuRows, NEW began \in Int,
           RowsSince(ask.shop, rows, began), quoteClock < began + QuoteTtl,
           RepliesWith(ask, rows)
    PROVE  PricesAreRight'
  <1>1. said' = [by |-> "menu", ask |-> ask, rows |-> rows, quotes |-> Quoted(ask, rows)]
    BY DEF RepliesWith
  <1>2. PICK new : new = said'
    OBVIOUS
  <1>3. new.by = "menu" /\ new.ask = ask /\ new.rows = rows /\ new.quotes = Quoted(ask, rows)
    BY <1>1, <1>2
  <1>4. ASSUME NEW quote \in new.quotes
        PROVE  IF quote[1] = 0 THEN ask.kind = "demo" ELSE Lately(ask.shop, quote[1], quote[2])
    <2>1. CASE quote[1] = 0 /\ ask.kind = "demo"
      BY <2>1
    <2>2. CASE /\ quote[1] \in Dishes /\ quote[1] # 0
               /\ quote[2] = rows[quote[1]] /\ rows[quote[1]] \in Prices
      <3>1. PICK i \in Dishes : quote[1] = i /\ quote[2] = rows[i] /\ rows[i] \in Prices /\ i # 0
        BY <2>2
      <3>2. menu[ask.shop][i] = rows[i] \/ gone[ask.shop][i][rows[i]] >= began
        BY <3>1, QuoteFacts DEF RowsSince
      <3>3. gone[ask.shop][i][rows[i]] \in Int /\ quoteClock \in Nat /\ QuoteTtl \in Nat
        BY <3>1, QuoteFacts, TimesAreTyped DEF IsAsked
      <3>4. Lately(ask.shop, i, rows[i])
        BY <3>2, <3>3 DEF Lately
      <3> QED
        BY <3>1, <3>4
    <2> QED
      BY <1>3, <2>1, <2>2, QuotesAreOfRows
  <1>5. QuotesAreCurrent'
    <2>1. \A i, p : Lately(ask.shop, i, p)' <=> Lately(ask.shop, i, p)
      BY DEF Lately
    <2> QED
      BY <1>2, <1>3, <1>4, <2>1 DEF QuotesAreCurrent
  <1>6. ASSUME ask.kind = "recommend", NEW quote \in new.quotes
        PROVE  quote[1] \in Recommended(ask, rows)
    <2>1. ItemsNamed(ask, rows) = Recommended(ask, rows)
      BY <1>6 DEF ItemsNamed
    <2>2. ask.kind # "demo"
      BY <1>6
    <2> QED
      BY <1>3, <2>1, <2>2, QuotesAreOfRows
  <1>7. PicksFitBudget'
    BY <1>2, <1>3, <1>6, PicksFit DEF PicksFitBudget
  <1> QED
    BY <1>5, <1>7 DEF PricesAreRight

(* A demo espresso needs no rows; and without rows there is no other reply. *)
LEMMA DemoReplyIsRight ==
    ASSUME NEW ask, IsAsked(ask), HasReply(ask, NoRows), RepliesWith(ask, NoRows)
    PROVE  PricesAreRight'
  <1>1. Listed(NoRows) = {}
    BY DEF Listed, NoRows
  <1>2. ItemsNamed(ask, NoRows) = {}
    BY <1>1, NamedAreListed
  <1>3. ask.kind = "demo"
    BY <1>1, <1>2 DEF HasReply, Quoted
  <1>4. Quoted(ask, NoRows) = {<<0, DemoPrice>>}
    BY <1>2, <1>3 DEF Quoted
  <1>5. PICK new : new = said' /\ new = [by |-> "menu", ask |-> ask, rows |-> NoRows, quotes |-> {<<0, DemoPrice>>}]
    BY <1>4 DEF RepliesWith
  <1>6. new.by = "menu" /\ new.ask = ask /\ new.quotes = {<<0, DemoPrice>>}
    BY <1>5
  <1>7. QuotesAreCurrent'
    BY <1>3, <1>5, <1>6 DEF QuotesAreCurrent
  <1>8. PicksFitBudget'
    BY <1>3, <1>5, <1>6 DEF PicksFitBudget
  <1> QED
    BY <1>7, <1>8 DEF PricesAreRight

(* Nothing is said.                                                        *)
LEMMA SilenceIsRight ==
    ASSUME said' = Silence
    PROVE  PricesAreRight'
  BY DEF Silence, PricesAreRight, QuotesAreCurrent, PicksFitBudget

(* A reply checked against prices read no longer ago than QuoteTtl.        *)
LEMMA CheckedReplyIsRight ==
    ASSUME QuoteInv, UNCHANGED <<menu, gone, since, quoteClock>>,
           NEW draft \in Drafts, NEW prices \in SUBSET Prices, NEW began \in Int,
           PricesSince(draft.shop, prices, began), quoteClock < began + QuoteTtl,
           ModelSays(draft, Passed(draft, prices), TRUE)
    PROVE  PricesAreRight'
  <1>1. PICK new : new = said' /\ new = [by |-> "model", ask |-> draft, passed |-> Passed(draft, prices), checked |-> TRUE]
    BY DEF ModelSays
  <1>2. new.by = "model" /\ new.ask = draft /\ new.passed = Passed(draft, prices)
    BY <1>1
  <1>3. draft.shop \in Shops /\ draft.says \subseteq Prices
    BY QuoteFacts
  <1>4. quoteClock \in Int /\ QuoteTtl \in Int
    BY QuoteFacts DEF QuoteInv, QuoteTypes
  <1>5. ASSUME NEW p \in Passed(draft, prices) \ draft.named
        PROVE  \E i \in Dishes : Lately(draft.shop, i, p)
    <2>1. p \in prices /\ p \in Prices
      BY DEF Passed
    <2>2. PICK i \in Dishes : menu[draft.shop][i] = p \/ gone[draft.shop][i][p] >= began
      BY <2>1 DEF PricesSince
    <2>3. gone[draft.shop][i][p] \in Int
      BY <1>3, <2>1 DEF QuoteInv, QuoteTypes
    <2> QED
      BY <1>4, <2>2, <2>3 DEF Lately
  <1>6. ASSUME NEW p \in draft.says \ Passed(draft, prices), NEW i \in Dishes, menu[draft.shop][i] = p
        PROVE  quoteClock - since[draft.shop][i] < QuoteTtl
    <2>1. p \notin prices /\ p # 0
      BY <1>3, QuoteFacts DEF Passed
    <2>2. since[draft.shop][i] >= began
      BY <1>6, <2>1 DEF PricesSince
    <2>3. since[draft.shop][i] \in Int
      BY <1>3 DEF QuoteInv, QuoteTypes
    <2> QED
      BY <1>4, <2>2, <2>3
  <1>7. \A i, p : Lately(draft.shop, i, p)' = Lately(draft.shop, i, p)
    BY DEF Lately
  <1>8. QuotesAreCurrent'
    BY <1>1, <1>2, <1>5, <1>6, <1>7 DEF QuotesAreCurrent
  <1>9. PicksFitBudget'
    BY <1>1, <1>2 DEF PicksFitBudget
  <1> QED
    BY <1>8, <1>9 DEF PricesAreRight

(* A sequence without its member at a place.                               *)
LEMMA RemovedAt ==
    ASSUME NEW S, NEW s \in Seq(S), NEW at \in 1..Len(s), NEW r, r = RemoveAt(s, at)
    PROVE  /\ r \in Seq(S) /\ Len(r) = Len(s) - 1
           /\ \A n \in 1..Len(r) : r[n] = IF n < at THEN s[n] ELSE s[n + 1]
  <1>1. PICK left : left = SubSeq(s, 1, at - 1)
    OBVIOUS
  <1>2. PICK right : right = SubSeq(s, at + 1, Len(s))
    OBVIOUS
  <1>3. /\ left \in Seq(S) /\ Len(left) = at - 1
        /\ \A n \in 1..(at - 1) : left[n] = s[n]
    <2>1. \A i \in 1..(at - 1) : s[i] \in S
      OBVIOUS
    <2>2. at - 1 \in Int /\ 1 \in Int
      OBVIOUS
    <2>3. /\ left \in Seq(S) /\ Len(left) = IF 1 <= at - 1 THEN at - 1 - 1 + 1 ELSE 0
          /\ \A n \in 1..(at - 1 - 1 + 1) : left[n] = s[1 + n - 1]
      BY <1>1, <2>1, <2>2, SubSeqProperties
    <2> QED
      BY <2>3
  <1>4. /\ right \in Seq(S) /\ Len(right) = Len(s) - at
        /\ \A n \in 1..(Len(s) - at) : right[n] = s[at + n]
    <2>1. \A i \in (at + 1)..Len(s) : s[i] \in S
      OBVIOUS
    <2>2. at + 1 \in Int /\ Len(s) \in Int
      OBVIOUS
    <2>3. /\ right \in Seq(S) /\ Len(right) = IF at + 1 <= Len(s) THEN Len(s) - (at + 1) + 1 ELSE 0
          /\ \A n \in 1..(Len(s) - (at + 1) + 1) : right[n] = s[at + 1 + n - 1]
      BY <1>2, <2>1, <2>2, SubSeqProperties
    <2> QED
      BY <2>3
  <1>5. r = left \o right
    BY <1>1, <1>2 DEF RemoveAt
  <1>6. /\ r \in Seq(S) /\ Len(r) = Len(left) + Len(right)
        /\ \A n \in 1..(Len(left) + Len(right)) :
              r[n] = IF n <= Len(left) THEN left[n] ELSE right[n - Len(left)]
    <2>1. /\ left \o right \in Seq(S) /\ Len(left \o right) = Len(left) + Len(right)
          /\ \A n \in 1..(Len(left) + Len(right)) :
                (left \o right)[n] = IF n <= Len(left) THEN left[n] ELSE right[n - Len(left)]
      BY <1>3, <1>4, ConcatProperties
    <2> QED
      BY <1>5, <2>1
  <1>7. ASSUME NEW n \in 1..Len(r)
        PROVE  r[n] = IF n < at THEN s[n] ELSE s[n + 1]
    <2>1. CASE n < at
      BY <1>3, <1>4, <1>6, <2>1
    <2>2. CASE ~(n < at)
      <3>1. PICK m \in Nat : m = n - (at - 1)
        BY <1>7, <2>2
      <3>2. m \in 1..(Len(s) - at) /\ at + m = n + 1
        BY <1>3, <1>4, <1>6, <2>2, <3>1
      <3>3. r[n] = right[m]
        BY <1>3, <1>4, <1>6, <2>2, <3>1
      <3> QED
        BY <1>4, <2>2, <3>2, <3>3
    <2> QED
      BY <2>1, <2>2
  <1> QED
    BY <1>3, <1>4, <1>6, <1>7

(* The cache without an entry has the others.                              *)
LEMMA WithoutKeeps ==
    ASSUME CacheSound(menuCache), NEW key
    PROVE  /\ Without(key) \in Seq(CacheEntries)
           /\ Len(Without(key)) \in Nat /\ Len(Without(key)) <= Len(menuCache)
           /\ CachedAt(key) # {} => Len(Without(key)) = Len(menuCache) - 1
           /\ \A n \in 1..Len(Without(key)) : EntrySound(Without(key)[n])
  <1>1. menuCache \in Seq(CacheEntries) /\ \A n \in 1..Len(menuCache) : EntrySound(menuCache[n])
    BY DEF CacheSound
  <1>2. CASE CachedAt(key) = {}
    BY <1>1, <1>2 DEF Without
  <1>3. CASE CachedAt(key) # {}
    <2>1. PICK at \in 1..Len(menuCache) : at = At(key)
      BY <1>1, <1>3 DEF At, CachedAt
    <2>2. PICK left : left = RemoveAt(menuCache, at) /\ left = Without(key)
      BY <1>3, <2>1 DEF Without
    <2>3. /\ left \in Seq(CacheEntries) /\ Len(left) = Len(menuCache) - 1
          /\ \A n \in 1..Len(left) : left[n] = IF n < at THEN menuCache[n] ELSE menuCache[n + 1]
      <3>1. \A s \in Seq(CacheEntries) : \A k \in 1..Len(s) : \A r : r = RemoveAt(s, k) =>
                /\ r \in Seq(CacheEntries) /\ Len(r) = Len(s) - 1
                /\ \A n \in 1..Len(r) : r[n] = IF n < k THEN s[n] ELSE s[n + 1]
        BY RemovedAt
      <3> QED
        BY <1>1, <2>1, <2>2, <3>1
    <2>4. ASSUME NEW n \in 1..Len(left)
          PROVE  EntrySound(left[n])
      BY <1>1, <2>1, <2>3
    <2> QED
      BY <1>1, <2>2, <2>3, <2>4
  <1> QED
    BY <1>2, <1>3

(* A cache with an entry more, and the oldest gone when it is full.        *)
LEMMA KeptIsSound ==
    ASSUME NEW cache \in Seq(CacheEntries), NEW entry \in CacheEntries, EntrySound(entry),
           Len(cache) <= MenuKeep, \A n \in 1..Len(cache) : EntrySound(cache[n])
    PROVE  CacheSound(Kept(Append(cache, entry)))
  <1> DEFINE long == Append(cache, entry)
  <1>1. /\ long \in Seq(CacheEntries) /\ Len(long) = Len(cache) + 1
        /\ \A n \in 1..Len(long) : EntrySound(long[n])
    <2>1. long \in Seq(CacheEntries) /\ Len(long) = Len(cache) + 1
      OBVIOUS
    <2>2. \A n \in 1..Len(cache) : long[n] = cache[n]
      OBVIOUS
    <2>3. long[Len(cache) + 1] = entry
      OBVIOUS
    <2>4. \A n \in 1..Len(long) : n \in 1..Len(cache) \/ n = Len(cache) + 1
      BY <2>1
    <2> HIDE DEF long
    <2> QED
      BY <2>1, <2>2, <2>3, <2>4
  <1> HIDE DEF long
  <1>2. PICK first : first = IF Len(long) > MenuKeep THEN Len(long) - MenuKeep + 1 ELSE 1
    OBVIOUS
  <1>3. /\ first \in 1..(Len(long) + 1) /\ Len(long) - first + 1 <= MenuKeep
        /\ first <= Len(long)
    BY <1>1, <1>2, QuoteFacts
  <1>4. /\ Kept(long) \in Seq(CacheEntries) /\ Len(Kept(long)) = Len(long) - first + 1
        /\ \A n \in 1..(Len(long) - first + 1) : Kept(long)[n] = long[first + n - 1]
    <2>1. Kept(long) = SubSeq(long, first, Len(long))
      BY <1>2 DEF Kept
    <2>2. first \in Int /\ Len(long) \in Int /\ \A i \in first..Len(long) : long[i] \in CacheEntries
      BY <1>1, <1>3
    <2>3. /\ SubSeq(long, first, Len(long)) \in Seq(CacheEntries)
          /\ Len(SubSeq(long, first, Len(long))) = IF first <= Len(long) THEN Len(long) - first + 1 ELSE 0
          /\ \A i \in 1..(Len(long) - first + 1) : SubSeq(long, first, Len(long))[i] = long[first + i - 1]
      BY <2>2, SubSeqProperties
    <2> QED
      BY <1>3, <2>1, <2>3
  <1>5. ASSUME NEW n \in 1..Len(Kept(long))
        PROVE  EntrySound(Kept(long)[n])
    <2>1. n \in 1..(Len(long) - first + 1) /\ first + n - 1 \in 1..Len(long)
      BY <1>1, <1>3, <1>4
    <2> QED
      BY <1>1, <1>4, <2>1
  <1>6. CacheSound(Kept(long))
    BY <1>1, <1>3, <1>4, <1>5 DEF CacheSound
  <1> QED
    BY <1>6 DEF long

(* The entry a turn finds.                                                 *)
LEMMA EntryIsCached ==
    ASSUME CacheSound(menuCache), NEW key, CachedAt(key) # {}
    PROVE  Entry(key) \in CacheEntries /\ Entry(key).key = key /\ EntrySound(Entry(key))
  <1>1. At(key) \in 1..Len(menuCache) /\ menuCache[At(key)].key = key
    BY DEF At, CachedAt, CacheSound
  <1> QED
    BY <1>1 DEF Entry, CacheSound

(* The menu and the clock stand still, and what is cached and under way    *)
(* stays sound.                                                            *)
LEMMA TurnMoves ==
    ASSUME QuoteInv, UNCHANGED <<menu, gone, since, quoteClock, priceEdits>>,
           CacheSound(menuCache'),
           priceCache' \in [Shops -> CachedPrices], \A s \in Shops : PriceSound(s, priceCache'[s]),
           quoting' \in [QuoteTurns -> QuoteJobs \cup {NoTurn}],
           \A t \in QuoteTurns : JobSound(quoting'[t]),
           questions' \in 0..MaxQuestions, PricesAreRight'
    PROVE  QuoteInv'
  <1>1. QuoteTypes'
    BY DEF QuoteInv, QuoteTypes
  <1>2. \A s, r, b : RowsSince(s, r, b)' = RowsSince(s, r, b)
    BY DEF RowsSince
  <1>3. \A s, r, b : PricesSince(s, r, b)' = PricesSince(s, r, b)
    BY DEF PricesSince
  <1>4. CacheSound(menuCache)'
    BY <1>2 DEF CacheSound, EntrySound
  <1>5. \A s \in Shops : PriceSound(s, priceCache[s])'
    BY <1>3 DEF PriceSound
  <1>6. \A t \in QuoteTurns : JobSound(quoting[t])'
    BY <1>2 DEF JobSound
  <1> QED
    BY <1>1, <1>4, <1>5, <1>6 DEF QuoteInv

(* A turn that goes on to another job, or to none.                         *)
LEMMA JobMoves ==
    ASSUME QuoteInv, NEW t \in QuoteTurns, NEW job \in QuoteJobs \cup {NoTurn}, JobSound(job),
           quoting' = [quoting EXCEPT ![t] = job]
    PROVE  /\ quoting' \in [QuoteTurns -> QuoteJobs \cup {NoTurn}]
           /\ \A u \in QuoteTurns : JobSound(quoting'[u])
  <1>1. /\ quoting' \in [QuoteTurns -> QuoteJobs \cup {NoTurn}]
        /\ \A u \in QuoteTurns : quoting'[u] = job \/ quoting'[u] = quoting[u]
    BY DEF QuoteInv
  <1>2. \A u \in QuoteTurns : JobSound(quoting[u])
    BY DEF QuoteInv
  <1> QED
    BY <1>1, <1>2

(* A job begun now, with nothing read yet.                                 *)
LEMMA JobBegins ==
    ASSUME QuoteInv, NEW stage, NEW ask, NEW job,
           job = [stage |-> stage, ask |-> ask, began |-> quoteClock, rows |-> NoRows],
           \/ stage \in {"menu", "search"} /\ ask \in Questions
           \/ stage = "prices" /\ ask \in Drafts
    PROVE  job \in QuoteJobs /\ JobSound(job)
  <1>1. NoRows \in MenuRows
    BY DEF NoRows, MenuRows
  <1>2. quoteClock \in Nat /\ QueryTime \in Nat
    BY TimesAreTyped, QuoteFacts
  <1>3. job.began = quoteClock /\ job.stage = stage
    OBVIOUS
  <1>4. job \in QuoteJobs
    BY <1>1, <1>2 DEF QuoteJobs, Asking, Checking
  <1> QED
    BY <1>2, <1>3, <1>4 DEF JobSound

(* No turn has nothing to keep.                                            *)
LEMMA NoTurnIsSound == JobSound(NoTurn)
  BY DEF JobSound

(* A turn under way, by its stage.                                         *)
LEMMA JobIsTyped ==
    ASSUME QuoteInv, NEW t \in QuoteTurns, quoting[t].stage \in Asking \cup Checking
    PROVE  /\ quoting[t] \in QuoteJobs /\ quoting[t] # NoTurn
           /\ quoting[t].began \in Nat /\ quoting[t].rows \in MenuRows
           /\ quoting[t].stage \in Asking => quoting[t].ask \in Questions
           /\ quoting[t].stage \in Checking => quoting[t].ask \in Drafts
           /\ quoting[t].ask.shop \in Shops
           /\ quoting[t].began <= quoteClock /\ quoteClock <= quoting[t].began + QueryTime
           /\ quoting[t].stage \in {"menuRead", "searched", "pricesRead"} =>
                 RowsSince(quoting[t].ask.shop, quoting[t].rows, quoting[t].began)
  <1>1. quoting[t] \in QuoteJobs /\ quoting[t] # NoTurn
    BY DEF QuoteInv, NoTurn, Asking, Checking
  <1>2. JobSound(quoting[t])
    BY DEF QuoteInv
  <1>3. PICK job : job = quoting[t]
    OBVIOUS
  <1>4. job \in QuoteJobs
    BY <1>1, <1>3
  <1>5. /\ job.began \in Nat /\ job.rows \in MenuRows
        /\ job.stage \in Asking => job.ask \in Questions
        /\ job.stage \in Checking => job.ask \in Drafts
    BY <1>4 DEF QuoteJobs, Asking, Checking
  <1>6. job.ask.shop \in Shops
    BY <1>3, <1>5, QuoteFacts
  <1> QED
    BY <1>1, <1>2, <1>3, <1>5, <1>6 DEF JobSound

(* What a question asked or answered leaves alone.                         *)
LEMMA QuoteCounts ==
    ASSUME QuoteInv
    PROVE  /\ NewQuestion => questions' \in 0..MaxQuestions
           /\ UNCHANGED questions => questions' \in 0..MaxQuestions
           /\ UNCHANGED menuCache /\ UNCHANGED <<menu, gone, since, quoteClock>> => CacheSound(menuCache')
           /\ UNCHANGED priceCache => /\ priceCache' \in [Shops -> CachedPrices]
                                      /\ \A s \in Shops : PriceSound(s, priceCache'[s])
           /\ UNCHANGED quoting => /\ quoting' \in [QuoteTurns -> QuoteJobs \cup {NoTurn}]
                                   /\ \A t \in QuoteTurns : JobSound(quoting'[t])
  <1>1. questions \in 0..MaxQuestions /\ MaxQuestions \in Nat
    BY QuotesAssumption DEF QuoteInv, QuoteTypes
  <1>2. NewQuestion => questions' \in 0..MaxQuestions
    BY <1>1 DEF NewQuestion
  <1> QED
    BY <1>1, <1>2 DEF QuoteInv

(* The entries of a question's own key are of its shop.                    *)
LEMMA KeyIsTyped ==
    ASSUME NEW ask \in Questions
    PROVE  KeyOf(ask) \in Shops \X {8, 10} /\ KeyOf(ask)[1] = ask.shop
  BY QuoteFacts DEF KeyOf

(* An answer from the cache is as old as its entry, which is fresh.        *)
LEMMA AskFromCacheKeeps ==
    ASSUME QuoteInv, NEW t \in QuoteTurns, NEW ask \in Questions, AskFromCache(t, ask)
    PROVE  QuoteInv'
  <1>1. PICK key : key = KeyOf(ask)
    OBVIOUS
  <1>2. PICK hit : hit = Entry(key)
    OBVIOUS
  <1>3. /\ NewQuestion /\ quoting[t] = NoTurn /\ InTime(key)
        /\ menuCache' = Append(Without(key), hit)
        /\ UNCHANGED <<menu, gone, since, priceCache, quoteClock, priceEdits>>
    BY <1>1, <1>2 DEF AskFromCache
  <1>4. \/ RepliesWith(ask, hit.rows) /\ UNCHANGED quoting
        \/ Waits(t, "search", ask, NoRows) /\ said' = Silence
    BY <1>1, <1>2 DEF AskFromCache
  <1>5. CachedAt(key) # {} /\ hit.until > quoteClock
    BY <1>2, <1>3 DEF InTime
  <1>6. CacheSound(menuCache)
    BY DEF QuoteInv
  <1>7. hit \in CacheEntries /\ hit.key = key /\ EntrySound(hit)
    BY <1>2, <1>5, <1>6, EntryIsCached
  <1>8. CacheSound(menuCache')
    <2>1. PICK left : left = Without(key)
      OBVIOUS
    <2>2. /\ left \in Seq(CacheEntries) /\ Len(left) = Len(menuCache) - 1
          /\ \A n \in 1..Len(left) : EntrySound(left[n])
      BY <1>5, <1>6, <2>1, WithoutKeeps
    <2>3. /\ menuCache' \in Seq(CacheEntries) /\ Len(menuCache') = Len(left) + 1
          /\ \A n \in 1..Len(left) : menuCache'[n] = left[n]
          /\ menuCache'[Len(left) + 1] = hit
      BY <1>3, <1>7, <2>1, <2>2
    <2>4. Len(menuCache') <= MenuKeep
      BY <1>6, <2>2, <2>3, QuoteFacts DEF CacheSound
    <2>5. ASSUME NEW n \in 1..Len(menuCache')
          PROVE  EntrySound(menuCache'[n])
      <3>1. n \in 1..Len(left) \/ n = Len(left) + 1
        BY <2>2, <2>3
      <3> QED
        BY <1>7, <2>2, <2>3, <3>1
    <2> QED
      BY <2>3, <2>4, <2>5 DEF CacheSound
  <1>9. /\ quoting' \in [QuoteTurns -> QuoteJobs \cup {NoTurn}]
        /\ \A u \in QuoteTurns : JobSound(quoting'[u])
    <2>1. CASE UNCHANGED quoting
      BY <2>1, QuoteCounts
    <2>2. CASE Waits(t, "search", ask, NoRows)
      <3>1. PICK job : job = [stage |-> "search", ask |-> ask, began |-> quoteClock, rows |-> NoRows]
        OBVIOUS
      <3>2. job \in QuoteJobs /\ JobSound(job)
        BY <3>1, JobBegins
      <3> QED
        BY <2>2, <3>1, <3>2, JobMoves DEF Waits
    <2> QED
      BY <1>4, <2>1, <2>2
  <1>10. PricesAreRight'
    <2>1. CASE RepliesWith(ask, hit.rows)
      <3>1. PICK began : began = hit.until - QuoteTtl
        OBVIOUS
      <3>2. hit.until \in Int /\ hit.rows \in MenuRows
        BY <1>7, QuoteFacts DEF CacheEntries
      <3>3. began \in Int /\ quoteClock < began + QuoteTtl
        BY <1>5, <3>1, <3>2, QuoteFacts, TimesAreTyped
      <3>4. RowsSince(ask.shop, hit.rows, began)
        BY <1>1, <1>7, <3>1, KeyIsTyped DEF EntrySound, Began
      <3> QED
        BY <1>3, <2>1, <3>2, <3>3, <3>4, QuestionsAreAsked, MenuReplyIsRight
    <2>2. CASE said' = Silence
      BY <2>2, SilenceIsRight
    <2> QED
      BY <1>4, <2>1, <2>2
  <1>11. /\ priceCache' \in [Shops -> CachedPrices]
         /\ \A s \in Shops : PriceSound(s, priceCache'[s])
    BY <1>3, QuoteCounts
  <1>12. questions' \in 0..MaxQuestions
    BY <1>3, QuoteCounts
  <1> QED
    BY <1>3, <1>8, <1>9, <1>10, <1>11, <1>12, TurnMoves

(* A question that finds no fresh entry drops the old one and waits.       *)
LEMMA AskAfreshKeeps ==
    ASSUME QuoteInv, NEW t \in QuoteTurns, NEW ask \in Questions, AskAfresh(t, ask)
    PROVE  QuoteInv'
  <1>1. PICK key : key = KeyOf(ask)
    OBVIOUS
  <1>2. /\ NewQuestion /\ menuCache' = Without(key) /\ Waits(t, "menu", ask, NoRows) /\ said' = Silence
        /\ UNCHANGED <<menu, gone, since, priceCache, quoteClock, priceEdits>>
    BY <1>1 DEF AskAfresh
  <1>3. CacheSound(menuCache')
    <2>1. CacheSound(menuCache)
      BY DEF QuoteInv
    <2>2. PICK left : left = Without(key)
      OBVIOUS
    <2>3. /\ left \in Seq(CacheEntries) /\ Len(left) \in Nat /\ Len(left) <= Len(menuCache)
          /\ \A n \in 1..Len(left) : EntrySound(left[n])
      BY <2>1, <2>2, WithoutKeeps
    <2>4. Len(left) <= MenuKeep
      BY <2>1, <2>3, QuoteFacts DEF CacheSound
    <2> QED
      BY <1>2, <2>2, <2>3, <2>4 DEF CacheSound
  <1>4. PICK job : job = [stage |-> "menu", ask |-> ask, began |-> quoteClock, rows |-> NoRows]
    OBVIOUS
  <1>5. job \in QuoteJobs /\ JobSound(job)
    BY <1>4, JobBegins
  <1>6. /\ quoting' \in [QuoteTurns -> QuoteJobs \cup {NoTurn}]
        /\ \A u \in QuoteTurns : JobSound(quoting'[u])
    BY <1>2, <1>4, <1>5, JobMoves DEF Waits
  <1>7. PricesAreRight'
    BY <1>2, SilenceIsRight
  <1>8. /\ priceCache' \in [Shops -> CachedPrices]
        /\ \A s \in Shops : PriceSound(s, priceCache'[s])
        /\ questions' \in 0..MaxQuestions
    BY <1>2, QuoteCounts
  <1> QED
    BY <1>2, <1>3, <1>6, <1>7, <1>8, TurnMoves

(* A turn that says nothing yet and leaves the caches alone.               *)
LEMMA QuietTurnKeeps ==
    ASSUME QuoteInv, NEW t \in QuoteTurns, NEW job \in QuoteJobs \cup {NoTurn}, JobSound(job),
           quoting' = [quoting EXCEPT ![t] = job], said' = Silence,
           UNCHANGED <<menu, gone, since, menuCache, priceCache, quoteClock, priceEdits>>,
           NewQuestion \/ UNCHANGED questions
    PROVE  QuoteInv'
  <1>1. /\ quoting' \in [QuoteTurns -> QuoteJobs \cup {NoTurn}]
        /\ \A u \in QuoteTurns : JobSound(quoting'[u])
    BY JobMoves
  <1>2. PricesAreRight'
    BY SilenceIsRight
  <1>3. /\ CacheSound(menuCache') /\ questions' \in 0..MaxQuestions
        /\ priceCache' \in [Shops -> CachedPrices]
        /\ \A s \in Shops : PriceSound(s, priceCache'[s])
    BY QuoteCounts
  <1> QED
    BY <1>1, <1>2, <1>3, TurnMoves

(* Rows that are read now are the shop's.                                  *)
LEMMA RowsReadNow ==
    ASSUME QuoteInv, NEW s \in Shops, NEW began
    PROVE  menu[s] \in MenuRows /\ RowsSince(s, menu[s], began)
  BY DEF QuoteInv, QuoteTypes, RowsSince

(* A query that returns has read the rows of now.                          *)
LEMMA QueryReadsKeeps ==
    ASSUME QuoteInv, NEW t \in QuoteTurns, QueryReads(t)
    PROVE  QuoteInv'
  <1>1. PICK w : w = quoting[t]
    OBVIOUS
  <1>2. w.stage \in {"menu", "search"} /\ w.stage \in Asking /\ w.stage \in Asking \cup Checking
    BY <1>1 DEF QueryReads, Asking
  <1>3. w \in QuoteJobs /\ w.ask \in Questions /\ w.ask.shop \in Shops /\ w.began \in Nat
    BY <1>1, <1>2, JobIsTyped
  <1>4. PICK stage \in {"menuRead", "searched"} : stage = IF w.stage = "menu" THEN "menuRead" ELSE "searched"
    OBVIOUS
  <1>5. PICK rows \in MenuRows : rows = menu[w.ask.shop] /\ RowsSince(w.ask.shop, rows, w.began)
    BY <1>3, RowsReadNow
  <1>6. PICK job : job = [w EXCEPT !.stage = stage, !.rows = rows]
    OBVIOUS
  <1>7. /\ job \in QuoteJobs /\ job.ask = w.ask /\ job.began = w.began /\ job.rows = rows
        /\ job.stage = stage
    <2>1. w \in [stage : Asking, ask : Questions, began : Nat, rows : MenuRows]
      BY <1>2, <1>3 DEF QuoteJobs, Asking, Checking
    <2> QED
      BY <1>4, <1>6, <2>1 DEF QuoteJobs, Asking
  <1>8. JobSound(job)
    BY <1>1, <1>2, <1>5, <1>7, JobIsTyped DEF JobSound
  <1>9. quoting' = [quoting EXCEPT ![t] = job]
    BY <1>1, <1>4, <1>5, <1>6 DEF QueryReads, QuoteInv
  <1> QED
    BY <1>7, <1>8, <1>9, QuietTurnKeeps DEF QueryReads

(* One that fails finds no rows: a search follows, or the demo is quoted.  *)
LEMMA QueryFailsKeeps ==
    ASSUME QuoteInv, NEW t \in QuoteTurns, QueryFails(t)
    PROVE  QuoteInv'
  <1>1. PICK w : w = quoting[t]
    OBVIOUS
  <1>2. w.stage \in {"menu", "search"} /\ w.stage \in Asking \cup Checking
    BY <1>1 DEF QueryFails, Asking
  <1>3. /\ w \in QuoteJobs /\ w.stage \in Asking /\ w.ask \in Questions
        /\ w.began <= quoteClock /\ quoteClock <= w.began + QueryTime
    BY <1>1, <1>2, JobIsTyped DEF Asking
  <1>4. UNCHANGED <<menu, gone, since, menuCache, priceCache, quoteClock, priceEdits, questions>>
    BY DEF QueryFails
  <1>5. CASE w.stage = "menu" /\ ~HasReply(w.ask, NoRows)
    <2>1. PICK job : job = [w EXCEPT !.stage = "search"]
      OBVIOUS
    <2>2. w \in [stage : Asking, ask : Questions, began : Nat, rows : MenuRows]
      BY <1>3 DEF QuoteJobs, Asking, Checking
    <2>3. job \in QuoteJobs /\ job.began = w.began /\ job.stage = "search"
      BY <2>1, <2>2 DEF QuoteJobs, Asking
    <2>4. JobSound(job)
      BY <1>3, <2>3 DEF JobSound
    <2>5. quoting' = [quoting EXCEPT ![t] = job] /\ said' = Silence
      BY <1>1, <1>5, <2>1 DEF QueryFails, QuoteInv
    <2> QED
      BY <1>4, <2>3, <2>4, <2>5, QuietTurnKeeps
  <1>6. CASE ~(w.stage = "menu" /\ ~HasReply(w.ask, NoRows))
    <2>1. quoting' = [quoting EXCEPT ![t] = NoTurn]
      BY <1>1, <1>6 DEF QueryFails
    <2>2. \/ said' = Silence
          \/ HasReply(w.ask, NoRows) /\ RepliesWith(w.ask, NoRows)
      BY <1>1, <1>6 DEF QueryFails
    <2>3. PricesAreRight'
      BY <1>3, <2>2, SilenceIsRight, QuestionsAreAsked, DemoReplyIsRight
    <2>4. /\ quoting' \in [QuoteTurns -> QuoteJobs \cup {NoTurn}]
          /\ \A u \in QuoteTurns : JobSound(quoting'[u])
      BY <2>1, NoTurnIsSound, JobMoves
    <2>5. /\ CacheSound(menuCache') /\ questions' \in 0..MaxQuestions
          /\ priceCache' \in [Shops -> CachedPrices]
          /\ \A s \in Shops : PriceSound(s, priceCache'[s])
      BY <1>4, QuoteCounts
    <2> QED
      BY <1>4, <2>3, <2>4, <2>5, TurnMoves
  <1> QED
    BY <1>5, <1>6

(* An answer is stored for QuoteTtl from before the query.                 *)
LEMMA StoredTime ==
    ASSUME QuoteInv, NEW t \in QuoteTurns, quoting[t].stage \in Asking \cup Checking
    PROVE  /\ Until(t) \in Untils /\ Began(Until(t)) = quoting[t].began
           /\ quoting[t].began <= quoteClock /\ quoteClock < quoting[t].began + QuoteTtl
  <1>1. quoting[t].began \in Nat /\ quoting[t].began <= quoteClock /\ quoteClock <= quoting[t].began + QueryTime
    BY JobIsTyped
  <1>2. quoteClock \in Nat /\ quoteClock <= MaxQuoteTime
    BY TimesAreTyped
  <1> QED
    BY <1>1, <1>2, QuoteFacts DEF Until, Began, Untils, Never

(* An answer from a query is as old as the query, and so is the entry      *)
(* stored, which has its lifetime from then.                               *)
LEMMA MenuStoresKeeps ==
    ASSUME QuoteInv, NEW t \in QuoteTurns, MenuStores(t)
    PROVE  QuoteInv'
  <1>1. PICK w : w = quoting[t]
    OBVIOUS
  <1>2. PICK key : key = KeyOf(w.ask)
    OBVIOUS
  <1>3. w.stage = "menuRead" /\ w.stage \in Asking /\ w.stage \in Asking \cup Checking
    BY <1>1 DEF MenuStores, Asking
  <1>4. /\ w.ask \in Questions /\ w.ask.shop \in Shops /\ w.began \in Nat /\ w.rows \in MenuRows
        /\ RowsSince(w.ask.shop, w.rows, w.began)
    BY <1>1, <1>3, JobIsTyped
  <1>5. PICK entry : entry = [key |-> key, until |-> Until(t), rows |-> w.rows]
    OBVIOUS
  <1>6. /\ menuCache' = Kept(Append(Without(key), entry))
        /\ UNCHANGED <<menu, gone, since, priceCache, quoteClock, priceEdits, questions>>
    BY <1>1, <1>2, <1>5 DEF MenuStores
  <1>7. \/ RepliesWith(w.ask, w.rows) /\ quoting' = [quoting EXCEPT ![t] = NoTurn]
        \/ Waits(t, "search", w.ask, NoRows) /\ said' = Silence
    BY <1>1 DEF MenuStores
  <1>8. /\ Until(t) \in Untils /\ Began(Until(t)) = w.began
        /\ w.began <= quoteClock /\ quoteClock < w.began + QuoteTtl
    BY <1>1, <1>3, StoredTime
  <1>9. entry \in CacheEntries /\ EntrySound(entry)
    <2>1. key \in Shops \X {8, 10} /\ key[1] = w.ask.shop
      BY <1>2, <1>4, KeyIsTyped
    <2>2. entry.key = key /\ entry.until = Until(t) /\ entry.rows = w.rows
      BY <1>5
    <2>3. entry \in CacheEntries
      BY <1>4, <1>5, <1>8, <2>1 DEF CacheEntries
    <2> QED
      BY <1>4, <1>8, <2>1, <2>2, <2>3 DEF EntrySound
  <1>10. CacheSound(menuCache')
    <2>1. CacheSound(menuCache)
      BY DEF QuoteInv
    <2>2. PICK left : left = Without(key)
      OBVIOUS
    <2>3. /\ left \in Seq(CacheEntries) /\ Len(left) \in Nat /\ Len(left) <= Len(menuCache)
          /\ \A n \in 1..Len(left) : EntrySound(left[n])
      BY <2>1, <2>2, WithoutKeeps
    <2>4. Len(left) <= MenuKeep
      BY <2>1, <2>3, QuoteFacts DEF CacheSound
    <2> QED
      BY <1>6, <1>9, <2>2, <2>3, <2>4, KeptIsSound
  <1>11. /\ quoting' \in [QuoteTurns -> QuoteJobs \cup {NoTurn}]
         /\ \A u \in QuoteTurns : JobSound(quoting'[u])
    <2>1. CASE quoting' = [quoting EXCEPT ![t] = NoTurn]
      BY <2>1, NoTurnIsSound, JobMoves
    <2>2. CASE Waits(t, "search", w.ask, NoRows)
      <3>1. PICK job : job = [stage |-> "search", ask |-> w.ask, began |-> quoteClock, rows |-> NoRows]
        OBVIOUS
      <3>2. job \in QuoteJobs /\ JobSound(job)
        BY <1>4, <3>1, JobBegins
      <3> QED
        BY <2>2, <3>1, <3>2, JobMoves DEF Waits
    <2> QED
      BY <1>7, <2>1, <2>2
  <1>12. PricesAreRight'
    <2>1. CASE RepliesWith(w.ask, w.rows)
      BY <1>4, <1>6, <1>8, <2>1, QuestionsAreAsked, MenuReplyIsRight
    <2>2. CASE said' = Silence
      BY <2>2, SilenceIsRight
    <2> QED
      BY <1>7, <2>1, <2>2
  <1>13. /\ priceCache' \in [Shops -> CachedPrices]
         /\ \A s \in Shops : PriceSound(s, priceCache'[s])
         /\ questions' \in 0..MaxQuestions
    BY <1>6, QuoteCounts
  <1> QED
    BY <1>6, <1>10, <1>11, <1>12, <1>13, TurnMoves

(* A search answers from its own rows and stores nothing.                  *)
LEMMA SearchRepliesKeeps ==
    ASSUME QuoteInv, NEW t \in QuoteTurns, SearchReplies(t)
    PROVE  QuoteInv'
  <1>1. PICK w : w = quoting[t]
    OBVIOUS
  <1>2. w.stage = "searched" /\ w.stage \in Asking /\ w.stage \in Asking \cup Checking
    BY <1>1 DEF SearchReplies, Asking
  <1>3. /\ w.ask \in Questions /\ w.began \in Nat /\ w.rows \in MenuRows
        /\ RowsSince(w.ask.shop, w.rows, w.began)
    BY <1>1, <1>2, JobIsTyped
  <1>4. /\ RepliesWith(Searched(w.ask), w.rows) /\ quoting' = [quoting EXCEPT ![t] = NoTurn]
        /\ UNCHANGED <<menu, gone, since, menuCache, priceCache, quoteClock, priceEdits, questions>>
    BY <1>1 DEF SearchReplies
  <1>5. quoteClock < w.began + QuoteTtl
    BY <1>1, <1>2, StoredTime
  <1>6. PricesAreRight'
    <2>1. PICK ask : ask = Searched(w.ask)
      OBVIOUS
    <2>2. IsAsked(ask) /\ ask.shop = w.ask.shop
      BY <1>3, <2>1, QuestionsAreAsked
    <2>3. RowsSince(ask.shop, w.rows, w.began) /\ RepliesWith(ask, w.rows)
      BY <1>3, <1>4, <2>1, <2>2
    <2> QED
      BY <1>3, <1>4, <1>5, <2>2, <2>3, MenuReplyIsRight
  <1>7. /\ quoting' \in [QuoteTurns -> QuoteJobs \cup {NoTurn}]
        /\ \A u \in QuoteTurns : JobSound(quoting'[u])
    BY <1>4, NoTurnIsSound, JobMoves
  <1>8. /\ CacheSound(menuCache') /\ questions' \in 0..MaxQuestions
        /\ priceCache' \in [Shops -> CachedPrices]
        /\ \A s \in Shops : PriceSound(s, priceCache'[s])
    BY <1>4, QuoteCounts
  <1> QED
    BY <1>4, <1>6, <1>7, <1>8, TurnMoves

(* A draft checked against the cache passes prices as old as its entry.    *)
LEMMA DraftFromCacheKeeps ==
    ASSUME QuoteInv, NEW t \in QuoteTurns, NEW draft \in Drafts, DraftFromCache(t, draft)
    PROVE  QuoteInv'
  <1>1. PICK cached : cached = priceCache[draft.shop]
    OBVIOUS
  <1>2. /\ NewQuestion /\ cached.until > quoteClock
        /\ ModelSays(draft, Passed(draft, cached.prices), TRUE)
        /\ UNCHANGED <<menu, gone, since, menuCache, priceCache, quoting, quoteClock, priceEdits>>
    BY <1>1 DEF DraftFromCache, KnownFromCache
  <1>3. cached \in CachedPrices /\ PriceSound(draft.shop, cached)
    BY <1>1, QuoteFacts DEF QuoteInv
  <1>4. PICK began : began = cached.until - QuoteTtl
    OBVIOUS
  <1>5. cached.until \in Int /\ cached.prices \in SUBSET Prices
    BY <1>3, QuoteFacts DEF CachedPrices
  <1>6. began \in Int /\ quoteClock < began + QuoteTtl
    BY <1>2, <1>4, <1>5, QuoteFacts, TimesAreTyped
  <1>7. PricesSince(draft.shop, cached.prices, began)
    BY <1>3, <1>4 DEF PriceSound, Began
  <1>8. PricesAreRight'
    BY <1>2, <1>5, <1>6, <1>7, CheckedReplyIsRight
  <1>9. /\ CacheSound(menuCache') /\ questions' \in 0..MaxQuestions
        /\ priceCache' \in [Shops -> CachedPrices]
        /\ \A s \in Shops : PriceSound(s, priceCache'[s])
        /\ quoting' \in [QuoteTurns -> QuoteJobs \cup {NoTurn}]
        /\ \A u \in QuoteTurns : JobSound(quoting'[u])
    BY <1>2, QuoteCounts
  <1> QED
    BY <1>2, <1>8, <1>9, TurnMoves

(* A draft that finds no fresh entry waits for a query.                    *)
LEMMA DraftAfreshKeeps ==
    ASSUME QuoteInv, NEW t \in QuoteTurns, NEW draft \in Drafts, DraftAfresh(t, draft)
    PROVE  QuoteInv'
  <1>1. PICK job : job = [stage |-> "prices", ask |-> draft, began |-> quoteClock, rows |-> NoRows]
    OBVIOUS
  <1>2. job \in QuoteJobs /\ JobSound(job)
    BY <1>1, JobBegins
  <1>3. quoting' = [quoting EXCEPT ![t] = job]
    BY <1>1 DEF DraftAfresh, Waits
  <1> QED
    BY <1>2, <1>3, QuietTurnKeeps DEF DraftAfresh

(* The query of a draft reads the rows of now.                             *)
LEMMA PricesReadKeeps ==
    ASSUME QuoteInv, NEW t \in QuoteTurns, PricesRead(t)
    PROVE  QuoteInv'
  <1>1. PICK w : w = quoting[t]
    OBVIOUS
  <1>2. w.stage = "prices" /\ w.stage \in Asking \cup Checking
    BY <1>1 DEF PricesRead, Checking
  <1>3. w \in QuoteJobs /\ w.ask.shop \in Shops /\ w.began \in Nat
    BY <1>1, <1>2, JobIsTyped
  <1>4. PICK rows \in MenuRows : rows = menu[w.ask.shop] /\ RowsSince(w.ask.shop, rows, w.began)
    BY <1>3, RowsReadNow
  <1>5. PICK job : job = [w EXCEPT !.stage = "pricesRead", !.rows = rows]
    OBVIOUS
  <1>6. job \in QuoteJobs /\ job.ask = w.ask /\ job.began = w.began /\ job.rows = rows
    <2>1. w \in [stage : Checking, ask : Drafts, began : Nat, rows : MenuRows]
      BY <1>2, <1>3 DEF QuoteJobs, Asking, Checking
    <2> QED
      BY <1>5, <2>1 DEF QuoteJobs, Checking
  <1>7. JobSound(job)
    <2>1. w.began <= quoteClock /\ quoteClock <= w.began + QueryTime
      BY <1>1, <1>2, JobIsTyped
    <2> QED
      BY <1>4, <1>6, <2>1 DEF JobSound
  <1>8. quoting' = [quoting EXCEPT ![t] = job]
    BY <1>1, <1>4, <1>5 DEF PricesRead, QuoteInv
  <1> QED
    BY <1>6, <1>7, <1>8, QuietTurnKeeps DEF PricesRead

(* The prices of rows are as old as the rows.                              *)
LEMMA KnownArePrices ==
    ASSUME NEW s \in Shops, NEW rows \in MenuRows, NEW began, RowsSince(s, rows, began)
    PROVE  KnownPrices(rows) \in SUBSET Prices /\ PricesSince(s, KnownPrices(rows), began)
  <1>1. \A i \in Dishes : rows[i] \in Prices \cup {0}
    BY DEF MenuRows
  <1>2. \A p : p \in KnownPrices(rows) <=> \E i \in Dishes : rows[i] = p /\ p # 0
    BY DEF KnownPrices, Listed
  <1> QED
    BY <1>1, <1>2 DEF PricesSince, RowsSince

(* A draft checked after its query passes prices as old as the query.      *)
LEMMA PricesStoredKeeps ==
    ASSUME QuoteInv, NEW t \in QuoteTurns, PricesStored(t)
    PROVE  QuoteInv'
  <1>1. PICK w : w = quoting[t]
    OBVIOUS
  <1>2. w.stage = "pricesRead" /\ w.stage \in Checking /\ w.stage \in Asking \cup Checking
    BY <1>1 DEF PricesStored, Checking
  <1>3. /\ w.ask \in Drafts /\ w.ask.shop \in Shops /\ w.began \in Nat /\ w.rows \in MenuRows
        /\ RowsSince(w.ask.shop, w.rows, w.began)
    BY <1>1, <1>2, JobIsTyped
  <1>4. PICK prices : prices = KnownPrices(w.rows)
    OBVIOUS
  <1>5. prices \in SUBSET Prices /\ PricesSince(w.ask.shop, prices, w.began)
    BY <1>3, <1>4, KnownArePrices
  <1>6. PICK cached : cached = [until |-> Until(t), prices |-> prices]
    OBVIOUS
  <1>7. /\ priceCache' = [priceCache EXCEPT ![w.ask.shop] = cached]
        /\ ModelSays(w.ask, Passed(w.ask, prices), TRUE)
        /\ quoting' = [quoting EXCEPT ![t] = NoTurn]
        /\ UNCHANGED <<menu, gone, since, menuCache, quoteClock, priceEdits, questions>>
    BY <1>1, <1>4, <1>6 DEF PricesStored
  <1>8. /\ Until(t) \in Untils /\ Began(Until(t)) = w.began
        /\ w.began <= quoteClock /\ quoteClock < w.began + QuoteTtl
    BY <1>1, <1>2, StoredTime
  <1>9. cached \in CachedPrices /\ PriceSound(w.ask.shop, cached)
    BY <1>5, <1>6, <1>8 DEF CachedPrices, PriceSound
  <1>10. /\ priceCache' \in [Shops -> CachedPrices]
         /\ \A s \in Shops : PriceSound(s, priceCache'[s])
    <2>1. priceCache \in [Shops -> CachedPrices] /\ \A s \in Shops : PriceSound(s, priceCache[s])
      BY DEF QuoteInv
    <2>2. /\ priceCache' \in [Shops -> CachedPrices] /\ priceCache'[w.ask.shop] = cached
          /\ \A s \in Shops \ {w.ask.shop} : priceCache'[s] = priceCache[s]
      BY <1>3, <1>7, <1>9, <2>1
    <2>3. ASSUME NEW s \in Shops PROVE PriceSound(s, priceCache'[s])
      BY <1>9, <2>1, <2>2
    <2> QED
      BY <2>2, <2>3
  <1>11. PricesAreRight'
    <2>1. PICK draft \in Drafts : draft = w.ask
      BY <1>3
    <2>2. PICK began \in Int : began = w.began
      BY <1>3
    <2>3. PricesSince(draft.shop, prices, began) /\ quoteClock < began + QuoteTtl
      BY <1>5, <1>8, <2>1, <2>2
    <2>4. ModelSays(draft, Passed(draft, prices), TRUE)
      BY <1>7, <2>1
    <2> QED
      BY <1>5, <1>7, <2>3, <2>4, CheckedReplyIsRight
  <1>12. /\ quoting' \in [QuoteTurns -> QuoteJobs \cup {NoTurn}]
         /\ \A u \in QuoteTurns : JobSound(quoting'[u])
    BY <1>7, NoTurnIsSound, JobMoves
  <1>13. CacheSound(menuCache') /\ questions' \in 0..MaxQuestions
    BY <1>7, QuoteCounts
  <1> QED
    BY <1>7, <1>10, <1>11, <1>12, <1>13, TurnMoves

(* A draft that cannot be checked says what it said, unchecked.            *)
LEMMA PricesUnknownKeeps ==
    ASSUME QuoteInv, NEW t \in QuoteTurns, PricesUnknown(t)
    PROVE  QuoteInv'
  <1>1. PICK draft : draft = quoting[t].ask
    OBVIOUS
  <1>2. /\ ModelSays(draft, draft.says, FALSE)
        /\ quoting' = [quoting EXCEPT ![t] = NoTurn]
        /\ UNCHANGED <<menu, gone, since, menuCache, priceCache, quoteClock, priceEdits, questions>>
    BY <1>1 DEF PricesUnknown
  <1>3. PricesAreRight'
    <2>1. PICK new : new = said' /\ new = [by |-> "model", ask |-> draft, passed |-> draft.says, checked |-> FALSE]
      BY <1>2 DEF ModelSays
    <2>2. new.by = "model" /\ new.ask = draft /\ new.passed = draft.says /\ ~new.checked
      BY <2>1
    <2>3. QuotesAreCurrent'
      BY <2>1, <2>2 DEF QuotesAreCurrent
    <2>4. PicksFitBudget'
      BY <2>1, <2>2 DEF PicksFitBudget
    <2> QED
      BY <2>3, <2>4 DEF PricesAreRight
  <1>4. /\ quoting' \in [QuoteTurns -> QuoteJobs \cup {NoTurn}]
        /\ \A u \in QuoteTurns : JobSound(quoting'[u])
    BY <1>2, NoTurnIsSound, JobMoves
  <1>5. /\ CacheSound(menuCache') /\ questions' \in 0..MaxQuestions
        /\ priceCache' \in [Shops -> CachedPrices]
        /\ \A s \in Shops : PriceSound(s, priceCache'[s])
    BY <1>2, QuoteCounts
  <1> QED
    BY <1>2, <1>3, <1>4, <1>5, TurnMoves

(* The price of an item changes now: whoever has read it before, has read  *)
(* what is lost after that.                                                *)
LEMMA EditKeepsQuotes ==
    ASSUME QuoteInv, NEW shop \in Shops, NEW i \in Dishes, NEW price \in Prices \cup {0},
           EditPrice(shop, i, price)
    PROVE  QuoteInv'
  <1>1. PICK old \in Prices \cup {0} : old = menu[shop][i]
    BY TimesAreTyped
  <1>2. /\ menu' = [menu EXCEPT ![shop][i] = price]
        /\ since' = [since EXCEPT ![shop][i] = quoteClock]
        /\ gone' = IF old = 0 THEN gone ELSE [gone EXCEPT ![shop][i][old] = quoteClock]
        /\ priceEdits < MaxPriceEdits /\ priceEdits' = priceEdits + 1 /\ said' = Silence
        /\ UNCHANGED <<menuCache, priceCache, quoting, quoteClock, questions>>
    BY <1>1 DEF EditPrice
  <1>3. quoteClock \in Nat /\ menu \in [Shops -> MenuRows]
    BY TimesAreTyped DEF QuoteInv, QuoteTypes
  <1>4. /\ menu' \in [Shops -> MenuRows] /\ menu'[shop][i] = price
        /\ \A s \in Shops, j \in Dishes : s # shop \/ j # i => menu'[s][j] = menu[s][j]
    BY <1>2, <1>3 DEF MenuRows
  <1>5. /\ since' \in [Shops -> [Dishes -> Int]] /\ since'[shop][i] = quoteClock
        /\ \A s \in Shops, j \in Dishes : s # shop \/ j # i => since'[s][j] = since[s][j]
    <2>1. since \in [Shops -> [Dishes -> Int]]
      BY DEF QuoteInv, QuoteTypes
    <2> QED
      BY <1>2, <1>3, <2>1
  <1>6. /\ gone' \in [Shops -> [Dishes -> [Prices -> Int]]]
        /\ old # 0 => gone'[shop][i][old] = quoteClock
        /\ \A s \in Shops, j \in Dishes, p \in Prices :
              gone'[s][j][p] = gone[s][j][p] \/ gone'[s][j][p] = quoteClock
    <2>1. gone \in [Shops -> [Dishes -> [Prices -> Int]]]
      BY DEF QuoteInv, QuoteTypes
    <2>2. CASE old = 0
      BY <1>2, <2>1, <2>2
    <2>3. CASE old # 0
      <3>0. gone[shop][i] \in [Prices -> Int] /\ old \in Prices /\ quoteClock \in Int
        BY <1>1, <1>3, <2>1, <2>3
      <3>1. PICK lost \in [Prices -> Int] : lost = [gone[shop][i] EXCEPT ![old] = quoteClock]
        BY <3>0
      <3>2. /\ lost[old] = quoteClock
            /\ \A p \in Prices : lost[p] = gone[shop][i][p] \/ lost[p] = quoteClock
        BY <3>0, <3>1
      <3>3. gone' = [gone EXCEPT ![shop][i] = lost]
        BY <1>2, <2>1, <2>3, <3>1
      <3>4. /\ gone' \in [Shops -> [Dishes -> [Prices -> Int]]] /\ gone'[shop][i] = lost
            /\ \A s \in Shops, j \in Dishes : s # shop \/ j # i => gone'[s][j] = gone[s][j]
        BY <2>1, <3>3
      <3> QED
        BY <3>2, <3>4
    <2> QED
      BY <2>2, <2>3
  <1>7. ASSUME NEW s \in Shops, NEW rows \in MenuRows, NEW began \in Int, began <= quoteClock,
               RowsSince(s, rows, began)
        PROVE  RowsSince(s, rows, began)'
    <2>1. SUFFICES ASSUME NEW j \in Dishes
                   PROVE  \/ menu'[s][j] = rows[j]
                          \/ since'[s][j] >= began /\ (rows[j] # 0 => gone'[s][j][rows[j]] >= began)
      BY DEF RowsSince
    <2>2. \/ menu[s][j] = rows[j]
          \/ since[s][j] >= began /\ (rows[j] # 0 => gone[s][j][rows[j]] >= began)
      BY <1>7 DEF RowsSince
    <2>3. rows[j] \in Prices \cup {0} /\ since[s][j] \in Int
      BY TimesAreTyped DEF MenuRows
    <2>4. rows[j] # 0 => /\ rows[j] \in Prices /\ gone[s][j][rows[j]] \in Int
                         /\ gone'[s][j][rows[j]] = gone[s][j][rows[j]] \/ gone'[s][j][rows[j]] = quoteClock
      BY <1>6, <2>3, TimesAreTyped
    <2>5. CASE s = shop /\ j = i
      <3>1. since'[s][j] >= began
        BY <1>3, <1>5, <1>7, <2>5
      <3>2. rows[j] # 0 => gone'[s][j][rows[j]] >= began
        BY <1>1, <1>3, <1>6, <1>7, <2>2, <2>4, <2>5
      <3> QED
        BY <3>1, <3>2
    <2>6. CASE s # shop \/ j # i
      <3>1. menu'[s][j] = menu[s][j] /\ since'[s][j] = since[s][j]
        BY <1>4, <1>5, <2>6
      <3> QED
        BY <1>3, <1>7, <2>2, <2>4, <3>1
    <2> QED
      BY <2>5, <2>6
  <1>8. ASSUME NEW s \in Shops, NEW prices \in SUBSET Prices, NEW began \in Int, began <= quoteClock,
               PricesSince(s, prices, began)
        PROVE  PricesSince(s, prices, began)'
    <2>1. ASSUME NEW p \in prices
          PROVE  \E j \in Dishes : menu'[s][j] = p \/ gone'[s][j][p] >= began
      <3>1. PICK j \in Dishes : menu[s][j] = p \/ gone[s][j][p] >= began
        BY <1>8 DEF PricesSince
      <3>2. p \in Prices /\ p # 0 /\ gone[s][j][p] \in Int
        BY QuoteFacts, TimesAreTyped
      <3>3. gone'[s][j][p] = gone[s][j][p] \/ gone'[s][j][p] = quoteClock
        BY <1>6, <3>2
      <3>4. CASE s = shop /\ j = i /\ menu[s][j] = p
        BY <1>1, <1>3, <1>6, <1>8, <3>2, <3>4
      <3>5. CASE (s # shop \/ j # i) /\ menu[s][j] = p
        BY <1>4, <3>5
      <3>6. CASE gone[s][j][p] >= began
        BY <1>3, <1>8, <3>2, <3>3, <3>6
      <3> QED
        BY <3>1, <3>4, <3>5, <3>6
    <2>2. ASSUME NEW j \in Dishes
          PROVE  menu'[s][j] = 0 \/ menu'[s][j] \in prices \/ since'[s][j] >= began
      <3>1. CASE s = shop /\ j = i
        BY <1>3, <1>5, <1>8, <3>1
      <3>2. CASE s # shop \/ j # i
        BY <1>4, <1>5, <1>8, <3>2 DEF PricesSince
      <3> QED
        BY <3>1, <3>2
    <2> QED
      BY <2>1, <2>2 DEF PricesSince
  <1>9. QuoteTypes'
    <2>1. priceEdits' \in 0..MaxPriceEdits
      BY <1>2, QuotesAssumption DEF QuoteInv, QuoteTypes
    <2> QED
      BY <1>2, <1>4, <1>5, <1>6, <2>1 DEF QuoteInv, QuoteTypes
  <1>10. CacheSound(menuCache)'
    <2>1. CacheSound(menuCache) /\ menuCache' = menuCache
      BY <1>2 DEF QuoteInv
    <2>2. ASSUME NEW n \in 1..Len(menuCache)
          PROVE  EntrySound(menuCache[n])'
      <3>1. PICK entry \in CacheEntries : entry = menuCache[n] /\ EntrySound(entry)
        BY <2>1 DEF CacheSound
      <3>2. entry.key[1] \in Shops /\ entry.rows \in MenuRows /\ Began(entry.until) \in Int
        BY BeganIsTyped DEF CacheEntries
      <3>3. EntrySound(entry)'
        BY <1>2, <1>7, <3>1, <3>2 DEF EntrySound
      <3> QED
        BY <2>1, <3>1, <3>3
    <2> QED
      BY <2>1, <2>2 DEF CacheSound
  <1>11. \A s \in Shops : PriceSound(s, priceCache[s])'
    <2>1. SUFFICES ASSUME NEW s \in Shops PROVE PriceSound(s, priceCache[s])'
      OBVIOUS
    <2>2. PICK cached \in CachedPrices : cached = priceCache[s] /\ PriceSound(s, cached)
      BY DEF QuoteInv
    <2>3. cached.prices \in SUBSET Prices /\ Began(cached.until) \in Int
      BY BeganIsTyped DEF CachedPrices
    <2>4. PriceSound(s, cached)'
      BY <1>2, <1>8, <2>2, <2>3 DEF PriceSound
    <2> QED
      BY <1>2, <2>2, <2>4
  <1>12. \A t \in QuoteTurns : JobSound(quoting[t])'
    <2>1. SUFFICES ASSUME NEW t \in QuoteTurns PROVE JobSound(quoting[t])'
      OBVIOUS
    <2>2. PICK job \in QuoteJobs \cup {NoTurn} : job = quoting[t] /\ JobSound(job)
      BY DEF QuoteInv
    <2>3. job # NoTurn => job.ask.shop \in Shops /\ job.rows \in MenuRows /\ job.began \in Nat
      <3>1. job \in QuoteJobs => /\ job.ask \in Questions \cup Drafts /\ job.rows \in MenuRows
                                 /\ job.began \in Nat
        BY DEF QuoteJobs
      <3> QED
        BY <3>1, QuoteFacts
    <2>4. JobSound(job)'
      BY <1>2, <1>7, <2>2, <2>3 DEF JobSound
    <2> QED
      BY <1>2, <2>2, <2>4
  <1>13. PricesAreRight'
    BY <1>2, SilenceIsRight
  <1> QED
    BY <1>2, <1>9, <1>10, <1>11, <1>12, <1>13 DEF QuoteInv

(* A second passes only while no turn waits too long; what is remembered   *)
(* of the menu does not change.                                            *)
LEMMA SecondKeepsQuotes ==
    ASSUME QuoteInv, Second
    PROVE  QuoteInv'
  <1>1. /\ quoteClock' = quoteClock + 1 /\ said' = Silence
        /\ \A t \in QuoteTurns : quoting[t] # NoTurn => quoteClock < quoting[t].began + QueryTime
        /\ UNCHANGED <<menu, gone, since, menuCache, priceCache, quoting, priceEdits, questions>>
    BY DEF Second
  <1>2. quoteClock \in Nat /\ quoteClock' \in 0..MaxQuoteTime
    BY QuoteFacts, TimesAreTyped DEF Second
  <1>3. QuoteTypes'
    BY <1>1, <1>2 DEF QuoteInv, QuoteTypes
  <1>4. /\ \A s, r, b : RowsSince(s, r, b)' = RowsSince(s, r, b)
        /\ \A s, r, b : PricesSince(s, r, b)' = PricesSince(s, r, b)
    BY <1>1 DEF RowsSince, PricesSince
  <1>5. ASSUME NEW until \in Untils, Began(until) <= quoteClock
        PROVE  Began(until) <= quoteClock'
    <2>1. Began(until) \in Int
      BY BeganIsTyped
    <2> HIDE DEF Began
    <2> QED
      BY <1>1, <1>2, <1>5, <2>1
  <1>6. CacheSound(menuCache)'
    <2>1. CacheSound(menuCache) /\ menuCache' = menuCache
      BY <1>1 DEF QuoteInv
    <2>2. ASSUME NEW n \in 1..Len(menuCache)
          PROVE  EntrySound(menuCache[n])'
      <3>1. PICK entry \in CacheEntries : entry = menuCache[n] /\ EntrySound(entry)
        BY <2>1 DEF CacheSound
      <3>2. entry.until \in Untils
        BY <3>1 DEF CacheEntries
      <3> QED
        BY <1>4, <1>5, <2>1, <3>1, <3>2 DEF EntrySound
    <2> QED
      BY <2>1, <2>2 DEF CacheSound
  <1>7. ASSUME NEW s \in Shops PROVE PriceSound(s, priceCache[s])'
    <2>1. PICK cached \in CachedPrices : cached = priceCache[s] /\ PriceSound(s, cached)
      BY DEF QuoteInv
    <2>2. cached.until \in Untils
      BY <2>1 DEF CachedPrices
    <2> QED
      BY <1>1, <1>4, <1>5, <2>1, <2>2 DEF PriceSound
  <1>8. ASSUME NEW t \in QuoteTurns PROVE JobSound(quoting[t])'
    <2>1. PICK job \in QuoteJobs \cup {NoTurn} : job = quoting[t] /\ JobSound(job)
      BY DEF QuoteInv
    <2>2. job # NoTurn => job.began \in Nat /\ quoteClock < job.began + QueryTime
      BY <1>1, <2>1 DEF QuoteJobs
    <2>3. job # NoTurn => job.began <= quoteClock' /\ quoteClock' <= job.began + QueryTime
      BY <1>1, <1>2, <2>1, <2>2, QuoteFacts DEF JobSound
    <2> QED
      BY <1>1, <1>4, <2>1, <2>3 DEF JobSound
  <1>9. PricesAreRight'
    BY <1>1, SilenceIsRight
  <1> QED
    BY <1>1, <1>3, <1>6, <1>7, <1>8, <1>9 DEF QuoteInv

(* At the start nothing is cached and nobody asks.                         *)
LEMMA QuotesStart == QuoteInit => QuoteInv
  <1> SUFFICES ASSUME QuoteInit PROVE QuoteInv
    OBVIOUS
  <1>1. /\ menu = OpeningMenu /\ menuCache = <<>> /\ said = Silence
        /\ gone = [s \in Shops |-> [i \in Dishes |-> [p \in Prices |-> Never]]]
        /\ since = [s \in Shops |-> [i \in Dishes |-> Never]]
        /\ priceCache = [s \in Shops |-> Uncached]
        /\ quoting = [t \in QuoteTurns |-> NoTurn]
        /\ quoteClock = 0 /\ priceEdits = 0 /\ questions = 0
    BY DEF QuoteInit
  <1>2. QuoteTypes
    <2>1. 0 \in 0..MaxQuoteTime /\ 0 \in 0..MaxPriceEdits /\ 0 \in 0..MaxQuestions
      BY QuotesAssumption
    <2>2. menu \in [Shops -> MenuRows]
      BY <1>1, QuotesAssumption DEF MenuRows
    <2>3. gone \in [Shops -> [Dishes -> [Prices -> Int]]]
      BY <1>1, QuoteFacts
    <2>4. since \in [Shops -> [Dishes -> Int]]
      BY <1>1, QuoteFacts
    <2>5. quoteClock \in 0..MaxQuoteTime /\ priceEdits \in 0..MaxPriceEdits /\ questions \in 0..MaxQuestions
      BY <1>1, <2>1
    <2> QED
      BY <2>2, <2>3, <2>4, <2>5 DEF QuoteTypes
  <1>3. CacheSound(menuCache)
    BY <1>1, QuoteFacts DEF CacheSound
  <1>4. Uncached \in CachedPrices /\ Uncached.until = Never /\ Uncached.prices = {}
    BY QuoteFacts DEF Uncached, CachedPrices
  <1>5. Began(Never) \in Int /\ Began(Never) <= 0 /\ Never >= Began(Never)
    BY QuoteFacts DEF Began, Never
  <1>6. ASSUME NEW s \in Shops PROVE PriceSound(s, priceCache[s])
    <2>1. \A i \in Dishes : since[s][i] = Never
      BY <1>1
    <2>2. priceCache[s] = Uncached
      BY <1>1
    <2> QED
      BY <1>1, <1>4, <1>5, <2>1, <2>2 DEF PriceSound, PricesSince
  <1>7. priceCache \in [Shops -> CachedPrices]
    BY <1>1, <1>4
  <1>8. quoting \in [QuoteTurns -> QuoteJobs \cup {NoTurn}] /\ \A t \in QuoteTurns : JobSound(quoting[t])
    BY <1>1, NoTurnIsSound
  <1>9. PricesAreRight
    BY <1>1 DEF Silence, PricesAreRight, QuotesAreCurrent, PicksFitBudget
  <1> QED
    BY <1>2, <1>3, <1>6, <1>7, <1>8, <1>9 DEF QuoteInv

(* Whatever turns ask of the two caches while staff edit the menu, what is *)
(* cached and what is under way was on the menu since its time began, and  *)
(* what has just been said is right.                                       *)
THEOREM QuoteInvariance == QuoteSpec => []QuoteInv
  <1>1. ASSUME QuoteInv, [QuoteNext]_quoteVars
        PROVE  QuoteInv'
    <2>1. CASE \E t \in QuoteTurns, ask \in Questions : AskFromCache(t, ask) \/ AskAfresh(t, ask)
      BY <1>1, <2>1, AskFromCacheKeeps, AskAfreshKeeps
    <2>2. CASE \E t \in QuoteTurns, draft \in Drafts : DraftFromCache(t, draft) \/ DraftAfresh(t, draft)
      BY <1>1, <2>2, DraftFromCacheKeeps, DraftAfreshKeeps
    <2>3. CASE \E t \in QuoteTurns :
                   \/ QueryReads(t) \/ QueryFails(t) \/ MenuStores(t) \/ SearchReplies(t)
                   \/ PricesRead(t) \/ PricesStored(t) \/ PricesUnknown(t)
      BY <1>1, <2>3, QueryReadsKeeps, QueryFailsKeeps, MenuStoresKeeps, SearchRepliesKeeps,
         PricesReadKeeps, PricesStoredKeeps, PricesUnknownKeeps
    <2>4. CASE \E edit \in Repricings : EditPrice(edit[1], edit[2], edit[3])
      <3>1. \A edit \in Repricings : edit[1] \in Shops /\ edit[2] \in Dishes /\ edit[3] \in Prices \cup {0}
        BY QuotesAssumption
      <3> QED
        BY <1>1, <2>4, <3>1, EditKeepsQuotes
    <2>5. CASE Second
      BY <1>1, <2>5, SecondKeepsQuotes
    <2>6. CASE UNCHANGED quoteVars
      <3>1. /\ UNCHANGED <<menu, gone, since, menuCache, priceCache, quoting, said>>
            /\ UNCHANGED <<quoteClock, priceEdits, questions>>
        BY <2>6 DEF quoteVars
      <3>2. PricesAreRight'
        BY <1>1, <3>1 DEF QuoteInv, PricesAreRight, QuotesAreCurrent, PicksFitBudget, Lately
      <3>3. /\ CacheSound(menuCache') /\ questions' \in 0..MaxQuestions
            /\ priceCache' \in [Shops -> CachedPrices]
            /\ \A s \in Shops : PriceSound(s, priceCache'[s])
            /\ quoting' \in [QuoteTurns -> QuoteJobs \cup {NoTurn}]
            /\ \A t \in QuoteTurns : JobSound(quoting'[t])
        BY <1>1, <3>1, QuoteCounts
      <3> QED
        BY <1>1, <3>1, <3>2, <3>3, TurnMoves
    <2> QED
      BY <1>1, <2>1, <2>2, <2>3, <2>4, <2>5, <2>6 DEF QuoteNext
  <1> QED
    BY <1>1, QuotesStart, PTL DEF QuoteSpec

(* No customer is quoted a price that the row it is taken from did not     *)
(* have within the sixty seconds of the caches, whichever turn's query     *)
(* filled them, but the demo espresso's; and picks keep to the budget      *)
(* (rag.py, quick_replies.py).                                             *)
THEOREM PricesStayRight == QuoteSpec => []PricesAreRight
  <1>1. QuoteInv => PricesAreRight
    BY DEF QuoteInv
  <1> QED
    BY <1>1, QuoteInvariance, PTL

-----------------------------------------------------------------------------
(* The business a chat is with.                                            *)

(* A business, or none.                                                    *)
Places == Businesses \cup {Nowhere}

(* Of the businesses that the threads are with, b is the last.             *)
IsLast(b, s) ==
    \E n \in 1..Len(s) : s[n] = b /\ \A m \in 1..Len(s) : m > n => s[m] = Nowhere

(* Types of the businesses and the threads.                                *)
RouteTypes ==
    /\ company \in Seq(Businesses) /\ threads \in Seq(Places)
    /\ RouteTypeOK

(* The invariant of the routing: who has switched has used that business   *)
(* last.                                                                   *)
RouteInv ==
    /\ RouteTypes
    /\ switched # Nowhere => IsLast(switched, threads)
    /\ SwitchSticks

(* A sequence repeats nothing where no two places have the same.           *)
LEMMA NoRepeats ==
    ASSUME NEW S, NEW s \in Seq(S)
    PROVE  /\ ToSet(s) = {s[n] : n \in 1..Len(s)}
           /\ IsInjective(s) <=> \A m, n \in 1..Len(s) : s[m] = s[n] => m = n
  <1>1. DOMAIN s = 1..Len(s)
    OBVIOUS
  <1>2. ToSet(s) = {s[n] : n \in 1..Len(s)}
    BY <1>1 DEF ToSet
  <1>3. IsInjective(s) <=> \A m, n \in 1..Len(s) : s[m] = s[n] => m = n
    BY <1>1 DEF IsInjective
  <1> QED
    BY <1>2, <1>3

(* A sequence of members of S repeats no others, and the empty one none.   *)
LEMMA OfMembers ==
    ASSUME NEW S, NEW s \in Seq(S)
    PROVE  ToSet(s) \subseteq S /\ (s = <<>> => IsInjective(s))
  <1>1. \A n \in 1..Len(s) : s[n] \in S
    OBVIOUS
  <1>2. s = <<>> => Len(s) = 0
    OBVIOUS
  <1> QED
    BY <1>1, <1>2, NoRepeats

(* What is added at the end and was not there repeats nothing.             *)
LEMMA AddedOnce ==
    ASSUME NEW S, NEW s \in Seq(S), IsInjective(s), NEW b \in S, b \notin ToSet(s)
    PROVE  /\ Append(s, b) \in Seq(S) /\ IsInjective(Append(s, b))
           /\ ToSet(Append(s, b)) = ToSet(s) \cup {b}
  <1>1. PICK new \in Seq(S) : new = Append(s, b)
    BY AppendProperties
  <1>2. /\ Len(new) = Len(s) + 1 /\ new[Len(s) + 1] = b
        /\ \A n \in 1..Len(s) : new[n] = s[n]
    BY <1>1, AppendProperties
  <1>3. Len(s) \in Nat /\ 1..Len(new) = 1..Len(s) \cup {Len(s) + 1}
    BY <1>2
  <1>4. ASSUME NEW m \in 1..Len(new), NEW n \in 1..Len(new), new[m] = new[n]
        PROVE  m = n
    BY <1>2, <1>3, <1>4, NoRepeats
  <1>5. ToSet(new) = ToSet(s) \cup {b}
    <2>1. \A x \in ToSet(new) : x \in ToSet(s) \cup {b}
      BY <1>2, <1>3, NoRepeats
    <2>2. \A x \in ToSet(s) \cup {b} : x \in ToSet(new)
      BY <1>2, <1>3, NoRepeats
    <2> QED
      BY <2>1, <2>2
  <1> QED
    BY <1>1, <1>4, <1>5, NoRepeats

(* The active business is the last of the threads'.                        *)
LEMMA LastIsActive ==
    ASSUME RouteTypes
    PROVE  /\ ActiveBusiness \in Places
           /\ \A b \in Businesses : IsLast(b, threads) => ActiveBusiness = b
  <1> DEFINE known == {n \in DOMAIN threads : threads[n] # Nowhere}
  <1>1. threads \in Seq(Places) /\ DOMAIN threads = 1..Len(threads) /\ Len(threads) \in Nat
    BY DEF RouteTypes
  <1>2. known \in SUBSET (0..Len(threads))
    BY <1>1
  <1>3. CASE known = {}
    <2>1. ActiveBusiness = Nowhere
      BY <1>3 DEF ActiveBusiness
    <2> QED
      BY <1>1, <1>3, <2>1, RoutingAssumption DEF IsLast, Places
  <1>4. CASE known # {}
    <2>1. PICK last : last = Max(known)
      OBVIOUS
    <2>2. last \in known /\ \A n \in known : n <= last
      BY <1>1, <1>2, <1>4, <2>1, MaxIsThere
    <2>3. ActiveBusiness = threads[last]
      BY <1>4, <2>1 DEF ActiveBusiness
    <2>4. ASSUME NEW b \in Businesses, IsLast(b, threads)
          PROVE  threads[last] = b
      <3>1. PICK n \in 1..Len(threads) :
               threads[n] = b /\ \A m \in 1..Len(threads) : m > n => threads[m] = Nowhere
        BY <2>4 DEF IsLast
      <3>2. n \in known
        BY <1>1, <3>1, RoutingAssumption
      <3>3. ~(last > n)
        BY <1>1, <2>2, <3>1
      <3>4. last = n
        BY <1>1, <2>2, <3>2, <3>3
      <3> QED
        BY <3>1, <3>4
    <2> QED
      BY <1>1, <2>2, <2>3, <2>4
  <1> QED
    BY <1>3, <1>4

(* Without b, the other threads are in the order they were.                *)
LEMMA OthersAre ==
    ASSUME RouteTypes, NEW b \in Places
    PROVE  /\ Others(b) \in Seq(Places) /\ IsInjective(Others(b)) /\ b \notin ToSet(Others(b))
           /\ \A c \in Businesses : c # b /\ IsLast(c, threads) => IsLast(c, Others(b))
  <1>1. threads \in Seq(Places) /\ DOMAIN threads = 1..Len(threads) /\ Len(threads) \in Nat
    BY DEF RouteTypes
  <1>2. \A m, n \in 1..Len(threads) : threads[m] = threads[n] => m = n
    BY <1>1, NoRepeats DEF RouteTypes, RouteTypeOK
  <1>3. CASE b \notin ToSet(threads)
    BY <1>1, <1>3 DEF Others, RouteTypes, RouteTypeOK
  <1>4. CASE b \in ToSet(threads)
    <2>1. PICK at : at = CHOOSE n \in DOMAIN threads : threads[n] = b
      OBVIOUS
    <2>2. at \in 1..Len(threads) /\ threads[at] = b
      <3>1. \E n \in DOMAIN threads : threads[n] = b
        BY <1>4 DEF ToSet
      <3> QED
        BY <1>1, <2>1, <3>1
    <2>3. PICK left : left = RemoveAt(threads, at)
      OBVIOUS
    <2>4. Others(b) = left
      BY <1>4, <2>1, <2>3 DEF Others
    <2>5. /\ left \in Seq(Places) /\ Len(left) = Len(threads) - 1
          /\ \A n \in 1..Len(left) : left[n] = IF n < at THEN threads[n] ELSE threads[n + 1]
      BY <1>1, <2>2, <2>3, RemovedAt
    <2>6. ASSUME NEW m \in 1..Len(left), NEW n \in 1..Len(left), left[m] = left[n]
          PROVE  m = n
      <3>1. PICK i \in 1..Len(threads) : i = IF m < at THEN m ELSE m + 1
        BY <1>1, <2>5
      <3>2. PICK j \in 1..Len(threads) : j = IF n < at THEN n ELSE n + 1
        BY <1>1, <2>5
      <3>3. left[m] = threads[i] /\ left[n] = threads[j]
        BY <2>5, <3>1, <3>2
      <3>4. i = j
        BY <1>2, <2>6, <3>3
      <3> QED
        BY <2>2, <3>1, <3>2, <3>4
    <2>7. b \notin ToSet(left)
      <3>1. ASSUME NEW n \in 1..Len(left), left[n] = b
            PROVE  FALSE
        <4>1. PICK j \in 1..Len(threads) : j = IF n < at THEN n ELSE n + 1
          BY <1>1, <2>5
        <4>2. threads[j] = b
          BY <2>5, <3>1, <4>1
        <4>3. j = at
          BY <1>2, <2>2, <4>2
        <4> QED
          BY <2>2, <4>1, <4>3
      <3> QED
        BY <2>5, <3>1, NoRepeats
    <2>8. ASSUME NEW c \in Businesses, c # b, IsLast(c, threads)
          PROVE  IsLast(c, left)
      <3>1. PICK n \in 1..Len(threads) :
               threads[n] = c /\ \A m \in 1..Len(threads) : m > n => threads[m] = Nowhere
        BY <2>8 DEF IsLast
      <3>2. n # at
        BY <2>2, <2>8, <3>1
      <3>3. PICK i \in Nat : i = IF n < at THEN n ELSE n - 1
        BY <2>2, <3>2
      <3>4. i \in 1..Len(left) /\ left[i] = c
        <4>1. CASE n < at
          BY <1>1, <2>2, <2>5, <3>1, <3>3, <4>1
        <4>2. CASE n > at
          <5>1. i \in 1..Len(left) /\ ~(i < at) /\ i + 1 = n
            BY <1>1, <2>2, <2>5, <3>3, <4>2
          <5> QED
            BY <2>5, <3>1, <5>1
        <4> QED
          BY <2>2, <3>2, <4>1, <4>2
      <3>5. ASSUME NEW m \in 1..Len(left), m > i
            PROVE  left[m] = Nowhere
        <4>1. PICK j \in 1..Len(threads) : j = IF m < at THEN m ELSE m + 1
          BY <1>1, <2>5
        <4>2. left[m] = threads[j]
          BY <2>5, <4>1
        <4>3. j > n
          BY <2>2, <3>2, <3>3, <3>5, <4>1
        <4> QED
          BY <3>1, <4>2, <4>3
      <3> QED
        BY <3>4, <3>5 DEF IsLast
    <2> QED
      BY <2>4, <2>5, <2>6, <2>7, <2>8, NoRepeats
  <1> QED
    BY <1>3, <1>4

(* A thread that is used is the last one; one without a business leaves    *)
(* the last business where it was.                                         *)
LEMMA UsedIsLast ==
    ASSUME RouteTypes, NEW b \in Places
    PROVE  /\ Used(b) \in Seq(Places) /\ IsInjective(Used(b)) /\ ToSet(Used(b)) \subseteq Places
           /\ b \in Businesses => IsLast(b, Used(b))
           /\ \A c \in Businesses : b = Nowhere /\ IsLast(c, threads) => IsLast(c, Used(b))
  <1>1. PICK left \in Seq(Places) : left = Others(b)
    BY OthersAre
  <1>2. IsInjective(left) /\ b \notin ToSet(left)
    BY <1>1, OthersAre
  <1>3. PICK new \in Seq(Places) : new = Append(left, b)
    BY <1>1, AppendProperties
  <1>4. Used(b) = new /\ IsInjective(new)
    BY <1>1, <1>2, <1>3, AddedOnce DEF Used
  <1>5. /\ Len(left) \in Nat /\ Len(new) = Len(left) + 1 /\ new[Len(left) + 1] = b
        /\ \A n \in 1..Len(left) : new[n] = left[n]
    BY <1>1, <1>3, AppendProperties
  <1>6. ToSet(new) \subseteq Places
    BY <1>3, OfMembers
  <1>7. IsLast(b, new)
    BY <1>5 DEF IsLast
  <1>8. ASSUME NEW c \in Businesses, b = Nowhere, IsLast(c, threads)
        PROVE  IsLast(c, new)
    <2>1. c # b
      BY <1>8, RoutingAssumption
    <2>2. IsLast(c, left)
      BY <1>1, <1>8, <2>1, OthersAre
    <2>3. PICK n \in 1..Len(left) :
             left[n] = c /\ \A m \in 1..Len(left) : m > n => left[m] = Nowhere
      BY <2>2 DEF IsLast
    <2>4. n \in 1..Len(new) /\ new[n] = c
      BY <1>5, <2>3
    <2>5. ASSUME NEW m \in 1..Len(new), m > n
          PROVE  new[m] = Nowhere
      <3>1. CASE m = Len(left) + 1
        BY <1>5, <1>8, <3>1
      <3>2. CASE m # Len(left) + 1
        BY <1>5, <2>3, <2>5, <3>2
      <3> QED
        BY <3>1, <3>2
    <2> QED
      BY <2>4, <2>5 DEF IsLast
  <1> QED
    BY <1>4, <1>6, <1>7, <1>8

(* After a switch the business is the last one too.                        *)
LEMMA SwitchedIsLast ==
    ASSUME NEW b \in Businesses
    PROVE  /\ SwitchedTo(b) \in Seq(Places) /\ IsInjective(SwitchedTo(b))
           /\ ToSet(SwitchedTo(b)) \subseteq Places /\ IsLast(b, SwitchedTo(b))
  <1>1. b \in Places /\ Nowhere \in Places /\ b # Nowhere
    BY RoutingAssumption DEF Places
  <1>2. ASSUME NEW s \in Seq(Places), s = <<Nowhere, b>> \/ s = <<b>>
        PROVE  IsInjective(s) /\ ToSet(s) \subseteq Places /\ IsLast(b, s)
    <2>1. \A m, n \in 1..Len(s) : s[m] = s[n] => m = n
      BY <1>1, <1>2
    <2>2. IsLast(b, s)
      <3>1. CASE s = <<Nowhere, b>>
        <4>1. Len(s) = 2 /\ s[2] = b
          BY <3>1
        <4> QED
          BY <4>1 DEF IsLast
      <3>2. CASE s = <<b>>
        <4>1. Len(s) = 1 /\ s[1] = b
          BY <3>2
        <4> QED
          BY <4>1 DEF IsLast
      <3> QED
        BY <1>2, <3>1, <3>2
    <2> QED
      BY <2>1, <2>2, NoRepeats
  <1>3. <<Nowhere, b>> \in Seq(Places) /\ <<b>> \in Seq(Places)
    BY <1>1
  <1> QED
    BY <1>2, <1>3 DEF SwitchedTo

(* The lookups find a business or none.                                    *)
LEMMA LookupsAreTyped ==
    ASSUME RouteTypes
    PROVE  /\ OldestActive \in Places
           /\ Default.to \in Places /\ Default.repairs \in BOOLEAN
           /\ ByNumber.to \in Places /\ ByNumber.repairs \in BOOLEAN
           /\ \A b \in Businesses : BySlug(b).to \in Places /\ BySlug(b).repairs \in BOOLEAN
  <1>1. OldestActive \in Places
    <2> DEFINE on == {n \in DOMAIN company : company[n] \in active}
    <2>1. company \in Seq(Businesses) /\ DOMAIN company = 1..Len(company)
      BY DEF RouteTypes
    <2>2. on \in SUBSET Nat
      BY <2>1
    <2>3. CASE on = {}
      BY <2>3 DEF OldestActive, Places
    <2>4. CASE on # {}
      <3>1. PICK least : least = Min(on)
        OBVIOUS
      <3>2. least \in on
        BY <2>2, <2>4, <3>1, MinIsThere
      <3>3. OldestActive = company[least]
        BY <2>4, <3>1 DEF OldestActive
      <3> QED
        BY <2>1, <3>2, <3>3 DEF Places
    <2> QED
      BY <2>3, <2>4
  <1>2. number \in Places /\ Hazina \in Places /\ DefaultSlug \in Places
    BY RoutingAssumption DEF RouteTypes, RouteTypeOK, Places
  <1>3. Default.to \in Places /\ Default.repairs \in BOOLEAN
    BY <1>1, <1>2 DEF Default, Found, Repaired
  <1>4. ByNumber.to \in Places /\ ByNumber.repairs \in BOOLEAN
    BY <1>2, <1>3 DEF ByNumber, Found, Repaired
  <1>5. \A b \in Businesses : BySlug(b).to \in Places /\ BySlug(b).repairs \in BOOLEAN
    BY DEF BySlug, Found, Places
  <1> QED
    BY <1>1, <1>3, <1>4, <1>5

(* A turn is with a business or with none, and a plain chat of somebody    *)
(* who has switched is with that business.                                 *)
LEMMA TurnsAreTyped ==
    ASSUME RouteTypes, NEW channel \in Channels, NEW slug \in Businesses,
           NEW message \in Chats
    PROVE  /\ Resolved(channel, slug, message).to \in Places
           /\ Resolved(channel, slug, message).repairs \in BOOLEAN
           /\ channel = "plain" /\ message.text = "chat" /\ ActiveBusiness # Nowhere
                => Resolved(channel, slug, message).to = ActiveBusiness
  <1> DEFINE told == Told(channel, slug)
             hint == Mentions(message) /\ ~Named(channel, told)
             late == IF told.to = Nowhere /\ ~hint /\ ActiveBusiness = Nowhere
                     THEN Default ELSE Found(Nowhere)
             to == IF hint THEN Hazina
                   ELSE IF told.to # Nowhere THEN told.to
                   ELSE IF ActiveBusiness # Nowhere THEN ActiveBusiness
                   ELSE late.to
  <1>1. told.to \in Places /\ told.repairs \in BOOLEAN
    <2>1. CASE channel = "whatsapp"
      BY <2>1, LookupsAreTyped DEF Told
    <2>2. CASE channel = "portal"
      BY <2>2, LookupsAreTyped, RoutingAssumption DEF Told, Repaired, Places
    <2>3. CASE channel = "plain"
      BY <2>3 DEF Told, Found, Places
    <2> QED
      BY <2>1, <2>2, <2>3 DEF Channels
  <1>2. channel = "plain" => told.to = Nowhere
    BY DEF Told, Found
  <1>3. late.to \in Places /\ late.repairs \in BOOLEAN
    <2>1. Found(Nowhere).to \in Places /\ Found(Nowhere).repairs \in BOOLEAN
      BY DEF Found, Places
    <2> QED
      BY <2>1, LookupsAreTyped
  <1>4. ActiveBusiness \in Places /\ Hazina \in Places
    BY LastIsActive, RoutingAssumption DEF Places
  <1>5. hint \in BOOLEAN
    BY DEF Named, Mentions
  <1>6. Resolved(channel, slug, message) = [to |-> to, repairs |-> told.repairs \/ hint \/ late.repairs]
    BY DEF Resolved
  <1>7. to \in Places
    <2> HIDE DEF told, hint, late
    <2> QED
      BY <1>1, <1>3, <1>4
  <1>8. channel = "plain" /\ message.text = "chat" /\ ActiveBusiness # Nowhere => to = ActiveBusiness
    <2>1. message.text = "chat" => ~hint
      BY DEF Mentions
    <2> HIDE DEF told, hint, late
    <2> QED
      BY <1>2, <2>1
  <1>9. (told.repairs \/ hint \/ late.repairs) \in BOOLEAN
    OBVIOUS
  <1> HIDE DEF told, hint, late, to
  <1> QED
    BY <1>6, <1>7, <1>8, <1>9

(* The tenant that is repaired is there afterwards, once.                  *)
LEMMA RepairsAreTyped ==
    ASSUME RouteTypes, NEW resolved, Repairs(resolved)
    PROVE  /\ company' \in Seq(Businesses) /\ IsInjective(company')
           /\ ToSet(company') \subseteq Businesses
           /\ active' \subseteq ToSet(company') /\ number' \in ToSet(company') \cup {Nowhere}
           /\ active \cup (IF resolved.repairs THEN {Hazina} ELSE {}) \subseteq Businesses
  <1>1. /\ company \in Seq(Businesses) /\ IsInjective(company)
        /\ active \subseteq ToSet(company) /\ number \in ToSet(company) \cup {Nowhere}
        /\ ToSet(company) \subseteq Businesses /\ Hazina \in Businesses
    BY RoutingAssumption DEF RouteTypes, RouteTypeOK
  <1>2. CASE ~resolved.repairs
    BY <1>1, <1>2 DEF Repairs
  <1>3. CASE resolved.repairs
    <2>1. /\ company' = IF Exists(Hazina) THEN company ELSE Append(company, Hazina)
          /\ active' = active \cup {Hazina} /\ number' = Hazina
      BY <1>3 DEF Repairs
    <2>2. /\ company' \in Seq(Businesses) /\ IsInjective(company')
          /\ ToSet(company') = ToSet(company) \cup {Hazina}
      BY <1>1, <2>1, AddedOnce DEF Exists
    <2> QED
      BY <1>1, <2>1, <2>2
  <1> QED
    BY <1>2, <1>3

(* A step that leaves the businesses typed, and the threads, keeps the     *)
(* invariant.                                                              *)
LEMMA StaffKeepRoutes ==
    ASSUME RouteInv, company' \in Seq(Businesses), IsInjective(company'),
           ToSet(company') \subseteq Businesses, active' \subseteq ToSet(company'),
           number' \in ToSet(company') \cup {Nowhere}, changes' \in 0..MaxChanges,
           UNCHANGED <<threads, switched, messages, heard>>
    PROVE  RouteInv'
  BY DEF RouteInv, RouteTypes, RouteTypeOK, SwitchSticks

(* The businesses made and changed by operators.                           *)
LEMMA OperatorsKeepRoutes ==
    ASSUME RouteInv, NEW b \in Businesses, NEW on \in BOOLEAN, NEW claims \in BOOLEAN,
           CreateBusiness(b, on, claims) \/ SetActive(b, on) \/ SetNumber(b, claims)
    PROVE  RouteInv'
  <1>1. /\ company \in Seq(Businesses) /\ IsInjective(company)
        /\ active \subseteq ToSet(company) /\ number \in ToSet(company) \cup {Nowhere}
        /\ ToSet(company) \subseteq Businesses /\ changes \in 0..MaxChanges /\ MaxChanges \in Nat
    BY RoutingAssumption DEF RouteInv, RouteTypes, RouteTypeOK
  <1>2. Changes => changes' \in 0..MaxChanges
    BY <1>1 DEF Changes
  <1>3. CASE CreateBusiness(b, on, claims)
    <2>1. /\ company' = Append(company, b) /\ b \notin ToSet(company) /\ Changes
          /\ active' \subseteq active \cup {b} /\ number' \in {number, b}
          /\ UNCHANGED <<threads, switched, messages, heard>>
      BY <1>3 DEF CreateBusiness, Exists
    <2>2. /\ company' \in Seq(Businesses) /\ IsInjective(company')
          /\ ToSet(company') = ToSet(company) \cup {b}
      BY <1>1, <2>1, AddedOnce
    <2>3. /\ ToSet(company') \subseteq Businesses /\ active' \subseteq ToSet(company')
          /\ number' \in ToSet(company') \cup {Nowhere}
      BY <1>1, <2>1, <2>2
    <2> QED
      BY <1>2, <2>1, <2>2, <2>3, StaffKeepRoutes
  <1>4. CASE SetActive(b, on)
    <2>1. /\ b \in ToSet(company) /\ Changes /\ active' \subseteq active \cup {b}
          /\ UNCHANGED <<company, number, threads, switched, messages, heard>>
      BY <1>4 DEF SetActive, Exists
    <2> QED
      BY <1>1, <1>2, <2>1, StaffKeepRoutes
  <1>5. CASE SetNumber(b, claims)
    <2>1. /\ b \in ToSet(company) /\ Changes /\ number' \in {b, Nowhere}
          /\ UNCHANGED <<company, active, threads, switched, messages, heard>>
      BY <1>5 DEF SetNumber, Exists
    <2> QED
      BY <1>1, <1>2, <2>1, StaffKeepRoutes
  <1> QED
    BY <1>3, <1>4, <1>5

(* A thread that staff close is not the one switched to, or the switch is  *)
(* over.                                                                   *)
LEMMA CloseKeepsRoutes ==
    ASSUME RouteInv, NEW b \in Places, CloseThread(b)
    PROVE  RouteInv'
  <1>1. /\ threads' = Others(b) /\ Changes
        /\ switched' = IF switched = b THEN Nowhere ELSE switched
        /\ UNCHANGED <<company, active, number, heard, messages>>
    BY DEF CloseThread
  <1>2. RouteTypes /\ switched \in Places /\ changes' \in 0..MaxChanges
    BY <1>1, RoutingAssumption DEF RouteInv, RouteTypes, RouteTypeOK, Changes, Places
  <1>3. threads' \in Seq(Places) /\ IsInjective(threads')
    BY <1>1, <1>2, OthersAre
  <1>4. ToSet(threads') \subseteq Places
    BY <1>3, OfMembers
  <1>5. RouteTypes'
    BY <1>1, <1>2, <1>3, <1>4 DEF RouteTypes, RouteTypeOK, Places
  <1>6. ASSUME switched' # Nowhere
        PROVE  IsLast(switched', threads')
    <2>1. switched' = switched /\ switched # b /\ switched \in Businesses
      BY <1>1, <1>2, <1>6 DEF Places
    <2>2. IsLast(switched, threads)
      BY <1>1, <1>6, <2>1 DEF RouteInv
    <2> QED
      BY <1>1, <1>2, <2>1, <2>2, OthersAre
  <1>7. SwitchSticks'
    BY <1>1 DEF RouteInv, SwitchSticks
  <1> QED
    BY <1>5, <1>6, <1>7 DEF RouteInv

(* A turn: what it leaves of the threads and of the switch.                *)
LEMMA TurnKeepsRoutes ==
    ASSUME RouteInv, NEW channel \in Channels, NEW slug \in Businesses, NEW message \in Chats,
           Turn(channel, slug, message)
    PROVE  RouteInv'
  <1>1. PICK resolved : resolved = Resolved(channel, slug, message)
    OBVIOUS
  <1>2. PICK to : to = resolved.to
    OBVIOUS
  <1>3. PICK after : after = active \cup (IF resolved.repairs THEN {Hazina} ELSE {})
    OBVIOUS
  <1>4. RouteTypes /\ switched \in Places /\ MaxMessages \in Nat
    BY RoutingAssumption DEF RouteInv, RouteTypes, RouteTypeOK, Places
  <1>5. to \in Places
    BY <1>1, <1>2, <1>4, TurnsAreTyped
  <1>6. /\ Hears(message, to) /\ Repairs(resolved)
        /\ \/ /\ message.text \in {"chat", "hint"}
              /\ threads' = Used(to)
              /\ switched' = IF channel = "plain" /\ message.text = "chat"
                             THEN switched ELSE Nowhere
           \/ /\ message.text = "help"
              /\ threads' = Used(Nowhere)
              /\ UNCHANGED switched
           \/ /\ message.text = "reset"
              /\ threads' = <<Nowhere>>
              /\ switched' = Nowhere
           \/ /\ message.text = "biz" /\ message.to \in after
              /\ threads' = SwitchedTo(message.to)
              /\ switched' = message.to
           \/ /\ message.text = "biz" /\ message.to \notin after
              /\ threads' = Used(Nowhere)
              /\ UNCHANGED switched
    BY <1>1, <1>2, <1>3 DEF Turn
  <1>7. /\ heard'.text = message.text /\ heard'.to = to
        /\ messages' \in 0..MaxMessages /\ changes' = changes
    BY <1>4, <1>6 DEF Hears, RouteTypes, RouteTypeOK
  <1>8. /\ company' \in Seq(Businesses) /\ IsInjective(company')
        /\ ToSet(company') \subseteq Businesses
        /\ active' \subseteq ToSet(company') /\ number' \in ToSet(company') \cup {Nowhere}
        /\ after \subseteq Businesses
    BY <1>3, <1>4, <1>6, RepairsAreTyped
  <1>9. Nowhere \in Places
    BY DEF Places
  <1> DEFINE Keeps ==
        /\ threads' \in Seq(Places) /\ IsInjective(threads') /\ ToSet(threads') \subseteq Places
        /\ switched' \in Places
        /\ switched' # Nowhere => IsLast(switched', threads')
        /\ message.text = "chat" /\ switched' # Nowhere => to = switched'
  <1>10. ASSUME message.text \in {"chat", "hint"}
         PROVE  Keeps
    <2>1. /\ threads' = Used(to)
          /\ switched' = IF channel = "plain" /\ message.text = "chat" THEN switched ELSE Nowhere
      BY <1>6, <1>10
    <2>2. /\ threads' \in Seq(Places) /\ IsInjective(threads') /\ ToSet(threads') \subseteq Places
          /\ to \in Businesses => IsLast(to, threads')
      BY <1>4, <1>5, <2>1, UsedIsLast
    <2>3. CASE switched' = Nowhere
      BY <1>9, <2>2, <2>3
    <2>4. CASE switched' # Nowhere
      <3>1. channel = "plain" /\ message.text = "chat" /\ switched' = switched
        BY <2>1, <2>4
      <3>2. switched \in Businesses /\ IsLast(switched, threads)
        BY <1>4, <2>4, <3>1 DEF RouteInv, Places
      <3>3. ActiveBusiness = switched
        BY <1>4, <3>2, LastIsActive
      <3>4. to = switched
        BY <1>1, <1>2, <1>4, <2>4, <3>1, <3>3, TurnsAreTyped
      <3> QED
        BY <1>4, <2>2, <3>1, <3>2, <3>4
    <2> QED
      BY <2>3, <2>4
  <1>11. ASSUME message.text # "chat" /\ threads' = Used(Nowhere) /\ switched' = switched
         PROVE  Keeps
    <2>1. /\ threads' \in Seq(Places) /\ IsInjective(threads') /\ ToSet(threads') \subseteq Places
          /\ \A c \in Businesses : IsLast(c, threads) => IsLast(c, threads')
      BY <1>4, <1>9, <1>11, UsedIsLast
    <2>2. switched # Nowhere => switched \in Businesses /\ IsLast(switched, threads)
      BY <1>4 DEF RouteInv, Places
    <2> QED
      BY <1>4, <1>11, <2>1, <2>2
  <1>12. ASSUME threads' = <<Nowhere>> /\ switched' = Nowhere
         PROVE  Keeps
    <2>1. threads' \in Seq(Places) /\ Len(threads') = 1
      BY <1>9, <1>12
    <2>2. IsInjective(threads') /\ ToSet(threads') \subseteq Places
      <3>1. \A m, n \in 1..Len(threads') : m = n
        BY <2>1
      <3> QED
        BY <2>1, <3>1, NoRepeats, OfMembers
    <2> QED
      BY <1>9, <1>12, <2>1, <2>2
  <1>13. ASSUME message.text = "biz", message.to \in after,
                threads' = SwitchedTo(message.to), switched' = message.to
         PROVE  Keeps
    <2>1. message.to \in Businesses
      BY <1>8, <1>13
    <2> QED
      BY <1>13, <2>1, SwitchedIsLast DEF Places
  <1>14. Keeps
    <2> HIDE DEF Keeps
    <2> QED
      BY <1>6, <1>10, <1>11, <1>12, <1>13
  <1>15. RouteTypes'
    BY <1>4, <1>7, <1>8, <1>14 DEF RouteTypes, RouteTypeOK, Places
  <1>16. SwitchSticks'
    BY <1>7, <1>14 DEF SwitchSticks
  <1> QED
    BY <1>14, <1>15, <1>16 DEF RouteInv

(* The businesses a database starts with are enumerated without repeats.   *)
LEMMA RoutesStart == RouteInit => RouteInv
  <1> SUFFICES ASSUME RouteInit PROVE RouteInv
    OBVIOUS
  <1>1. /\ company = <<>> \/ company = SetToSeq(Businesses)
        /\ active = ToSet(company) /\ number \in ToSet(company) \cup {Nowhere}
        /\ threads = <<>> /\ heard = [text |-> "none", to |-> Nowhere]
        /\ switched = Nowhere /\ messages = 0 /\ changes = 0
    BY DEF RouteInit
  <1>2. company \in Seq(Businesses) /\ IsInjective(company)
    <2>1. CASE company = <<>>
      <3>1. company \in Seq(Businesses)
        BY <2>1
      <3> QED
        BY <2>1, <3>1, OfMembers
    <2>2. CASE company = SetToSeq(Businesses)
      <3>1. PICK n \in Nat : n = Cardinality(Businesses)
        BY RoutingAssumption, FS_CardinalityType
      <3>2. \E f \in [1..n -> Businesses] : IsInjective(f)
        <4>1. ExistsBijection(1..n, Businesses)
          BY <3>1, RoutingAssumption, FS_CardinalityType
        <4>2. PICK f \in Bijection(1..n, Businesses) : TRUE
          BY <4>1 DEF ExistsBijection
        <4> QED
          BY <4>2 DEF Bijection, Injection, Surjection, IsInjective
      <3>3. company \in [1..n -> Businesses] /\ IsInjective(company)
        BY <2>2, <3>1, <3>2 DEF SetToSeq
      <3> QED
        BY <3>3
    <2> QED
      BY <1>1, <2>1, <2>2
  <1>3. ToSet(company) \subseteq Businesses
    BY <1>2, OfMembers
  <1>4. threads \in Seq(Places) /\ Len(threads) = 0
    BY <1>1
  <1>5. IsInjective(threads) /\ ToSet(threads) \subseteq Places
    BY <1>1, <1>4, OfMembers
  <1>6. RouteTypes
    BY <1>1, <1>2, <1>3, <1>4, <1>5, RoutingAssumption DEF RouteTypes, RouteTypeOK, Places
  <1> QED
    BY <1>1, <1>6 DEF RouteInv, SwitchSticks

(* Every reachable state keeps the invariant of the routing: the types,    *)
(* and that the business switched to is the one used last (base.py,        *)
(* get_active_business_id and /biz).                                       *)
THEOREM RouteInvariance == RouteSpec => []RouteInv
  <1>1. RouteInv /\ [RouteNext]_routeVars => RouteInv'
    <2> SUFFICES ASSUME RouteInv, [RouteNext]_routeVars PROVE RouteInv'
      OBVIOUS
    <2>1. CASE UNCHANGED routeVars
      BY <2>1 DEF routeVars, RouteInv, RouteTypes, RouteTypeOK, SwitchSticks
    <2>2. ASSUME NEW channel \in Channels, NEW slug \in Businesses, NEW message \in Chats,
                 Turn(channel, slug, message)
          PROVE  RouteInv'
      BY <2>2, TurnKeepsRoutes
    <2>3. ASSUME NEW slug \in Businesses, UnknownSlug(slug)
          PROVE  RouteInv'
      <3>1. /\ heard'.text = "refused" /\ messages' \in 0..MaxMessages
            /\ UNCHANGED <<company, active, number, threads, switched, changes>>
        BY <2>3, RoutingAssumption DEF UnknownSlug, Hears, RouteInv, RouteTypes, RouteTypeOK
      <3> QED
        BY <3>1 DEF RouteInv, RouteTypes, RouteTypeOK, SwitchSticks
    <2>4. ASSUME NEW b \in Businesses, NEW on \in BOOLEAN,
                 \/ SetActive(b, on) \/ SetNumber(b, on)
                 \/ \E claims \in BOOLEAN : CreateBusiness(b, on, claims)
          PROVE  RouteInv'
      BY <2>4, OperatorsKeepRoutes
    <2>5. ASSUME NEW b \in Businesses \cup {Nowhere}, CloseThread(b)
          PROVE  RouteInv'
      BY <2>5, CloseKeepsRoutes DEF Places
    <2> QED
      BY <2>1, <2>2, <2>3, <2>4, <2>5 DEF RouteNext
  <1> QED
    BY RoutesStart, <1>1, PTL DEF RouteSpec

(* Whoever has switched to a business with /biz stays with it while he     *)
(* chats over a channel that names none (slash_commands.py), for any       *)
(* businesses, operators and messages.                                     *)
THEOREM SwitchAlwaysSticks == RouteSpec => []SwitchSticks
  <1>1. RouteInv => SwitchSticks
    BY DEF RouteInv
  <1> QED
    BY RouteInvariance, <1>1, PTL
=============================================================================
