---------------------------- MODULE Recommender -----------------------------
(***************************************************************************)
(* What to give: recommend of services/hazina_recommender.py, the answer   *)
(* to an open question about gifts, computed from the catalog alone.       *)
(*                                                                         *)
(* A text stands for what the patterns find in it.  Prices are in the      *)
(* currency of the budget; pieces and boxes are numbered in the order of   *)
(* the catalog, in which the stable sort leaves equal prices.              *)
(***************************************************************************)
EXTENDS Integers, Sequences, FiniteSets

CONSTANTS
    Pieces,      \* HAZINA_TREASURES: category and price of each
    GiftBoxes,   \* HAZINA_COLLECTIONS: the pieces in each, and its price
    Budgets      \* amounts a customer may name

Kinds == {Pieces[i].kind : i \in DOMAIN Pieces}

\* A box costs no less than any piece in it, as in the catalog.
ASSUME CatalogAssumption ==
    /\ Pieces \in Seq([kind : Kinds, price : Nat])
    /\ GiftBoxes \in Seq([items : SUBSET DOMAIN Pieces, price : Nat])
    /\ Budgets \subseteq Nat
    /\ \A b \in DOMAIN GiftBoxes : \A i \in GiftBoxes[b].items :
          Pieces[i].price <= GiftBoxes[b].price

Unlimited == 1000000

(* pieces and boxes: those with a word of the text in name, category or    *)
(* description; asks: whether it wants a suggestion, or names an occasion. *)
GiftTexts == [pieces : SUBSET DOMAIN Pieces, boxes : SUBSET DOMAIN GiftBoxes,
              kinds : SUBSET Kinds, budget : Budgets \cup {Unlimited}, asks : BOOLEAN]

VARIABLE advice    \* the text that was answered and the offer, if any

NoAdvice == [offer |-> "unasked"]

RecommenderInit == advice = NoAdvice

(* The first n of them by price.                                           *)
FirstByPrice(S, rows, n) ==
    {i \in S : Cardinality({j \in S : \/ rows[j].price < rows[i].price
                                      \/ rows[j].price = rows[i].price /\ j < i}) < n}

Affordable(S, rows, budget) == {i \in S : rows[i].price <= budget}

\* Boxes are not held against the budget.
SuitableAnyPrice(text) ==
    LET pieces == {i \in Affordable(DOMAIN Pieces, Pieces, text.budget) :
                      text.kinds = {} \/ Pieces[i].kind \in text.kinds}
    IN  [pieces |-> pieces,
         boxes  |-> {b \in DOMAIN GiftBoxes :
                        text.kinds = {} \/ GiftBoxes[b].items \cap pieces # {}}]

(* Pieces of the categories asked for, and boxes that hold one of them.    *)
Suitable(text) ==
    LET pieces == {i \in Affordable(DOMAIN Pieces, Pieces, text.budget) :
                      text.kinds = {} \/ Pieces[i].kind \in text.kinds}
    IN  [pieces |-> pieces,
         boxes  |-> {b \in Affordable(DOMAIN GiftBoxes, GiftBoxes, text.budget) :
                        text.kinds = {} \/ GiftBoxes[b].items \cap pieces # {}}]

(* What was named by its name comes before everything else.                *)
Stocked(text) == [pieces |-> Affordable(text.pieces, Pieces, text.budget),
                  boxes  |-> Affordable(text.boxes, GiftBoxes, text.budget)]

NoGift == [pieces |-> {}, boxes |-> {}]

Suggests(text, how, found, boxes, pieces) ==
    [text   |-> text,
     offer  |-> how,
     boxes  |-> FirstByPrice(found.boxes, GiftBoxes, boxes),
     pieces |-> FirstByPrice(found.pieces, Pieces, pieces)]

Vague(text) == text.kinds = {} /\ text.budget = Unlimited /\ ~text.asks

(* None for a text that only wants something leaves it to the next rule.   *)
Recommendation(text) ==
    LET found == Suitable(text)
    IN  IF Stocked(text) # NoGift THEN Suggests(text, "stocked", Stocked(text), 2, 3)
        ELSE IF Vague(text)        THEN Suggests(text, "silent", NoGift, 0, 0)
        ELSE IF found.boxes # {}   THEN Suggests(text, "pick", found, 2, 1)
        ELSE IF found.pieces # {}  THEN Suggests(text, "pick", found, 0, 3)
        ELSE                            Suggests(text, "nothing", NoGift, 0, 0)

Recommend ==
    /\ advice = NoAdvice
    /\ \E text \in GiftTexts : advice' = Recommendation(text)

Forgotten == advice # NoAdvice /\ advice' = NoAdvice

RecommenderNext == Recommend \/ Forgotten

RecommenderSpec == RecommenderInit /\ [][RecommenderNext]_advice

-----------------------------------------------------------------------------
(* What is recommended suits what was asked: it is within the budget and,  *)
(* but for things named by name, of the categories asked for; nothing that *)
(* suits as well is cheaper; a box is offered whenever one suits, even if  *)
(* its pieces are looked up first; and a customer is told of no match only *)
(* when nothing of the catalog is one (hazina_recommender.py:180-328).     *)
Holds(b, kinds) == kinds = {} \/ \E i \in GiftBoxes[b].items : Pieces[i].kind \in kinds

IsOf(i, kinds) == kinds = {} \/ Pieces[i].kind \in kinds

CheapestOf(offered, rows, suits(_)) ==
    \A i \in offered, j \in DOMAIN rows : suits(j) /\ j \notin offered => rows[i].price <= rows[j].price

GiftsSuit ==
    advice # NoAdvice =>
        LET text == advice.text
            SuitsBox(b)   == GiftBoxes[b].price <= text.budget /\ Holds(b, text.kinds)
            SuitsPiece(i) == Pieces[i].price <= text.budget /\ IsOf(i, text.kinds)
        IN  /\ \A b \in advice.boxes : GiftBoxes[b].price <= text.budget
            /\ \A i \in advice.pieces : Pieces[i].price <= text.budget
            /\ advice.offer = "stocked" =>
                  advice.boxes \subseteq text.boxes /\ advice.pieces \subseteq text.pieces
            /\ advice.offer = "pick" =>
                  /\ CheapestOf(advice.boxes, GiftBoxes, SuitsBox)
                  /\ CheapestOf(advice.pieces, Pieces, SuitsPiece)
                  /\ \A b \in advice.boxes : SuitsBox(b)
                  /\ \A i \in advice.pieces : SuitsPiece(i)
                  /\ (\E b \in DOMAIN GiftBoxes : SuitsBox(b)) => advice.boxes # {}
            /\ advice.offer = "nothing" =>
                  /\ \A b \in DOMAIN GiftBoxes : ~SuitsBox(b)
                  /\ \A i \in DOMAIN Pieces : ~SuitsPiece(i)
=============================================================================
