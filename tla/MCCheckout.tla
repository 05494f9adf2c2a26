----------------------------- MODULE MCCheckout -----------------------------
(* The three ways to order in a chat, checked side by side: the scripted   *)
(* checkout of gifts, the turns of the language model and the rules of a   *)
(* cafe; and beside them the choice of the business a chat is with, the    *)
(* prices that are quoted in it and the gifts recommended.  They keep no   *)
(* state in common.  Of the model's turns, some order and pay and the      *)
(* others send photos.                                                     *)
EXTENDS MCGiftCheckout, AgentTurn, MCCafe, Routing, Quotes, Recommender

CONSTANTS shop1, shop2, loose, once, again

(* The basket is asked for with two sets of terms.                         *)
MCPayKeys == {<<b1, once>>, <<b1, again>>, <<loose, once>>}

(* Of item 1 the price rises to 4; 3 is asked for and taken off the menu,  *)
(* and then 1 is the most alike.                                           *)
MCCategory    == <<"coffee", "coffee", "lunch">>
MCOpeningMenu == (shop1 :> <<1, 3, 2>>) @@ (shop2 :> <<2, 0, 0>>)
MCQuestions ==
    {[shop |-> shop1, kind |-> "price", resembles |-> <<3, 1>>],
     [shop |-> shop1, kind |-> "recommend", category |-> "coffee", budget |-> 2, words |-> {2}],
     [shop |-> shop1, kind |-> "demo"],
     [shop |-> shop2, kind |-> "full"],
     [shop |-> shop2, kind |-> "category", category |-> "coffee"],
     [shop |-> shop2, kind |-> "available", category |-> "lunch"]}
MCDrafts     == {[shop |-> shop1, says |-> {1, 4}, named |-> {}]}
MCRepricings == {<<shop1, 1, 4>>, <<shop1, 3, 0>>}

(* Ties, a piece of its own kind, and a box as cheap as a piece in it.     *)
MCPieces    == <<[kind |-> "coffee",  price |-> 2], [kind |-> "coffee",  price |-> 1],
                 [kind |-> "leather", price |-> 3], [kind |-> "leather", price |-> 3]>>
MCGiftBoxes == <<[items |-> {1}, price |-> 4], [items |-> {2, 3}, price |-> 3],
                 [items |-> {4}, price |-> 3]>>

VARIABLE part

parts == <<part, vars, agentVars, cafeVars, routeVars, quoteVars, advice>>

CheckoutInit ==
    /\ part \in {"gift", "agent", "photos", "cafe", "routing", "quotes", "recommend"}
    /\ Init /\ AgentInit /\ QuoteInit /\ RecommenderInit
    /\ RouteInit /\ (part # "routing" => company = <<>>)
    /\ CafeInit /\ (part # "cafe" => ~named)

CheckoutNext ==
    /\ UNCHANGED part
    /\ \/ /\ part = "gift" /\ Next
          /\ UNCHANGED <<agentVars, cafeVars, routeVars, quoteVars, advice>>
       \/ /\ part = "agent" /\ AgentNext
          /\ UNCHANGED <<vars, photo, cafeVars, routeVars, quoteVars, advice>>
       \/ /\ part = "photos" /\ AgentNext
          /\ UNCHANGED <<vars, tickets, sessions, payKey, cafeVars, routeVars, quoteVars, advice>>
       \/ /\ part = "cafe" /\ CafeNext
          /\ UNCHANGED <<vars, agentVars, routeVars, quoteVars, advice>>
       \/ /\ part = "routing" /\ RouteNext
          /\ UNCHANGED <<vars, agentVars, cafeVars, quoteVars, advice>>
       \/ /\ part = "quotes" /\ QuoteNext
          /\ UNCHANGED <<vars, agentVars, cafeVars, routeVars, advice>>
       \/ /\ part = "recommend" /\ RecommenderNext
          /\ UNCHANGED <<vars, agentVars, cafeVars, routeVars, quoteVars>>

CheckoutSpec == CheckoutInit /\ [][CheckoutNext]_parts

CheckoutTypeOK ==
    TypeOK /\ AgentTypeOK /\ CafeTypeOK /\ RouteTypeOK /\ QuoteTypeOK
=============================================================================
