---------------------------- MODULE PaymentLedger ----------------------------
(***************************************************************************)
(* What the payment code promises, without callbacks, jobs or versions.    *)
(*                                                                         *)
(* The provider opens checkouts for orders, the customer is charged on     *)
(* some of them, and a charge may be credited to the order that its        *)
(* checkout was opened for.  An order is credited at most once, only with  *)
(* a real charge, and never loses the credit.                              *)
(***************************************************************************)
CONSTANTS Orders, Refs, NoOrder

VARIABLES
    owner,     \* the order each checkout was opened for, or NoOrder
    charged,   \* checkouts on which the customer was charged
    credited,  \* checkouts whose charge was recorded
    paid       \* orders the program treats as paid

vars == <<owner, charged, credited, paid>>

Init ==
    /\ owner = [c \in Refs |-> NoOrder]
    /\ charged = {}
    /\ credited = {}
    /\ paid = {}

Open(c) ==
    /\ owner[c] = NoOrder
    /\ \E o \in Orders : owner' = [owner EXCEPT ![c] = o]
    /\ UNCHANGED <<charged, credited, paid>>

Charge(c) ==
    /\ owner[c] # NoOrder
    /\ c \notin charged
    /\ charged' = charged \cup {c}
    /\ UNCHANGED <<owner, credited, paid>>

Credit(c) ==
    /\ c \in charged \ credited
    /\ owner[c] \in Orders \ paid
    /\ credited' = credited \cup {c}
    /\ paid' = paid \cup {owner[c]}
    /\ UNCHANGED <<owner, charged>>

Next == \E c \in Refs : Open(c) \/ Charge(c) \/ Credit(c)

Spec == Init /\ [][Next]_vars
=============================================================================
