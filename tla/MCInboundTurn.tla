---------------------------- MODULE MCInboundTurn ----------------------------
(* Two messages of one customer; each job is run twice at most.              *)
EXTENDS InboundTurn, TLC

CONSTANTS c1, m1, m2, j1, j2

MCFrom  == [m \in Messages |-> c1]
MCAbout == (j1 :> m1) @@ (j2 :> m2)

\* The deliveries may be exchanged, each together with its message.
Exchange == (j1 :> j2) @@ (j2 :> j1) @@ (m1 :> m2) @@ (m2 :> m1)

Symmetry == Permutations(Workers) \cup Permutations(Convs) \cup {Exchange}
=============================================================================
