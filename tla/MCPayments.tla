----------------------------- MODULE MCPayments -----------------------------
(* One order, two checkouts and two concurrent processes.                  *)
EXTENDS Payments, TLC

CONSTANTS o1, c1, c2, p1, p2

MCOrders == {o1}
MCRefs == {c1, c2}
MCProcs == {p1, p2}

Symmetry == Permutations(MCRefs) \cup Permutations(MCProcs)

\* BOUND: an order that has changed its status four times is followed no further.
FewChanges == \A o \in Orders : order[o].version <= 3

(* BOUND: a session is polled a second time only while it is the only one. *)
PollsOfOne ==
    (\E j \in jobs : j.kind = "poll" /\ j.n > 1)
        => Cardinality({c \in Refs : owner[c] # NoOrder}) = 1
=============================================================================
