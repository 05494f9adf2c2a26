---------------------------- MODULE MCFulfillment ----------------------------
(* One order, one admin, one notification task, two other writers.  *)
EXTENDS OrderPage, TLC

CONSTANTS o1, a1, k1, w1, w2

MCOrders  == {o1}
MCOneAdmin == {a1}
MCOneTask == {k1}
MCWriters == {w1, w2}

Symmetry == Permutations(MCWriters)

\* BOUND: an order is followed until it is delivered.
UntilDelivered == \A o \in Orders : order[o].details.status # "delivered"
=============================================================================
