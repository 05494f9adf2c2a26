----------------------------- MODULE MCJobQueue -----------------------------
(* Two rows, one of them an inbound message, and two concurrent workers.   *)
EXTENDS JobQueue, TLC

CONSTANTS inbound, other, w1, w2

MCJobs == {inbound, other}
MCInboundJobs == {inbound}
MCWorkers == {w1, w2}
MCMaxAttempts == (inbound :> 2) @@ (other :> 1)
MCTtl == (inbound :> 3) @@ (other :> 2)
=============================================================================
