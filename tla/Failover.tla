------------------------------ MODULE Failover ------------------------------
(***************************************************************************)
(* The chain of language-model providers of one process (ai/llm.py) and    *)
(* the circuit breaker before each of them (core/circuit_breaker.py).      *)
(*                                                                         *)
(* The turns of all customers share the breakers.  A call takes seconds:   *)
(* it starts under one state of the breaker and ends under another.  A     *)
(* turn that runs out of time (channels/base.py) cancels the call it waits *)
(* for, and asyncio.CancelledError is no Exception: the breaker hears      *)
(* nothing of that call.                                                   *)
(***************************************************************************)
EXTENDS Integers, Sequences, FiniteSets, FiniteSetsExt

CONSTANTS
    Chain,        \* the providers, the primary first
    FailMax,      \* per provider, failures that open its breaker (5 and 3)
    Turns,        \* turns that may wait for a model at once
    MaxOutages    \* BOUND: calls that fail or hang

ASSUME FailoverAssumption ==
    /\ Len(Chain) > 1
    /\ \A i, j \in DOMAIN Chain : Chain[i] = Chain[j] => i = j
    /\ FailMax \in Seq(Nat \ {0}) /\ Len(FailMax) = Len(Chain)
    /\ MaxOutages \in Nat

Providers == DOMAIN Chain

VARIABLES
    breaker,    \* per provider, its breaker
    waiting,    \* per turn, the provider whose answer it waits for, or 0
    outages

llmVars == <<breaker, waiting, outages>>

\* cooled: reset_timeout has passed since the breaker opened
Breaker == [state : {"closed", "open", "half_open"}, failures : Nat, cooled : BOOLEAN]

LlmInit ==
    /\ breaker = [p \in Providers |-> [state |-> "closed", failures |-> 0, cooled |-> FALSE]]
    /\ waiting = [t \in Turns |-> 0]
    /\ outages = 0

Outage ==
    /\ outages < MaxOutages
    /\ outages' = outages + 1

-----------------------------------------------------------------------------
(* The breaker.                                                            *)

Allows(b) == b.state = "open" => b.cooled

(* allow: an open breaker whose time has passed lets calls probe.          *)
Entered(b) == IF b.state = "open" THEN [b EXCEPT !.state = "half_open", !.cooled = FALSE]
                                  ELSE b

\* A success forgets the failures and leaves the breaker where it is.
RecordSuccessCountOnly(b) == [b EXCEPT !.failures = 0]

RecordSuccess(b) == [state |-> "closed", failures |-> 0, cooled |-> FALSE]

RecordFailure(b, max) ==
    LET opens == b.state = "half_open" \/ (b.state = "closed" /\ b.failures + 1 >= max)
    IN  [state    |-> IF opens THEN "open" ELSE b.state,
         failures |-> b.failures + 1,
         cooled   |-> IF opens THEN FALSE ELSE b.cooled]

CoolsDown(p) ==
    /\ breaker[p].state = "open" /\ ~breaker[p].cooled
    /\ breaker' = [breaker EXCEPT ![p].cooled = TRUE]
    /\ UNCHANGED <<waiting, outages>>

-----------------------------------------------------------------------------
(* A turn.                                                                 *)

(* with_fallbacks: the next provider whose breaker lets the call through;  *)
(* 0 when there is none and the turn gets the error.                       *)
NextAllowed(p) ==
    LET open == {q \in Providers : q > p /\ Allows(breaker[q])}
    IN  IF open = {} THEN 0 ELSE Min(open)

(* Turn t goes on from provider p with the breakers b.                     *)
TriesAfter(t, p, b) ==
    LET q == NextAllowed(p)
    IN  /\ waiting' = [waiting EXCEPT ![t] = q]
        /\ breaker' = IF q = 0 THEN b ELSE [b EXCEPT ![q] = Entered(@)]

Invoke(t) ==
    /\ waiting[t] = 0
    /\ TriesAfter(t, 0, breaker)
    /\ UNCHANGED outages

CallAnswers(t) ==
    /\ waiting[t] # 0
    /\ breaker' = [breaker EXCEPT ![waiting[t]] = RecordSuccess(@)]
    /\ waiting' = [waiting EXCEPT ![t] = 0]
    /\ UNCHANGED outages

CallFails(t) ==
    LET p == waiting[t]
    IN  /\ p # 0
        /\ Outage
        /\ TriesAfter(t, p, [breaker EXCEPT ![p] = RecordFailure(@, FailMax[p])])

(* The provider hangs until the turn's time is up.                         *)
CallCancelled(t) ==
    /\ waiting[t] # 0
    /\ Outage
    /\ waiting' = [waiting EXCEPT ![t] = 0]
    /\ UNCHANGED breaker

LlmNext ==
    \/ \E t \in Turns : Invoke(t) \/ CallAnswers(t) \/ CallFails(t) \/ CallCancelled(t)
    \/ \E p \in Providers : CoolsDown(p)

LlmSpec == LlmInit /\ [][LlmNext]_llmVars

-----------------------------------------------------------------------------
LlmTypeOK ==
    /\ breaker \in [Providers -> Breaker]
    /\ waiting \in [Turns -> Providers \cup {0}]
    /\ outages \in 0..MaxOutages

(* Once its outage is over the primary is used again: its breaker closes   *)
(* and stays closed, whatever late failures and abandoned probes came      *)
(* before (circuit_breaker.py:47 and :61).                                 *)
PrimaryRecovers == <>[](breaker[1].state = "closed")
=============================================================================
