------------------------------ MODULE RateLimit ------------------------------
(***************************************************************************)
(* One token bucket of core/rate_limit.py: the Lua script on Redis, called *)
(* by every process with its own reading of the clock.                     *)
(*                                                                         *)
(* Time is counted in ticks, and tokens in parts, so that both are whole:  *)
(* a call costs Cost parts and a tick refills Refill parts.                *)
(***************************************************************************)
EXTENDS Integers

CONSTANTS
    Capacity,   \* parts in a full bucket
    Refill,     \* parts per tick
    Cost,       \* parts a call takes
    Ttl,        \* ticks after which Redis drops an untouched key (60 s)
    MaxLag,     \* BOUND: ticks a process's reading is behind when it is used
    MaxLate,    \* BOUND: calls with such a reading
    MaxTime     \* BOUND: ticks

ASSUME RateAssumption ==
    /\ Capacity \in Nat /\ Refill \in Nat /\ Cost \in Nat \ {0} /\ Ttl \in Nat
    /\ MaxLag \in Nat /\ MaxLate \in Nat /\ MaxTime \in Nat

VARIABLES
    clock,      \* ticks since the first call could be made
    bucket,     \* the hash under the key
    untouched,  \* ticks since the key was written
    granted,    \* history: calls allowed
    gift,       \* history: parts refilled twice or forgiven
    late        \* calls made so far with a reading behind the clock

rateVars == <<clock, bucket, untouched, granted, gift, late>>

\* A missing key is a full bucket: tokens = capacity and ts = now.
Buckets == [exists : BOOLEAN, tokens : 0..Capacity, ts : Nat]

Missing == [exists |-> FALSE, tokens |-> Capacity, ts |-> 0]

RateInit ==
    /\ clock = 0
    /\ bucket = Missing
    /\ untouched = 0
    /\ granted = 0
    /\ gift = 0
    /\ late = 0

AtMost(a, b) == IF a < b THEN a ELSE b

AtLeast(a, b) == IF a > b THEN a ELSE b

\* The time that has passed is counted from the first call.
FilledSinceStart(now) == AtMost(Capacity, bucket.tokens + now * Refill)

Filled(now) == AtMost(Capacity, bucket.tokens + AtLeast(0, now - bucket.ts) * Refill)

(* The script, for a caller whose reading of the clock is now.  A reading  *)
(* behind the one stored moves ts back, and the time between is refilled   *)
(* again by the next call.                                                 *)
TryConsume(now) ==
    LET before == IF bucket.exists THEN Filled(now) ELSE Capacity
        allow  == before >= Cost
    IN  /\ now = clock \/ late < MaxLate
        /\ late' = IF now = clock THEN late ELSE late + 1
        /\ bucket' = [exists |-> TRUE, ts |-> now,
                      tokens |-> IF allow THEN before - Cost ELSE before]
        /\ granted' = IF allow THEN granted + 1 ELSE granted
        /\ gift' = gift + (IF bucket.exists THEN AtLeast(0, bucket.ts - now)
                                            ELSE clock - now) * Refill
        /\ untouched' = 0
        /\ UNCHANGED clock

Tick ==
    /\ clock < MaxTime
    /\ untouched < Ttl
    /\ clock' = clock + 1
    /\ untouched' = IF bucket.exists THEN untouched + 1 ELSE untouched
    /\ UNCHANGED <<bucket, granted, gift, late>>

(* The key expires: whatever was spent and not yet refilled is forgiven.   *)
KeyExpires ==
    /\ bucket.exists /\ untouched = Ttl
    /\ bucket' = Missing
    /\ gift' = gift + (Capacity - Filled(clock))
    /\ untouched' = 0
    /\ UNCHANGED <<clock, granted, late>>

RateNext ==
    \/ \E now \in AtLeast(0, clock - MaxLag)..clock : TryConsume(now)
    \/ Tick
    \/ KeyExpires

RateSpec == RateInit /\ [][RateNext]_rateVars

-----------------------------------------------------------------------------
RateTypeOK ==
    /\ clock \in 0..MaxTime
    /\ bucket \in Buckets
    /\ bucket.exists => bucket.ts <= clock
    /\ untouched \in 0..Ttl
    /\ granted \in Nat
    /\ gift \in Nat
    /\ late \in 0..MaxLate

(* However processes and their clocks interleave, the calls allowed cost   *)
(* no more than a full bucket and the refill of the time passed, but for   *)
(* what late readings refill twice and an expired key forgives.            *)
NeverOverspends == granted * Cost <= Capacity + clock * Refill + gift

=============================================================================
