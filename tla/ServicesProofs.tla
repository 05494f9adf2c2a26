--------------------------- MODULE ServicesProofs ---------------------------
(***************************************************************************)
(* What is proved of the services that run beside the conversation: the    *)
(* rate limit, the moderation of a customer, the event bus, the calls over *)
(* voice, the privacy requests and the broadcasts. They share no state, so *)
(* each has an inductive invariant of its own, and MCServices checks the   *)
(* same properties on a small instance.                                    *)
(*                                                                         *)
(* The argument of each: what was granted or sent is paid for by what      *)
(* another variable records, step by step, unless a history variable of    *)
(* the component says that one of the excused things happened.             *)
(***************************************************************************)
EXTENDS RateLimit, Moderation, EventBus, VoiceCalls, Privacy, Broadcasts, TLAPS

-----------------------------------------------------------------------------
(* Rate limiting.                                                          *)

(* What was granted, and what the bucket still holds, was filled by the    *)
(* time the bucket was last written at; a missing bucket is full.          *)
Paid ==
    IF bucket.exists
    THEN granted * Cost + bucket.tokens <= Capacity + bucket.ts * Refill + gift
    ELSE granted * Cost <= clock * Refill + gift

(* The invariant of the rate limit: types, and the payment above.          *)
RateInv == RateTypeOK /\ Paid

(* Arithmetic of products, for a solver that knows sums.                   *)
LEMMA Distribute ==
    ASSUME NEW a \in Int, NEW b \in Int, NEW c \in Int
    PROVE  /\ (a + b) * c = a * c + b * c
           /\ (a - b) * c = a * c - b * c
           /\ a * c \in Int
  OBVIOUS

LEMMA ProductIsNat ==
    ASSUME NEW a \in Nat, NEW b \in Nat PROVE a * b \in Nat
  OBVIOUS

(* A reading of the clock finds at most what has been refilled since.      *)
LEMMA FilledIsBounded ==
    ASSUME RateTypeOK, NEW now \in 0..clock
    PROVE  /\ Filled(now) \in 0..Capacity
           /\ Filled(now) <= bucket.tokens + AtLeast(0, now - bucket.ts) * Refill
           /\ AtLeast(0, now - bucket.ts) \in Nat
           /\ AtLeast(0, now - bucket.ts) * Refill \in Nat
  <1>1. bucket.tokens \in 0..Capacity /\ bucket.ts \in Nat /\ now \in Nat
    BY RateAssumption DEF RateTypeOK, Buckets
  <1>2. AtLeast(0, now - bucket.ts) \in Nat
    BY <1>1 DEF AtLeast
  <1>3. AtLeast(0, now - bucket.ts) * Refill \in Nat
    BY <1>2, ProductIsNat, RateAssumption
  <1> QED
    BY <1>1, <1>2, <1>3, RateAssumption DEF Filled, AtMost

LEMMA RateStarts == RateInit => RateInv
  BY RateAssumption, ProductIsNat
     DEF RateInit, RateInv, RateTypeOK, Paid, Missing, Buckets

(* A call pays for what it is granted out of what time has filled, and a   *)
(* clock that runs behind by at most MaxLag is accounted for in gift.      *)
LEMMA CallKeepsRate ==
    ASSUME RateInv, NEW now \in AtLeast(0, clock - MaxLag)..clock, TryConsume(now)
    PROVE  RateInv'
  <1> DEFINE before == IF bucket.exists THEN Filled(now) ELSE Capacity
             given  == IF bucket.exists THEN AtLeast(0, bucket.ts - now) ELSE clock - now
  <1>1. /\ clock \in Nat /\ clock \in 0..MaxTime /\ now \in Nat /\ now \in 0..clock
        /\ bucket \in Buckets /\ bucket.exists \in BOOLEAN
        /\ bucket.tokens \in Nat /\ bucket.ts \in Nat
        /\ granted \in Nat /\ gift \in Nat /\ late \in 0..MaxLate
    BY RateAssumption DEF RateInv, RateTypeOK, Buckets, AtLeast
  <1>2. before \in 0..Capacity
    BY <1>1, FilledIsBounded, RateAssumption DEF RateInv
  <1>3. given \in Nat /\ given * Refill \in Nat
    BY <1>1, ProductIsNat, RateAssumption DEF AtLeast
  <1>4. /\ bucket' = [exists |-> TRUE, ts |-> now,
                      tokens |-> IF before >= Cost THEN before - Cost ELSE before]
        /\ granted' = IF before >= Cost THEN granted + 1 ELSE granted
        /\ gift' = gift + given * Refill
        /\ late' = (IF now = clock THEN late ELSE late + 1) /\ (now = clock \/ late < MaxLate)
        /\ untouched' = 0 /\ clock' = clock
    BY DEF TryConsume
  <1>5. RateTypeOK'
    <2>1. bucket' \in Buckets /\ bucket'.ts <= clock'
      BY <1>1, <1>2, <1>4, RateAssumption DEF Buckets
    <2>2. late' \in 0..MaxLate /\ untouched' \in 0..Ttl
      BY <1>1, <1>4, RateAssumption
    <2> QED
      BY <1>1, <1>3, <1>4, <2>1, <2>2 DEF RateTypeOK
  <1>6. granted' * Cost + bucket'.tokens = granted * Cost + before
    <2>1. (granted + 1) * Cost = granted * Cost + Cost
      BY <1>1, RateAssumption
    <2> QED
      BY <1>1, <1>2, <1>4, <2>1, RateAssumption, ProductIsNat
  <1>7. granted * Cost + before <= Capacity + now * Refill + gift + given * Refill
    <2> DEFINE spent == granted * Cost
    <2>0. spent \in Nat
      BY <1>1, ProductIsNat, RateAssumption
    <2>1. CASE ~bucket.exists
      <3>1. spent <= clock * Refill + gift
        BY <2>1 DEF RateInv, Paid
      <3>2. (clock - now) * Refill = clock * Refill - now * Refill
            /\ clock * Refill \in Int /\ now * Refill \in Int
        BY <1>1, Distribute, RateAssumption
      <3> QED
        BY <1>1, <2>0, <2>1, <3>1, <3>2, RateAssumption
    <2>2. CASE bucket.exists
      <3>1. spent + bucket.tokens <= Capacity + bucket.ts * Refill + gift
        BY <2>2 DEF RateInv, Paid
      <3>2. /\ before <= bucket.tokens + AtLeast(0, now - bucket.ts) * Refill
            /\ AtLeast(0, now - bucket.ts) * Refill \in Nat
        BY <1>1, <2>2, FilledIsBounded DEF RateInv
      <3>3. AtLeast(0, now - bucket.ts) * Refill + bucket.ts * Refill
                = now * Refill + given * Refill
        <4>1. /\ (now - bucket.ts) * Refill = now * Refill - bucket.ts * Refill
              /\ (bucket.ts - now) * Refill = bucket.ts * Refill - now * Refill
              /\ now * Refill \in Int /\ bucket.ts * Refill \in Int /\ 0 * Refill = 0
          BY <1>1, Distribute, RateAssumption
        <4>2. CASE now >= bucket.ts
          <5>1. given = 0 /\ AtLeast(0, now - bucket.ts) = now - bucket.ts
            BY <1>1, <2>2, <4>2 DEF AtLeast
          <5> QED
            BY <4>1, <5>1
        <4>3. CASE ~(now >= bucket.ts)
          <5>1. given = bucket.ts - now /\ AtLeast(0, now - bucket.ts) = 0
            BY <1>1, <2>2, <4>3 DEF AtLeast
          <5> QED
            BY <4>1, <5>1
        <4> QED
          BY <4>2, <4>3
      <3>4. now * Refill \in Nat /\ bucket.ts * Refill \in Nat
        BY <1>1, ProductIsNat, RateAssumption
      <3> HIDE DEF before, given
      <3> QED
        BY <1>1, <1>2, <1>3, <2>0, <3>1, <3>2, <3>3, <3>4, RateAssumption
    <2> QED
      BY <2>1, <2>2
  <1> HIDE DEF before, given
  <1>8. Paid'
    BY <1>4, <1>6, <1>7, <1>1, <1>3, ProductIsNat, RateAssumption DEF Paid
  <1> QED
    BY <1>5, <1>8 DEF RateInv

LEMMA TickKeepsRate ==
    ASSUME RateInv, Tick
    PROVE  RateInv'
  <1>1. RateTypeOK'
    BY RateAssumption DEF RateInv, RateTypeOK, Tick, Buckets
  <1>2. (clock + 1) * Refill = clock * Refill + Refill /\ clock * Refill \in Int
    BY Distribute, RateAssumption DEF RateInv, RateTypeOK
  <1>3. granted * Cost \in Nat
    BY ProductIsNat, RateAssumption DEF RateInv, RateTypeOK
  <1>4. Paid'
    BY <1>2, <1>3, RateAssumption DEF RateInv, RateTypeOK, Paid, Tick, Buckets
  <1> QED
    BY <1>1, <1>4 DEF RateInv

(* What was not refilled yet, at the most, is forgiven.                    *)
LEMMA ExpiryKeepsRate ==
    ASSUME RateInv, KeyExpires
    PROVE  RateInv'
  <1>1. /\ clock \in Nat /\ clock \in 0..clock /\ bucket.ts \in Nat /\ bucket.ts <= clock
        /\ bucket.tokens \in Nat /\ granted \in Nat /\ gift \in Nat
    BY RateAssumption DEF RateInv, RateTypeOK, Buckets, KeyExpires
  <1>2. /\ Filled(clock) \in 0..Capacity
        /\ Filled(clock) <= bucket.tokens + AtLeast(0, clock - bucket.ts) * Refill
    BY <1>1, FilledIsBounded DEF RateInv
  <1>3. RateTypeOK'
    BY <1>1, <1>2, RateAssumption DEF RateInv, RateTypeOK, KeyExpires, Missing, Buckets
  <1>4. AtLeast(0, clock - bucket.ts) * Refill = clock * Refill - bucket.ts * Refill
    BY <1>1, Distribute, RateAssumption DEF AtLeast
  <1>5. granted * Cost \in Nat /\ clock * Refill \in Nat /\ bucket.ts * Refill \in Nat
    BY <1>1, ProductIsNat, RateAssumption
  <1>6. granted * Cost + bucket.tokens <= Capacity + bucket.ts * Refill + gift
    BY DEF RateInv, Paid, KeyExpires
  <1>7. Paid'
    BY <1>1, <1>2, <1>4, <1>5, <1>6, RateAssumption DEF KeyExpires, Missing, Paid
  <1> QED
    BY <1>3, <1>7 DEF RateInv

(* What was granted was refilled by now, whatever the clocks said.         *)
LEMMA RateImplies == RateInv => NeverOverspends
  <1> SUFFICES ASSUME RateInv PROVE NeverOverspends
    OBVIOUS
  <1>1. /\ clock \in Nat /\ bucket.ts \in Nat /\ bucket.tokens \in Nat
        /\ granted \in Nat /\ gift \in Nat /\ (bucket.exists => bucket.ts <= clock)
    BY RateAssumption DEF RateInv, RateTypeOK, Buckets
  <1>2. (clock - bucket.ts) * Refill = clock * Refill - bucket.ts * Refill
    BY <1>1, Distribute, RateAssumption
  <1>3. /\ granted * Cost \in Nat /\ clock * Refill \in Nat /\ bucket.ts * Refill \in Nat
        /\ bucket.exists => (clock - bucket.ts) * Refill \in Nat
    BY <1>1, ProductIsNat, RateAssumption
  <1> QED
    BY <1>1, <1>2, <1>3, RateAssumption DEF RateInv, Paid, NeverOverspends

(* Every reachable state of the rate limit keeps its books: what was       *)
(* granted never exceeds the capacity, the refill and what lagging clocks  *)
(* gave away.                                                              *)
THEOREM RateInvariance == RateSpec => []RateInv
  <1>1. RateInv /\ [RateNext]_rateVars => RateInv'
    <2> SUFFICES ASSUME RateInv, [RateNext]_rateVars PROVE RateInv'
      OBVIOUS
    <2>1. CASE UNCHANGED rateVars
      BY <2>1 DEF rateVars, RateInv, RateTypeOK, Paid
    <2> QED
      BY <2>1, CallKeepsRate, TickKeepsRate, ExpiryKeepsRate DEF RateNext
  <1> QED
    BY <1>1, RateStarts, PTL DEF RateSpec

(* No interleaving of late and punctual callers is granted more calls than *)
(* the capacity, the refill and what was given away pay for.               *)
THEOREM NothingIsOverspent == RateSpec => []NeverOverspends
  BY RateInvariance, RateImplies, PTL

-----------------------------------------------------------------------------
(* Moderation.                                                             *)

(* The turn t has judged its message and not committed yet.                *)
Judged(t) == judge[t] # Waiting

(* While no old turn has committed over an unblock, the score in the row,  *)
(* and the score a turn found there, were earned, and staff were called    *)
(* once it had reached the limit for a review.                             *)
EarnedSoFar(score) == score <= earned /\ (score >= ReviewAt => reviewed)

(* The decisions of a judgement follow from the score it computed.         *)
JudgedOn(j) ==
    /\ j.score >= j.delta
    /\ j.blocks => j.score >= BlockAt
    /\ j.score >= ReviewAt => j.calls

(* The invariant of the moderation: judgements follow their scores, and,   *)
(* until a turn from before an unblock commits over it, so far every score *)
(* and block was earned.                                                   *)
ModInv ==
    /\ ModTypeOK
    /\ \A t \in Judges : Judged(t) => JudgedOn(judge[t])
    /\ ~crossed =>
        /\ ~unfair
        /\ EarnedSoFar(row.score)
        /\ \A t \in Judges : Judged(t) /\ ~judge[t].old =>
              EarnedSoFar(judge[t].score - judge[t].delta)

LEMMA ModStarts == ModInit => ModInv
  <1> SUFFICES ASSUME ModInit PROVE ModInv
    OBVIOUS
  <1>1. \A t \in Judges : ~Judged(t)
    BY Zenon DEF ModInit, Judged
  <1>2. ModTypeOK
    <2>1. judge \in [Judges -> {Waiting} \cup Judgement]
      BY DEF ModInit
    <2>2. row \in Row /\ earned \in Nat /\ flags \in 0..MaxFlags
      BY ModerationAssumption DEF ModInit, Row
    <2>3. reviewed \in BOOLEAN /\ crossed \in BOOLEAN /\ unfair \in BOOLEAN
      BY DEF ModInit
    <2>4. admin \in [Admins -> {Waiting} \cup Request]
      BY DEF ModInit
    <2> QED
      BY <2>1, <2>2, <2>3, <2>4 DEF ModTypeOK
  <1>3. ~unfair /\ EarnedSoFar(row.score)
    BY ModerationAssumption DEF ModInit, EarnedSoFar
  <1> QED
    BY <1>1, <1>2, <1>3 DEF ModInv

LEMMA JudgementType ==
    ASSUME ModTypeOK, NEW t \in Judges, Judged(t)
    PROVE  /\ judge[t] \in Judgement
           /\ judge[t].score \in Nat /\ judge[t].delta \in Nat /\ judge[t].delta <= 4
           /\ judge[t].blocks \in BOOLEAN /\ judge[t].calls \in BOOLEAN
           /\ judge[t].old \in BOOLEAN
  BY DEF ModTypeOK, Judged, Judgement, Deltas

LEMMA FlaggedKeepsMod ==
    ASSUME ModInv, NEW t \in Judges, NEW kind \in Kinds, Flagged(t, kind)
    PROVE  ModInv'
  <1> DEFINE score == row.score + Delta(kind)
             j == [stage |-> "judged", score |-> score, delta |-> Delta(kind),
                   blocks |-> score >= BlockAt, calls |-> Hands(kind) \/ score >= ReviewAt,
                   old |-> FALSE]
  <1>1. Delta(kind) \in Deltas /\ row.score \in Nat /\ score \in Nat
    BY DEF ModInv, ModTypeOK, Row, Delta, Deltas
  <1>2. j \in Judgement
    BY <1>1, ModerationAssumption DEF Judgement, Hands
  <1>3. judge' = [judge EXCEPT ![t] = j] /\ flags' = flags + 1 /\ flags < MaxFlags
        /\ UNCHANGED <<row, admin, earned, reviewed, crossed, unfair>>
    BY DEF Flagged
  <1> HIDE DEF j
  <1>4. ModTypeOK'
    BY <1>2, <1>3, ModerationAssumption DEF ModInv, ModTypeOK
  <1>5. judge'[t] = j /\ \A u \in Judges : u # t => judge'[u] = judge[u]
    BY <1>3 DEF ModInv, ModTypeOK
  <1>6. JudgedOn(j) /\ j.score - j.delta = row.score
    <2>1. j.score = score /\ j.delta = Delta(kind) /\ j.blocks = (score >= BlockAt)
          /\ j.calls = (Hands(kind) \/ score >= ReviewAt)
      BY Zenon DEF j
    <2>2. score >= Delta(kind) /\ score - Delta(kind) = row.score
      BY <1>1 DEF Deltas
    <2> QED
      BY <2>1, <2>2 DEF JudgedOn
  <1>7. \A u \in Judges : Judged(u)' => JudgedOn(judge'[u])
    BY <1>5, <1>6 DEF ModInv, Judged
  <1>8. ~crossed' => /\ ~unfair' /\ EarnedSoFar(row.score)'
    BY <1>3 DEF ModInv, EarnedSoFar
  <1>9. ~crossed' => \A u \in Judges : Judged(u)' /\ ~judge'[u].old =>
              EarnedSoFar(judge[u].score - judge[u].delta)'
    BY <1>3, <1>5, <1>6 DEF ModInv, EarnedSoFar, Judged
  <1> QED
    BY <1>4, <1>7, <1>8, <1>9 DEF ModInv

LEMMA CommitKeepsMod ==
    ASSUME ModInv, NEW t \in Judges, FlagCommits(t)
    PROVE  ModInv'
  <1> DEFINE j == judge[t]
  <1>1. Judged(t) /\ JudgedOn(j)
    BY DEF FlagCommits, ModInv, Judged
  <1>2. /\ j.score \in Nat /\ j.delta \in Nat /\ j.delta <= 4
        /\ j.blocks \in BOOLEAN /\ j.calls \in BOOLEAN /\ j.old \in BOOLEAN
    BY <1>1, JudgementType DEF ModInv
  <1>3. /\ judge' = [judge EXCEPT ![t] = Waiting] /\ row' = Scored(j)
        /\ earned' = earned + j.delta /\ reviewed' = (reviewed \/ j.calls)
        /\ crossed' = (crossed \/ j.old)
        /\ unfair' = (unfair \/ (j.blocks /\ ~(reviewed /\ earned' >= BlockAt)))
        /\ flags' = flags /\ admin' = admin
    BY DEF FlagCommits
  <1>4. row.score \in Nat /\ row.blocked \in BOOLEAN /\ earned \in Nat
        /\ reviewed \in BOOLEAN /\ crossed \in BOOLEAN /\ unfair \in BOOLEAN
    BY DEF ModInv, ModTypeOK, Row
  <1>5. judge' \in [Judges -> {Waiting} \cup Judgement]
        /\ judge'[t] = Waiting /\ \A u \in Judges : u # t => judge'[u] = judge[u]
    BY <1>3 DEF ModInv, ModTypeOK
  <1>6. row' = [score   |-> IF j.delta = 0 THEN row.score ELSE j.score,
                blocked |-> j.blocks \/ row.blocked]
    BY <1>3 DEF Scored
  <1>7. ModTypeOK'
    BY <1>2, <1>3, <1>4, <1>5, <1>6 DEF ModInv, ModTypeOK, Row
  <1>8. \A u \in Judges : Judged(u)' => u # t /\ Judged(u) /\ judge'[u] = judge[u]
    BY <1>5 DEF Judged
  <1>9. ASSUME ~crossed'
        PROVE  /\ ~unfair' /\ EarnedSoFar(row.score)'
               /\ \A u \in Judges : Judged(u)' /\ ~judge'[u].old =>
                     EarnedSoFar(judge[u].score - judge[u].delta)'
    <2>1. ~crossed /\ ~j.old
      BY <1>3, <1>9
    <2>2. ~unfair /\ EarnedSoFar(row.score) /\ EarnedSoFar(j.score - j.delta)
      BY <1>1, <2>1 DEF ModInv
    <2>3. ~unfair'
      BY <1>1, <1>2, <1>3, <1>4, <2>2, ModerationAssumption DEF JudgedOn, EarnedSoFar
    <2>4. EarnedSoFar(row.score)'
      BY <1>1, <1>2, <1>3, <1>4, <1>6, <2>2, ModerationAssumption DEF JudgedOn, EarnedSoFar
    <2>5. ASSUME NEW u \in Judges, Judged(u)', ~judge'[u].old
          PROVE  EarnedSoFar(judge[u].score - judge[u].delta)'
      <3>1. EarnedSoFar(judge[u].score - judge[u].delta) /\ judge'[u] = judge[u]
        BY <1>8, <2>1, <2>5 DEF ModInv
      <3>2. judge[u].score \in Nat /\ judge[u].delta \in Nat
        BY <1>8, <2>5, JudgementType DEF ModInv
      <3> QED
        BY <1>2, <1>3, <1>4, <3>1, <3>2 DEF EarnedSoFar
    <2> QED
      BY <2>3, <2>4, <2>5
  <1>10. \A u \in Judges : Judged(u)' => JudgedOn(judge'[u])
    BY <1>8 DEF ModInv
  <1> QED
    BY <1>7, <1>9, <1>10 DEF ModInv

LEMMA FailureKeepsMod ==
    ASSUME ModInv, NEW t \in Judges, FlagFails(t)
    PROVE  ModInv'
  <1>1. judge' \in [Judges -> {Waiting} \cup Judgement]
        /\ judge'[t] = Waiting /\ \A u \in Judges : u # t => judge'[u] = judge[u]
    BY DEF FlagFails, ModInv, ModTypeOK
  <1>2. \A u \in Judges : Judged(u)' => Judged(u) /\ judge'[u] = judge[u]
    BY <1>1 DEF Judged
  <1>3. UNCHANGED <<row, admin, earned, reviewed, crossed, unfair, flags>>
    BY DEF FlagFails
  <1> QED
    BY <1>1, <1>2, <1>3 DEF ModInv, ModTypeOK, EarnedSoFar

(* A request of staff reads the row, and then writes what it decided.      *)
LEMMA ReadKeepsMod ==
    ASSUME ModInv, NEW a \in Admins, NEW wish \in {"block", "unblock"}, AdminReads(a, wish)
    PROVE  ModInv'
  <1>1. [stage |-> "read", wish |-> wish, copy |-> row] \in Request
    BY DEF Request, ModInv, ModTypeOK
  <1>2. admin' \in [Admins -> {Waiting} \cup Request]
    BY <1>1 DEF AdminReads, ModInv, ModTypeOK
  <1>3. UNCHANGED <<row, judge, earned, reviewed, crossed, unfair, flags>>
    BY DEF AdminReads
  <1> QED
    BY <1>2, <1>3 DEF ModInv, ModTypeOK, EarnedSoFar, Judged

(* A block leaves every score alone.                                       *)
LEMMA BlockKeepsMod ==
    ASSUME ModInv, NEW a \in Admins, BlockCustomer(a)
    PROVE  ModInv'
  <1>1. admin' \in [Admins -> {Waiting} \cup Request]
    BY DEF BlockCustomer, ModInv, ModTypeOK
  <1>2. UNCHANGED <<judge, earned, reviewed, crossed, unfair, flags>>
    BY DEF BlockCustomer
  <1>3. row' \in Row /\ row'.score = row.score
    BY DEF BlockCustomer, ModInv, ModTypeOK, Row
  <1> QED
    BY <1>1, <1>2, <1>3 DEF ModInv, ModTypeOK, EarnedSoFar, Judged

(* An unblock resets the score and makes every judgement under way an old  *)
(* one, or, where it read a score of nought, touches neither.              *)
LEMMA UnblockKeepsMod ==
    ASSUME ModInv, NEW a \in Admins, UnblockCustomer(a)
    PROVE  ModInv'
  <1> DEFINE copy == admin[a].copy
  <1>1. admin' \in [Admins -> {Waiting} \cup Request] /\ flags' = flags
    BY DEF UnblockCustomer, ModInv, ModTypeOK
  <1>2. row.score \in Nat /\ row.blocked \in BOOLEAN
    BY DEF ModInv, ModTypeOK, Row
  <1>3. row' = [score   |-> IF copy.score # 0 THEN 0 ELSE row.score,
                blocked |-> ~ copy.blocked /\ row.blocked]
    BY DEF UnblockCustomer, Lifted
  <1>4. row' \in Row
    BY <1>2, <1>3 DEF Row
  <1>5. CASE copy.score = 0
    <2>1. UNCHANGED <<judge, earned, reviewed, crossed, unfair>>
      BY <1>5 DEF UnblockCustomer
    <2>2. row'.score = row.score
      BY <1>3, <1>5
    <2> QED
      BY <1>1, <1>4, <2>1, <2>2 DEF ModInv, ModTypeOK, EarnedSoFar, Judged
  <1>6. CASE copy.score # 0
    <2>0. /\ judge' = [t \in Judges |-> IF judge[t] = Waiting THEN Waiting
                                        ELSE [judge[t] EXCEPT !.old = TRUE]]
          /\ earned' = 0
          /\ reviewed' = FALSE /\ crossed' = FALSE /\ unfair' = FALSE
      BY <1>6, Zenon DEF UnblockCustomer
    <2>1. /\ row'.score = 0
          /\ earned' = 0 /\ ~reviewed' /\ ~crossed' /\ ~unfair'
          /\ judge' = [t \in Judges |-> IF judge[t] = Waiting THEN Waiting
                                        ELSE [judge[t] EXCEPT !.old = TRUE]]
          /\ reviewed' \in BOOLEAN /\ crossed' \in BOOLEAN /\ unfair' \in BOOLEAN
      BY <1>3, <1>6, <2>0
    <2>2. ASSUME NEW t \in Judges, Judged(t)
          PROVE  /\ judge'[t] = [judge[t] EXCEPT !.old = TRUE]
                 /\ judge'[t] \in Judgement /\ judge'[t].old
                 /\ JudgedOn(judge'[t])
      <3>1. judge[t] \in Judgement /\ JudgedOn(judge[t])
        BY <2>2, JudgementType DEF ModInv
      <3>2. judge'[t] = [judge[t] EXCEPT !.old = TRUE]
        BY <2>1, <2>2 DEF Judged
      <3> QED
        BY <3>1, <3>2 DEF Judgement, JudgedOn
    <2>3. \A t \in Judges : ~Judged(t) => judge'[t] = Waiting
      BY <2>1 DEF Judged
    <2>4. judge' \in [Judges -> {Waiting} \cup Judgement]
      BY <2>1, <2>2, <2>3
    <2>5. ModTypeOK'
      BY <1>1, <1>4, <2>1, <2>4 DEF ModInv, ModTypeOK
    <2>6. \A t \in Judges : Judged(t)' => judge'[t].old /\ JudgedOn(judge'[t])
      BY <2>2, <2>3 DEF Judged
    <2>7. EarnedSoFar(row.score)'
      BY <2>1, ModerationAssumption DEF EarnedSoFar
    <2> QED
      BY <2>1, <2>5, <2>6, <2>7 DEF ModInv
  <1> QED
    BY <1>5, <1>6

(* Every reachable state keeps that bookkeeping of scores.                 *)
THEOREM ModInvariance == ModSpec => []ModInv
  <1>1. ModInv /\ [ModNext]_modVars => ModInv'
    <2> SUFFICES ASSUME ModInv, [ModNext]_modVars PROVE ModInv'
      OBVIOUS
    <2>1. CASE UNCHANGED modVars
      BY <2>1 DEF modVars, ModInv, ModTypeOK, EarnedSoFar, Judged
    <2> QED
      BY <2>1, FlaggedKeepsMod, CommitKeepsMod, FailureKeepsMod, ReadKeepsMod,
         BlockKeepsMod, UnblockKeepsMod DEF ModNext
  <1> QED
    BY <1>1, ModStarts, PTL DEF ModSpec

(* However staff's reads and writes fall between those of the turns: a     *)
(* turn blocks a customer only for points earned since the score was last  *)
(* reset, and after staff had been called, unless a turn from before that  *)
(* reset committed over it.                                                *)
THEOREM BlocksAreAlwaysEarned == ModSpec => []BlocksAreEarned
  <1>1. ModInv => BlocksAreEarned
    BY DEF ModInv, BlocksAreEarned, ModTypeOK
  <1> QED
    BY <1>1, ModInvariance, PTL

-----------------------------------------------------------------------------
(* The event bus.                                                          *)

(* A dispatch at work is of one event: loading with no targets yet, or     *)
(* inserting with some left.                                               *)
Shapes ==
    \A p \in Processes :
        \/ dispatch[p] = NoEvent
        \/ /\ dispatch[p].stage = "load" /\ dispatch[p].targets = {}
           /\ \E e \in Events : dispatch[p].event = {e}
        \/ /\ dispatch[p].stage = "enqueue" /\ dispatch[p].targets # {}
           /\ \E e \in Events : dispatch[p].event = {e}

(* An event whose claim did not lapse is dispatched by at most one         *)
(* process, which holds the claim and has not yet inserted what it is      *)
(* still to insert.                                                        *)
OneDispatch ==
    \A e \in Events \ unclaimed : \A p \in Processes : e \in dispatch[p].event =>
        /\ e \in claim
        /\ \A q \in Processes : e \in dispatch[q].event => p = q
        /\ \A h \in Hooks :
              dispatch[p].stage = "load" \/ h \in dispatch[p].targets => queued[e][h] = 0

(* An event nobody has claimed has no rows.                                *)
NotClaimed ==
    \A e \in Events \ unclaimed : e \notin claim => \A h \in Hooks : queued[e][h] = 0

(* Once an event is claimed and nothing of it is lost, its hooks were      *)
(* chosen or a process is on its way to choose them.                       *)
Chooses ==
    \A e \in Events \ lost : e \in claim =>
        chosen[e] # {} \/ \E p \in Processes : e \in dispatch[p].event

(* An event that was received and not lost was chosen for, or waits in an  *)
(* inbox or a dispatch.                                                    *)
Reaches ==
    \A e \in Events \ lost : e \in received => chosen[e] # {} \/ Busy(e)

(* What was chosen and not lost has its row, or is among the targets a     *)
(* process has left.                                                       *)
Inserts ==
    \A e \in Events \ lost : \A choice \in chosen[e] : \A h \in choice :
        \/ queued[e][h] > 0
        \/ \E p \in Processes : e \in dispatch[p].event /\ h \in dispatch[p].targets

(* A process that inserts has chosen.                                      *)
Chose ==
    \A p \in Processes : dispatch[p].stage = "enqueue" =>
        \A e \in dispatch[p].event : chosen[e] # {}

(* What keeps a webhook from being queued twice for an event.              *)
OneRowInv == Shapes /\ OneDispatch /\ NotClaimed /\ OneRowPerEvent

(* What keeps an event from being dropped between the channel and the      *)
(* outbox.                                                                 *)
QueuedInv == Chose /\ Chooses /\ Reaches /\ Inserts

(* The invariant of the event bus.                                         *)
BusInv == BusTypeOK /\ OneRowInv /\ QueuedInv

LEMMA BusInitially == BusInit => BusInv
<1> SUFFICES ASSUME BusInit PROVE BusInv
    OBVIOUS
<1>1. BusTypeOK
  <2>1. queued \in [Events -> [Hooks -> Nat]]
    <3>1. [h \in Hooks |-> 0] \in [Hooks -> Nat]
        OBVIOUS
    <3> QED BY <3>1 DEF BusInit
  <2>2. dispatch \in [Processes -> DispatchType]
    <3>1. NoEvent \in DispatchType
        BY DEF NoEvent, DispatchType
    <3> QED BY <3>1 DEF BusInit
  <2> QED BY <2>1, <2>2, BusAssumption DEF BusInit, BusTypeOK
<1>2. \A p \in Processes : dispatch[p] = NoEvent /\ dispatch[p].event = {}
    BY DEF BusInit, NoEvent
<1>3. \A e \in Events, h \in Hooks : queued[e][h] = 0
    BY DEF BusInit
<1>4. OneRowInv
    BY <1>2, <1>3 DEF OneRowInv, Shapes, OneDispatch, NotClaimed, OneRowPerEvent, BusInit
<1>5. QueuedInv
    BY DEF QueuedInv, Chose, Chooses, Reaches, Inserts, BusInit, NoEvent
<1> QED BY <1>1, <1>4, <1>5 DEF BusInv

(* A row more for one event and hook. *)
LEMMA OneMoreRow ==
    ASSUME NEW q \in [Events -> [Hooks -> Nat]], NEW e \in Events, NEW h \in Hooks
    PROVE  LET r == [q EXCEPT ![e][h] = @ + 1] IN
           /\ r \in [Events -> [Hooks -> Nat]]
           /\ r[e][h] = q[e][h] + 1
           /\ \A d \in Events, k \in Hooks : d # e \/ k # h => r[d][k] = q[d][k]
<1>1. q[e] \in [Hooks -> Nat] /\ q[e][h] \in Nat
    OBVIOUS
<1> QED BY <1>1

LEMMA TargetsOfAProcess ==
    ASSUME BusTypeOK, NEW p \in Processes, NEW S \in SUBSET Hooks,
           dispatch[p].stage # "idle"
    PROVE  /\ Inserting(p, S) \in DispatchType
           /\ S = {} => Inserting(p, S) = NoEvent
           /\ S # {} => /\ Inserting(p, S).stage = "enqueue" /\ Inserting(p, S).targets = S
                        /\ Inserting(p, S).event = dispatch[p].event
<1>1. dispatch[p] \in DispatchType
    BY DEF BusTypeOK
<1>2. NoEvent \in DispatchType
    BY DEF NoEvent, DispatchType
<1> QED BY <1>1, <1>2 DEF Inserting, DispatchType

LEMMA BusTypes == BusTypeOK /\ Shapes /\ [BusNext]_busVars => BusTypeOK'
<1> SUFFICES ASSUME BusTypeOK, Shapes, [BusNext]_busVars PROVE BusTypeOK'
    OBVIOUS
<1> USE DEF BusTypeOK
<1>1. NoEvent \in DispatchType /\ \A e \in Events : Handling(e) \in DispatchType
    BY DEF NoEvent, DispatchType, Handling
<1>2. CASE \E e \in Events : Publish(e) \/ PublishFails(e) \/ ClaimExpires(e)
    BY <1>2, BusAssumption DEF Publish, PublishFails, ClaimExpires, BusFault
<1>3. ASSUME NEW p \in Processes,
             Listen(p) \/ Disconnect(p) \/ ProcessCrash(p) \/ LoadFails(p)
      PROVE  BusTypeOK'
  <2>1. dispatch[p].event \subseteq Events
      BY DEF DispatchType
  <2>2. inbox[p] \subseteq Events
      OBVIOUS
  <2>3. CASE Listen(p)
      BY <2>3 DEF Listen
  <2>4. CASE Disconnect(p)
      BY <2>4, <2>2, BusAssumption DEF Disconnect, BusFault
  <2>5. CASE ProcessCrash(p)
      BY <2>5, <2>1, <2>2, <1>1, BusAssumption DEF ProcessCrash, BusFault
  <2>6. CASE LoadFails(p)
      BY <2>6, <2>1, <1>1, BusAssumption DEF LoadFails, BusFault
  <2> QED BY <1>3, <2>3, <2>4, <2>5, <2>6
<1>4. ASSUME NEW p \in Processes, NEW e \in Events, ClaimDispatch(p, e)
      PROVE  BusTypeOK'
    BY <1>4, <1>1 DEF ClaimDispatch
<1>5. ASSUME NEW p \in Processes, NEW e \in Events, ClaimFails(p, e)
      PROVE  BusTypeOK'
    BY <1>5, <1>1, BusAssumption DEF ClaimFails, BusFault
<1>6. ASSUME NEW p \in Processes, LoadTargets(p)
      PROVE  BusTypeOK'
  <2>1. PICK e \in dispatch[p].event :
           /\ dispatch' = [dispatch EXCEPT ![p] = Inserting(p, Subscribed[e] \cap enabled)]
           /\ chosen' = [chosen EXCEPT ![e] = @ \cup {Subscribed[e] \cap enabled}]
      BY <1>6 DEF LoadTargets
  <2>2. e \in Events
      BY DEF DispatchType
  <2>3. Subscribed[e] \cap enabled \in SUBSET Hooks
      BY <2>2, BusAssumption
  <2>4. Inserting(p, Subscribed[e] \cap enabled) \in DispatchType
      BY <2>3, <1>6, TargetsOfAProcess DEF LoadTargets
  <2>5. chosen' \in [Events -> SUBSET SUBSET Hooks]
      BY <2>1, <2>2, <2>3
  <2> QED BY <1>6, <2>1, <2>4, <2>5 DEF LoadTargets
<1>7. ASSUME NEW p \in Processes, NEW h \in Hooks, InsertRow(p, h)
      PROVE  BusTypeOK'
  <2>1. PICK e \in dispatch[p].event : queued' = [queued EXCEPT ![e][h] = @ + 1]
      BY <1>7 DEF InsertRow
  <2>2. e \in Events /\ dispatch[p].stage # "idle"
    <3>1. dispatch[p].targets # {}
        BY <1>7 DEF InsertRow
    <3>2. e \in Events
        BY DEF DispatchType
    <3> QED BY <3>1, <3>2 DEF Shapes, NoEvent
  <2>3. queued' \in [Events -> [Hooks -> Nat]]
      BY <2>1, <2>2, OneMoreRow
  <2>4. dispatch[p].targets \ {h} \in SUBSET Hooks
      BY DEF DispatchType
  <2>5. Inserting(p, dispatch[p].targets \ {h}) \in DispatchType
      BY <2>2, <2>4, TargetsOfAProcess
  <2> QED BY <1>7, <2>3, <2>5 DEF InsertRow
<1>8. ASSUME NEW p \in Processes, NEW h \in Hooks, InsertFails(p, h)
      PROVE  BusTypeOK'
  <2>1. dispatch[p].event \subseteq Events
      BY DEF DispatchType
  <2>2. dispatch[p].stage # "idle"
    <3>1. dispatch[p].targets # {}
        BY <1>8 DEF InsertFails
    <3> QED BY <3>1 DEF Shapes, NoEvent
  <2>4. dispatch[p].targets \ {h} \in SUBSET Hooks
      BY DEF DispatchType
  <2>5. Inserting(p, dispatch[p].targets \ {h}) \in DispatchType
      BY <2>2, <2>4, TargetsOfAProcess
  <2> QED BY <1>8, <2>1, <2>5, BusAssumption DEF InsertFails, BusFault
<1>9. CASE \E h \in Hooks : HookGoes(h)
    BY <1>9 DEF HookGoes
<1>10. CASE UNCHANGED busVars
    BY <1>10 DEF busVars
<1> QED BY <1>2, <1>3, <1>4, <1>5, <1>6, <1>7, <1>8, <1>9, <1>10
    DEF BusNext, ListenerStep


(* A step that neither starts, moves nor ends a dispatch, and claims no     *)
(* event that is not dispatched.                                           *)
LEMMA QuietForRows ==
    ASSUME OneRowInv, UNCHANGED <<dispatch, queued>>,
           unclaimed \subseteq unclaimed',
           \A e \in Events \ unclaimed' : e \in claim => e \in claim'
    PROVE  OneRowInv'
<1>1. Shapes'
    BY DEF OneRowInv, Shapes
<1>2. OneDispatch'
    BY DEF OneRowInv, OneDispatch
<1>3. NotClaimed'
    BY DEF OneRowInv, NotClaimed
<1>4. OneRowPerEvent'
    BY DEF OneRowInv, OneRowPerEvent
<1> QED BY <1>1, <1>2, <1>3, <1>4 DEF OneRowInv

(* A process gives its dispatch up.                                        *)
LEMMA DroppedForRows ==
    ASSUME BusTypeOK, OneRowInv, NEW p \in Processes,
           dispatch' = [dispatch EXCEPT ![p] = NoEvent],
           UNCHANGED <<queued, claim, unclaimed>>
    PROVE  OneRowInv'
<1>1. /\ dispatch'[p] = NoEvent
      /\ \A q \in Processes : q # p => dispatch'[q] = dispatch[q]
    BY DEF BusTypeOK
<1>2. dispatch'[p].event = {}
    BY <1>1 DEF NoEvent
<1>3. Shapes'
    BY <1>1 DEF OneRowInv, Shapes
<1>4. OneDispatch'
    BY <1>1, <1>2 DEF OneRowInv, OneDispatch
<1>5. NotClaimed' /\ OneRowPerEvent'
    BY DEF OneRowInv, NotClaimed, OneRowPerEvent
<1> QED BY <1>3, <1>4, <1>5 DEF OneRowInv

(* A process starts on an event: with the claim, or without.               *)
LEMMA HandlingForRows ==
    ASSUME BusTypeOK, OneRowInv, NEW p \in Processes, NEW e \in Events,
           dispatch' = [dispatch EXCEPT ![p] = Handling(e)],
           UNCHANGED queued,
           \/ e \notin claim /\ claim' = claim \cup {e} /\ unclaimed' = unclaimed
           \/ claim' = claim /\ unclaimed' = unclaimed \cup {e}
    PROVE  OneRowInv'
<1>1. /\ dispatch'[p] = Handling(e)
      /\ \A q \in Processes : q # p => dispatch'[q] = dispatch[q]
    BY DEF BusTypeOK
<1>2. dispatch'[p].event = {e} /\ dispatch'[p].stage = "load" /\ dispatch'[p].targets = {}
    BY <1>1 DEF Handling
<1>3. Shapes'
    BY <1>1, <1>2 DEF OneRowInv, Shapes
<1>4. OneDispatch'
  <2> SUFFICES ASSUME NEW d \in Events \ unclaimed', NEW r \in Processes,
                      d \in dispatch'[r].event
               PROVE  /\ d \in claim'
                      /\ \A q \in Processes : d \in dispatch'[q].event => r = q
                      /\ \A h \in Hooks :
                            dispatch'[r].stage = "load" \/ h \in dispatch'[r].targets
                               => queued'[d][h] = 0
      BY DEF OneDispatch
  <2>1. d \notin unclaimed
      OBVIOUS
  <2>2. CASE d = e
    <3>1. e \notin claim /\ claim' = claim \cup {e}
        BY <2>2
    <3>2. \A q \in Processes : e \notin dispatch[q].event
        BY <3>1, <2>1, <2>2 DEF OneRowInv, OneDispatch
    <3>3. \A h \in Hooks : queued[e][h] = 0
        BY <3>1, <2>1, <2>2 DEF OneRowInv, NotClaimed
    <3> QED BY <3>1, <3>2, <3>3, <1>1, <2>2
  <2>3. CASE d # e
    <3>1. r # p
        BY <2>3, <1>2
    <3>2. \A q \in Processes : d \in dispatch'[q].event => d \in dispatch[q].event /\ q # p
        BY <2>3, <1>1, <1>2
    <3> QED BY <3>1, <3>2, <2>1, <2>3, <1>1 DEF OneRowInv, OneDispatch
  <2> QED BY <2>2, <2>3
<1>5. NotClaimed' /\ OneRowPerEvent'
    BY DEF OneRowInv, NotClaimed, OneRowPerEvent
<1> QED BY <1>3, <1>4, <1>5 DEF OneRowInv

(* The endpoints are chosen, or one of them is done with.                  *)
LEMMA InsertingForRows ==
    ASSUME BusTypeOK, OneRowInv, NEW p \in Processes, NEW S \in SUBSET Hooks,
           dispatch[p].stage = "load" \/ S \subseteq dispatch[p].targets,
           dispatch[p].stage # "idle",
           dispatch' = [dispatch EXCEPT ![p] = Inserting(p, S)],
           UNCHANGED <<claim, unclaimed>>,
           \/ UNCHANGED queued
           \/ \E e \in dispatch[p].event : \E h \in dispatch[p].targets :
                 h \notin S /\ queued' = [queued EXCEPT ![e][h] = @ + 1]
    PROVE  OneRowInv'
<1>1. /\ dispatch'[p] = Inserting(p, S)
      /\ \A q \in Processes : q # p => dispatch'[q] = dispatch[q]
    BY DEF BusTypeOK
<1>2. \/ dispatch'[p] = NoEvent /\ S = {}
      \/ /\ S # {} /\ dispatch'[p].stage = "enqueue" /\ dispatch'[p].targets = S
         /\ dispatch'[p].event = dispatch[p].event
    BY <1>1, TargetsOfAProcess
<1>3. PICK e \in Events : dispatch[p].event = {e}
    BY DEF OneRowInv, Shapes, NoEvent
<1>4. Shapes'
    BY <1>1, <1>2, <1>3 DEF OneRowInv, Shapes
<1>5. \/ UNCHANGED queued
      \/ \E h \in dispatch[p].targets : h \notin S /\ queued' = [queued EXCEPT ![e][h] = @ + 1]
    BY <1>3
<1>6. dispatch[p].targets \subseteq Hooks
    BY DEF BusTypeOK, DispatchType
<1>7. \A d \in Events, h \in Hooks :
        \/ queued'[d][h] = queued[d][h]
        \/ /\ d = e /\ h \in dispatch[p].targets /\ h \notin S
           /\ queued'[d][h] = queued[d][h] + 1
    BY <1>5, <1>6, OneMoreRow DEF BusTypeOK
<1>8. \A q \in Processes, d \in Events : d \in dispatch'[q].event => d \in dispatch[q].event
  <2>1. NoEvent.event = {}
      BY DEF NoEvent
  <2> QED BY <1>1, <1>2, <2>1
<1>9. OneDispatch'
  <2> SUFFICES ASSUME NEW d \in Events \ unclaimed, NEW r \in Processes,
                      d \in dispatch'[r].event
               PROVE  /\ d \in claim
                      /\ \A q \in Processes : d \in dispatch'[q].event => r = q
                      /\ \A h \in Hooks :
                            dispatch'[r].stage = "load" \/ h \in dispatch'[r].targets
                               => queued'[d][h] = 0
      BY DEF OneDispatch
  <2>1. d \in dispatch[r].event
      BY <1>8
  <2>2. d \in claim /\ \A q \in Processes : d \in dispatch'[q].event => r = q
      BY <2>1, <1>8 DEF OneRowInv, OneDispatch
  <2>3. ASSUME NEW h \in Hooks, dispatch'[r].stage = "load" \/ h \in dispatch'[r].targets
        PROVE  queued'[d][h] = 0
    <3>1. CASE r = p
      <4>1. S # {} /\ h \in S /\ dispatch'[p].targets = S
        <5>1. NoEvent.event = {}
            BY DEF NoEvent
        <5> QED BY <3>1, <2>3, <1>2, <5>1
      <4>2. queued[d][h] = 0
          BY <4>1, <3>1, <2>1 DEF OneRowInv, OneDispatch
      <4>3. queued'[d][h] = queued[d][h]
          BY <4>1, <1>7
      <4> QED BY <4>2, <4>3
    <3>2. CASE r # p
      <4>1. dispatch'[r] = dispatch[r]
          BY <3>2, <1>1
      <4>2. queued[d][h] = 0
          BY <4>1, <2>1, <2>3 DEF OneRowInv, OneDispatch
      <4>3. d # e
          BY <3>2, <2>1, <1>3 DEF OneRowInv, OneDispatch
      <4>4. queued'[d][h] = queued[d][h]
          BY <4>3, <1>7
      <4> QED BY <4>2, <4>4
    <3> QED BY <3>1, <3>2
  <2> QED BY <2>2, <2>3
<1>10. NotClaimed'
  <2> SUFFICES ASSUME NEW d \in Events \ unclaimed, d \notin claim, NEW h \in Hooks
               PROVE  queued'[d][h] = 0
      BY DEF NotClaimed
  <2>1. d # e
      BY <1>3 DEF OneRowInv, OneDispatch
  <2>2. queued[d][h] = 0
      BY DEF OneRowInv, NotClaimed
  <2> QED BY <2>1, <2>2, <1>7
<1>11. OneRowPerEvent'
  <2> SUFFICES ASSUME NEW d \in Events \ unclaimed, NEW h \in Hooks
               PROVE  queued'[d][h] <= 1
      BY DEF OneRowPerEvent
  <2>1. queued[d][h] <= 1
      BY DEF OneRowInv, OneRowPerEvent
  <2>2. CASE queued'[d][h] = queued[d][h]
      BY <2>1, <2>2
  <2>3. CASE d = e /\ h \in dispatch[p].targets /\ queued'[d][h] = queued[d][h] + 1
    <3>1. queued[d][h] = 0
        BY <2>3, <1>3 DEF OneRowInv, OneDispatch
    <3> QED BY <2>3, <3>1
  <2> QED BY <2>2, <2>3, <1>7
<1> QED BY <1>4, <1>9, <1>10, <1>11 DEF OneRowInv

LEMMA RowsAreKept == BusTypeOK /\ OneRowInv /\ [BusNext]_busVars => OneRowInv'
<1> SUFFICES ASSUME BusTypeOK, OneRowInv, [BusNext]_busVars PROVE OneRowInv'
    OBVIOUS
<1>1. CASE \E e \in Events : Publish(e) \/ PublishFails(e) \/ ClaimExpires(e)
    BY <1>1, QuietForRows DEF Publish, PublishFails, ClaimExpires
<1>2. ASSUME NEW p \in Processes, Listen(p) \/ Disconnect(p)
      PROVE  OneRowInv'
    BY <1>2, QuietForRows DEF Listen, Disconnect
<1>3. ASSUME NEW p \in Processes, ProcessCrash(p) \/ LoadFails(p)
      PROVE  OneRowInv'
    BY <1>3, DroppedForRows DEF ProcessCrash, LoadFails
<1>4. ASSUME NEW p \in Processes, NEW e \in Events, ClaimDispatch(p, e)
      PROVE  OneRowInv'
  <2>1. CASE e \in claim
      BY <1>4, <2>1, QuietForRows DEF ClaimDispatch
  <2>2. CASE e \notin claim
      BY <1>4, <2>2, HandlingForRows DEF ClaimDispatch
  <2> QED BY <2>1, <2>2
<1>5. ASSUME NEW p \in Processes, NEW e \in Events, ClaimFails(p, e)
      PROVE  OneRowInv'
    BY <1>5, HandlingForRows DEF ClaimFails
<1>6. ASSUME NEW p \in Processes, LoadTargets(p)
      PROVE  OneRowInv'
  <2>1. PICK e \in dispatch[p].event :
           dispatch' = [dispatch EXCEPT ![p] = Inserting(p, Subscribed[e] \cap enabled)]
      BY <1>6 DEF LoadTargets
  <2>2. Subscribed[e] \cap enabled \in SUBSET Hooks
      BY DEF BusTypeOK
  <2> QED BY <1>6, <2>1, <2>2, InsertingForRows DEF LoadTargets
<1>7. ASSUME NEW p \in Processes, NEW h \in Hooks, InsertRow(p, h) \/ InsertFails(p, h)
      PROVE  OneRowInv'
  <2>1. dispatch[p].stage # "idle"
      BY <1>7 DEF InsertRow, InsertFails, OneRowInv, Shapes, NoEvent
  <2>2. dispatch[p].targets \ {h} \in SUBSET Hooks
      BY DEF BusTypeOK, DispatchType
  <2>3. CASE InsertRow(p, h)
    <3>1. \E e \in dispatch[p].event : queued' = [queued EXCEPT ![e][h] = @ + 1]
        BY <2>3 DEF InsertRow
    <3>2. h \in dispatch[p].targets /\ h \notin dispatch[p].targets \ {h}
        BY <2>3 DEF InsertRow
    <3>3. /\ dispatch' = [dispatch EXCEPT ![p] = Inserting(p, dispatch[p].targets \ {h})]
          /\ UNCHANGED <<claim, unclaimed>>
        BY <2>3 DEF InsertRow
    <3>4. \E e \in dispatch[p].event : \E k \in dispatch[p].targets :
             /\ k \notin dispatch[p].targets \ {h}
             /\ queued' = [queued EXCEPT ![e][k] = @ + 1]
        BY <3>1, <3>2
    <3> QED BY <2>1, <2>2, <3>3, <3>4, InsertingForRows
  <2>4. CASE InsertFails(p, h)
      BY <2>4, <2>1, <2>2, InsertingForRows DEF InsertFails
  <2> QED BY <1>7, <2>3, <2>4
<1>8. CASE \E h \in Hooks : HookGoes(h)
    BY <1>8, QuietForRows DEF HookGoes
<1>9. CASE UNCHANGED busVars
    BY <1>9, QuietForRows DEF busVars
<1> QED BY <1>1, <1>2, <1>3, <1>4, <1>5, <1>6, <1>7, <1>8, <1>9
    DEF BusNext, ListenerStep


(* Some process works on the event e.                                      *)
Dispatching(e) == \E p \in Processes : e \in dispatch[p].event

(* What a process has not read may only be lost; nothing else moves.       *)
LEMMA QuietForQueued ==
    ASSUME QueuedInv, UNCHANGED <<dispatch, queued, chosen>>,
           lost \subseteq lost',
           claim' \subseteq claim,
           \A e \in Events \ lost' :
              /\ e \in received' => e \in received \/ Busy(e)'
              /\ Busy(e) => Busy(e)' \/ e \in claim
    PROVE  QueuedInv'
<1>1. Chooses'
    BY DEF QueuedInv, Chooses
<1>2. Inserts'
    BY DEF QueuedInv, Inserts
<1>3. Reaches'
  <2> SUFFICES ASSUME NEW e \in Events \ lost', e \in received', ~Busy(e)'
               PROVE  chosen[e] # {}
      BY DEF Reaches
  <2>1. e \in received /\ (Busy(e) => e \in claim)
      OBVIOUS
  <2>2. CASE Busy(e)
    <3>1. \A p \in Processes : e \notin dispatch[p].event
        BY DEF Busy
    <3> QED BY <2>1, <2>2, <3>1 DEF QueuedInv, Chooses
  <2>3. CASE ~Busy(e)
      BY <2>1, <2>3 DEF QueuedInv, Reaches
  <2> QED BY <2>2, <2>3
<1>4. Chose'
    BY DEF QueuedInv, Chose
<1> QED BY <1>1, <1>2, <1>3, <1>4 DEF QueuedInv

(* A process gives its dispatch up, and the event is lost.                 *)
LEMMA DroppedForQueued ==
    ASSUME BusTypeOK, QueuedInv, NEW p \in Processes,
           dispatch' = [dispatch EXCEPT ![p] = NoEvent],
           UNCHANGED <<queued, chosen, claim, received>>,
           lost \cup dispatch[p].event \subseteq lost',
           \A q \in Processes : inbox[q] \subseteq inbox'[q] \cup lost'
    PROVE  QueuedInv'
<1>1. \A q \in Processes : q # p => dispatch'[q] = dispatch[q]
    BY DEF BusTypeOK
<1>2. \A e \in Events \ lost' : e \notin lost /\ e \notin dispatch[p].event
    OBVIOUS
<1>3. \A e \in Events \ lost' : \A q \in Processes :
         e \in dispatch[q].event => q # p /\ dispatch'[q] = dispatch[q]
    BY <1>1, <1>2
<1>4. Chooses'
    BY <1>2, <1>3 DEF QueuedInv, Chooses
<1>5. Inserts'
    BY <1>2, <1>3 DEF QueuedInv, Inserts
<1>6. \A e \in Events \ lost' : Busy(e) => Busy(e)'
    BY <1>3 DEF Busy
<1>7. Reaches'
    BY <1>2, <1>6 DEF QueuedInv, Reaches
<1>8. Chose'
  <2>1. dispatch'[p].stage # "enqueue"
      BY DEF BusTypeOK, NoEvent
  <2> QED BY <1>1, <2>1 DEF QueuedInv, Chose
<1> QED BY <1>4, <1>5, <1>7, <1>8 DEF QueuedInv

(* An idle process starts on an event of its inbox.                        *)
LEMMA HandlingForQueued ==
    ASSUME BusTypeOK, OneRowInv, QueuedInv, NEW p \in Processes, NEW e \in Events,
           dispatch[p].stage = "idle",
           dispatch' = [dispatch EXCEPT ![p] = Handling(e)],
           inbox' = [inbox EXCEPT ![p] = @ \ {e}],
           UNCHANGED <<queued, chosen, received, lost>>,
           claim' \subseteq claim \cup {e}
    PROVE  QueuedInv'
<1>1. /\ dispatch'[p] = Handling(e)
      /\ \A q \in Processes : q # p => dispatch'[q] = dispatch[q]
    BY DEF BusTypeOK
<1>2. e \in dispatch'[p].event /\ dispatch[p].event = {}
    BY <1>1 DEF Handling, OneRowInv, Shapes, NoEvent
<1>3. \A q \in Processes : dispatch[q].event # {} => dispatch'[q] = dispatch[q]
    BY <1>1, <1>2
<1>4. Chooses'
    BY <1>2, <1>3 DEF QueuedInv, Chooses
<1>5. Inserts'
    BY <1>3 DEF QueuedInv, Inserts
<1>6. \A d \in Events : Busy(d) => Busy(d)'
  <2>1. \A q \in Processes : inbox[q] \subseteq inbox'[q] \cup {e}
      BY DEF BusTypeOK
  <2> QED BY <1>2, <1>3, <2>1 DEF Busy
<1>7. Reaches'
    BY <1>6 DEF QueuedInv, Reaches
<1>8. Chose'
  <2>1. dispatch'[p].stage # "enqueue"
      BY <1>1 DEF Handling
  <2> QED BY <1>1, <2>1 DEF QueuedInv, Chose
<1> QED BY <1>4, <1>5, <1>7, <1>8 DEF QueuedInv

LEMMA LoadForQueued ==
    ASSUME BusTypeOK, OneRowInv, QueuedInv, NEW p \in Processes, LoadTargets(p)
    PROVE  QueuedInv'
<1>1. PICK e \in Events :
        /\ dispatch[p].event = {e}
        /\ dispatch' = [dispatch EXCEPT ![p] = Inserting(p, Subscribed[e] \cap enabled)]
        /\ chosen' = [chosen EXCEPT ![e] = @ \cup {Subscribed[e] \cap enabled}]
  <2>1. PICK e \in dispatch[p].event :
           /\ dispatch' = [dispatch EXCEPT ![p] = Inserting(p, Subscribed[e] \cap enabled)]
           /\ chosen' = [chosen EXCEPT ![e] = @ \cup {Subscribed[e] \cap enabled}]
      BY DEF LoadTargets
  <2>2. e \in Events /\ dispatch[p].event = {e}
      BY DEF OneRowInv, Shapes, NoEvent
  <2> QED BY <2>1, <2>2
<1> DEFINE targets == Subscribed[e] \cap enabled
<1>2. /\ dispatch[p].stage = "load" /\ dispatch[p].targets = {}
      /\ UNCHANGED <<inbox, claim, queued, received, lost>>
  <2>1. dispatch[p].stage = "load"
      BY DEF LoadTargets
  <2>2. dispatch[p].targets = {}
      BY <2>1 DEF OneRowInv, Shapes, NoEvent
  <2> QED BY <2>1, <2>2 DEF LoadTargets
<1>3. targets \in SUBSET Hooks
    BY BusAssumption
<1>4. /\ dispatch'[p] = Inserting(p, targets)
      /\ \A q \in Processes : q # p => dispatch'[q] = dispatch[q]
    BY <1>1 DEF BusTypeOK
<1>5. /\ chosen'[e] = chosen[e] \cup {targets}
      /\ \A d \in Events : d # e => chosen'[d] = chosen[d]
    BY <1>1 DEF BusTypeOK
<1>6. \A d \in Events : chosen[d] # {} \/ d = e => chosen'[d] # {}
    BY <1>5
<1>7. targets # {} => dispatch'[p].event = {e} /\ dispatch'[p].targets = targets
    BY <1>1, <1>2, <1>3, <1>4, TargetsOfAProcess
<1>8. \A d \in Events, q \in Processes :
         d \in dispatch[q].event => d = e \/ dispatch'[q] = dispatch[q]
    BY <1>1, <1>4
<1>9. Chooses'
    BY <1>2, <1>6, <1>8 DEF QueuedInv, Chooses
<1>10. \A d \in Events : Busy(d) => Busy(d)' \/ d = e
    BY <1>2, <1>8 DEF Busy
<1>11. Reaches'
    BY <1>2, <1>6, <1>10 DEF QueuedInv, Reaches
<1>12. Inserts'
  <2> SUFFICES ASSUME NEW d \in Events \ lost, NEW choice \in chosen'[d], NEW h \in choice
               PROVE  \/ queued[d][h] > 0
                      \/ \E q \in Processes : d \in dispatch'[q].event
                                              /\ h \in dispatch'[q].targets
      BY <1>2 DEF Inserts
  <2>1. CASE choice \in chosen[d]
    <3>1. \/ queued[d][h] > 0
          \/ \E q \in Processes : d \in dispatch[q].event /\ h \in dispatch[q].targets
        BY <2>1 DEF QueuedInv, Inserts
    <3>2. \A q \in Processes : h \in dispatch[q].targets => dispatch'[q] = dispatch[q]
        BY <1>2, <1>4
    <3> QED BY <3>1, <3>2
  <2>2. CASE choice \notin chosen[d]
      BY <2>2, <1>5, <1>7
  <2> QED BY <2>1, <2>2
<1>13. Chose'
  <2> SUFFICES ASSUME NEW q \in Processes, dispatch'[q].stage = "enqueue",
                      NEW d \in dispatch'[q].event
               PROVE  chosen'[d] # {}
      BY DEF Chose
  <2>1. CASE q = p
    <3>1. targets # {}
        BY <2>1, <1>2, <1>3, <1>4, TargetsOfAProcess DEF NoEvent
    <3> QED BY <2>1, <3>1, <1>6, <1>7
  <2>2. CASE q # p
    <3>1. dispatch[q] \in DispatchType /\ dispatch'[q] = dispatch[q]
        BY <2>2, <1>4 DEF BusTypeOK
    <3>2. d \in Events
        BY <3>1 DEF DispatchType
    <3> QED BY <3>1, <3>2, <1>6 DEF QueuedInv, Chose
  <2> QED BY <2>1, <2>2
<1> QED BY <1>9, <1>11, <1>12, <1>13 DEF QueuedInv

LEMMA InsertForQueued ==
    ASSUME BusTypeOK, OneRowInv, QueuedInv, NEW p \in Processes, NEW h \in Hooks,
           InsertRow(p, h) \/ InsertFails(p, h)
    PROVE  QueuedInv'
<1>1. /\ h \in dispatch[p].targets
      /\ dispatch' = [dispatch EXCEPT ![p] = Inserting(p, dispatch[p].targets \ {h})]
      /\ UNCHANGED <<inbox, claim, chosen, received>>
      /\ lost \subseteq lost'
    BY DEF InsertRow, InsertFails
<1>2. PICK e \in Events : dispatch[p].event = {e} /\ dispatch[p].stage # "idle"
    BY <1>1 DEF OneRowInv, Shapes, NoEvent
<1>3. \/ lost' = lost /\ queued' = [queued EXCEPT ![e][h] = @ + 1]
      \/ e \in lost' /\ queued' = queued
    BY <1>2 DEF InsertRow, InsertFails
<1>4. dispatch[p].targets \ {h} \in SUBSET Hooks
    BY DEF BusTypeOK, DispatchType
<1>5. /\ dispatch'[p] = Inserting(p, dispatch[p].targets \ {h})
      /\ \A q \in Processes : q # p => dispatch'[q] = dispatch[q]
    BY <1>1 DEF BusTypeOK
<1>6. dispatch[p].targets # {h} =>
         dispatch'[p].event = {e} /\ dispatch'[p].targets = dispatch[p].targets \ {h}
    BY <1>1, <1>2, <1>4, <1>5, TargetsOfAProcess
<1>7. \A d \in Events, k \in Hooks :
         queued[d][k] \in Nat /\ queued'[d][k] \in Nat /\ queued'[d][k] >= queued[d][k]
  <2>1. \A d \in Events, k \in Hooks : queued[d][k] \in Nat
      BY DEF BusTypeOK
  <2>2. CASE queued' = queued
      BY <2>1, <2>2
  <2>3. CASE queued' = [queued EXCEPT ![e][h] = @ + 1]
      BY <2>1, <2>3, OneMoreRow DEF BusTypeOK
  <2> QED BY <1>3, <2>2, <2>3
<1>8. e \notin lost' => queued'[e][h] > 0
    BY <1>3, <1>7, OneMoreRow DEF BusTypeOK
<1>9. Inserts'
  <2> SUFFICES ASSUME NEW d \in Events \ lost', NEW choice \in chosen[d], NEW k \in choice
               PROVE  \/ queued'[d][k] > 0
                      \/ \E q \in Processes : d \in dispatch'[q].event
                                              /\ k \in dispatch'[q].targets
      BY <1>1 DEF Inserts
  <2>1. k \in Hooks
      BY DEF BusTypeOK
  <2>2. CASE queued[d][k] > 0
    <3>1. queued[d][k] \in Nat /\ queued'[d][k] \in Nat /\ queued'[d][k] >= queued[d][k]
        BY <2>1, <1>7
    <3> QED BY <2>2, <3>1
  <2>3. CASE queued[d][k] = 0
    <3>1. PICK q \in Processes : d \in dispatch[q].event /\ k \in dispatch[q].targets
        BY <1>1, <2>3 DEF QueuedInv, Inserts
    <3>2. CASE q # p
        BY <3>1, <3>2, <1>5
    <3>3. CASE q = p /\ k # h
        BY <3>1, <3>3, <1>2, <1>6
    <3>4. CASE q = p /\ k = h
        BY <3>1, <3>4, <1>2, <1>8
    <3> QED BY <3>2, <3>3, <3>4
  <2> QED BY <2>1, <2>2, <2>3, <1>7
<1>10. chosen[e] # {}
    BY <1>1, <1>2 DEF OneRowInv, Shapes, QueuedInv, Chose, NoEvent
<1>11. \A d \in Events, q \in Processes :
          d \in dispatch[q].event => d = e \/ dispatch'[q] = dispatch[q]
    BY <1>2, <1>5
<1>12. Chooses'
    BY <1>1, <1>10, <1>11 DEF QueuedInv, Chooses
<1>13. \A d \in Events : Busy(d) => Busy(d)' \/ d = e
    BY <1>1, <1>11 DEF Busy
<1>14. Reaches'
    BY <1>1, <1>10, <1>13 DEF QueuedInv, Reaches
<1>15. Chose'
  <2>1. \A q \in Processes : dispatch'[q].stage = "enqueue" =>
           \A d \in dispatch'[q].event : chosen[d] # {}
    <3>1. \A d \in dispatch'[p].event : d = e
        BY <1>2, <1>4, <1>5, TargetsOfAProcess DEF NoEvent
    <3> QED BY <1>5, <1>10, <3>1 DEF QueuedInv, Chose
  <2> QED BY <1>1, <2>1 DEF Chose
<1> QED BY <1>9, <1>12, <1>14, <1>15 DEF QueuedInv

LEMMA QueuedIsKept ==
    BusTypeOK /\ OneRowInv /\ QueuedInv /\ [BusNext]_busVars => QueuedInv'
<1> SUFFICES ASSUME BusTypeOK, OneRowInv, QueuedInv, [BusNext]_busVars PROVE QueuedInv'
    OBVIOUS
<1>1. ASSUME NEW e \in Events, Publish(e) PROVE QueuedInv'
  <2>1. /\ UNCHANGED <<dispatch, queued, chosen, lost, claim>>
        /\ received' = IF connected = {} THEN received ELSE received \cup {e}
      BY <1>1 DEF Publish
  <2>2. \A p \in Processes : /\ inbox[p] \subseteq inbox'[p]
                             /\ p \in connected => e \in inbox'[p]
      BY <1>1 DEF Publish
  <2>3. \A d \in Events : /\ Busy(d) => Busy(d)'
                          /\ d \in received' => d \in received \/ Busy(d)'
      BY <2>1, <2>2 DEF Busy, BusTypeOK
  <2> QED BY <2>1, <2>3, QuietForQueued
<1>2. ASSUME NEW e \in Events, PublishFails(e) \/ ClaimExpires(e) PROVE QueuedInv'
  <2>1. UNCHANGED <<dispatch, queued, chosen, lost, inbox, received>> /\ claim' \subseteq claim
      BY <1>2 DEF PublishFails, ClaimExpires
  <2>2. \A d : Busy(d)' <=> Busy(d)
      BY <2>1 DEF Busy
  <2> QED BY <2>1, <2>2, QuietForQueued
<1>3. ASSUME NEW p \in Processes, Listen(p) PROVE QueuedInv'
  <2>1. UNCHANGED <<dispatch, queued, chosen, lost, inbox, received, claim>>
      BY <1>3 DEF Listen
  <2>2. \A d : Busy(d)' <=> Busy(d)
      BY <2>1 DEF Busy
  <2> QED BY <2>1, <2>2, QuietForQueued
<1>4. ASSUME NEW p \in Processes, Disconnect(p) PROVE QueuedInv'
  <2>1. UNCHANGED <<dispatch, queued, chosen, received, claim>> /\ lost' = lost \cup inbox[p]
      BY <1>4 DEF Disconnect
  <2>2. \A q \in Processes : inbox[q] \subseteq inbox'[q] \cup lost'
      BY <1>4, <2>1 DEF Disconnect, BusTypeOK
  <2>3. \A d \in Events \ lost' : Busy(d) => Busy(d)'
      BY <2>1, <2>2 DEF Busy
  <2> QED BY <2>1, <2>3, QuietForQueued
<1>5. ASSUME NEW p \in Processes, ProcessCrash(p) PROVE QueuedInv'
  <2>1. \A q \in Processes : inbox[q] \subseteq inbox'[q] \cup lost'
      BY <1>5 DEF ProcessCrash, BusTypeOK
  <2>2. /\ dispatch' = [dispatch EXCEPT ![p] = NoEvent]
        /\ UNCHANGED <<queued, chosen, claim, received>>
        /\ lost \cup dispatch[p].event \subseteq lost'
      BY <1>5 DEF ProcessCrash
  <2> QED BY <2>1, <2>2, DroppedForQueued
<1>6. ASSUME NEW p \in Processes, LoadFails(p) PROVE QueuedInv'
    BY <1>6, DroppedForQueued DEF LoadFails
<1>7. ASSUME NEW p \in Processes, NEW e \in Events, ClaimDispatch(p, e)
      PROVE  QueuedInv'
  <2>1. CASE e \in claim
    <3>1. /\ UNCHANGED <<dispatch, queued, chosen, received, lost>> /\ claim' = claim
          /\ inbox' = [inbox EXCEPT ![p] = @ \ {e}]
        BY <1>7, <2>1 DEF ClaimDispatch
    <3>2. \A q \in Processes : inbox[q] \subseteq inbox'[q] \cup {e}
        BY <3>1 DEF BusTypeOK
    <3>3. \A d \in Events : Busy(d) => Busy(d)' \/ d = e
        BY <3>1, <3>2 DEF Busy
    <3> QED BY <2>1, <3>1, <3>3, QuietForQueued
  <2>2. CASE e \notin claim
      BY <1>7, <2>2, HandlingForQueued DEF ClaimDispatch
  <2> QED BY <2>1, <2>2
<1>8. ASSUME NEW p \in Processes, NEW e \in Events, ClaimFails(p, e)
      PROVE  QueuedInv'
    BY <1>8, HandlingForQueued DEF ClaimFails
<1>9. ASSUME NEW h \in Hooks, HookGoes(h) PROVE QueuedInv'
  <2>1. UNCHANGED <<dispatch, queued, chosen, lost, inbox, received, claim>>
      BY <1>9 DEF HookGoes
  <2>2. \A d : Busy(d)' <=> Busy(d)
      BY <2>1 DEF Busy
  <2> QED BY <2>1, <2>2, QuietForQueued
<1>10. CASE UNCHANGED busVars
  <2>1. UNCHANGED <<dispatch, queued, chosen, lost, inbox, received, claim>>
      BY <1>10 DEF busVars
  <2>2. \A d : Busy(d)' <=> Busy(d)
      BY <2>1 DEF Busy
  <2> QED BY <2>1, <2>2, QuietForQueued
<1> QED BY <1>1, <1>2, <1>3, <1>4, <1>5, <1>6, <1>7, <1>8, <1>9, <1>10,
           LoadForQueued, InsertForQueued DEF BusNext, ListenerStep

(* The event bus keeps its invariant: one dispatcher per claimed event,    *)
(* and nothing received goes missing between two steps of it.              *)
THEOREM DispatchInvariance == BusSpec => []BusInv
<1>1. BusInv /\ [BusNext]_busVars => BusInv'
    BY BusTypes, RowsAreKept, QueuedIsKept DEF BusInv, OneRowInv
<1> QED BY BusInitially, <1>1, PTL DEF BusSpec

(* For any number of processes, hooks and events: an event gets one row    *)
(* per hook at most, unless its claim ran out early or Redis did not       *)
(* answer, and an event that was received has its rows once nobody works   *)
(* on it any more, unless a crash or a failure lost it.                    *)
THEOREM DispatchIsOnce == BusSpec => []DispatchedOnce
<1>1. BusInv => DispatchedOnce
  <2> SUFFICES ASSUME BusInv PROVE OneRowPerEvent /\ ReceivedIsQueued
      BY DEF DispatchedOnce
  <2>1. OneRowPerEvent
      BY DEF BusInv, OneRowInv
  <2>2. ASSUME NEW e \in received \ lost, ~Busy(e)
        PROVE  chosen[e] # {} /\ \A choice \in chosen[e] : \A h \in choice : queued[e][h] > 0
    <3>1. e \in Events \ lost /\ \A p \in Processes : e \notin dispatch[p].event
        BY <2>2 DEF BusInv, BusTypeOK, Busy
    <3> QED BY <2>2, <3>1 DEF BusInv, QueuedInv, Reaches, Inserts
  <2> QED BY <2>1, <2>2 DEF ReceivedIsQueued
<1> QED BY DispatchInvariance, <1>1, PTL

-----------------------------------------------------------------------------
(* Voice calls.                                                            *)

(* An entry under a call id is of that call; the other entries are under   *)
(* stream ids.                                                             *)
StreamsNameThemselves ==
    \A w \in Hosts : \A s \in sessions[w] : s.key \in Calls => s.call = s.key

OnCall(c) == call[c] \in {"starting", "live"}

(* A mark that is still to be tried in this period.                        *)
Untried(c) == IF c \in tried THEN 0 ELSE 1

(* What a call knows of its customer's marker.  Unless it never got one or *)
(* lost it to another call, the periods that the marker has left and the   *)
(* refreshes that failed make up its whole life; and a marker is missing   *)
(* for at most the refreshes that failed and one not tried yet.  A call    *)
(* that is not between start and stop has nothing on record.               *)
MarkerOf(c) ==
    /\ OnCall(c) =>
          /\ c \in exposed \/ presence[Caller[c]] + missed[c] + Untried(c) >= PresenceTtl
          /\ dark[c] <= missed[c] + Untried(c)
          /\ presence[Caller[c]] > 0 => dark[c] = 0
    /\ ~OnCall(c) => dark[c] = 0 /\ missed[c] = 0 /\ c \notin tried /\ c \notin exposed

MarkersInv == \A c \in Calls : MarkerOf(c)

(* The invariant of the calls.                                             *)
VoiceInv == VoiceTypeOK /\ MarkersInv /\ StreamsNameThemselves /\ RegistryFollowsCalls

LEMMA VoiceStarts == VoiceInit => VoiceInv
<1> SUFFICES ASSUME VoiceInit PROVE VoiceInv
    OBVIOUS
<1>1. VoiceTypeOK
    BY VoiceAssumption DEF VoiceInit, VoiceTypeOK, Phases, PresenceTtl
<1>2. \A w \in Hosts : sessions[w] = {}
    BY DEF VoiceInit
<1>3. MarkersInv
    BY DEF VoiceInit, MarkersInv, MarkerOf, OnCall
<1>4. RegistryFollowsCalls
    BY <1>2 DEF VoiceInit, RegistryFollowsCalls, Lookup
<1> QED BY <1>1, <1>2, <1>3, <1>4 DEF VoiceInv, StreamsNameThemselves

(* Two periods lost to failures are needed for a marker to run out.        *)
LEMMA MarkersMark == VoiceTypeOK /\ MarkersInv => MarkedWhileOnThePhone
<1> SUFFICES ASSUME VoiceTypeOK, MarkersInv, NEW m \in Customers, NEW c \in OnThePhone(m),
                    ~Marked(m)
             PROVE  (c \in exposed \/ missed[c] >= 2) /\ dark[c] <= missed[c] + 1
    BY DEF MarkedWhileOnThePhone
<1>1. c \in Calls /\ Caller[c] = m /\ OnCall(c) /\ MarkerOf(c)
    BY DEF OnThePhone, OnCall, MarkersInv
<1>2. presence[m] = 0 /\ missed[c] \in Nat /\ dark[c] \in Nat /\ Untried(c) \in {0, 1}
    BY <1>1 DEF VoiceTypeOK, Marked, Untried, PresenceTtl
<1> QED BY <1>1, <1>2 DEF MarkerOf, PresenceTtl

LEMMA EntriesOfTheRegistry ==
    ASSUME VoiceTypeOK, NEW w \in Hosts, NEW s \in sessions[w]
    PROVE  s = [key |-> s.key, call |-> s.call] /\ s.key \in Keys /\ s.call \in Calls
BY DEF VoiceTypeOK

LEMMA PuttingAnEntry ==
    ASSUME VoiceTypeOK, NEW w \in Hosts, NEW k \in Keys, NEW c \in Calls,
           sessions' = Put(w, k, c)
    PROVE  /\ sessions' \in [Hosts -> SUBSET [key : Keys, call : Calls]]
           /\ sessions'[w] = {s \in sessions[w] : s.key # k} \cup {[key |-> k, call |-> c]}
           /\ \A v \in Hosts : v # w => sessions'[v] = sessions[v]
<1>1. (sessions[w] \ Lookup(w, k)) \cup {[key |-> k, call |-> c]}
         \in SUBSET [key : Keys, call : Calls]
    BY DEF VoiceTypeOK
<1> QED BY <1>1 DEF VoiceTypeOK, Put, Lookup

LEMMA VoiceTypes == VoiceTypeOK /\ [VoiceNext]_voiceVars => VoiceTypeOK'
<1> SUFFICES ASSUME VoiceTypeOK, [VoiceNext]_voiceVars PROVE VoiceTypeOK'
    OBVIOUS
<1>1. ASSUME NEW c \in Calls, MarkActive(c) \/ RefreshPresence(c) \/ ClearChannel(c)
      PROVE  VoiceTypeOK'
  <2>1. /\ call' \in [Calls -> Phases]
        /\ UNCHANGED <<host, sessions>>
      BY <1>1 DEF MarkActive, RefreshPresence, ClearChannel, Move, VoiceTypeOK, Phases
  <2>2. Caller[c] \in Customers
      BY VoiceAssumption
  <2>3. CASE MarkChannelActive(c)
      BY <2>1, <2>2, <2>3, VoiceAssumption
         DEF MarkChannelActive, Mark, RedisFails, VoiceTypeOK, PresenceTtl
  <2>4. CASE ClearChannel(c)
      BY <2>1, <2>2, <2>4, VoiceAssumption
         DEF ClearChannel, RedisFails, VoiceTypeOK, PresenceTtl, OnThePhone
  <2> QED BY <1>1, <2>3, <2>4 DEF MarkActive, RefreshPresence
<1>2. ASSUME NEW c \in Calls, Register(c)
      PROVE  VoiceTypeOK'
  <2>1. host[c] \in Hosts /\ c \in Keys
      BY DEF VoiceTypeOK, Keys
  <2> QED BY <1>2, <2>1, PuttingAnEntry DEF Register, Move, VoiceTypeOK, Phases, markerVars
<1>3. ASSUME NEW c \in Calls, NEW conv \in Conversations, Alias(c, conv)
      PROVE  VoiceTypeOK'
  <2>1. host[c] \in Hosts /\ conv \in Keys
      BY DEF VoiceTypeOK, Keys
  <2> QED BY <1>3, <2>1, PuttingAnEntry DEF Alias, VoiceTypeOK, markerVars
<1>4. ASSUME NEW c \in Calls, Unregister(c)
      PROVE  VoiceTypeOK'
  <2>1. host[c] \in Hosts
      BY DEF VoiceTypeOK
  <2>2. Unregistered(host[c], c) \in SUBSET [key : Keys, call : Calls]
      BY <2>1 DEF VoiceTypeOK, Unregistered
  <2>3. sessions' \in [Hosts -> SUBSET [key : Keys, call : Calls]]
      BY <1>4, <2>2 DEF VoiceTypeOK, Unregister
  <2> QED BY <1>4, <2>3 DEF Unregister, Move, VoiceTypeOK, Phases, markerVars
<1>5. CASE PeriodPasses
  <2>1. presence' \in [Customers -> 0 .. PresenceTtl]
      BY <1>5 DEF PeriodPasses, VoiceTypeOK, PresenceTtl, Marked
  <2>2. dark' \in [Calls -> Nat]
      BY <1>5 DEF PeriodPasses, VoiceTypeOK
  <2> QED BY <1>5, <2>1, <2>2 DEF PeriodPasses, VoiceTypeOK
<1>6. ASSUME NEW w \in Hosts, HostCrash(w)
      PROVE  VoiceTypeOK'
  <2>1. call' \in [Calls -> Phases]
      BY <1>6 DEF HostCrash, VoiceTypeOK, Phases
  <2>2. sessions' \in [Hosts -> SUBSET [key : Keys, call : Calls]]
      BY <1>6 DEF HostCrash, VoiceTypeOK
  <2> QED BY <1>6, <2>1, <2>2 DEF HostCrash, VoiceTypeOK
<1>7. CASE UNCHANGED voiceVars
    BY <1>7 DEF voiceVars, markerVars, VoiceTypeOK
<1> QED BY <1>1, <1>2, <1>3, <1>4, <1>5, <1>6, <1>7 DEF VoiceNext

(* A call moves from one phase to another. *)
LEMMA OneCallMoves ==
    ASSUME VoiceTypeOK, NEW c \in Calls, NEW from, NEW to, Move(c, from, to)
    PROVE  call'[c] = to /\ \A d \in Calls : d # c => call'[d] = call[d]
BY DEF Move, VoiceTypeOK

(* A call of which nothing changes that concerns its marker.               *)
LEMMA MarkerAsBefore ==
    ASSUME NEW d \in Calls, MarkerOf(d), OnCall(d)' <=> OnCall(d),
           UNCHANGED <<presence[Caller[d]], missed[d], dark[d]>>,
           d \in tried' <=> d \in tried, d \in exposed' <=> d \in exposed
    PROVE  MarkerOf(d)'
BY DEF MarkerOf, Untried

(* A mark that was tried, and the other calls while it was.                *)
LEMMA TriesKeepMarkers ==
    ASSUME VoiceTypeOK, MarkersInv, NEW c \in Calls, MarkActive(c) \/ RefreshPresence(c)
    PROVE  MarkersInv'
<1>1. /\ MarkChannelActive(c) /\ Caller[c] \in Customers
      /\ OnCall(c)' /\ c \notin tried
      /\ \A d \in Calls : d # c => (OnCall(d)' <=> OnCall(d))
      /\ MarkActive(c) => ~OnCall(c) /\ call[c] = "ringing"
      /\ RefreshPresence(c) => OnCall(c)
    BY VoiceAssumption, OneCallMoves
       DEF MarkActive, RefreshPresence, OnCall, Move, MarkersInv, MarkerOf
<1>2. tried' = tried \cup {c}
    BY <1>1 DEF MarkChannelActive
<1>3. \A d \in Calls : /\ MarkerOf(d) /\ missed[d] \in Nat /\ dark[d] \in Nat
                       /\ Caller[d] \in Customers /\ presence[Caller[d]] \in 0..3
    BY VoiceAssumption DEF MarkersInv, VoiceTypeOK, PresenceTtl
<1>4. CASE /\ presence' = Mark(Caller[c])
           /\ missed' = [missed EXCEPT ![c] = 0]
           /\ exposed' = {d \in exposed : Caller[d] # Caller[c]}
           /\ dark' = [d \in Calls |-> IF Caller[d] = Caller[c] THEN 0 ELSE dark[d]]
  <2> SUFFICES ASSUME NEW d \in Calls PROVE MarkerOf(d)'
      BY DEF MarkersInv
  <2>1. missed'[d] = (IF d = c THEN 0 ELSE missed[d]) /\ missed'[d] \in Nat
      BY <1>4, <1>3 DEF VoiceTypeOK
  <2>2. CASE Caller[d] = Caller[c]
    <3>1. presence'[Caller[d]] = 3 /\ dark'[d] = 0 /\ d \notin exposed'
        BY <1>1, <1>4, <2>2 DEF Mark, VoiceTypeOK, PresenceTtl
    <3>2. Untried(d)' \in {0, 1}
        BY DEF Untried
    <3>3. ~OnCall(d)' => missed'[d] = 0 /\ d \notin tried'
        BY <1>1, <1>2, <1>3, <2>1 DEF MarkerOf
    <3> QED BY <2>1, <3>1, <3>2, <3>3 DEF MarkerOf, PresenceTtl
  <2>3. CASE Caller[d] # Caller[c]
    <3>1. d # c
        BY <2>3
    <3>2. /\ presence'[Caller[d]] = presence[Caller[d]] /\ dark'[d] = dark[d]
          /\ d \in exposed' <=> d \in exposed
        BY <1>3, <1>4, <2>3 DEF Mark, VoiceTypeOK
    <3> QED BY <1>1, <1>2, <1>3, <2>1, <3>1, <3>2, MarkerAsBefore
  <2> QED BY <2>2, <2>3
<1>5. CASE /\ missed' = [missed EXCEPT ![c] = @ + 1]
           /\ exposed' = exposed \cup {d \in {c} : call[d] = "ringing"}
           /\ UNCHANGED <<presence, dark>>
  <2> SUFFICES ASSUME NEW d \in Calls PROVE MarkerOf(d)'
      BY DEF MarkersInv
  <2>1. CASE d = c
    <3>1. /\ missed'[c] = missed[c] + 1 /\ Untried(c)' = 0 /\ Untried(c) = 1
          /\ presence'[Caller[c]] = presence[Caller[c]] /\ dark'[c] = dark[c]
        BY <1>1, <1>2, <1>5 DEF Untried, VoiceTypeOK
    <3>2. CASE MarkActive(c)
      <4>1. c \in exposed' /\ dark[c] = 0 /\ missed[c] = 0
          BY <1>1, <1>3, <1>5, <3>2 DEF MarkerOf
      <4> QED BY <1>1, <2>1, <3>1, <4>1 DEF MarkerOf
    <3>3. CASE RefreshPresence(c)
      <4>1. /\ c \in exposed \/ presence[Caller[c]] + missed[c] + 1 >= 3
            /\ dark[c] <= missed[c] + 1
            /\ presence[Caller[c]] > 0 => dark[c] = 0
            /\ c \in exposed => c \in exposed'
          BY <1>1, <1>3, <1>5, <3>1, <3>3 DEF MarkerOf, PresenceTtl
      <4>2. /\ c \in exposed' \/ presence'[Caller[c]] + missed'[c] + Untried(c)' >= 3
            /\ dark'[c] <= missed'[c] + Untried(c)'
            /\ presence'[Caller[c]] > 0 => dark'[c] = 0
          BY <1>3, <3>1, <4>1
      <4> QED BY <1>1, <2>1, <4>2 DEF MarkerOf, PresenceTtl
    <3> QED BY <3>2, <3>3
  <2>2. CASE d # c
    <3>1. missed'[d] = missed[d] /\ (d \in exposed' <=> d \in exposed)
          /\ (d \in tried' <=> d \in tried)
        BY <1>2, <1>5, <2>2 DEF VoiceTypeOK
    <3> QED BY <1>1, <1>3, <1>5, <2>2, <3>1, MarkerAsBefore
  <2> QED BY <2>1, <2>2
<1> QED BY <1>1, <1>4, <1>5 DEF MarkChannelActive

(* A call that stops may take the marker with it.                          *)
LEMMA ClearsKeepMarkers ==
    ASSUME VoiceTypeOK, MarkersInv, NEW c \in Calls, ClearChannel(c)
    PROVE  MarkersInv'
<1>1. /\ Caller[c] \in Customers /\ ~OnCall(c)'
      /\ \A d \in Calls : d # c => (OnCall(d)' <=> OnCall(d))
    BY VoiceAssumption, OneCallMoves DEF ClearChannel, OnCall
<1>2. tried' = tried \ {c} /\ c \notin exposed' /\ missed'[c] = 0 /\ dark'[c] = 0
    BY DEF ClearChannel, VoiceTypeOK
<1>3. \A d \in Calls : d # c => missed'[d] = missed[d] /\ dark'[d] = dark[d]
    BY DEF ClearChannel, VoiceTypeOK
<1> SUFFICES ASSUME NEW d \in Calls PROVE MarkerOf(d)'
    BY DEF MarkersInv
<1>4. CASE d = c
    BY <1>1, <1>2, <1>4 DEF MarkerOf
<1>5. ASSUME d # c, ~OnCall(d) PROVE MarkerOf(d)'
  <2>1. d \notin exposed'
    <3>1. d \notin exposed /\ d \notin OnThePhone(Caller[c])
        BY <1>5 DEF MarkersInv, MarkerOf, OnCall, OnThePhone
    <3> QED BY <3>1 DEF ClearChannel
  <2> QED BY <1>1, <1>2, <1>3, <1>5, <2>1 DEF MarkersInv, MarkerOf
<1>6. ASSUME d # c, OnCall(d) PROVE MarkerOf(d)'
  <2>1. MarkerOf(d) /\ d \in exposed => d \in exposed'
      BY <1>6 DEF MarkersInv, ClearChannel
  <2>2. CASE presence'[Caller[d]] = presence[Caller[d]]
    <3>1. (d \in tried' <=> d \in tried) /\ Untried(d)' = Untried(d)
        BY <1>2, <1>6 DEF Untried
    <3>2. MarkerOf(d)
        BY DEF MarkersInv
    <3> QED BY <1>1, <1>3, <1>6, <2>1, <2>2, <3>1, <3>2 DEF MarkerOf
  <2>3. CASE presence'[Caller[d]] # presence[Caller[d]]
    <3>1. /\ Caller[d] = Caller[c] /\ presence'[Caller[d]] = 0
          /\ exposed' = (exposed \cup OnThePhone(Caller[c])) \ {c}
      <4>1. /\ presence' = [presence EXCEPT ![Caller[c]] = 0]
            /\ exposed' = (exposed \cup OnThePhone(Caller[c])) \ {c}
          BY <2>3 DEF ClearChannel
      <4>2. Caller[d] \in Customers /\ Caller[c] \in Customers /\ DOMAIN presence = Customers
          BY VoiceAssumption DEF VoiceTypeOK
      <4> QED BY <2>3, <4>1, <4>2
    <3>2. d \in exposed'
        BY <1>6, <3>1 DEF OnThePhone, OnCall
    <3>3. Untried(d)' = Untried(d)
        BY <1>2, <1>6 DEF Untried
    <3> QED BY <1>1, <1>3, <1>6, <3>1, <3>2, <3>3 DEF MarkersInv, MarkerOf
  <2> QED BY <2>2, <2>3
<1> QED BY <1>4, <1>5, <1>6

(* A period costs each marker one of its own, and a call that was without  *)
(* one has tried once more to get it.                                      *)
LEMMA PeriodsKeepMarkers ==
    ASSUME VoiceTypeOK, MarkersInv, PeriodPasses
    PROVE  MarkersInv'
<1> SUFFICES ASSUME NEW d \in Calls PROVE MarkerOf(d)'
    BY DEF MarkersInv
<1> DEFINE P == presence[Caller[d]]
           Q == IF P > 0 THEN P - 1 ELSE 0
<1>1. /\ MarkerOf(d) /\ Caller[d] \in Customers /\ P \in 0..3
      /\ missed[d] \in Nat /\ dark[d] \in Nat
    BY VoiceAssumption DEF MarkersInv, VoiceTypeOK, PresenceTtl
<1>2. presence'[Caller[d]] = Q
    BY <1>1 DEF PeriodPasses, Marked
<1>3. d \in OnThePhone(Caller[d]) <=> OnCall(d)
    BY DEF OnThePhone, OnCall
<1>4. dark'[d] = IF OnCall(d) /\ Q = 0 THEN dark[d] + 1 ELSE 0
    BY <1>3 DEF PeriodPasses, Marked
<1>5. /\ Untried(d)' = 1 /\ missed'[d] = missed[d] /\ d \notin tried'
      /\ (d \in exposed' <=> d \in exposed) /\ (OnCall(d)' <=> OnCall(d))
    BY DEF PeriodPasses, Untried, OnCall
<1>6. CASE OnCall(d)
  <2>1. Untried(d) = 0
      BY <1>1, <1>3, <1>6 DEF PeriodPasses, Untried
  <2>2. /\ d \in exposed \/ P + missed[d] >= 3
        /\ dark[d] <= missed[d]
        /\ P > 0 => dark[d] = 0
      BY <1>1, <1>6, <2>1 DEF MarkerOf, PresenceTtl
  <2> HIDE DEF P
  <2>3. /\ d \in exposed \/ Q + missed[d] + 1 >= 3
        /\ dark'[d] <= missed[d] + 1
        /\ Q > 0 => dark'[d] = 0
      BY <1>1, <1>4, <1>6, <2>2
  <2> HIDE DEF Q
  <2> QED BY <1>2, <1>5, <1>6, <2>3 DEF MarkerOf, PresenceTtl
<1>7. CASE ~OnCall(d)
    BY <1>1, <1>4, <1>5, <1>7 DEF MarkerOf
<1> QED BY <1>6, <1>7

LEMMA MarkersAreKept == VoiceTypeOK /\ MarkersInv /\ [VoiceNext]_voiceVars => MarkersInv'
<1> SUFFICES ASSUME VoiceTypeOK, MarkersInv, [VoiceNext]_voiceVars PROVE MarkersInv'
    OBVIOUS
<1>1. ASSUME UNCHANGED markerVars, \A d \in Calls : OnCall(d)' <=> OnCall(d)
      PROVE  MarkersInv'
    BY <1>1, MarkerAsBefore DEF MarkersInv, markerVars
<1>2. ASSUME NEW c \in Calls, Register(c) PROVE MarkersInv'
    BY <1>1, <1>2, OneCallMoves DEF Register, Move, OnCall
<1>3. ASSUME NEW c \in Calls, Unregister(c) PROVE MarkersInv'
    BY <1>1, <1>3, OneCallMoves DEF Unregister, Move, OnCall
<1>4. ASSUME NEW c \in Calls, NEW conv \in Conversations, Alias(c, conv) PROVE MarkersInv'
    BY <1>1, <1>4 DEF Alias, OnCall
<1>5. ASSUME NEW w \in Hosts, HostCrash(w) PROVE MarkersInv'
  <2> SUFFICES ASSUME NEW d \in Calls PROVE MarkerOf(d)'
      BY DEF MarkersInv
  <2>1. call'[d] = (IF host[d] = w /\ call[d] # "ringing" THEN "over" ELSE call[d])
        /\ MarkerOf(d) /\ presence' = presence
      BY <1>5 DEF HostCrash, MarkersInv
  <2>2. CASE host[d] = w
    <3>1. ~OnCall(d)' /\ dark'[d] = 0 /\ missed'[d] = 0 /\ d \notin tried' /\ d \notin exposed'
        BY <1>5, <2>1, <2>2 DEF HostCrash, OnCall
    <3> QED BY <3>1 DEF MarkerOf
  <2>3. CASE host[d] # w
    <3>1. /\ (OnCall(d)' <=> OnCall(d)) /\ dark'[d] = dark[d] /\ missed'[d] = missed[d]
          /\ (d \in tried' <=> d \in tried) /\ (d \in exposed' <=> d \in exposed)
        BY <1>5, <2>1, <2>3 DEF HostCrash, OnCall
    <3> QED BY <2>1, <3>1, MarkerAsBefore
  <2> QED BY <2>2, <2>3
<1>6. CASE UNCHANGED voiceVars
    BY <1>1, <1>6 DEF voiceVars, OnCall
<1> QED BY <1>2, <1>3, <1>4, <1>5, <1>6, TriesKeepMarkers, ClearsKeepMarkers,
           PeriodsKeepMarkers DEF VoiceNext

(* What the registry of one process must satisfy, in terms of its entries. *)
Follows(S, w) ==
    /\ \A s \in S : [key |-> s.call, call |-> s.call] \in S
    /\ \A s \in S : s.key \in Calls => s.call = s.key
    /\ \A s, t \in S : s.key = t.key => s = t
    /\ \A c \in Calls : host[c] = w =>
          ((\E s \in S : s.key = c) <=> call[c] \in {"live", "leaving"})

(* Every registry satisfies it.                                            *)
RegistryInv == \A w \in Hosts : Follows(sessions[w], w)

LEMMA RegistryInOneFormula == RegistryInv <=> RegistryFollowsCalls /\ StreamsNameThemselves
BY DEF RegistryInv, Follows, RegistryFollowsCalls, StreamsNameThemselves, Lookup

LEMMA OtherPhases ==
    ASSUME RegistryInv, UNCHANGED <<host, sessions>>,
           \A c \in Calls : call'[c] \in {"live", "leaving"} <=> call[c] \in {"live", "leaving"}
    PROVE  RegistryInv'
BY DEF RegistryInv, Follows

LEMMA RegistryIsKept == VoiceTypeOK /\ RegistryInv /\ [VoiceNext]_voiceVars => RegistryInv'
<1> SUFFICES ASSUME VoiceTypeOK, RegistryInv, [VoiceNext]_voiceVars PROVE RegistryInv'
    OBVIOUS
<1>1. ASSUME NEW c \in Calls, MarkActive(c) PROVE RegistryInv'
    BY <1>1, OneCallMoves, OtherPhases DEF MarkActive, Move
<1>2. ASSUME NEW c \in Calls, RefreshPresence(c) PROVE RegistryInv'
    BY <1>2, OtherPhases DEF RefreshPresence
<1>3. ASSUME NEW c \in Calls, ClearChannel(c) PROVE RegistryInv'
    BY <1>3, OneCallMoves, OtherPhases DEF ClearChannel, Move
<1>4. ASSUME NEW c \in Calls, Register(c) PROVE RegistryInv'
  <2> DEFINE v == host[c]
  <2>1. v \in Hosts /\ c \in Keys /\ call[c] = "starting" /\ host' = host
      BY <1>4 DEF VoiceTypeOK, Keys, Register, Move
  <2>2. /\ sessions'[v] = {s \in sessions[v] : s.key # c} \cup {[key |-> c, call |-> c]}
        /\ \A w \in Hosts : w # v => sessions'[w] = sessions[w]
      BY <1>4, <2>1, PuttingAnEntry DEF Register
  <2>3. call'[c] = "live" /\ \A d \in Calls : d # c => call'[d] = call[d]
      BY <1>4, OneCallMoves DEF Register
  <2>4. \A s \in sessions[v] : s.key # c
      BY <2>1 DEF RegistryInv, Follows
  <2>5. \A s \in sessions[v] : s.call # c
    <3>1. \A s \in sessions[v] : [key |-> s.call, call |-> s.call] \in sessions[v]
        BY <2>1 DEF RegistryInv, Follows
    <3> QED BY <2>4, <3>1
  <2>6. sessions'[v] = sessions[v] \cup {[key |-> c, call |-> c]}
      BY <2>2, <2>4
  <2>7. Follows(sessions[v], v)
      BY <2>1 DEF RegistryInv
  <2>8. Follows(sessions[v], v)'
    <3>1. ASSUME NEW s \in sessions'[v]
          PROVE  [key |-> s.call, call |-> s.call] \in sessions'[v]
      <4>1. CASE s = [key |-> c, call |-> c]
          BY <4>1, <2>6
      <4>2. CASE s \in sessions[v]
        <5>1. [key |-> s.call, call |-> s.call] \in sessions[v]
            BY <4>2, <2>7 DEF Follows
        <5> QED BY <5>1, <2>6
      <4> QED BY <4>1, <4>2, <2>6
    <3>2. \A s \in sessions'[v] : s.key \in Calls => s.call = s.key
        BY <2>6, <2>7 DEF Follows
    <3>3. \A s, t \in sessions'[v] : s.key = t.key => s = t
        BY <2>4, <2>6, <2>7 DEF Follows
    <3>4. ASSUME NEW d \in Calls, host[d] = v
          PROVE  (\E s \in sessions'[v] : s.key = d) <=> call'[d] \in {"live", "leaving"}
      <4>1. CASE d = c
        <5>1. [key |-> c, call |-> c] \in sessions'[v] /\ [key |-> c, call |-> c].key = c
            BY <2>6
        <5> QED BY <4>1, <5>1, <2>3
      <4>2. CASE d # c
        <5>1. (\E s \in sessions[v] : s.key = d) <=> call[d] \in {"live", "leaving"}
            BY <3>4, <2>7 DEF Follows
        <5>2. (\E s \in sessions'[v] : s.key = d) <=> \E s \in sessions[v] : s.key = d
            BY <4>2, <2>6
        <5> QED BY <4>2, <5>1, <5>2, <2>3
      <4> QED BY <4>1, <4>2
    <3> QED BY <2>1, <3>1, <3>2, <3>3, <3>4 DEF Follows
  <2>9. ASSUME NEW w \in Hosts, w # v PROVE Follows(sessions[w], w)'
    <3>1. Follows(sessions[w], w)
        BY DEF RegistryInv
    <3> QED BY <2>1, <2>2, <2>3, <2>9, <3>1 DEF Follows
  <2> QED BY <2>8, <2>9, <2>1 DEF RegistryInv
<1>5. ASSUME NEW c \in Calls, NEW conv \in Conversations, Alias(c, conv) PROVE RegistryInv'
  <2> DEFINE v == host[c]
  <2>1. v \in Hosts /\ conv \in Keys /\ conv \notin Calls /\ UNCHANGED <<host, call>>
      BY <1>5, VoiceAssumption DEF VoiceTypeOK, Keys, Alias
  <2>2. /\ sessions'[v] = {s \in sessions[v] : s.key # conv} \cup {[key |-> conv, call |-> c]}
        /\ \A w \in Hosts : w # v => sessions'[w] = sessions[w]
      BY <1>5, <2>1, PuttingAnEntry DEF Alias
  <2>3. Follows(sessions[v], v)
      BY <2>1 DEF RegistryInv
  <2>4. [key |-> c, call |-> c] \in sessions[v]
      BY <1>5, <2>1, <2>3, EntriesOfTheRegistry DEF Alias, Lookup, Follows
  <2>5. \A d \in Calls : [key |-> d, call |-> d] \in sessions[v]
                             => [key |-> d, call |-> d] \in sessions'[v]
      BY <2>1, <2>2
  <2>6. \A s \in sessions[v] : s.call \in Calls
      BY <2>1, EntriesOfTheRegistry
  <2>7. Follows(sessions[v], v)'
    <3>1. ASSUME NEW s \in sessions'[v]
          PROVE  [key |-> s.call, call |-> s.call] \in sessions'[v]
      <4>1. CASE s = [key |-> conv, call |-> c]
          BY <4>1, <2>4, <2>5
      <4>2. CASE s \in sessions[v]
        <5>1. [key |-> s.call, call |-> s.call] \in sessions[v]
            BY <4>2, <2>3 DEF Follows
        <5> QED BY <4>2, <5>1, <2>5, <2>6
      <4> QED BY <4>1, <4>2, <2>2
    <3>2. \A s \in sessions'[v] : s.key \in Calls => s.call = s.key
        BY <2>1, <2>2, <2>3 DEF Follows
    <3>3. \A s, t \in sessions'[v] : s.key = t.key => s = t
        BY <2>2, <2>3 DEF Follows
    <3>4. \A d \in Calls : (\E s \in sessions'[v] : s.key = d) <=> \E s \in sessions[v] : s.key = d
        BY <2>1, <2>2
    <3>5. \A d \in Calls : host[d] = v =>
             ((\E s \in sessions'[v] : s.key = d) <=> call[d] \in {"live", "leaving"})
        BY <2>3, <3>4 DEF Follows
    <3> QED BY <2>1, <3>1, <3>2, <3>3, <3>5 DEF Follows
  <2>8. ASSUME NEW w \in Hosts, w # v PROVE Follows(sessions[w], w)'
    <3>1. Follows(sessions[w], w)
        BY DEF RegistryInv
    <3> QED BY <2>1, <2>2, <2>8, <3>1 DEF Follows
  <2> QED BY <2>7, <2>8, <2>1 DEF RegistryInv
<1>6. ASSUME NEW c \in Calls, Unregister(c) PROVE RegistryInv'
  <2> DEFINE v == host[c]
  <2>1. v \in Hosts /\ call[c] = "leaving" /\ host' = host
      BY <1>6 DEF VoiceTypeOK, Unregister, Move
  <2>2. call'[c] = "over" /\ \A d \in Calls : d # c => call'[d] = call[d]
      BY <1>6, OneCallMoves DEF Unregister
  <2>3. Follows(sessions[v], v)
      BY <2>1 DEF RegistryInv
  <2>4. PICK t \in sessions[v] : t.key = c
      BY <2>1, <2>3 DEF Follows
  <2>5. \A s \in Lookup(v, c) : s = t
      BY <2>3, <2>4 DEF Follows, Lookup
  <2>6. t \in Lookup(v, c) /\ t.call = c
      BY <2>3, <2>4 DEF Follows, Lookup
  <2>7. /\ sessions'[v] = {s \in sessions[v] : s.call # c}
        /\ \A w \in Hosts : w # v => sessions'[w] = sessions[w]
    <3>1. Unregistered(v, c) = {s \in sessions[v] : s.call # c}
        BY <2>5, <2>6 DEF Unregistered
    <3> QED BY <1>6, <2>1, <3>1 DEF Unregister, VoiceTypeOK
  <2>8. Follows(sessions[v], v)'
    <3>1. \A s \in sessions'[v] : [key |-> s.call, call |-> s.call] \in sessions'[v]
        BY <2>7, <2>3 DEF Follows
    <3>2. \A s \in sessions'[v] : s.key \in Calls => s.call = s.key
        BY <2>7, <2>3 DEF Follows
    <3>3. \A s, u \in sessions'[v] : s.key = u.key => s = u
        BY <2>7, <2>3 DEF Follows
    <3>4. ASSUME NEW d \in Calls, host[d] = v
          PROVE  (\E s \in sessions'[v] : s.key = d) <=> call'[d] \in {"live", "leaving"}
      <4>1. CASE d = c
          BY <4>1, <2>2, <2>3, <2>7 DEF Follows
      <4>2. CASE d # c
          BY <4>2, <3>4, <2>2, <2>3, <2>7 DEF Follows
      <4> QED BY <4>1, <4>2
    <3> QED BY <2>1, <3>1, <3>2, <3>3, <3>4 DEF Follows
  <2>9. ASSUME NEW w \in Hosts, w # v PROVE Follows(sessions[w], w)'
    <3>1. Follows(sessions[w], w)
        BY DEF RegistryInv
    <3> QED BY <2>1, <2>2, <2>7, <2>9, <3>1 DEF Follows
  <2> QED BY <2>8, <2>9, <2>1 DEF RegistryInv
<1>7. CASE PeriodPasses
    BY <1>7, OtherPhases DEF PeriodPasses
<1>8. ASSUME NEW w \in Hosts, HostCrash(w) PROVE RegistryInv'
  <2>1. /\ host' = host
        /\ \A c \in Calls : call'[c] = IF host[c] = w /\ call[c] # "ringing"
                                       THEN "over" ELSE call[c]
      BY <1>8 DEF HostCrash
  <2>2. sessions'[w] = {} /\ \A v \in Hosts : v # w => sessions'[v] = sessions[v]
      BY <1>8 DEF HostCrash, VoiceTypeOK
  <2>3. ASSUME NEW v \in Hosts PROVE Follows(sessions[v], v)'
    <3>1. Follows(sessions[v], v)
        BY DEF RegistryInv
    <3>2. CASE v = w
        BY <3>2, <2>1, <2>2 DEF Follows
    <3>3. CASE v # w
        BY <3>3, <2>1, <2>2, <3>1 DEF Follows
    <3> QED BY <3>2, <3>3
  <2> QED BY <2>3 DEF RegistryInv
<1>9. CASE UNCHANGED voiceVars
    BY <1>9, OtherPhases DEF voiceVars
<1> QED BY <1>1, <1>2, <1>3, <1>4, <1>5, <1>6, <1>7, <1>8, <1>9 DEF VoiceNext

(* The calls keep their invariant, through any order of starts, ends,      *)
(* crashes and periods, whichever of their marks and refreshes fail.       *)
THEOREM VoiceInvariance == VoiceSpec => []VoiceInv
<1>1. VoiceInv /\ [VoiceNext]_voiceVars => VoiceInv'
  <2>1. VoiceInv <=> VoiceTypeOK /\ MarkersInv /\ RegistryInv
      BY RegistryInOneFormula DEF VoiceInv
  <2>2. VoiceInv' <=> VoiceTypeOK' /\ MarkersInv' /\ RegistryInv'
      BY <2>1, RegistryInOneFormula, PTL DEF VoiceInv
  <2> QED BY <2>1, <2>2, VoiceTypes, MarkersAreKept, RegistryIsKept
<1> QED BY VoiceStarts, <1>1, PTL DEF VoiceSpec

(* For any number of calls, callers and processes, and of Redis commands   *)
(* that fail: a customer on the phone is marked as such unless her call    *)
(* never got its marker, another call of hers took it, or two refreshes in *)
(* a row failed, and then for no longer than those that fail and one       *)
(* period; and the registry of a process names exactly its live calls.     *)
THEOREM CallsStayTracked == VoiceSpec => []CallsAreTracked
<1>1. VoiceInv => CallsAreTracked
    BY MarkersMark DEF VoiceInv, CallsAreTracked
<1> QED BY VoiceInvariance, <1>1, PTL

-----------------------------------------------------------------------------
(* Privacy.                                                                *)

(* The threads are of the customer there is now, and every entry of that   *)
(* customer belongs to one of them; entry numbers are not reused.          *)
OneCustomer ==
    /\ \A t \in threads : t.of = life /\ t.id <= opened
    /\ \A e \in entries : e.of <= lives /\ e.id <= written
    /\ \A e \in entries : e.of = life => \E t \in threads : t.id = e.thread
    /\ \A d, e \in entries : d.id = e.id => d = e

(* An erasure that has passed a table has listed, or is about to delete,   *)
(* every tool call of the customer but the ones written after it looked.   *)
Passed ==
    /\ erasure.stage = "none" => erasure = NoErasure
    /\ erasure.stage # "none" => erasure.of = life /\ life # 0
    /\ erasure.stage = "listed" => \A e \in entries :
          e.kind = "tool" /\ e.of = life => e.late \/ e.thread \in erasure.listed
    /\ erasure.stage \in {"tools", "threads"} => \A e \in entries :
          e.kind = "tool" /\ e.of = life => e.late \/ e.id \in erasure.doomed

(* The entries the export under way owes the customer, as long as the      *)
(* customer is the same.                                                   *)
Owed == {e \in entries : e.id \in export.owed /\ e.of = life}

(* An export has dumped what it owes of the tables it has passed.          *)
Told ==
    /\ \A i \in export.owed : i <= written
    /\ \A e \in entries : e.id \in export.owed => e.of = export.of
    /\ export.stage \in {"listed", "messages", "tools"} =>
          \A e \in Owed : e.thread \in export.listed
    /\ export.stage \in {"messages", "tools", "answered"} =>
          \A e \in Owed : e.kind = "message" => e.id \in export.dump
    /\ export.stage \in {"tools", "answered"} =>
          \A e \in Owed : e.kind = "tool" => e.id \in export.dump
    /\ export.stage = "answered" =>
          \A e \in Owed : e.kind = "order" => e.id \in export.dump

(* What is left of a customer who was erased are tool calls written while  *)
(* the erasure ran.                                                        *)
Gone == \A e \in entries : e.of # life => e.kind = "tool" /\ e.late

(* The invariant of the privacy requests.                                  *)
PrivacyInv == PrivacyTypeOK /\ OneCustomer /\ Passed /\ Gone /\ Told

LEMMA PrivacyStarts == PrivacyInit => PrivacyInv
<1> SUFFICES ASSUME PrivacyInit PROVE PrivacyInv
    OBVIOUS
<1>1. NoErasure \in Erasure /\ NoExport \in Export
    BY PrivacyAssumption DEF NoErasure, NoExport, Erasure, Export
<1>2. PrivacyTypeOK
    BY <1>1, PrivacyAssumption DEF PrivacyInit, PrivacyTypeOK
<1>3. OneCustomer /\ Gone
    BY DEF PrivacyInit, OneCustomer, Gone
<1>4. Passed
    BY DEF PrivacyInit, Passed, NoErasure
<1>5. Told
    BY DEF PrivacyInit, Told, Owed, NoExport
<1> QED BY <1>2, <1>3, <1>4, <1>5 DEF PrivacyInv

LEMMA PrivacyFields ==
    ASSUME PrivacyTypeOK
    PROVE  /\ life \in Nat /\ lives \in Nat /\ life <= lives /\ lives <= MaxLives
           /\ holds \in Nat /\ opened \in Nat /\ written \in Nat
           /\ \A t \in threads : t.id \in 1..MaxThreads /\ t.of \in Lives /\ t.of \in Nat
           /\ \A e \in entries : /\ e.id \in 1..MaxEntries /\ e.of \in Lives /\ e.of \in Nat
                                 /\ e.id \in Nat /\ e.thread \in Nat
                                 /\ e.kind \in {"message", "order", "tool"}
           /\ ThreadsOf(life) \in SUBSET (1..MaxThreads)
BY PrivacyAssumption DEF PrivacyTypeOK, Thread, Entry, Lives, ThreadsOf

(* The entries stay as they are, and so do the customer and the threads.   *)
LEMMA NothingWritten ==
    ASSUME OneCustomer, Gone, UNCHANGED <<life, lives, threads, entries, opened, written>>
    PROVE  OneCustomer' /\ Gone'
BY DEF OneCustomer, Gone

LEMMA NoErasureStep ==
    ASSUME Passed, UNCHANGED <<life, entries, erasure>>
    PROVE  Passed'
BY DEF Passed

LEMMA NoExportStep ==
    ASSUME Told, UNCHANGED <<life, entries, written, export>>
    PROVE  Told'
BY DEF Told, Owed

LEMMA OpensKeepsPrivacy == PrivacyInv /\ TurnOpens => PrivacyInv'
<1> SUFFICES ASSUME PrivacyInv, TurnOpens PROVE PrivacyInv'
    OBVIOUS
<1>1. /\ UNCHANGED <<entries, erasure, export, written>>
      /\ \/ life = 0 /\ lives < MaxLives /\ lives' = lives + 1 /\ life' = lives + 1
         \/ life # 0 /\ life' = life /\ lives' = lives
      /\ \/ holds' \in ThreadsOf(life) /\ UNCHANGED <<threads, opened>>
         \/ /\ opened < MaxThreads /\ opened' = opened + 1 /\ holds' = opened + 1
            /\ threads' = threads \cup {[id |-> opened + 1, of |-> life']}
    BY DEF TurnOpens
<1>2. life \in Nat /\ lives \in Nat /\ opened \in Nat /\ life <= lives /\ lives <= MaxLives
    BY PrivacyFields DEF PrivacyInv
<1>3. life' \in 1..lives' /\ lives' \in 0..MaxLives /\ life' \in Lives
    BY <1>1, <1>2, PrivacyAssumption DEF Lives
<1>4. \A t \in threads : t.of = life /\ t.id <= opened /\ life # 0
  <2>1. \A t \in threads : t.of \in Lives /\ t.of = life /\ t.id <= opened
      BY PrivacyFields DEF PrivacyInv, OneCustomer
  <2> QED BY <2>1 DEF Lives
<1>5. threads \subseteq threads' /\ opened' \in 0..MaxThreads /\ opened <= opened'
    BY <1>1, <1>2, PrivacyAssumption DEF PrivacyInv, PrivacyTypeOK
<1>6. threads' \subseteq Thread
  <2>1. opened < MaxThreads => [id |-> opened + 1, of |-> life'] \in Thread
      BY <1>2, <1>3, PrivacyAssumption DEF Thread
  <2> QED BY <1>1, <2>1 DEF PrivacyInv, PrivacyTypeOK
<1>7. holds' \in 0..opened'
  <2>1. ASSUME holds' \in ThreadsOf(life), opened' = opened PROVE holds' \in 0..opened'
    <3>1. PICK t \in threads : holds' = t.id
        BY <2>1 DEF ThreadsOf
    <3>2. t.id \in 1..MaxThreads /\ t.id <= opened
        BY <1>4, PrivacyFields DEF PrivacyInv
    <3> QED BY <2>1, <3>1, <3>2, <1>2
  <2> QED BY <1>1, <1>2, <2>1
<1>8. PrivacyTypeOK'
    BY <1>1, <1>3, <1>5, <1>6, <1>7 DEF PrivacyInv, PrivacyTypeOK
<1>9. \A e \in entries : e.of \in Nat /\ e.of <= lives /\ e.of # 0
    BY PrivacyFields DEF PrivacyInv, OneCustomer, Lives
<1>10. life' # life => life = 0 /\ \A e \in entries : e.of # life'
    BY <1>1, <1>2, <1>9
<1>11. OneCustomer'
  <2>1. \A t \in threads' : t.of = life' /\ t.id <= opened'
    <3> SUFFICES ASSUME NEW t \in threads' PROVE t.of = life' /\ t.id <= opened'
        OBVIOUS
    <3>1. CASE t \in threads
        BY <3>1, <1>2, <1>4, <1>5, <1>10, PrivacyFields DEF PrivacyInv
    <3>2. CASE t \notin threads
        BY <3>2, <1>1, <1>2
    <3> QED BY <3>1, <3>2
  <2>2. \A e \in entries : e.of <= lives'
      BY <1>1, <1>2, <1>9
  <2>3. \A e \in entries : e.of = life' => \E t \in threads' : t.id = e.thread
      BY <1>5, <1>10 DEF PrivacyInv, OneCustomer
  <2> QED BY <1>1, <2>1, <2>2, <2>3 DEF PrivacyInv, OneCustomer
<1>12. Passed'
  <2>1. erasure.stage # "none" => life' = life
      BY <1>10 DEF PrivacyInv, Passed
  <2> QED BY <1>1, <2>1 DEF PrivacyInv, Passed
<1>13. Gone'
    BY <1>1, <1>9, <1>10 DEF PrivacyInv, Gone
<1>14. Told'
  <2>1. \A e \in Owed' : e \in Owed
      BY <1>1, <1>10 DEF Owed
  <2> QED BY <1>1, <2>1 DEF PrivacyInv, Told
<1> QED BY <1>8, <1>11, <1>12, <1>13, <1>14 DEF PrivacyInv

LEMMA WritesKeepsPrivacy == PrivacyInv /\ TurnWrites => PrivacyInv'
<1> SUFFICES ASSUME PrivacyInv, TurnWrites PROVE PrivacyInv'
    OBVIOUS
<1>1. /\ UNCHANGED <<life, lives, threads, holds, erasure, export, opened>>
      /\ written < MaxEntries /\ written' = written + 1
    BY DEF TurnWrites
<1>2. PICK kind \in {"message", "order", "tool"}, t \in Holding :
         entries' = entries \cup {[id |-> written', kind |-> kind, thread |-> holds,
                                   of |-> t.of, late |-> Escapes(t)]}
    BY DEF TurnWrites
<1> DEFINE new == [id |-> written', kind |-> kind, thread |-> holds,
                   of |-> t.of, late |-> Escapes(t)]
<1>3. t \in threads /\ t.id = holds /\ t.of = life
    BY DEF Holding, PrivacyInv, OneCustomer
<1>4. /\ t.of \in Lives /\ t.of \in Nat /\ t.of # 0 /\ t.of <= lives
      /\ holds \in 1..MaxThreads
  <2>1. t.of \in Lives /\ t.of \in Nat /\ t.id \in 1..MaxThreads /\ life <= lives
      BY <1>3, PrivacyFields DEF PrivacyInv
  <2> QED BY <1>3, <2>1 DEF Lives
<1>5. written \in Nat /\ written' \in 1..MaxEntries
    BY <1>1, PrivacyFields, PrivacyAssumption DEF PrivacyInv
<1>6. Escapes(t) \in BOOLEAN
    BY DEF Escapes
<1>7. new \in Entry
  <2>1. holds \in 0..MaxThreads
      BY <1>4
  <2> QED BY <1>4, <1>5, <1>6, <2>1 DEF Entry
<1>8. PrivacyTypeOK'
    BY <1>1, <1>2, <1>5, <1>7 DEF PrivacyInv, PrivacyTypeOK
<1>9. \A e \in entries : e.id \in Nat /\ e.id <= written /\ e.id # written'
    BY <1>1, <1>5, PrivacyFields DEF PrivacyInv, OneCustomer
<1>10. OneCustomer'
  <2>1. \A e \in entries' : e.of <= lives /\ e.id <= written'
      BY <1>1, <1>2, <1>4, <1>5, <1>9 DEF PrivacyInv, OneCustomer
  <2>2. \A e \in entries' : e.of = life => \E u \in threads : u.id = e.thread
      BY <1>2, <1>3 DEF PrivacyInv, OneCustomer
  <2>3. \A d, e \in entries' : d.id = e.id => d = e
      BY <1>2, <1>9 DEF PrivacyInv, OneCustomer
  <2> QED BY <1>1, <2>1, <2>2, <2>3 DEF PrivacyInv, OneCustomer
<1>11. Passed'
  <2>1. erasure.stage = "listed" => Escapes(t) \/ holds \in erasure.listed
      BY <1>3 DEF Escapes, PrivacyInv, Passed
  <2>2. erasure.stage \in {"tools", "threads"} => Escapes(t)
      BY <1>3 DEF Escapes, PrivacyInv, Passed
  <2>3. ASSUME erasure.stage = "listed", NEW e \in entries', e.kind = "tool", e.of = life
        PROVE  e.late \/ e.thread \in erasure.listed
    <3>1. CASE e \in entries
        BY <3>1, <2>3 DEF PrivacyInv, Passed
    <3>2. CASE e = new
        BY <3>2, <2>1, <2>3
    <3> QED BY <3>1, <3>2, <1>2
  <2>4. ASSUME erasure.stage \in {"tools", "threads"},
               NEW e \in entries', e.kind = "tool", e.of = life
        PROVE  e.late \/ e.id \in erasure.doomed
    <3>1. CASE e \in entries
        BY <3>1, <2>4 DEF PrivacyInv, Passed
    <3>2. CASE e = new
        BY <3>2, <2>2, <2>4
    <3> QED BY <3>1, <3>2, <1>2
  <2> QED BY <1>1, <2>3, <2>4 DEF PrivacyInv, Passed
<1>12. Gone'
    BY <1>1, <1>2, <1>3 DEF PrivacyInv, Gone
<1>13. Told'
  <2>1. written' \notin export.owed /\ \A i \in export.owed : i <= written'
    <3>1. \A i \in export.owed : i \in Nat /\ i <= written
        BY DEF PrivacyInv, PrivacyTypeOK, Export, Told
    <3> QED BY <1>1, <1>5, <3>1
  <2>2. \A e \in entries' : e.id \in export.owed => e \in entries
      BY <1>2, <2>1
  <2>3. Owed' = Owed
      BY <1>1, <1>2, <2>2 DEF Owed
  <2> QED BY <1>1, <2>1, <2>2, <2>3 DEF PrivacyInv, Told
<1> QED BY <1>8, <1>10, <1>11, <1>12, <1>13 DEF PrivacyInv

LEMMA ForgetsKeepsPrivacy ==
    PrivacyInv /\ (Forgets \/ ForgetsTools \/ ForgetsThreads) => PrivacyInv'
<1> SUFFICES ASSUME PrivacyInv, Forgets \/ ForgetsTools \/ ForgetsThreads PROVE PrivacyInv'
    OBVIOUS
<1>1. UNCHANGED <<life, lives, threads, entries, holds, export, opened, written>>
    BY DEF Forgets, ForgetsTools, ForgetsThreads
<1>2. OneCustomer' /\ Gone' /\ Told'
    BY <1>1, NothingWritten, NoExportStep DEF PrivacyInv
<1>3. erasure \in Erasure /\ life \in 0..MaxLives
    BY PrivacyFields, PrivacyAssumption DEF PrivacyInv, PrivacyTypeOK
<1>4. CASE Forgets
  <2>1. /\ erasure' = [stage |-> "listed", of |-> life, listed |-> ThreadsOf(life), doomed |-> {}]
        /\ life # 0
      BY <1>4 DEF Forgets
  <2>2. erasure' \in Erasure
      BY <1>3, <2>1, PrivacyFields DEF Erasure, PrivacyInv
  <2>3. \A e \in entries : e.of = life => e.thread \in ThreadsOf(life)
      BY DEF PrivacyInv, OneCustomer, ThreadsOf
  <2>4. Passed'
      BY <1>1, <2>1, <2>3 DEF Passed
  <2> QED BY <1>1, <1>2, <2>2, <2>4 DEF PrivacyInv, PrivacyTypeOK
<1>5. CASE ForgetsTools
  <2>1. /\ erasure.stage = "listed"
        /\ erasure' = [erasure EXCEPT !.stage = "tools",
                                      !.doomed = EntriesIn("tool", erasure.listed)]
      BY <1>5 DEF ForgetsTools
  <2>2. EntriesIn("tool", erasure.listed) \in SUBSET (1..MaxEntries)
      BY PrivacyFields DEF EntriesIn, PrivacyInv
  <2>3. /\ erasure'.stage = "tools" /\ erasure'.of = erasure.of
        /\ erasure'.doomed = EntriesIn("tool", erasure.listed)
        /\ erasure' \in Erasure
      BY <1>3, <2>1, <2>2 DEF Erasure
  <2>4. \A e \in entries : e.kind = "tool" /\ e.of = life =>
            e.late \/ e.id \in EntriesIn("tool", erasure.listed)
      BY <2>1 DEF PrivacyInv, Passed, EntriesIn
  <2>5. Passed'
      BY <1>1, <2>1, <2>3, <2>4 DEF PrivacyInv, Passed
  <2> QED BY <1>1, <1>2, <2>3, <2>5 DEF PrivacyInv, PrivacyTypeOK
<1>6. CASE ForgetsThreads
  <2>1. /\ erasure.stage = "tools"
        /\ erasure' = [erasure EXCEPT !.stage = "threads", !.listed = ThreadsOf(erasure.of)]
      BY <1>6 DEF ForgetsThreads
  <2>2. ThreadsOf(erasure.of) \in SUBSET (1..MaxThreads)
      BY PrivacyFields DEF ThreadsOf, PrivacyInv
  <2>3. /\ erasure'.stage = "threads" /\ erasure'.of = erasure.of
        /\ erasure'.doomed = erasure.doomed
        /\ erasure' \in Erasure
      BY <1>3, <2>1, <2>2 DEF Erasure
  <2>4. Passed'
      BY <1>1, <2>1, <2>3 DEF PrivacyInv, Passed
  <2> QED BY <1>1, <1>2, <2>3, <2>4 DEF PrivacyInv, PrivacyTypeOK
<1> QED BY <1>4, <1>5, <1>6

LEMMA CommitKeepsPrivacy == PrivacyInv /\ ForgetCommits => PrivacyInv'
<1> SUFFICES ASSUME PrivacyInv, ForgetCommits PROVE PrivacyInv'
    OBVIOUS
<1>1. /\ erasure.stage = "threads" /\ life' = 0
      /\ threads' = {t \in threads : t.of # erasure.of}
      /\ entries' = Left(erasure.of)
      /\ erasure' = NoErasure
      /\ UNCHANGED <<lives, holds, export, opened, written>>
    BY DEF ForgetCommits
<1>2. erasure.of = life /\ life # 0
    BY <1>1 DEF PrivacyInv, Passed
<1>3. threads' = {}
    BY <1>1, <1>2 DEF PrivacyInv, OneCustomer
<1>4. \A f \in entries' : \E e \in entries :
         /\ f \in Entry /\ f.id = e.id /\ f.of = e.of /\ f.kind = e.kind /\ f.late = e.late
         /\ f = IF e.thread \in ThreadsOf(life) THEN [e EXCEPT !.thread = 0] ELSE e
         /\ e.id \notin erasure.doomed
         /\ e.id \notin EntriesIn("message", ThreadsOf(life))
         /\ e.id \notin OrdersOf(life)
  <2> SUFFICES ASSUME NEW f \in Left(life)
               PROVE  \E e \in entries :
                 /\ f \in Entry /\ f.id = e.id /\ f.of = e.of /\ f.kind = e.kind /\ f.late = e.late
                 /\ f = IF e.thread \in ThreadsOf(life) THEN [e EXCEPT !.thread = 0] ELSE e
                 /\ e.id \notin erasure.doomed
                 /\ e.id \notin EntriesIn("message", ThreadsOf(life))
                 /\ e.id \notin OrdersOf(life)
      BY <1>1, <1>2
  <2>1. PICK e \in entries :
           /\ f = IF e.thread \in ThreadsOf(life) THEN [e EXCEPT !.thread = 0] ELSE e
           /\ e.id \notin erasure.doomed
           /\ e.id \notin EntriesIn("message", ThreadsOf(life))
           /\ e.id \notin OrdersOf(life)
      BY DEF Left
  <2>2. e \in Entry /\ 0 \in 0..MaxThreads
      BY PrivacyAssumption DEF PrivacyInv, PrivacyTypeOK
  <2>3. f \in Entry /\ f.id = e.id /\ f.of = e.of /\ f.kind = e.kind /\ f.late = e.late
      BY <2>1, <2>2 DEF Entry
  <2> QED BY <2>1, <2>3
<1>5. NoErasure \in Erasure
    BY PrivacyAssumption DEF NoErasure, Erasure
<1>6. PrivacyTypeOK'
  <2>1. entries' \subseteq Entry
      BY <1>4
  <2>2. life' \in 0..lives'
      BY <1>1, PrivacyFields DEF PrivacyInv
  <2> QED BY <1>1, <1>3, <1>5, <2>1, <2>2 DEF PrivacyInv, PrivacyTypeOK
<1>7. \A e \in entries : e.of # 0
    BY PrivacyFields DEF PrivacyInv, Lives
<1>8. OneCustomer'
  <2>1. \A f \in entries' : f.of <= lives /\ f.id <= written /\ f.of # 0
      BY <1>4, <1>7 DEF PrivacyInv, OneCustomer
  <2>2. \A f, g \in entries' : f.id = g.id => f = g
      BY <1>4 DEF PrivacyInv, OneCustomer
  <2> QED BY <1>1, <1>3, <2>1, <2>2 DEF OneCustomer
<1>9. Passed'
    BY <1>1 DEF Passed, NoErasure
<1>10. Gone'
  <2> SUFFICES ASSUME NEW f \in entries' PROVE f.kind = "tool" /\ f.late
      BY DEF Gone
  <2>1. PICK e \in entries :
         /\ f.of = e.of /\ f.kind = e.kind /\ f.late = e.late
         /\ e.id \notin erasure.doomed
         /\ e.id \notin EntriesIn("message", ThreadsOf(life))
         /\ e.id \notin OrdersOf(life)
      BY <1>4
  <2>2. CASE e.of # life
      BY <2>1, <2>2 DEF PrivacyInv, Gone
  <2>3. CASE e.of = life
    <3>1. e.kind # "order"
        BY <2>1, <2>3 DEF OrdersOf
    <3>2. e.kind # "message"
      <4>1. e.thread \in ThreadsOf(life)
          BY <2>3 DEF PrivacyInv, OneCustomer, ThreadsOf
      <4> QED BY <2>1, <4>1 DEF EntriesIn
    <3>3. e.kind = "tool"
        BY <3>1, <3>2, PrivacyFields DEF PrivacyInv
    <3>4. e.late
        BY <1>1, <2>1, <2>3, <3>3 DEF PrivacyInv, Passed
    <3> QED BY <2>1, <3>3, <3>4
  <2> QED BY <2>2, <2>3
<1>11. Told'
  <2>1. Owed' = {}
    <3>1. \A f \in entries' : f.of # 0
        BY <1>4, <1>7
    <3> QED BY <3>1, <1>1 DEF Owed
  <2>2. \A f \in entries' : f.id \in export.owed => f.of = export.of
      BY <1>4 DEF PrivacyInv, Told
  <2> QED BY <1>1, <2>1, <2>2 DEF PrivacyInv, Told
<1> QED BY <1>6, <1>8, <1>9, <1>10, <1>11 DEF PrivacyInv

LEMMA FailKeepsPrivacy == PrivacyInv /\ ForgetFails => PrivacyInv'
<1> SUFFICES ASSUME PrivacyInv, ForgetFails PROVE PrivacyInv'
    OBVIOUS
<1>1. /\ erasure.stage # "none" => erasure.of = life
      /\ erasure' = NoErasure
      /\ entries' = {[e EXCEPT !.late = e.late /\ e.of # erasure.of] : e \in entries}
      /\ UNCHANGED <<life, lives, threads, holds, export, opened, written>>
    BY DEF ForgetFails, PrivacyInv, Passed
<1>2. ASSUME NEW f \in entries'
      PROVE  \E e \in entries : /\ f = [e EXCEPT !.late = e.late /\ e.of # erasure.of]
                                /\ f \in Entry /\ f.id = e.id /\ f.of = e.of
                                /\ f.kind = e.kind /\ f.thread = e.thread
                                /\ f.late = (e.late /\ e.of # erasure.of)
  <2>1. PICK e \in entries : f = [e EXCEPT !.late = e.late /\ e.of # erasure.of]
      BY <1>1, <1>2
  <2>2. e \in Entry
      BY DEF PrivacyInv, PrivacyTypeOK
  <2>3. f \in Entry /\ f.id = e.id /\ f.of = e.of /\ f.kind = e.kind /\ f.thread = e.thread
      BY <2>1, <2>2 DEF Entry
  <2>4. f.late = (e.late /\ e.of # erasure.of)
      BY <2>1, <2>2 DEF Entry
  <2> QED BY <2>1, <2>3, <2>4
<1>3. NoErasure \in Erasure
    BY PrivacyAssumption DEF NoErasure, Erasure
<1>4. PrivacyTypeOK'
  <2>1. entries' \subseteq Entry
      BY <1>2
  <2> QED BY <1>1, <1>3, <2>1 DEF PrivacyInv, PrivacyTypeOK
<1>5. OneCustomer'
  <2>1. \A f \in entries' : f.of <= lives /\ f.id <= written
      BY <1>2 DEF PrivacyInv, OneCustomer
  <2>2. \A f \in entries' : f.of = life => \E t \in threads : t.id = f.thread
      BY <1>2 DEF PrivacyInv, OneCustomer
  <2>3. \A f, g \in entries' : f.id = g.id => f = g
      BY <1>2 DEF PrivacyInv, OneCustomer
  <2> QED BY <1>1, <2>1, <2>2, <2>3 DEF PrivacyInv, OneCustomer
<1>6. Passed'
    BY <1>1 DEF Passed, NoErasure
<1>7. Gone'
  <2> SUFFICES ASSUME NEW f \in entries', f.of # life PROVE f.kind = "tool" /\ f.late
      BY <1>1 DEF Gone
  <2>1. PICK e \in entries : /\ f.of = e.of /\ f.kind = e.kind
                             /\ f.late = (e.late /\ e.of # erasure.of)
      BY <1>2
  <2>2. erasure.of = life
      BY <1>1 DEF ForgetFails, PrivacyInv, Passed
  <2> QED BY <2>1, <2>2 DEF PrivacyInv, Gone
<1>8. Told'
  <2>1. ASSUME NEW f \in entries', f.id \in export.owed
        PROVE  /\ f.of = export.of
               /\ f.of = life => \E e \in Owed : e.id = f.id /\ e.kind = f.kind
                                                 /\ e.thread = f.thread
      BY <1>2, <2>1 DEF PrivacyInv, Told, Owed
  <2>2. \A f \in Owed' : \E e \in Owed : e.id = f.id /\ e.kind = f.kind /\ e.thread = f.thread
      BY <1>1, <2>1 DEF Owed
  <2> QED BY <1>1, <2>1, <2>2 DEF PrivacyInv, Told
<1> QED BY <1>4, <1>5, <1>6, <1>7, <1>8 DEF PrivacyInv

LEMMA ExportsKeepsPrivacy == PrivacyInv /\ (Exports \/ ExportReads) => PrivacyInv'
<1> SUFFICES ASSUME PrivacyInv, Exports \/ ExportReads PROVE PrivacyInv'
    OBVIOUS
<1>1. UNCHANGED <<life, lives, threads, entries, holds, erasure, opened, written>>
    BY DEF Exports, ExportReads, Dumps
<1>2. OneCustomer' /\ Gone' /\ Passed'
    BY <1>1, NothingWritten, NoErasureStep DEF PrivacyInv
<1>3. export \in Export /\ life \in 0..MaxLives
    BY PrivacyFields, PrivacyAssumption DEF PrivacyInv, PrivacyTypeOK
<1>4. \A kind, S : EntriesIn(kind, S) \in SUBSET (1..MaxEntries)
    BY PrivacyFields DEF EntriesIn, PrivacyInv
<1>5. \A x : OrdersOf(x) \in SUBSET (1..MaxEntries)
    BY PrivacyFields DEF OrdersOf, PrivacyInv
<1>6. CASE Exports
  <2> DEFINE mine == {e.id : e \in {d \in entries : d.of = life}}
  <2>1. export' = [stage |-> "listed", of |-> life, listed |-> ThreadsOf(life),
                   dump |-> {}, owed |-> mine]
      BY <1>6 DEF Exports
  <2>2. mine \in SUBSET (1..MaxEntries)
      BY PrivacyFields DEF PrivacyInv
  <2>3. export' \in Export
      BY <1>3, <2>1, <2>2, PrivacyFields DEF Export, PrivacyInv
  <2>4. \A i \in mine : i <= written
      BY DEF PrivacyInv, OneCustomer
  <2>5. \A e \in entries : e.id \in mine => e.of = life
      BY DEF PrivacyInv, OneCustomer
  <2>6. \A e \in entries : e.of = life => e.thread \in ThreadsOf(life)
      BY DEF PrivacyInv, OneCustomer, ThreadsOf
  <2>7. Told'
    <3>1. /\ export'.stage = "listed" /\ export'.of = life
          /\ export'.listed = ThreadsOf(life) /\ export'.owed = mine
        BY <2>1
    <3> HIDE DEF mine
    <3> QED BY <1>1, <2>4, <2>5, <2>6, <3>1 DEF Told, Owed
  <2> QED BY <1>1, <1>2, <2>3, <2>7 DEF PrivacyInv, PrivacyTypeOK
<1>7. ASSUME NEW from \in {"listed", "messages", "tools"},
             NEW to \in {"messages", "tools", "answered"},
             NEW ids \in SUBSET (1..MaxEntries), Dumps(from, to, ids)
      PROVE  /\ export.stage = from /\ export' \in Export
             /\ export'.stage = to /\ export'.dump = export.dump \cup ids
             /\ export'.owed = export.owed /\ export'.listed = export.listed
             /\ export'.of = export.of /\ Owed' = Owed
  <2>1. /\ export.stage = from
        /\ export' = [export EXCEPT !.stage = to, !.dump = @ \cup ids]
      BY <1>7 DEF Dumps
  <2>2. /\ export' \in Export
        /\ export'.stage = to /\ export'.dump = export.dump \cup ids
        /\ export'.owed = export.owed /\ export'.listed = export.listed
        /\ export'.of = export.of
      BY <1>3, <2>1 DEF Export
  <2> QED BY <1>1, <2>1, <2>2 DEF Owed
<1>8. CASE Dumps("listed", "messages", EntriesIn("message", export.listed))
  <2>1. \A e \in Owed : e.kind = "message" /\ e.thread \in export.listed
            => e.id \in EntriesIn("message", export.listed)
      BY DEF Owed, EntriesIn
  <2>2. Told'
      BY <1>1, <1>4, <1>7, <1>8, <2>1 DEF PrivacyInv, Told
  <2> QED BY <1>1, <1>2, <1>4, <1>7, <1>8, <2>2 DEF PrivacyInv, PrivacyTypeOK
<1>9. CASE Dumps("messages", "tools", EntriesIn("tool", export.listed))
  <2>1. \A e \in Owed : e.kind = "tool" /\ e.thread \in export.listed
            => e.id \in EntriesIn("tool", export.listed)
      BY DEF Owed, EntriesIn
  <2>2. Told'
      BY <1>1, <1>4, <1>7, <1>9, <2>1 DEF PrivacyInv, Told
  <2> QED BY <1>1, <1>2, <1>4, <1>7, <1>9, <2>2 DEF PrivacyInv, PrivacyTypeOK
<1>10. CASE Dumps("tools", "answered", OrdersOf(export.of))
  <2>1. \A e \in Owed : e.kind = "order" => e.id \in OrdersOf(export.of)
      BY DEF Owed, OrdersOf, PrivacyInv, Told
  <2>2. Told'
      BY <1>1, <1>5, <1>7, <1>10, <2>1 DEF PrivacyInv, Told
  <2> QED BY <1>1, <1>2, <1>5, <1>7, <1>10, <2>2 DEF PrivacyInv, PrivacyTypeOK
<1> QED BY <1>6, <1>8, <1>9, <1>10 DEF ExportReads

(* Erasures and exports keep it, whatever the turns of the customer write  *)
(* between their statements.                                               *)
THEOREM PrivacyInvariance == PrivacySpec => []PrivacyInv
<1>1. ASSUME PrivacyInv, [PrivacyNext]_privacyVars PROVE PrivacyInv'
  <2>1. CASE TurnEnds
    <3>1. UNCHANGED <<life, lives, threads, entries, erasure, export, opened, written>>
          /\ holds' = 0
        BY <2>1 DEF TurnEnds
    <3>2. OneCustomer' /\ Gone' /\ Passed' /\ Told'
        BY <1>1, <3>1, NothingWritten, NoErasureStep, NoExportStep DEF PrivacyInv
    <3>3. holds' \in 0..opened'
        BY <1>1, <3>1, PrivacyFields DEF PrivacyInv
    <3> QED BY <1>1, <3>1, <3>2, <3>3 DEF PrivacyInv, PrivacyTypeOK
  <2>2. CASE UNCHANGED privacyVars
    <3>1. UNCHANGED <<life, lives, threads, entries, holds, erasure, export, opened, written>>
        BY <2>2 DEF privacyVars
    <3>2. OneCustomer' /\ Gone' /\ Passed' /\ Told'
        BY <1>1, <3>1, NothingWritten, NoErasureStep, NoExportStep DEF PrivacyInv
    <3> QED BY <1>1, <3>1, <3>2 DEF PrivacyInv, PrivacyTypeOK
  <2> QED BY <1>1, <2>1, <2>2, OpensKeepsPrivacy, WritesKeepsPrivacy, ForgetsKeepsPrivacy,
             CommitKeepsPrivacy, FailKeepsPrivacy, ExportsKeepsPrivacy DEF PrivacyNext
<1> QED BY PrivacyStarts, <1>1, PTL DEF PrivacySpec

(* For any number of customers in a row, threads and entries: an erasure   *)
(* leaves nothing of the customer behind but tool calls written while it   *)
(* ran, and an export that is answered has everything it owed.             *)
THEOREM DataRightsHold == PrivacySpec => []DataRights
<1>1. ASSUME PrivacyInv PROVE DataRights
  <2>1. \A x \in Lives : x \notin Erased /\ x <= lives => x = life
      BY PrivacyFields, <1>1 DEF Erased, PrivacyInv, Lives
  <2>2. ErasureIsComplete
      BY <1>1 DEF PrivacyInv, Gone, OneCustomer, ErasureIsComplete, Erased
  <2>3. ExportIsWhole
    <3> SUFFICES ASSUME export.stage = "answered", NEW e \in entries,
                        e.id \in export.owed, e.of \notin Erased
                 PROVE  e.id \in export.dump
        BY DEF ExportIsWhole
    <3>1. e.of \in Lives /\ e.of <= lives /\ e.kind \in {"message", "order", "tool"}
        BY PrivacyFields, <1>1 DEF PrivacyInv, OneCustomer
    <3>2. e \in Owed
        BY <2>1, <3>1 DEF Owed
    <3> QED BY <1>1, <3>1, <3>2 DEF PrivacyInv, Told
  <2> QED BY <2>2, <2>3 DEF DataRights
<1> QED BY PrivacyInvariance, <1>1, PTL

-----------------------------------------------------------------------------
(* Broadcasts.                                                             *)

(* The run r has loaded the row and goes through the recipients.           *)
Sending(r) == run[r].stage \in {"refresh", "send", "count", "last"}

(* Runs are one at a time, unless they overlapped. *)
Alone == "overlapped" \notin past =>
    \A r, s \in Runs : run[r].stage # "idle" /\ run[s].stage # "idle" => r = s

(* A run that is about to send has a recipient left, and one that is about *)
(* to finish has none.                                                     *)
Placed == \A r \in Runs :
    /\ run[r].stage = "send" => Position(r) < Recipients
    /\ run[r].stage = "last" => Position(r) >= Recipients

(* Unless runs overlapped: who is counted, by the row or by a run, was     *)
(* written to, and a run counts on from what it loaded and what the row    *)
(* says.                                                                   *)
Backed == "overlapped" \notin past =>
    /\ \A n \in 1..Recipients : n <= bc.sent + bc.failed => texts[n] > 0
    /\ \A r \in Runs : Sending(r) =>
          /\ bc.sent <= run[r].seen.sent /\ run[r].seen.sent <= run[r].sent
          /\ bc.failed <= run[r].seen.failed /\ run[r].seen.failed <= run[r].failed
          /\ \A n \in 1..Recipients : n <= Position(r) => texts[n] > 0

(* Since the cancellation a run sent one message at most, and none if it   *)
(* has still to send one: the row was loaded before every message.         *)
Stops == \A r \in Runs :
    /\ after[r] <= 1
    /\ run[r].stage = "send" /\ bc.status = "cancelled" => after[r] = 0

(* One request at most has enqueued a job, and whoever runs runs it.       *)
OneJob ==
    /\ \A p, q \in Requests : job[p].status # "none" /\ job[q].status # "none" => p = q
    /\ \A r \in Runs : run[r].stage # "idle" => job[run[r].job].status = "running"

(* Before the first run loads the row nothing is counted and nobody was    *)
(* written to.                                                             *)
Untouched ==
    (\A r \in Runs : ~Sending(r)) /\ (\A q \in Requests : job[q].status # "done") =>
        /\ bc.sent = 0 /\ bc.failed = 0
        /\ \A n \in 1..Recipients : texts[n] = 0

(* A run at work loaded the very counts of the row, is at most the message *)
(* in hand ahead of them, and has written once to each recipient up to its *)
(* position.                                                               *)
InStep == \A r \in Runs : Sending(r) =>
    /\ run[r].seen.sent = bc.sent /\ run[r].seen.failed = bc.failed
    /\ run[r].stage # "count" => run[r].sent = bc.sent /\ run[r].failed = bc.failed
    /\ run[r].stage = "count" =>
          \/ run[r].sent = bc.sent + 1 /\ run[r].failed = bc.failed
          \/ run[r].sent = bc.sent /\ run[r].failed = bc.failed + 1
    /\ \A n \in 1..Recipients : texts[n] = IF n <= Position(r) THEN 1 ELSE 0

(* While no work was repeated or overlapped, the counts are exact.         *)
Exact == past = {} => OneJob /\ Untouched /\ InStep

(* The invariant of a broadcast.                                           *)
BroadcastInv ==
    /\ BcTypeOK
    /\ Alone /\ Placed /\ Backed /\ Stops /\ Exact
    /\ SentAsCounted

(* Runs and rows have their parts. *)
LEMMA BcParts ==
    ASSUME BcTypeOK
    PROVE  /\ bc.status \in BcStatuses /\ bc.sent \in Nat /\ bc.failed \in Nat
           /\ \A r \in Runs :
                 /\ run[r].stage \in {"idle", "started", "refresh", "send", "count", "last"}
                 /\ run[r].job \in Requests
                 /\ run[r].seen \in BcRow /\ run[r].seen.status \in BcStatuses
                 /\ run[r].seen.sent \in Nat /\ run[r].seen.failed \in Nat
                 /\ run[r].sent \in Nat /\ run[r].failed \in Nat /\ Position(r) \in Nat
                 /\ after[r] \in Nat
           /\ \A n \in 1..Recipients : texts[n] \in Nat
           /\ \A q \in Requests :
                 /\ job[q].status \in {"none", "queued", "running", "done", "failed"}
                 /\ job[q].attempts \in Nat
<1>1. bc.status \in BcStatuses /\ bc.sent \in Nat /\ bc.failed \in Nat
    BY DEF BcTypeOK, BcRow
<1>2. ASSUME NEW r \in Runs
      PROVE  /\ run[r].stage \in {"idle", "started", "refresh", "send", "count", "last"}
             /\ run[r].job \in Requests
             /\ run[r].seen \in BcRow
             /\ run[r].sent \in Nat /\ run[r].failed \in Nat /\ Position(r) \in Nat
             /\ after[r] \in Nat
    BY DEF BcTypeOK, RunType, Position
<1>3. \A b \in BcRow : b.status \in BcStatuses /\ b.sent \in Nat /\ b.failed \in Nat
    BY DEF BcRow
<1>4. \A n \in 1..Recipients : texts[n] \in Nat
    BY DEF BcTypeOK
<1>5. \A q \in Requests :
         /\ job[q].status \in {"none", "queued", "running", "done", "failed"}
         /\ job[q].attempts \in Nat
    BY DEF BcTypeOK, JobType
<1> QED BY <1>1, <1>2, <1>3, <1>4, <1>5

LEMMA IdleRuns == ASSUME NEW q \in Requests
                  PROVE  /\ IdleRun(q) \in RunType /\ IdleRun(q).stage = "idle"
                         /\ [IdleRun(q) EXCEPT !.stage = "started"] \in RunType
                         /\ [IdleRun(q) EXCEPT !.stage = "started"].stage = "started"
                         /\ [IdleRun(q) EXCEPT !.stage = "started"].job = q
BY DEF IdleRun, RunType, NewRow, BcRow, BcStatuses

LEMMA BroadcastStarts == BcInit => BroadcastInv
<1> SUFFICES ASSUME BcInit PROVE BroadcastInv
    OBVIOUS
<1> DEFINE any == CHOOSE q \in Requests : TRUE
<1>1. any \in Requests
    BY BroadcastAssumption
<1>2. NewRow \in BcRow /\ NewRow.status = "draft" /\ NewRow.sent = 0 /\ NewRow.failed = 0
    BY DEF NewRow, BcRow, BcStatuses
<1>3. run = [r \in Runs |-> IdleRun(any)]
    BY DEF BcInit
<1> HIDE DEF any
<1>4. run \in [Runs -> RunType] /\ \A r \in Runs : run[r].stage = "idle"
    BY <1>1, <1>3, IdleRuns
<1>5. request \in [Requests -> RequestType]
    BY <1>2 DEF BcInit, RequestType
<1>6. job \in [Requests -> JobType] /\ \A q \in Requests : job[q].status = "none"
    BY DEF BcInit, JobType
<1>7. BcTypeOK
    BY <1>2, <1>4, <1>5, <1>6, BroadcastAssumption DEF BcInit, BcTypeOK
<1>8. /\ bc.status = "draft" /\ bc.sent = 0 /\ bc.failed = 0
      /\ \A n \in 1..Recipients : texts[n] = 0
      /\ \A r \in Runs : after[r] = 0
    BY <1>2 DEF BcInit
<1>9. Alone /\ Placed /\ Stops /\ Backed
    BY <1>4, <1>8 DEF Alone, Placed, Stops, Backed, Sending
<1>10. Exact
    BY <1>4, <1>6, <1>8 DEF Exact, OneJob, Untouched, InStep, Sending
<1>11. SentAsCounted
    BY <1>8 DEF SentAsCounted, OncePerRecipient, DoneReachedEverybody, CancelStopsSending
<1> QED BY <1>7, <1>9, <1>10, <1>11 DEF BroadcastInv

-----------------------------------------------------------------------------
(* The console *)

LEMMA ReadRowKeeps == ASSUME BroadcastInv, NEW q \in Requests, ReadRow(q) PROVE BroadcastInv'
<1>1. UNCHANGED <<bc, job, run, texts, after, past, mishaps>>
    BY DEF ReadRow
<1>2. request' \in [Requests -> RequestType]
  <2>1. NewRow \in BcRow /\ bc \in BcRow
      BY DEF NewRow, BcRow, BcStatuses, BroadcastInv, BcTypeOK
  <2> QED BY <2>1 DEF ReadRow, BroadcastInv, BcTypeOK, RequestType
<1>3. BcTypeOK'
    BY <1>1, <1>2 DEF BroadcastInv, BcTypeOK
<1>4. Alone' /\ Placed' /\ Backed' /\ Stops'
    BY <1>1 DEF BroadcastInv, Alone, Placed, Backed, Stops, Sending, Position
<1>5. Exact'
    BY <1>1 DEF BroadcastInv, Exact, OneJob, Untouched, InStep, Sending, Position
<1>6. SentAsCounted'
    BY <1>1 DEF BroadcastInv, SentAsCounted, OncePerRecipient, DoneReachedEverybody,
                CancelStopsSending
<1> QED BY <1>3, <1>4, <1>5, <1>6 DEF BroadcastInv

LEMMA AnswersAreRequests ==
    ASSUME BcTypeOK, NEW q \in Requests, Answer(q) PROVE request' \in [Requests -> RequestType]
<1>1. NewRow \in BcRow
    BY DEF NewRow, BcRow, BcStatuses
<1> QED BY <1>1 DEF Answer, BcTypeOK, RequestType

LEMMA CommitCancelKeeps ==
    ASSUME BroadcastInv, NEW q \in Requests, CommitCancel(q) PROVE BroadcastInv'
<1>1. UNCHANGED <<job, run, texts, past, mishaps>>
    BY DEF CommitCancel
<1>2. bc \in BcRow /\ bc' = [bc EXCEPT !.status = "cancelled"]
    BY DEF CommitCancel, BroadcastInv, BcTypeOK
<1>3. bc' \in BcRow /\ bc'.status = "cancelled" /\ bc'.sent = bc.sent /\ bc'.failed = bc.failed
    BY <1>2 DEF BcRow, BcStatuses
<1>4. after' \in [Runs -> Nat] /\ \A r \in Runs : after'[r] = 0
    BY DEF CommitCancel
<1>5. request' \in [Requests -> RequestType]
    BY AnswersAreRequests DEF CommitCancel, BroadcastInv
<1>6. BcTypeOK'
    BY <1>1, <1>3, <1>4, <1>5 DEF BroadcastInv, BcTypeOK
<1>7. Alone' /\ Placed' /\ Backed' /\ Stops'
    BY <1>1, <1>3, <1>4 DEF BroadcastInv, Alone, Placed, Backed, Stops, Sending, Position
<1>8. Exact'
    BY <1>1, <1>3 DEF BroadcastInv, Exact, OneJob, Untouched, InStep, Sending, Position
<1>9. SentAsCounted'
    BY <1>1, <1>3, <1>4 DEF BroadcastInv, SentAsCounted, OncePerRecipient, DoneReachedEverybody,
                CancelStopsSending
<1> QED BY <1>6, <1>7, <1>8, <1>9 DEF BroadcastInv

LEMMA CommitSendKeeps ==
    ASSUME BroadcastInv, NEW q \in Requests, CommitSend(q) PROVE BroadcastInv'
<1>1. UNCHANGED <<run, texts, mishaps>>
    BY DEF CommitSend
<1>2. /\ bc.sent \in Nat /\ bc.failed \in Nat
      /\ \A n \in 1..Recipients : texts[n] \in Nat
    BY BcParts DEF BroadcastInv
<1>3. /\ bc' \in BcRow /\ bc'.status = "sending"
      /\ bc'.sent \in Nat /\ bc'.sent <= bc.sent /\ bc'.failed \in Nat /\ bc'.failed <= bc.failed
  <2>1. bc' = [status |-> "sending",
               sent   |-> IF request[q].seen.sent = 0 THEN bc.sent ELSE 0,
               failed |-> IF request[q].seen.failed = 0 THEN bc.failed ELSE 0]
      BY DEF CommitSend
  <2> QED BY <1>2, <2>1 DEF BcRow, BcStatuses
<1>4. after' \in [Runs -> Nat] /\ \A r \in Runs : after'[r] = 0
    BY DEF CommitSend
<1>5. request' \in [Requests -> RequestType]
    BY AnswersAreRequests DEF CommitSend, BroadcastInv
<1>6. /\ job' \in [Requests -> JobType] /\ job'[q].status = "queued"
      /\ \A p \in Requests : p # q => job'[p] = job[p]
    BY DEF CommitSend, BroadcastInv, BcTypeOK, JobType
<1>7. /\ past \subseteq past' /\ past' \subseteq {"repeated", "overlapped"}
      /\ past' = {} => past = {} /\ \A p \in Requests : job[p].status = "none"
      /\ "overlapped" \notin past' => "overlapped" \notin past
    BY DEF CommitSend, BroadcastInv, BcTypeOK
<1>8. BcTypeOK'
    BY <1>1, <1>3, <1>4, <1>5, <1>6, <1>7 DEF BroadcastInv, BcTypeOK
<1>9. Alone' /\ Placed' /\ Stops'
    BY <1>1, <1>3, <1>4, <1>7 DEF BroadcastInv, Alone, Placed, Stops, Position
<1>10. Backed'
  <2> SUFFICES ASSUME "overlapped" \notin past
               PROVE  /\ \A n \in 1..Recipients : n <= bc'.sent + bc'.failed => texts[n] > 0
                      /\ \A r \in Runs : Sending(r) =>
                           /\ bc'.sent <= run[r].seen.sent /\ run[r].seen.sent <= run[r].sent
                           /\ bc'.failed <= run[r].seen.failed
                           /\ run[r].seen.failed <= run[r].failed
                           /\ \A n \in 1..Recipients : n <= Position(r) => texts[n] > 0
      BY <1>1, <1>7 DEF Backed, Sending, Position
  <2>1. \A n \in 1..Recipients : n <= bc'.sent + bc'.failed => n <= bc.sent + bc.failed
      BY <1>2, <1>3
  <2>2. \A r \in Runs : run[r].seen.sent \in Nat /\ run[r].seen.failed \in Nat
      BY BcParts DEF BroadcastInv
  <2> QED BY <1>2, <1>3, <2>1, <2>2 DEF BroadcastInv, Backed
<1>11. ASSUME past' = {}
       PROVE  /\ past = {} /\ bc.sent = 0 /\ bc.failed = 0 /\ bc'.sent = 0 /\ bc'.failed = 0
              /\ \A n \in 1..Recipients : texts[n] = 0
              /\ \A r \in Runs : run[r].stage = "idle"
  <2>1. past = {} /\ OneJob /\ Untouched /\ \A p \in Requests : job[p].status = "none"
      BY <1>7, <1>11 DEF BroadcastInv, Exact
  <2>2. \A r \in Runs : run[r].stage = "idle"
      BY <2>1, BcParts DEF BroadcastInv, OneJob
  <2>3. bc.sent = 0 /\ bc.failed = 0 /\ \A n \in 1..Recipients : texts[n] = 0
      BY <2>1, <2>2 DEF Untouched, Sending
  <2> QED BY <2>1, <2>2, <2>3, <1>3
<1>12. Exact'
  <2> SUFFICES ASSUME past' = {} PROVE OneJob' /\ Untouched' /\ InStep'
      BY DEF Exact
  <2>1. \A p \in Requests : job'[p].status # "none" => p = q
      BY <1>6, <1>7
  <2> QED BY <1>1, <1>11, <2>1 DEF OneJob, Untouched, InStep, Sending
<1>13. SentAsCounted'
  <2>1. OncePerRecipient'
      BY <1>1, <1>11 DEF OncePerRecipient
  <2> QED BY <2>1, <1>3, <1>4 DEF SentAsCounted, DoneReachedEverybody, CancelStopsSending
<1> QED BY <1>8, <1>9, <1>10, <1>12, <1>13 DEF BroadcastInv

-----------------------------------------------------------------------------
(* The queue *)

LEMMA BeginsKeep ==
    ASSUME BroadcastInv, NEW r \in Runs, NEW q \in Requests, BeginRun(r, q),
           job[q].status \in {"queued", "running"},
           mishaps' \in 0..MaxMishaps
    PROVE  BroadcastInv'
<1> DEFINE new == [IdleRun(q) EXCEPT !.stage = "started"]
<1>1. /\ UNCHANGED <<bc, request, texts>>
      /\ run[r].stage = "idle"
    BY DEF BeginRun
<1>2. new \in RunType /\ new.stage = "started" /\ new.job = q
    BY IdleRuns
<1>3. run' = [run EXCEPT ![r] = new]
    BY DEF BeginRun
<1> HIDE DEF new
<1>4. /\ run' \in [Runs -> RunType]
      /\ run'[r].stage = "started" /\ run'[r].job = q
      /\ \A s \in Runs : s # r => run'[s] = run[s]
    BY <1>2, <1>3 DEF BroadcastInv, BcTypeOK
<1>5. /\ after' \in [Runs -> Nat] /\ after'[r] = 0
      /\ \A s \in Runs : s # r => after'[s] = after[s]
    BY DEF BeginRun, BroadcastInv, BcTypeOK
<1>6. /\ job' \in [Requests -> JobType] /\ job'[q].status = "running"
      /\ \A p \in Requests : p # q => job'[p] = job[p]
    BY DEF BeginRun, BroadcastInv, BcTypeOK, JobType
<1>7. /\ past \subseteq past' /\ past' \subseteq {"repeated", "overlapped"}
      /\ "overlapped" \notin past' =>
            "overlapped" \notin past /\ \A s \in Runs : run[s].stage = "idle"
      /\ past' = {} => past = {} /\ job[q].status = "queued"
  <2>1. past' = past \cup {h \in {"overlapped"} : \E s \in Runs : run[s].stage # "idle"}
                     \cup {h \in {"repeated"} : job[q].status = "running"}
      BY DEF BeginRun
  <2> QED BY <2>1 DEF BroadcastInv, BcTypeOK
<1>8. BcTypeOK'
    BY <1>1, <1>4, <1>5, <1>6, <1>7 DEF BroadcastInv, BcTypeOK
<1>9. Alone'
    BY <1>4, <1>7 DEF Alone
<1>10. \A s \in Runs : Sending(s)' => s # r /\ Sending(s) /\ Position(s)' = Position(s)
    BY <1>4 DEF Sending, Position
<1>11. Placed'
    BY <1>4 DEF BroadcastInv, Placed, Position
<1>12. Backed'
    BY <1>1, <1>4, <1>7, <1>10 DEF BroadcastInv, Backed
<1>13. Stops'
    BY <1>1, <1>4, <1>5 DEF BroadcastInv, Stops
<1>14. Exact'
  <2> SUFFICES ASSUME past' = {} PROVE OneJob' /\ Untouched' /\ InStep'
      BY DEF Exact
  <2>1. past = {} /\ job[q].status = "queued" /\ \A s \in Runs : run[s].stage = "idle"
      BY <1>7
  <2>2. OneJob /\ Untouched /\ InStep
      BY <2>1 DEF BroadcastInv, Exact
  <2>3. \A p \in Requests : p # q => job[p].status = "none"
      BY <2>1, <2>2 DEF OneJob
  <2>4. OneJob'
      BY <1>4, <1>6, <2>1, <2>3 DEF OneJob
  <2>5. Untouched'
    <3>1. \A p \in Requests : job[p].status # "done"
        BY <2>1, <2>3
    <3> QED BY <1>1, <2>1, <2>2, <3>1 DEF Untouched, Sending
  <2>6. InStep'
      BY <2>1, <1>10 DEF InStep, Sending
  <2> QED BY <2>4, <2>5, <2>6
<1>15. SentAsCounted'
    BY <1>1, <1>5, <1>7 DEF BroadcastInv, SentAsCounted, OncePerRecipient, DoneReachedEverybody,
                CancelStopsSending
<1> QED BY <1>8, <1>9, <1>11, <1>12, <1>13, <1>14, <1>15 DEF BroadcastInv

(* A run ends without having written.  *)
LEMMA RunEnds ==
    ASSUME BcTypeOK, NEW r \in Runs, EndRun(r)
    PROVE  /\ run' \in [Runs -> RunType]
           /\ run'[r].stage = "idle"
           /\ \A s \in Runs : s # r => run'[s] = run[s]
           /\ \A s \in Runs : run'[s].stage # "idle" => s # r /\ run'[s] = run[s]
<1>1. run[r].job \in Requests
    BY BcParts
<1>2. IdleRun(run[r].job) \in RunType /\ IdleRun(run[r].job).stage = "idle"
    BY <1>1, IdleRuns
<1> QED BY <1>2 DEF EndRun, BcTypeOK

(* The job of a run is over, or to be tried again. *)
LEMMA JobsMove ==
    ASSUME BcTypeOK, NEW q \in Requests
    PROVE  /\ JobDone(q) \in [Requests -> JobType]
           /\ Retried(q) \in [Requests -> JobType]
           /\ JobDone(q)[q].status = "done"
           /\ \A p \in Requests : p # q => JobDone(q)[p] = job[p]
BY DEF JobDone, Retried, BcTypeOK, JobType

(* A run that ends by itself, though not by its last commit. *)
LEMMA EndsKeep ==
    ASSUME BroadcastInv, NEW r \in Runs, EndRun(r),
           UNCHANGED <<bc, request, texts, after>>,
           job' \in [Requests -> JobType],
           past' = {} => job' = JobDone(run[r].job) /\ ~Sending(r)' /\ run[r].stage # "idle"
                         /\ run[r].stage # "count",
           past' = past \/ past' = past \cup {"repeated"},
           mishaps' \in 0..MaxMishaps
    PROVE  BroadcastInv'
<1>1. /\ run' \in [Runs -> RunType] /\ run'[r].stage = "idle"
      /\ \A s \in Runs : s # r => run'[s] = run[s]
      /\ \A s \in Runs : run'[s].stage # "idle" => s # r /\ run'[s] = run[s]
    BY RunEnds DEF BroadcastInv
<1>2. BcTypeOK'
    BY <1>1 DEF BroadcastInv, BcTypeOK
<1>3. \A s \in Runs : Sending(s)' => s # r /\ Sending(s) /\ run'[s] = run[s]
    BY <1>1 DEF Sending
<1>4. "overlapped" \notin past' => "overlapped" \notin past
    OBVIOUS
<1>5. Alone'
    BY <1>1, <1>4 DEF BroadcastInv, Alone
<1>6. Placed'
    BY <1>1 DEF BroadcastInv, Placed, Position
<1>7. Backed'
    BY <1>3, <1>4 DEF BroadcastInv, Backed, Position
<1>8. Stops'
    BY <1>1 DEF BroadcastInv, Stops
<1>9. Exact'
  <2> SUFFICES ASSUME past' = {} PROVE OneJob' /\ Untouched' /\ InStep'
      BY DEF Exact
  <2> DEFINE q == run[r].job
  <2>1. past = {} /\ q \in Requests /\ run[r].stage # "idle" /\ job' = JobDone(q)
      BY BcParts DEF BroadcastInv
  <2>2. OneJob /\ \A s \in Runs : run'[s].stage = "idle"
      BY <1>1, <2>1 DEF BroadcastInv, Exact, Alone
  <2>3. job[q].status = "running" /\ job'[q].status = "done"
        /\ \A p \in Requests : p # q => job'[p] = job[p]
      BY <2>1, <2>2, JobsMove DEF OneJob, BroadcastInv
  <2> QED BY <2>1, <2>2, <2>3 DEF OneJob, Untouched, InStep, Sending
<1>10. SentAsCounted'
    BY <1>4 DEF BroadcastInv, SentAsCounted, OncePerRecipient, DoneReachedEverybody,
                CancelStopsSending
<1> QED BY <1>2, <1>5, <1>6, <1>7, <1>8, <1>9, <1>10 DEF BroadcastInv

-----------------------------------------------------------------------------
(* The run *)

LEMMA StartRunKeeps == ASSUME BroadcastInv, NEW r \in Runs, StartRun(r) PROVE BroadcastInv'
<1>1. run[r].stage = "started" /\ UNCHANGED <<request, texts, after, past, mishaps>>
    BY DEF StartRun
<1>2. CASE bc.status \notin {"sending", "failed"}
  <2>1. EndRun(r) /\ job' = JobDone(run[r].job) /\ bc' = bc
      BY <1>2 DEF StartRun
  <2>2. run[r].job \in Requests /\ mishaps' \in 0..MaxMishaps
      BY <1>1, BcParts DEF BroadcastInv, BcTypeOK
  <2>3. job' \in [Requests -> JobType]
      BY <2>1, <2>2, JobsMove DEF BroadcastInv
  <2>4. run'[r].stage = "idle"
      BY <2>1, RunEnds DEF BroadcastInv
  <2> QED BY <1>1, <2>1, <2>2, <2>3, <2>4, EndsKeep DEF Sending
<1>3. CASE bc.status \in {"sending", "failed"}
  <2> DEFINE new == [run[r] EXCEPT !.stage = "refresh",
                                   !.seen = [bc EXCEPT !.status = "sending"],
                                   !.sent = bc.sent, !.failed = bc.failed]
  <2>1. /\ bc.sent \in Nat /\ bc.failed \in Nat /\ run[r] \in RunType /\ bc \in BcRow
        /\ \A n \in 1..Recipients : texts[n] \in Nat
      BY BcParts DEF BroadcastInv, BcTypeOK
  <2>2. /\ bc' = [bc EXCEPT !.status = "sending"] /\ job' = job
        /\ run' = [run EXCEPT ![r] = new]
      BY <1>3 DEF StartRun, BroadcastInv, BcTypeOK
  <2>3. /\ bc' \in BcRow /\ bc'.status = "sending" /\ bc'.sent = bc.sent /\ bc'.failed = bc.failed
      BY <2>1, <2>2 DEF BcRow, BcStatuses
  <2>4. PICK loaded : loaded = [bc EXCEPT !.status = "sending"]
      OBVIOUS
  <2>5. new \in RunType /\ new.stage = "refresh" /\ new.seen = bc'
        /\ new.sent = bc.sent /\ new.failed = bc.failed /\ new.job = run[r].job
    <3>1. new = [run[r] EXCEPT !.stage = "refresh", !.seen = loaded,
                               !.sent = bc.sent, !.failed = bc.failed]
        BY <2>4
    <3>2. loaded \in BcRow
        BY <2>2, <2>3, <2>4
    <3>3. new \in RunType
        BY <2>1, <3>1, <3>2 DEF RunType
    <3>4. new.stage = "refresh" /\ new.seen = loaded
          /\ new.sent = bc.sent /\ new.failed = bc.failed /\ new.job = run[r].job
        BY <2>1, <3>1 DEF RunType
    <3> QED BY <2>2, <2>4, <3>3, <3>4
  <2> HIDE DEF new
  <2>6. /\ run' \in [Runs -> RunType] /\ run'[r] = new
        /\ \A s \in Runs : s # r => run'[s] = run[s]
      BY <2>2, <2>5 DEF BroadcastInv, BcTypeOK
  <2>7. BcTypeOK'
      BY <1>1, <2>2, <2>3, <2>6 DEF BroadcastInv, BcTypeOK
  <2>8. Alone'
      BY <1>1, <2>5, <2>6 DEF BroadcastInv, Alone
  <2>9. Position(r)' = bc.sent + bc.failed
        /\ \A s \in Runs : s # r => Position(s)' = Position(s) /\ (Sending(s)' <=> Sending(s))
      BY <2>5, <2>6 DEF Position, Sending
  <2>10. Placed'
      BY <2>5, <2>6 DEF BroadcastInv, Placed, Position
  <2>11. Backed'
    <3> SUFFICES ASSUME "overlapped" \notin past
                 PROVE  /\ \A n \in 1..Recipients : n <= bc'.sent + bc'.failed => texts[n] > 0
                        /\ \A s \in Runs : Sending(s)' =>
                             /\ bc'.sent <= run'[s].seen.sent
                             /\ run'[s].seen.sent <= run'[s].sent
                             /\ bc'.failed <= run'[s].seen.failed
                             /\ run'[s].seen.failed <= run'[s].failed
                             /\ \A n \in 1..Recipients : n <= Position(s)' => texts[n] > 0
        BY <1>1 DEF Backed
    <3>1. \A n \in 1..Recipients : n <= bc.sent + bc.failed => texts[n] > 0
        BY DEF BroadcastInv, Backed
    <3>2. \A s \in Runs : s # r => run[s].stage = "idle"
        BY <1>1 DEF BroadcastInv, Alone
    <3>3. \A s \in Runs : Sending(s)' => s = r
        BY <2>9, <3>2 DEF Sending
    <3> QED BY <2>1, <2>3, <2>5, <2>6, <2>9, <3>1, <3>3
  <2>12. Stops'
      BY <1>1, <2>3 , <2>5, <2>6 DEF BroadcastInv, Stops
  <2>13. Exact'
    <3> SUFFICES ASSUME past = {} PROVE OneJob' /\ Untouched' /\ InStep'
        BY <1>1 DEF Exact
    <3>1. OneJob /\ Untouched /\ \A s \in Runs : s # r => run[s].stage = "idle"
        BY <1>1 DEF BroadcastInv, Exact, Alone
    <3>2. bc.sent = 0 /\ bc.failed = 0 /\ \A n \in 1..Recipients : texts[n] = 0
      <4>1. \A s \in Runs : ~Sending(s)
          BY <1>1, <3>1 DEF Sending
      <4>2. job[run[r].job].status = "running" /\ run[r].job \in Requests
          BY <1>1, <3>1, BcParts DEF OneJob, BroadcastInv
      <4>3. \A q \in Requests : job[q].status # "done"
          BY <3>1, <4>2 DEF OneJob
      <4> QED BY <3>1, <4>1, <4>3 DEF Untouched
    <3>3. OneJob'
        BY <1>1, <2>2, <2>5, <2>6, <3>1 DEF OneJob
    <3>4. Sending(r)' /\ \A s \in Runs : Sending(s)' => s = r
        BY <2>5, <2>6, <2>9, <3>1 DEF Sending
    <3>5. InStep'
        BY <1>1, <2>3, <2>5, <2>6, <2>9, <3>2, <3>4 DEF InStep
    <3> QED BY <3>3, <3>4, <3>5 DEF Untouched
  <2>14. SentAsCounted'
      BY <1>1, <2>3 DEF BroadcastInv, SentAsCounted, OncePerRecipient, DoneReachedEverybody,
                CancelStopsSending
  <2> QED BY <2>7, <2>8, <2>10, <2>11, <2>12, <2>13, <2>14 DEF BroadcastInv
<1> QED BY <1>2, <1>3

(* The other runs, when one has moved. *)
LEMMA OthersStay ==
    ASSUME NEW r \in Runs, \A s \in Runs : s # r => run'[s] = run[s]
    PROVE  \A s \in Runs : s # r => Position(s)' = Position(s) /\ (Sending(s)' <=> Sending(s))
BY DEF Position, Sending

(* While nothing overlapped, whoever sends is alone. *)
LEMMA OnlyOneSends ==
    ASSUME Alone, "overlapped" \notin past, NEW r \in Runs, run[r].stage # "idle"
    PROVE  \A s \in Runs : s # r => run[s].stage = "idle" /\ ~Sending(s)
BY DEF Alone, Sending

LEMMA RefreshKeeps == ASSUME BroadcastInv, NEW r \in Runs, Refresh(r) PROVE BroadcastInv'
<1>1. run[r].stage = "refresh" /\ UNCHANGED <<bc, request, texts, after, past, mishaps>>
    BY DEF Refresh
<1>2. CASE Position(r) < Recipients /\ bc.status = "cancelled"
  <2>1. Position(r) \in Nat /\ Recipients \in Nat
      BY BcParts, BroadcastAssumption DEF BroadcastInv
  <2>2. EndRun(r) /\ job' = JobDone(run[r].job)
      BY <1>2, <2>1 DEF Refresh
  <2>3. job' \in [Requests -> JobType] /\ mishaps' \in 0..MaxMishaps
      BY <1>1, <2>2, BcParts, JobsMove DEF BroadcastInv, BcTypeOK
  <2>4. run'[r].stage = "idle"
      BY <2>2, RunEnds DEF BroadcastInv
  <2> QED BY <1>1, <2>2, <2>3, <2>4, EndsKeep DEF Sending
<1>3. CASE Position(r) >= Recipients \/ bc.status # "cancelled"
  <2>1. /\ run[r] \in RunType /\ bc \in BcRow /\ Position(r) \in Nat /\ Recipients \in Nat
        /\ bc.sent \in Nat /\ bc.failed \in Nat
      BY BcParts, BroadcastAssumption DEF BroadcastInv, BcTypeOK
  <2>2. PICK new :
          /\ run' = [run EXCEPT ![r] = new] /\ job' = job
          /\ \/ /\ Position(r) >= Recipients
                /\ new = [run[r] EXCEPT !.stage = "last"]
             \/ /\ Position(r) < Recipients /\ bc.status # "cancelled"
                /\ new = [run[r] EXCEPT !.stage = "send", !.seen = bc]
    <3>1. CASE Position(r) >= Recipients
      <4>1. run' = [run EXCEPT ![r] = [run[r] EXCEPT !.stage = "last"]] /\ job' = job
          BY <1>3, <3>1 DEF Refresh, BroadcastInv, BcTypeOK
      <4> QED BY <3>1, <4>1
    <3>2. CASE Position(r) < Recipients
      <4>1. ~(Position(r) >= Recipients) /\ bc.status # "cancelled"
          BY <1>3, <2>1, <3>2
      <4>2. run' = [run EXCEPT ![r].stage = "send", ![r].seen = bc] /\ job' = job
          BY <4>1 DEF Refresh
      <4>3. PICK new : new = [run[r] EXCEPT !.stage = "send", !.seen = bc]
          OBVIOUS
      <4>4. run' = [run EXCEPT ![r] = new]
          BY <4>2, <4>3 DEF BroadcastInv, BcTypeOK
      <4> QED BY <3>2, <4>1, <4>2, <4>3, <4>4
    <3> QED BY <2>1, <3>1, <3>2
  <2>3. /\ new \in RunType /\ new.job = run[r].job
        /\ new.sent = run[r].sent /\ new.failed = run[r].failed
        /\ \/ new.stage = "last" /\ new.seen = run[r].seen
           \/ new.stage = "send" /\ new.seen = bc
      BY <2>1, <2>2 DEF RunType
  <2>4. /\ new.stage = "last" => Position(r) >= Recipients
        /\ new.stage = "send" => Position(r) < Recipients /\ bc.status # "cancelled"
      BY <2>1, <2>2 DEF RunType
  <2>5. /\ run' \in [Runs -> RunType] /\ run'[r] = new
        /\ \A s \in Runs : s # r => run'[s] = run[s]
      BY <2>2, <2>3 DEF BroadcastInv, BcTypeOK
  <2>6. BcTypeOK'
      BY <1>1, <2>2, <2>5 DEF BroadcastInv, BcTypeOK
  <2>7. Position(r)' = Position(r) /\ Sending(r)' /\ Sending(r)
      BY <1>1, <2>3, <2>5 DEF Position, Sending
  <2>8. Alone'
      BY <1>1, <2>3, <2>5 DEF BroadcastInv, Alone
  <2>9. Placed'
      BY <2>3, <2>4, <2>5, <2>7, OthersStay DEF BroadcastInv, Placed
  <2>10. Backed'
    <3> SUFFICES ASSUME "overlapped" \notin past
                 PROVE  \A s \in Runs : Sending(s)' =>
                             /\ bc.sent <= run'[s].seen.sent
                             /\ run'[s].seen.sent <= run'[s].sent
                             /\ bc.failed <= run'[s].seen.failed
                             /\ run'[s].seen.failed <= run'[s].failed
                             /\ \A n \in 1..Recipients : n <= Position(s)' => texts[n] > 0
        BY <1>1 DEF BroadcastInv, Backed
    <3>1. \A s \in Runs : Sending(s)' => s = r
        BY <1>1, <2>5, OnlyOneSends, OthersStay DEF BroadcastInv
    <3>2. /\ bc.sent <= run[r].seen.sent /\ run[r].seen.sent <= run[r].sent
          /\ bc.failed <= run[r].seen.failed /\ run[r].seen.failed <= run[r].failed
          /\ \A n \in 1..Recipients : n <= Position(r) => texts[n] > 0
        BY <2>7 DEF BroadcastInv, Backed
    <3>3. /\ run[r].seen.sent \in Nat /\ run[r].seen.failed \in Nat
          /\ run[r].sent \in Nat /\ run[r].failed \in Nat
        BY BcParts DEF BroadcastInv
    <3> QED BY <2>1, <2>3, <2>5, <2>7, <3>1, <3>2, <3>3
  <2>11. Stops'
      BY <1>1, <2>4, <2>5 DEF BroadcastInv, Stops
  <2>12. Exact'
    <3> SUFFICES ASSUME past = {} PROVE OneJob' /\ Untouched' /\ InStep'
        BY <1>1 DEF Exact
    <3>1. OneJob'
        BY <1>1, <2>2, <2>3, <2>5 DEF OneJob, BroadcastInv, Exact
    <3>2. Untouched'
        BY <2>7 DEF Untouched
    <3>3. \A s \in Runs : Sending(s)' => s = r
        BY <1>1, <2>5, OnlyOneSends, OthersStay DEF BroadcastInv
    <3>4. InStep'
        BY <1>1, <2>3, <2>5, <2>7, <3>3 DEF InStep, BroadcastInv, Exact
    <3> QED BY <3>1, <3>2, <3>4
  <2>13. SentAsCounted'
      BY <1>1 DEF BroadcastInv, SentAsCounted, OncePerRecipient, DoneReachedEverybody,
                CancelStopsSending
  <2> QED BY <2>6, <2>8, <2>9, <2>10, <2>11, <2>12, <2>13 DEF BroadcastInv
<1>4. Position(r) \in Nat /\ Recipients \in Nat
    BY BcParts, BroadcastAssumption DEF BroadcastInv
<1> QED BY <1>2, <1>3, <1>4

LEMMA SendOneKeeps == ASSUME BroadcastInv, NEW r \in Runs, SendOne(r) PROVE BroadcastInv'
<1> DEFINE pos == run[r].sent + run[r].failed
<1>1. run[r].stage = "send" /\ UNCHANGED <<bc, request, job, past, mishaps>>
    BY DEF SendOne
<1>2. /\ run[r] \in RunType /\ run[r].sent \in Nat /\ run[r].failed \in Nat
      /\ run[r].seen.sent \in Nat /\ run[r].seen.failed \in Nat
      /\ bc.sent \in Nat /\ bc.failed \in Nat /\ Recipients \in Nat
      /\ \A n \in 1..Recipients : texts[n] \in Nat
    BY BcParts, BroadcastAssumption DEF BroadcastInv, BcTypeOK
<1>3. pos + 1 \in 1..Recipients /\ Position(r) = pos
    BY <1>1, <1>2 DEF BroadcastInv, Placed, Position
<1>4. PICK new : /\ run' = [run EXCEPT ![r] = new]
                 /\ \/ new = [run[r] EXCEPT !.stage = "count", !.sent = @ + 1]
                    \/ new = [run[r] EXCEPT !.stage = "count", !.failed = @ + 1]
  <2>1. CASE run' = [run EXCEPT ![r].stage = "count", ![r].sent = @ + 1]
    <3>1. run' = [run EXCEPT ![r] = [run[r] EXCEPT !.stage = "count", !.sent = @ + 1]]
        BY <2>1 DEF BroadcastInv, BcTypeOK
    <3> QED BY <3>1
  <2>2. CASE run' = [run EXCEPT ![r].stage = "count", ![r].failed = @ + 1]
    <3>1. run' = [run EXCEPT ![r] = [run[r] EXCEPT !.stage = "count", !.failed = @ + 1]]
        BY <2>2 DEF BroadcastInv, BcTypeOK
    <3> QED BY <3>1
  <2> QED BY <2>1, <2>2 DEF SendOne
<1>5. /\ new \in RunType /\ new.job = run[r].job /\ new.seen = run[r].seen /\ new.stage = "count"
      /\ \/ new.sent = run[r].sent + 1 /\ new.failed = run[r].failed
         \/ new.sent = run[r].sent /\ new.failed = run[r].failed + 1
  <2>1. CASE new = [run[r] EXCEPT !.stage = "count", !.sent = @ + 1]
    <3>1. PICK more \in Nat : more = run[r].sent + 1
        BY <1>2
    <3>2. new = [run[r] EXCEPT !.stage = "count", !.sent = more]
        BY <2>1, <3>1
    <3>3. new \in RunType /\ new.job = run[r].job /\ new.seen = run[r].seen
          /\ new.stage = "count" /\ new.sent = more /\ new.failed = run[r].failed
        BY <1>2, <3>2 DEF RunType
    <3> QED BY <3>1, <3>3
  <2>2. CASE new = [run[r] EXCEPT !.stage = "count", !.failed = @ + 1]
    <3>1. PICK more \in Nat : more = run[r].failed + 1
        BY <1>2
    <3>2. new = [run[r] EXCEPT !.stage = "count", !.failed = more]
        BY <2>2, <3>1
    <3>3. new \in RunType /\ new.job = run[r].job /\ new.seen = run[r].seen
          /\ new.stage = "count" /\ new.failed = more /\ new.sent = run[r].sent
        BY <1>2, <3>2 DEF RunType
    <3> QED BY <3>1, <3>3
  <2> QED BY <1>4, <2>1, <2>2
<1>6. /\ run' \in [Runs -> RunType] /\ run'[r] = new
      /\ \A s \in Runs : s # r => run'[s] = run[s]
    BY <1>4, <1>5 DEF BroadcastInv, BcTypeOK
<1>7. /\ texts' \in [1..Recipients -> Nat] /\ texts'[pos + 1] = texts[pos + 1] + 1
      /\ \A n \in 1..Recipients : n # pos + 1 => texts'[n] = texts[n]
  <2>1. texts' = [texts EXCEPT ![pos + 1] = @ + 1] /\ texts \in [1..Recipients -> Nat]
      BY <1>3 DEF SendOne, BroadcastInv, BcTypeOK
  <2>2. texts[pos + 1] + 1 \in Nat
      BY <1>2, <1>3
  <2> HIDE DEF pos
  <2> QED BY <1>3, <2>1, <2>2
<1>8. /\ after' \in [Runs -> Nat]
      /\ after'[r] = IF bc.status = "cancelled" THEN after[r] + 1 ELSE after[r]
      /\ \A s \in Runs : s # r => after'[s] = after[s]
    BY DEF SendOne, BroadcastInv, BcTypeOK
<1>9. BcTypeOK'
    BY <1>1, <1>6, <1>7, <1>8 DEF BroadcastInv, BcTypeOK
<1>10. Position(r)' = pos + 1 /\ Sending(r)' /\ Sending(r)
    BY <1>1, <1>2, <1>5, <1>6 DEF Position, Sending
<1>11. Alone'
    BY <1>1, <1>5, <1>6 DEF BroadcastInv, Alone
<1>12. Placed'
    BY <1>5, <1>6, OthersStay DEF BroadcastInv, Placed
<1>13. \A n \in 1..Recipients : texts[n] > 0 => texts'[n] > 0
  <2> HIDE DEF pos
  <2> SUFFICES ASSUME NEW n \in 1..Recipients, texts[n] > 0 PROVE texts'[n] > 0
      OBVIOUS
  <2>1. CASE n = pos + 1
      BY <1>2, <1>7, <2>1
  <2>2. CASE n # pos + 1
      BY <1>7, <2>2
  <2> QED BY <2>1, <2>2
<1>14. texts'[pos + 1] > 0
    BY <1>2, <1>3, <1>7
<1>15. Backed'
  <2> SUFFICES ASSUME "overlapped" \notin past
               PROVE  /\ \A n \in 1..Recipients : n <= bc.sent + bc.failed => texts'[n] > 0
                      /\ \A s \in Runs : Sending(s)' =>
                           /\ bc.sent <= run'[s].seen.sent
                           /\ run'[s].seen.sent <= run'[s].sent
                           /\ bc.failed <= run'[s].seen.failed
                           /\ run'[s].seen.failed <= run'[s].failed
                           /\ \A n \in 1..Recipients : n <= Position(s)' => texts'[n] > 0
      BY <1>1 DEF Backed
  <2>1. \A s \in Runs : Sending(s)' => s = r
      BY <1>1, <1>6, OnlyOneSends, OthersStay DEF BroadcastInv
  <2>2. /\ \A n \in 1..Recipients : n <= bc.sent + bc.failed => texts[n] > 0
        /\ bc.sent <= run[r].seen.sent /\ run[r].seen.sent <= run[r].sent
        /\ bc.failed <= run[r].seen.failed /\ run[r].seen.failed <= run[r].failed
        /\ \A n \in 1..Recipients : n <= pos => texts[n] > 0
      BY <1>3, <1>10 DEF BroadcastInv, Backed
  <2>3. \A n \in 1..Recipients : n <= pos + 1 => n <= pos \/ n = pos + 1
      BY <1>2
  <2> QED BY <1>2, <1>5, <1>6, <1>10, <1>13, <1>14, <2>1, <2>2, <2>3
<1>16. after'[r] <= 1
    BY <1>1, <1>8 DEF BroadcastInv, Stops, BcTypeOK
<1>17. Stops'
    BY <1>1, <1>5, <1>6, <1>8, <1>16 DEF BroadcastInv, Stops
<1>18. ASSUME past = {} PROVE OneJob' /\ Untouched' /\ InStep' /\ OncePerRecipient'
  <2>1. OneJob'
      BY <1>1, <1>5, <1>6, <1>18 DEF OneJob, BroadcastInv, Exact
  <2>2. Untouched'
      BY <1>10 DEF Untouched
  <2>3. \A s \in Runs : Sending(s)' => s = r
      BY <1>1, <1>6, <1>18, OnlyOneSends, OthersStay DEF BroadcastInv
  <2>4. /\ run[r].seen.sent = bc.sent /\ run[r].seen.failed = bc.failed
        /\ run[r].sent = bc.sent /\ run[r].failed = bc.failed
        /\ \A n \in 1..Recipients : texts[n] = IF n <= pos THEN 1 ELSE 0
      BY <1>1, <1>3, <1>10, <1>18 DEF InStep, BroadcastInv, Exact
  <2>5. \A n \in 1..Recipients : texts'[n] = IF n <= pos + 1 THEN 1 ELSE 0
      BY <1>2, <1>3, <1>7, <2>4
  <2>6. InStep'
      BY <1>1, <1>2, <1>5, <1>6, <1>10, <2>3, <2>4, <2>5 DEF InStep
  <2>7. OncePerRecipient'
      BY <1>1, <1>2, <2>4, <2>5 DEF OncePerRecipient
  <2> QED BY <2>1, <2>2, <2>6, <2>7
<1>19. Exact'
    BY <1>1, <1>18 DEF Exact
<1>20. SentAsCounted'
  <2>1. OncePerRecipient'
      BY <1>1, <1>18 DEF OncePerRecipient
  <2>2. DoneReachedEverybody'
      BY <1>1, <1>13 DEF BroadcastInv, SentAsCounted, DoneReachedEverybody
  <2>3. CancelStopsSending'
      BY <1>17 DEF Stops, CancelStopsSending
  <2> QED BY <2>1, <2>2, <2>3 DEF SentAsCounted
<1> QED BY <1>9, <1>11, <1>12, <1>15, <1>17, <1>19, <1>20 DEF BroadcastInv

(* What a run writes lies between what the row says and what the run has   *)
(* counted; it is exactly that while nothing was repeated.                 *)
LEMMA WrittenParts ==
    ASSUME BroadcastInv, NEW r \in Runs, Sending(r), NEW status \in BcStatuses
    PROVE  /\ Written(r, status) \in BcRow
           /\ Written(r, status).status =
                 IF status = run[r].seen.status THEN bc.status ELSE status
           /\ Written(r, status).sent \in Nat /\ Written(r, status).failed \in Nat
           /\ "overlapped" \notin past =>
                 /\ Written(r, status).sent <= run[r].sent
                 /\ Written(r, status).failed <= run[r].failed
           /\ past = {} => /\ Written(r, status).sent = run[r].sent
                           /\ Written(r, status).failed = run[r].failed
<1>1. /\ bc.status \in BcStatuses /\ bc.sent \in Nat /\ bc.failed \in Nat
      /\ run[r].sent \in Nat /\ run[r].failed \in Nat
      /\ run[r].seen.sent \in Nat /\ run[r].seen.failed \in Nat
    BY BcParts DEF BroadcastInv
<1>2. PICK st : st = IF status = run[r].seen.status THEN bc.status ELSE status
    OBVIOUS
<1>3. PICK sent : sent = IF run[r].sent = run[r].seen.sent THEN bc.sent ELSE run[r].sent
    OBVIOUS
<1>4. PICK failed :
          failed = IF run[r].failed = run[r].seen.failed THEN bc.failed ELSE run[r].failed
    OBVIOUS
<1>5. Written(r, status) = [status |-> st, sent |-> sent, failed |-> failed]
    BY <1>2, <1>3, <1>4 DEF Written
<1>6. st \in BcStatuses /\ sent \in Nat /\ failed \in Nat
    BY <1>1, <1>2, <1>3, <1>4
<1>7. "overlapped" \notin past =>
          /\ bc.sent <= run[r].seen.sent /\ run[r].seen.sent <= run[r].sent
          /\ bc.failed <= run[r].seen.failed /\ run[r].seen.failed <= run[r].failed
    BY DEF BroadcastInv, Backed
<1>8. "overlapped" \notin past => sent <= run[r].sent /\ failed <= run[r].failed
    BY <1>1, <1>3, <1>4, <1>7
<1>9. past = {} => run[r].seen.sent = bc.sent /\ run[r].seen.failed = bc.failed
    BY DEF BroadcastInv, Exact, InStep
<1>10. past = {} => sent = run[r].sent /\ failed = run[r].failed
    BY <1>1, <1>3, <1>4, <1>9
<1> QED BY <1>2, <1>5, <1>6, <1>8, <1>10 DEF BcRow

LEMMA CountOneKeeps == ASSUME BroadcastInv, NEW r \in Runs, CountOne(r) PROVE BroadcastInv'
<1>1. run[r].stage = "count" /\ UNCHANGED <<request, job, texts, after, past, mishaps>>
    BY DEF CountOne
<1>2. Sending(r)
    BY <1>1 DEF Sending
<1>3. /\ run[r] \in RunType /\ run[r].sent \in Nat /\ run[r].failed \in Nat
      /\ run[r].seen \in BcRow /\ run[r].seen.status \in BcStatuses
      /\ bc.status \in BcStatuses /\ Recipients \in Nat
      /\ \A n \in 1..Recipients : texts[n] \in Nat
    BY BcParts, BroadcastAssumption DEF BroadcastInv, BcTypeOK
<1>4. /\ bc' \in BcRow /\ bc'.status = bc.status /\ bc'.sent \in Nat /\ bc'.failed \in Nat
      /\ "overlapped" \notin past => bc'.sent <= run[r].sent /\ bc'.failed <= run[r].failed
      /\ past = {} => bc'.sent = run[r].sent /\ bc'.failed = run[r].failed
  <2>1. bc' = Written(r, run[r].seen.status)
      BY DEF CountOne
  <2> QED BY <1>2, <1>3, <2>1, WrittenParts
<1>5. PICK seen : seen = [run[r].seen EXCEPT !.sent = run[r].sent, !.failed = run[r].failed]
    OBVIOUS
<1>6. seen \in BcRow /\ seen.sent = run[r].sent /\ seen.failed = run[r].failed
    BY <1>3, <1>5 DEF BcRow
<1>7. PICK new : new = [run[r] EXCEPT !.stage = "refresh", !.seen = seen]
    OBVIOUS
<1>8. /\ new \in RunType /\ new.stage = "refresh" /\ new.seen = seen /\ new.job = run[r].job
      /\ new.sent = run[r].sent /\ new.failed = run[r].failed
    BY <1>3, <1>6, <1>7 DEF RunType
<1>9. run' = [run EXCEPT ![r] = new]
  <2>1. run' = [run EXCEPT ![r].stage = "refresh",
                           ![r].seen.sent = run[r].sent, ![r].seen.failed = run[r].failed]
      BY DEF CountOne
  <2>2. run' = [run EXCEPT ![r] = run'[r]]
      BY <2>1 DEF BroadcastInv, BcTypeOK
  <2>3. run'[r] = [run[r] EXCEPT !.stage = "refresh",
                                 !.seen.sent = run[r].sent, !.seen.failed = run[r].failed]
      BY <2>1 DEF BroadcastInv, BcTypeOK
  <2>4. run'[r] = new
      BY <1>3, <1>5, <1>7, <2>3 DEF RunType, BcRow
  <2> QED BY <2>2, <2>4
<1>10. /\ run' \in [Runs -> RunType] /\ run'[r] = new
       /\ \A s \in Runs : s # r => run'[s] = run[s]
    BY <1>8, <1>9 DEF BroadcastInv, BcTypeOK
<1>11. BcTypeOK'
    BY <1>1, <1>4, <1>10 DEF BroadcastInv, BcTypeOK
<1>12. Position(r)' = Position(r) /\ Sending(r)'
    BY <1>8, <1>10 DEF Position, Sending
<1>13. Alone'
    BY <1>1, <1>8, <1>10 DEF BroadcastInv, Alone
<1>14. Placed'
    BY <1>8, <1>10, OthersStay DEF BroadcastInv, Placed
<1>15. Backed'
  <2> SUFFICES ASSUME "overlapped" \notin past
               PROVE  /\ \A n \in 1..Recipients : n <= bc'.sent + bc'.failed => texts[n] > 0
                      /\ \A s \in Runs : Sending(s)' =>
                           /\ bc'.sent <= run'[s].seen.sent
                           /\ run'[s].seen.sent <= run'[s].sent
                           /\ bc'.failed <= run'[s].seen.failed
                           /\ run'[s].seen.failed <= run'[s].failed
                           /\ \A n \in 1..Recipients : n <= Position(s)' => texts[n] > 0
      BY <1>1 DEF Backed
  <2>1. \A s \in Runs : Sending(s)' => s = r
      BY <1>1, <1>10, OnlyOneSends, OthersStay DEF BroadcastInv
  <2>2. \A n \in 1..Recipients : n <= Position(r) => texts[n] > 0
      BY <1>2 DEF BroadcastInv, Backed
  <2>3. \A n \in 1..Recipients : n <= bc'.sent + bc'.failed => n <= Position(r)
      BY <1>3, <1>4 DEF Position
  <2> QED BY <1>3, <1>4, <1>6, <1>8, <1>10, <1>12, <2>1, <2>2, <2>3
<1>16. Stops'
    BY <1>1, <1>4, <1>8, <1>10 DEF BroadcastInv, Stops
<1>17. ASSUME past = {} PROVE OneJob' /\ Untouched' /\ InStep' /\ OncePerRecipient'
  <2>1. OneJob'
      BY <1>1, <1>8, <1>10, <1>17 DEF OneJob, BroadcastInv, Exact
  <2>2. Untouched'
      BY <1>12 DEF Untouched
  <2>3. \A s \in Runs : Sending(s)' => s = r
      BY <1>1, <1>10, <1>17, OnlyOneSends, OthersStay DEF BroadcastInv
  <2>4. \A n \in 1..Recipients : texts[n] = IF n <= Position(r) THEN 1 ELSE 0
      BY <1>2, <1>17 DEF InStep, BroadcastInv, Exact
  <2>5. InStep'
      BY <1>1, <1>4, <1>6, <1>8, <1>10, <1>12, <1>17, <2>3, <2>4 DEF InStep
  <2>6. bc'.sent + bc'.failed = Position(r)
      BY <1>4, <1>17 DEF Position
  <2>7. OncePerRecipient'
      BY <1>1, <2>4, <2>6 DEF OncePerRecipient
  <2> QED BY <2>1, <2>2, <2>5, <2>7
<1>18. Exact'
    BY <1>1, <1>17 DEF Exact
<1>19. SentAsCounted'
  <2>1. OncePerRecipient'
      BY <1>1, <1>17 DEF OncePerRecipient
  <2> QED BY <1>1, <1>4, <2>1 DEF BroadcastInv, SentAsCounted, DoneReachedEverybody,
                CancelStopsSending
<1> QED BY <1>11, <1>13, <1>14, <1>15, <1>16, <1>18, <1>19 DEF BroadcastInv

LEMMA FinishRunKeeps == ASSUME BroadcastInv, NEW r \in Runs, FinishRun(r) PROVE BroadcastInv'
<1>1. /\ run[r].stage = "last" /\ EndRun(r) /\ job' = JobDone(run[r].job)
      /\ bc' = Written(r, FinalStatus(r))
      /\ UNCHANGED <<request, texts, after, past, mishaps>>
    BY DEF FinishRun
<1>2. Sending(r)
    BY <1>1 DEF Sending
<1>3. /\ run[r].sent \in Nat /\ run[r].failed \in Nat /\ run[r].job \in Requests
      /\ bc.status \in BcStatuses /\ Recipients \in Nat
      /\ \A n \in 1..Recipients : texts[n] \in Nat
    BY BcParts, BroadcastAssumption DEF BroadcastInv, BcTypeOK
<1>4. FinalStatus(r) \in {"done", "failed"} /\ FinalStatus(r) \in BcStatuses
    BY DEF FinalStatus, BcStatuses
<1>5. /\ bc' \in BcRow /\ bc'.sent \in Nat /\ bc'.failed \in Nat
      /\ bc'.status = bc.status \/ bc'.status \in {"done", "failed"}
      /\ "overlapped" \notin past => bc'.sent <= run[r].sent /\ bc'.failed <= run[r].failed
      /\ past = {} => bc'.sent = run[r].sent /\ bc'.failed = run[r].failed
    BY <1>1, <1>2, <1>4, WrittenParts
<1>6. /\ run' \in [Runs -> RunType] /\ run'[r].stage = "idle"
      /\ \A s \in Runs : s # r => run'[s] = run[s]
      /\ \A s \in Runs : run'[s].stage # "idle" => s # r /\ run'[s] = run[s]
    BY <1>1, RunEnds DEF BroadcastInv
<1>7. /\ job' \in [Requests -> JobType] /\ job'[run[r].job].status = "done"
      /\ \A p \in Requests : p # run[r].job => job'[p] = job[p]
    BY <1>1, <1>3, JobsMove DEF BroadcastInv
<1>8. BcTypeOK'
    BY <1>1, <1>5, <1>6, <1>7 DEF BroadcastInv, BcTypeOK
<1>9. Alone'
    BY <1>1, <1>6 DEF BroadcastInv, Alone
<1>10. Placed'
    BY <1>6 DEF BroadcastInv, Placed, Position
<1>11. Stops'
    BY <1>1, <1>5, <1>6 DEF BroadcastInv, Stops
<1>12. ASSUME "overlapped" \notin past
       PROVE  /\ \A s \in Runs : run'[s].stage = "idle"
              /\ \A n \in 1..Recipients : n <= Position(r) => texts[n] > 0
              /\ \A n \in 1..Recipients : texts[n] > 0
  <2>1. \A s \in Runs : run'[s].stage = "idle"
      BY <1>1, <1>6, <1>12, OnlyOneSends DEF BroadcastInv
  <2>2. \A n \in 1..Recipients : n <= Position(r) => texts[n] > 0
      BY <1>2, <1>12 DEF BroadcastInv, Backed
  <2>3. Position(r) >= Recipients /\ Position(r) \in Nat
      BY <1>1, <1>3 DEF BroadcastInv, Placed, Position
  <2> QED BY <1>3, <2>1, <2>2, <2>3
<1>13. Backed'
    BY <1>1, <1>12 DEF Backed, Sending
<1>14. ASSUME past = {} PROVE OneJob' /\ Untouched' /\ InStep' /\ OncePerRecipient'
  <2>1. \A s \in Runs : run'[s].stage = "idle"
      BY <1>12, <1>14
  <2>2. job[run[r].job].status = "running" /\ OneJob
      BY <1>1, <1>14 DEF OneJob, BroadcastInv, Exact
  <2>3. OneJob'
      BY <1>3, <1>7, <2>1, <2>2 DEF OneJob
  <2>4. Untouched'
      BY <1>3, <1>7 DEF Untouched
  <2>5. InStep'
      BY <2>1 DEF InStep, Sending
  <2>6. \A n \in 1..Recipients : texts[n] = IF n <= Position(r) THEN 1 ELSE 0
      BY <1>2, <1>14 DEF InStep, BroadcastInv, Exact
  <2>7. bc'.sent + bc'.failed = Position(r)
      BY <1>5, <1>14 DEF Position
  <2>8. OncePerRecipient'
      BY <1>1, <2>6, <2>7 DEF OncePerRecipient
  <2> QED BY <2>3, <2>4, <2>5, <2>8
<1>15. Exact'
    BY <1>1, <1>14 DEF Exact
<1>16. SentAsCounted'
  <2>1. OncePerRecipient'
      BY <1>1, <1>14 DEF OncePerRecipient
  <2>2. DoneReachedEverybody'
      BY <1>1, <1>12 DEF DoneReachedEverybody
  <2>3. CancelStopsSending'
      BY <1>1 DEF BroadcastInv, SentAsCounted, CancelStopsSending
  <2> QED BY <2>1, <2>2, <2>3 DEF SentAsCounted
<1> QED BY <1>8, <1>9, <1>10, <1>11, <1>13, <1>15, <1>16 DEF BroadcastInv

LEMMA MishapsStayBounded == ASSUME BcTypeOK, Mishap PROVE mishaps' \in 0..MaxMishaps
BY BroadcastAssumption DEF BcTypeOK, Mishap

(* A run that raises or dies has left work that may be repeated.           *)
LEMMA LostRunKeeps ==
    ASSUME BroadcastInv, NEW r \in Runs, RunRaises(r) \/ RunDies(r) PROVE BroadcastInv'
<1>1. run[r].job \in Requests /\ job \in [Requests -> JobType]
    BY BcParts DEF BroadcastInv, BcTypeOK
<1>2. EndRun(r) /\ past' = past \cup {"repeated"} /\ UNCHANGED <<bc, request, texts, after>>
    BY DEF RunRaises, RunDies
<1>3. mishaps' \in 0..MaxMishaps
    BY MishapsStayBounded DEF RunRaises, RunDies, BroadcastInv
<1>4. job' \in [Requests -> JobType]
  <2>1. job' = Retried(run[r].job) \/ job' = job
      BY DEF RunRaises, RunDies
  <2> QED BY <1>1, <2>1, JobsMove DEF BroadcastInv
<1>5. past' # {}
    BY <1>2
<1> QED BY <1>2, <1>3, <1>4, <1>5, EndsKeep

LEMMA ClaimsKeep ==
    ASSUME BroadcastInv, NEW r \in Runs, NEW q \in Requests,
           ClaimJob(r, q) \/ ReclaimJob(r, q)
    PROVE  BroadcastInv'
<1>1. BeginRun(r, q) /\ job[q].status \in {"queued", "running"}
    BY DEF ClaimJob, ReclaimJob
<1>2. mishaps' \in 0..MaxMishaps
    BY MishapsStayBounded DEF ClaimJob, ReclaimJob, BroadcastInv, BcTypeOK
<1> QED BY <1>1, <1>2, BeginsKeep

(* The invariant of a broadcast: one run at a time unless a lease lapsed,  *)
(* every counted recipient written to, every run between what the row says *)
(* and what it has counted, and, while nothing was repeated, exactly so.   *)
THEOREM BroadcastInvariance == BcSpec => []BroadcastInv
<1>1. BcInit => BroadcastInv
    BY BroadcastStarts
<1>2. BroadcastInv /\ [BcNext]_bcVars => BroadcastInv'
  <2> SUFFICES ASSUME BroadcastInv, [BcNext]_bcVars PROVE BroadcastInv'
      OBVIOUS
  <2>1. CASE UNCHANGED bcVars
    <3>1. BcTypeOK' /\ Alone' /\ Placed' /\ Backed' /\ Stops'
        BY <2>1 DEF bcVars, BroadcastInv, BcTypeOK, Alone, Placed, Backed, Stops, Sending,
                    Position
    <3>2. Exact'
        BY <2>1 DEF bcVars, BroadcastInv, Exact, OneJob, Untouched, InStep, Sending, Position
    <3>3. SentAsCounted'
        BY <2>1 DEF bcVars, BroadcastInv, SentAsCounted, OncePerRecipient,
                    DoneReachedEverybody, CancelStopsSending
    <3> QED BY <3>1, <3>2, <3>3 DEF BroadcastInv
  <2>2. CASE \E q \in Requests : ReadRow(q) \/ CommitSend(q) \/ CommitCancel(q)
      BY <2>2, ReadRowKeeps, CommitSendKeeps, CommitCancelKeeps
  <2>3. CASE \E r \in Runs : RunStep(r)
      BY <2>3, StartRunKeeps, RefreshKeeps, SendOneKeeps, CountOneKeeps, FinishRunKeeps
         DEF RunStep
  <2>4. CASE \E r \in Runs : RunRaises(r) \/ RunDies(r)
      BY <2>4, LostRunKeeps
  <2>5. CASE \E r \in Runs : \E q \in Requests : ClaimJob(r, q) \/ ReclaimJob(r, q)
      BY <2>5, ClaimsKeep
  <2> QED BY <2>1, <2>2, <2>3, <2>4, <2>5 DEF BcNext
<1> QED BY <1>1, <1>2, PTL DEF BcSpec

(* What a broadcast sends and counts, for any number of requests, runs and *)
(* recipients: no recipient is skipped by a broadcast that says done,      *)
(* none is written to twice while no work was repeated, and a cancelled    *)
(* broadcast sends at most the message in hand of each run.                *)
THEOREM SendingIsCounted == BcSpec => []SentAsCounted
BY BroadcastInvariance, PTL DEF BroadcastInv

=============================================================================
