--------------------------- MODULE JobQueueProofs ---------------------------
(***************************************************************************)
(* The safety invariants of the job queue hold for any set of rows and of  *)
(* workers, any batch limit, lease, retry cap, budgets and deadlines.      *)
(*                                                                         *)
(* The argument is the inductive invariant IInv of module JobQueue.  The   *)
(* step proofs are grouped by what a step does to the table: the enqueue   *)
(* and the cancels, the steps inside a job that touch no row, the clock,   *)
(* the steps that forget a job, the write of an outcome, and the claim.    *)
(***************************************************************************)
EXTENDS JobQueue, FiniteSetTheorems, TLAPS

USE ConstantsAssumption

(* A retry is always later than now. *)
LEMMA BackoffIsPositive ==
    ASSUME NEW a \in Nat PROVE Backoff(a) \in Nat \ {0}
  BY DEF Backoff

(* What a worker that is not idle is working on. *)
LEMMA CurrentJob ==
    ASSUME TypeOK, NEW w \in Workers, pc[w] # "idle"
    PROVE  /\ batch[w] \in Seq(Snapshots)
           /\ batch[w] # <<>>
           /\ Len(batch[w]) \in Nat \ {0}
           /\ 1 \in DOMAIN batch[w]
           /\ Current(w) = batch[w][1]
           /\ Current(w).id \in Jobs
           /\ Current(w).attempts \in Nat
           /\ w \in Holders(Current(w).id)
           /\ Tail(batch[w]) \in Seq(Snapshots)
           /\ DOMAIN Tail(batch[w]) = 1 .. Len(batch[w]) - 1
           /\ \A i \in DOMAIN Tail(batch[w]) : Tail(batch[w])[i] = batch[w][i + 1]
  <1>1. batch[w] \in Seq(Snapshots) /\ batch[w] # <<>>
    BY DEF TypeOK
  <1>2. /\ Len(batch[w]) \in Nat \ {0} /\ Head(batch[w]) = batch[w][1]
        /\ 1 \in DOMAIN batch[w]
    BY <1>1
  <1>3. batch[w][1] \in Snapshots
    BY <1>1, <1>2
  <1>4. Tail(batch[w]) \in Seq(Snapshots) /\ Len(Tail(batch[w])) = Len(batch[w]) - 1
    BY <1>1, <1>2
  <1>5. \A i \in 1 .. Len(batch[w]) - 1 : Tail(batch[w])[i] = batch[w][i + 1]
    BY <1>1, <1>2
  <1>6. w \in Holders(Current(w).id)
    BY <1>2 DEF Holders, Current
  <1> QED
    BY <1>1, <1>2, <1>3, <1>4, <1>5, <1>6 DEF Current, Snapshots

(* What the batches hold. *)
LEMMA HeldAreJobs ==
    ASSUME TypeOK, NEW w \in Workers, NEW i \in DOMAIN batch[w]
    PROVE  /\ batch[w][i] \in Snapshots
           /\ batch[w][i].id \in Jobs /\ batch[w][i].attempts \in Nat
           /\ w \in Holders(batch[w][i].id)
  <1>1. batch[w] \in Seq(Snapshots)
    BY DEF TypeOK
  <1>2. batch[w][i] \in Snapshots
    BY <1>1
  <1> QED
    BY <1>2 DEF Snapshots, Holders

(* The row an outcome transaction wants after a failed attempt. *)
LEMMA AfterFailureRow ==
    ASSUME TypeOK, NEW j \in Jobs, NEW a \in Nat
    PROVE  LET row == AfterFailure(j, a) IN
           /\ row \in RowType
           /\ row.status \in {"failed", "queued"}
           /\ row.runAt = job[j].runAt \/ row.runAt < job[j].expiresAt
           /\ row.status = "queued" => /\ job[j].attempts < MaxAttempts[j]
                                       /\ now < job[j].expiresAt
  <1> DEFINE row == AfterFailure(j, a)
             retryAt == now + Backoff(a)
             spent == job[j].attempts >= MaxAttempts[j]
                        \/ retryAt >= job[j].expiresAt
  <1>1. /\ job[j] \in RowType /\ now \in Nat /\ MaxAttempts[j] \in Nat
        /\ job[j].attempts \in Nat /\ job[j].expiresAt \in Nat
    BY DEF TypeOK, RowType
  <1>2. retryAt \in Nat /\ retryAt > now
    BY <1>1, BackoffIsPositive
  <1>3. row = IF spent
              THEN [job[j] EXCEPT !.status = "failed", !.lockedUntil = None]
              ELSE [job[j] EXCEPT !.status = "queued", !.lockedUntil = None,
                                  !.runAt = retryAt]
    BY DEF AfterFailure
  <1> HIDE DEF row, retryAt
  <1>4. CASE spent
    <2>1. row = [job[j] EXCEPT !.status = "failed", !.lockedUntil = None]
      BY <1>3, <1>4
    <2>2. row \in RowType /\ row.status = "failed" /\ row.runAt = job[j].runAt
      BY <1>1, <2>1 DEF RowType, Statuses, Settled, None
    <2> QED
      BY <2>2 DEF row
  <1>5. CASE ~spent
    <2>1. row = [job[j] EXCEPT !.status = "queued", !.lockedUntil = None,
                               !.runAt = retryAt]
      BY <1>3, <1>5
    <2>2. row \in RowType /\ row.status = "queued" /\ row.runAt = retryAt
      BY <1>1, <1>2, <2>1 DEF RowType, Statuses, None
    <2>3. /\ job[j].attempts < MaxAttempts[j] /\ retryAt < job[j].expiresAt
          /\ now < job[j].expiresAt
      BY <1>1, <1>2, <1>5
    <2> QED
      BY <2>2, <2>3 DEF row
  <1> QED
    BY <1>4, <1>5

(* What a flush does to a row. *)
LEMMA FlushedRow ==
    ASSUME NEW row \in RowType, NEW old \in RowType, NEW new \in RowType
    PROVE  LET f == Flushed(row, old, new) IN
           /\ f \in RowType
           /\ f.attempts = row.attempts /\ f.expiresAt = row.expiresAt
           /\ f.status = IF new.status = old.status THEN row.status ELSE new.status
           /\ f.runAt = IF new.runAt = old.runAt THEN row.runAt ELSE new.runAt
  <1> DEFINE status == IF new.status = old.status THEN row.status ELSE new.status
             runAt == IF new.runAt = old.runAt THEN row.runAt ELSE new.runAt
             locked == IF new.lockedUntil = old.lockedUntil THEN row.lockedUntil
                                                            ELSE new.lockedUntil
  <1>1. Flushed(row, old, new) = [row EXCEPT !.status = status, !.runAt = runAt,
                                             !.lockedUntil = locked]
    BY DEF Flushed
  <1>2. status \in Statuses /\ runAt \in Nat /\ locked \in Nat
    BY DEF RowType
  <1> HIDE DEF status, runAt, locked
  <1>3. LET f == [row EXCEPT !.status = status, !.runAt = runAt,
                             !.lockedUntil = locked] IN
        /\ f \in RowType /\ f.status = status /\ f.runAt = runAt
        /\ f.attempts = row.attempts /\ f.expiresAt = row.expiresAt
    BY <1>2 DEF RowType
  <1> QED
    BY <1>1, <1>3 DEF status, runAt

-----------------------------------------------------------------------------
LEMMA InitEstablishes == Init => IInv
  <1> SUFFICES ASSUME Init PROVE IInv
    OBVIOUS
  <1>1. TypeOK
    <2>1. Blank \in RowType
      BY DEF Blank, RowType, Statuses, None
    <2> QED
      BY <2>1 DEF Init, TypeOK, Places
  <1>2. \A j \in Jobs : job[j].status = "absent" /\ job[j].attempts = 0
    BY DEF Init, Blank
  <1>3. \A w \in Workers : batch[w] = <<>> /\ DOMAIN batch[w] = {} /\ pc[w] = "idle"
    BY DEF Init
  <1>4. AbsentIsFresh /\ DoneWasCompleted /\ RunsInTime
    BY <1>2, <1>3 DEF Init, AbsentIsFresh, DoneWasCompleted, RunsInTime, Holders
  <1>5. ReturnedWasCompleted /\ BatchesAreDistinct /\ HandsAgree /\ FailedWasSeen
    BY <1>3 DEF ReturnedWasCompleted, BatchesAreDistinct, HandsAgree,
                FailedWasSeen, Writing
  <1>6. NumbersDiffer
    BY <1>3 DEF Init, NumbersDiffer
  <1>7. AttemptsAddUp
    <2> SUFFICES ASSUME NEW j \in Jobs
                 PROVE  job[j].attempts
                          + (IF job[j].status \in {"absent", "queued"} THEN 1 ELSE 0)
                          <= 1 + Cardinality(putBack[j]) + reclaims[j]
      BY DEF AttemptsAddUp
    <2>1. Cardinality(putBack[j]) = 0 /\ reclaims[j] = 0
      BY FS_EmptySet DEF Init
    <2> QED
      BY <1>2, <2>1
  <1>8. LeaseIsOnTheRow /\ ExclusiveUnlessLate
    BY <1>3 DEF LeaseIsOnTheRow, ExclusiveUnlessLate, Leased, Holders
  <1> QED
    BY <1>1, <1>4, <1>5, <1>6, <1>7, <1>8 DEF IInv

(* A row appears.  Nobody holds it, and nobody is to cancel it. *)
LEMMA EnqueuePreserves ==
    ASSUME IInv, NEW j \in Jobs, NEW delay \in Nat, Enqueue(j, delay)
    PROVE  IInv'
  <1> USE DEF IInv
  <1>1. UNCHANGED <<now, batch, until, pc, saw, puts, cancelling, crossed,
                    completed, reclaims, putBack, lateMark>>
    BY DEF Enqueue, copies, cancels, history
  <1>2. /\ job[j] \in RowType /\ now \in Nat /\ Ttl[j] \in Nat \ {0}
        /\ job[j].status = "absent" /\ Holders(j) = {} /\ j \notin cancelling
    BY DEF Enqueue, TypeOK, AbsentIsFresh
  <1> DEFINE row == [job[j] EXCEPT !.status = "queued", !.runAt = now + delay,
                                   !.expiresAt = now + delay + Ttl[j]]
  <1>3. /\ row \in RowType /\ row.attempts = job[j].attempts
        /\ row.status = "queued" /\ row.runAt < row.expiresAt
    <2>1. now + delay \in Nat /\ now + delay + Ttl[j] \in Nat
      BY <1>2
    <2>2. /\ row \in RowType /\ row.attempts = job[j].attempts
          /\ row.status = "queued" /\ row.runAt = now + delay
          /\ row.expiresAt = now + delay + Ttl[j]
      BY <1>2, <2>1 DEF RowType, Statuses
    <2>3. now + delay < now + delay + Ttl[j]
      BY <1>2
    <2> HIDE DEF row
    <2> QED
      BY <2>2, <2>3
  <1>4. /\ job' \in [Jobs -> RowType] /\ job'[j] = row
        /\ \A i \in Jobs \ {j} : job'[i] = job[i]
    BY <1>3 DEF Enqueue, TypeOK
  <1> HIDE DEF row
  <1>5. TypeOK'
    BY <1>1, <1>4 DEF TypeOK
  <1>6. \A i \in Jobs : Holders(i)' = Holders(i)
    BY <1>1 DEF Holders
  <1>7. AbsentIsFresh' /\ RunsInTime' /\ DoneWasCompleted'
    BY <1>1, <1>3, <1>4, <1>6 DEF AbsentIsFresh, RunsInTime, DoneWasCompleted
  <1>8. ReturnedWasCompleted' /\ BatchesAreDistinct'
    BY <1>1 DEF ReturnedWasCompleted, BatchesAreDistinct, Current
  <1>9. \A w \in Workers : pc[w] # "idle" =>
           Current(w)' = Current(w) /\ Current(w).id \in Jobs \ {j}
    BY <1>1, <1>2, CurrentJob DEF Current
  <1>10. HandsAgree'
    BY <1>1, <1>4, <1>9 DEF HandsAgree, Writing
  <1>11. NumbersDiffer' /\ AttemptsAddUp'
    <2>1. \A i \in Jobs : job'[i].attempts = job[i].attempts
      BY <1>3, <1>4
    <2>2. \A w \in Workers : \A i \in DOMAIN batch[w] : batch[w][i].id \in Jobs
      BY HeldAreJobs
    <2>3. NumbersDiffer'
      BY <1>1, <2>1, <2>2 DEF NumbersDiffer
    <2>4. AttemptsAddUp'
      BY <1>1, <1>2, <1>3, <1>4 DEF AttemptsAddUp
    <2> QED
      BY <2>3, <2>4
  <1>12. \A w \in Workers, i \in Jobs : Leased(w, i)' <=> Leased(w, i)
    BY <1>1, <1>6 DEF Leased
  <1>13. ExclusiveUnlessLate'
    BY <1>1, <1>12 DEF ExclusiveUnlessLate
  <1>14. LeaseIsOnTheRow'
    BY <1>1, <1>2, <1>4, <1>12 DEF LeaseIsOnTheRow, Leased
  <1>15. FailedWasSeen'
    BY <1>1, <1>9, <1>12 DEF FailedWasSeen, Writing
  <1> QED
    BY <1>5, <1>7, <1>8, <1>10, <1>11, <1>13, <1>14, <1>15

(* A cancel reads a row or forgets it: the table stays as it is. *)
LEMMA CancelsInHandPreserve ==
    ASSUME IInv, NEW j \in Jobs, CancelReads(j) \/ CancelRollsBack(j)
    PROVE  IInv'
  <1> USE DEF IInv
  <1>1. UNCHANGED <<now, job, batch, until, pc, saw, puts, crossed,
                    completed, reclaims, putBack, lateMark>>
    BY DEF CancelReads, CancelRollsBack, copies, history
  <1>2. /\ cancelling' \subseteq Jobs
        /\ \A i \in Jobs : job[i].status = "absent" =>
              (i \in cancelling' => i \in cancelling)
    BY DEF CancelReads, CancelRollsBack, TypeOK
  <1>3. \A i \in Jobs : Holders(i)' = Holders(i)
    BY <1>1 DEF Holders
  <1>4. TypeOK' /\ AbsentIsFresh'
    BY <1>1, <1>2, <1>3 DEF TypeOK, AbsentIsFresh
  <1>5. /\ DoneWasCompleted' /\ ReturnedWasCompleted' /\ BatchesAreDistinct'
        /\ RunsInTime' /\ HandsAgree' /\ NumbersDiffer' /\ AttemptsAddUp'
    BY <1>1 DEF DoneWasCompleted, ReturnedWasCompleted, BatchesAreDistinct, Current,
                RunsInTime, HandsAgree, NumbersDiffer, AttemptsAddUp
  <1>6. LeaseIsOnTheRow' /\ ExclusiveUnlessLate'
    BY <1>1, <1>3 DEF LeaseIsOnTheRow, ExclusiveUnlessLate, Leased
  <1>7. FailedWasSeen'
    <2>1. \A w \in Workers : pc[w] # "idle" =>
             Current(w)' = Current(w) /\ Current(w).id \in Jobs
      BY <1>1, CurrentJob DEF Current
    <2> QED
      BY <1>1, <1>3, <2>1 DEF FailedWasSeen, Writing, Leased
  <1> QED
    BY <1>4, <1>5, <1>6, <1>7

(* A cancel writes.  A row that is still queued is under no live lease, and
   one that is not is remembered as crossed. *)
LEMMA CancelWritesPreserves ==
    ASSUME IInv, NEW j \in Jobs, CancelWrites(j)
    PROVE  IInv'
  <1> USE DEF IInv
  <1>1. UNCHANGED <<now, batch, until, pc, saw, puts,
                    completed, reclaims, putBack, lateMark>>
    BY DEF CancelWrites, copies, history
  <1>2. /\ job[j] \in RowType /\ job[j].status # "absent"
        /\ cancelling' \subseteq cancelling
        /\ crossed \subseteq crossed' /\ crossed' \subseteq Jobs
        /\ job[j].status # "queued" => j \in crossed'
    BY DEF CancelWrites, TypeOK, AbsentIsFresh
  <1>3. [job[j] EXCEPT !.status = "cancelled"] \in RowType
    BY <1>2 DEF RowType, Statuses, Settled
  <1>4. /\ job' \in [Jobs -> RowType]
        /\ job'[j] = [job[j] EXCEPT !.status = "cancelled"]
        /\ \A i \in Jobs \ {j} : job'[i] = job[i]
    BY <1>3 DEF CancelWrites, TypeOK
  <1>5. /\ job'[j].status = "cancelled" /\ job'[j].attempts = job[j].attempts
        /\ job'[j].runAt = job[j].runAt /\ job'[j].expiresAt = job[j].expiresAt
        /\ job'[j].lockedUntil = job[j].lockedUntil
    BY <1>2, <1>4 DEF RowType
  <1>6. TypeOK'
    BY <1>1, <1>2, <1>4 DEF TypeOK
  <1>7. \A i \in Jobs : Holders(i)' = Holders(i)
    BY <1>1 DEF Holders
  <1>8. AbsentIsFresh' /\ RunsInTime' /\ DoneWasCompleted'
    BY <1>1, <1>2, <1>4, <1>5, <1>7 DEF AbsentIsFresh, RunsInTime, DoneWasCompleted
  <1>9. ReturnedWasCompleted' /\ BatchesAreDistinct'
    BY <1>1 DEF ReturnedWasCompleted, BatchesAreDistinct, Current
  <1>10. \A i \in Jobs : /\ job'[i].attempts = job[i].attempts
                         /\ job'[i].expiresAt = job[i].expiresAt
    BY <1>4, <1>5
  <1>11. HandsAgree'
    <2>1. \A w \in Workers : pc[w] # "idle" =>
             Current(w)' = Current(w) /\ Current(w).id \in Jobs
      BY <1>1, CurrentJob DEF Current
    <2> QED
      BY <1>1, <1>10, <2>1 DEF HandsAgree, Writing
  <1>12. NumbersDiffer'
    <2>1. \A w \in Workers : \A i \in DOMAIN batch[w] : batch[w][i].id \in Jobs
      BY HeldAreJobs
    <2> QED
      BY <1>1, <1>10, <2>1 DEF NumbersDiffer
  <1>13. AttemptsAddUp'
    <2> SUFFICES ASSUME NEW i \in Jobs
                 PROVE  job'[i].attempts
                          + (IF job'[i].status \in {"absent", "queued"} THEN 1 ELSE 0)
                          <= 1 + Cardinality(putBack[i]) + reclaims[i]
      BY <1>1 DEF AttemptsAddUp
    <2>1. CASE i = j
      <3>1. job[j].attempts \in Nat
        BY <1>2 DEF RowType
      <3>2. Cardinality(putBack[j]) \in Nat /\ reclaims[j] \in Nat
        <4>1. putBack[j] \in SUBSET (1 .. MaxAttempts[j] - 1)
          BY DEF NumbersDiffer
        <4>2. IsFiniteSet(1 .. MaxAttempts[j] - 1)
          BY FS_Interval
        <4> QED
          BY <4>1, <4>2, FS_Subset, FS_CardinalityType DEF TypeOK
      <3> QED
        BY <1>5, <2>1, <3>1, <3>2 DEF AttemptsAddUp
    <2>2. CASE i # j
      BY <1>4, <2>2 DEF AttemptsAddUp
    <2> QED
      BY <2>1, <2>2
  <1>14. \A w \in Workers, i \in Jobs : Leased(w, i)' <=> Leased(w, i)
    BY <1>1, <1>7 DEF Leased
  <1>15. ExclusiveUnlessLate'
    BY <1>1, <1>14 DEF ExclusiveUnlessLate
  <1>16. LeaseIsOnTheRow'
    BY <1>1, <1>2, <1>4, <1>5, <1>14 DEF LeaseIsOnTheRow
  <1>17. FailedWasSeen'
    <2>1. \A w \in Workers : pc[w] # "idle" =>
             Current(w)' = Current(w) /\ Current(w).id \in Jobs
      BY <1>1, CurrentJob DEF Current
    <2> QED
      BY <1>1, <1>14, <2>1 DEF FailedWasSeen, Writing
  <1> QED
    BY <1>6, <1>8, <1>9, <1>11, <1>12, <1>13, <1>15, <1>16, <1>17

(* The steps inside a job that write no row.  Only the return of a handler
   leads to the place where done is written, and it records the completion.
   A read leaves in hand what HandsAgree and FailedWasSeen ask for. *)
LEMMA ReadsAgree ==
    ASSUME IInv, NEW w \in Workers, MarkDoneReads(w) \/ MarkFailedReads(w)
    PROVE  LET j == Current(w).id IN
           /\ saw'[w] = job[j] /\ puts'[w] \in RowType /\ job[j].status # "absent"
           /\ puts'[w].status \in {"done", "failed", "queued"}
           /\ puts'[w].status = "done" <=> pc'[w] = "writesDone"
           /\ puts'[w].runAt = job[j].runAt \/ puts'[w].runAt < job[j].expiresAt
           /\ puts'[w].status = "queued" =>
                 Current(w).attempts < MaxAttempts[j] /\ now < job[j].expiresAt
  <1> USE DEF IInv
  <1> DEFINE j == Current(w).id
  <1>1. /\ pc[w] # "idle" /\ j \in Jobs /\ Current(w).attempts \in Nat
        /\ w \in Holders(j) /\ job[j] \in RowType
    BY CurrentJob DEF MarkDoneReads, MarkFailedReads, Reads, TypeOK
  <1>2. Current(w).attempts \in 1 .. job[j].attempts
    BY <1>1, CurrentJob DEF NumbersDiffer
  <1>3. job[j].status # "absent"
    BY <1>1 DEF AbsentIsFresh
  <1>4. CASE MarkDoneReads(w)
    <2> DEFINE row == [job[j] EXCEPT !.status = "done", !.lockedUntil = None]
    <2>1. row \in RowType /\ row.status = "done" /\ row.runAt = job[j].runAt
      BY <1>1 DEF RowType, Statuses, Settled, None
    <2>2. saw'[w] = job[j] /\ puts'[w] = row /\ pc'[w] = "writesDone"
      BY <1>4 DEF MarkDoneReads, Reads, Goes, TypeOK
    <2> QED
      BY <1>3, <2>1, <2>2
  <1>5. CASE MarkFailedReads(w)
    <2> DEFINE row == AfterFailure(j, Current(w).attempts)
    <2>1. /\ saw'[w] = job[j] /\ puts'[w] = row
          /\ pc'[w] \in {"writesFailed", "netWrites"}
      BY <1>5 DEF MarkFailedReads, Reads, Goes, TypeOK
    <2>2. /\ row \in RowType /\ row.status \in {"failed", "queued"}
          /\ row.runAt = job[j].runAt \/ row.runAt < job[j].expiresAt
          /\ row.status = "queued" => /\ job[j].attempts < MaxAttempts[j]
                                      /\ now < job[j].expiresAt
      BY <1>1, AfterFailureRow
    <2>3. job[j].attempts \in Nat /\ MaxAttempts[j] \in Nat
      BY <1>1 DEF RowType
    <2> HIDE DEF row, j
    <2>4. row.status = "queued" => Current(w).attempts < MaxAttempts[j]
      BY <1>1, <1>2, <2>2, <2>3
    <2> QED
      BY <1>3, <2>1, <2>2, <2>4 DEF j
  <1> QED
    BY <1>4, <1>5

LEMMA InsideStepsPreserve ==
    ASSUME IInv, NEW w \in Workers,
           \/ StartHandler(w) \/ HandlerReturns(w) \/ HandlerRaises(w)
           \/ MarkDoneReads(w) \/ MarkFailedReads(w) \/ MarkErrs(w)
    PROVE  IInv'
  <1> USE DEF IInv
  <1>1. UNCHANGED <<now, job, batch, until, cancelling, crossed,
                    reclaims, putBack, lateMark>>
    BY DEF StartHandler, HandlerReturns, HandlerRaises, MarkDoneReads,
           MarkFailedReads, MarkErrs, Reads, cancels, history
  <1>2. /\ pc[w] # "idle" /\ pc'[w] \in Places \ {"idle"}
        /\ pc' \in [Workers -> Places]
        /\ \A v \in Workers \ {w} : pc'[v] = pc[v]
    BY DEF StartHandler, HandlerReturns, HandlerRaises, MarkDoneReads,
           MarkFailedReads, MarkErrs, Goes, TypeOK, Places, Reading, Writing
  <1>3. /\ Current(w).id \in Jobs
        /\ \A v \in Workers : Current(v)' = Current(v)
        /\ \A j \in Jobs : Holders(j)' = Holders(j)
        /\ \A v \in Workers, j \in Jobs : Leased(v, j)' <=> Leased(v, j)
    BY <1>1, <1>2, CurrentJob DEF Current, Holders, Leased
  <1>4. /\ completed' \in [Jobs -> BOOLEAN]
        /\ \A j \in Jobs : completed[j] => completed'[j]
        /\ pc'[w] \in {"returned", "writesDone"} => completed'[Current(w).id]
    BY <1>3 DEF StartHandler, HandlerReturns, HandlerRaises, MarkDoneReads,
                MarkFailedReads, MarkErrs, Reads, Goes, history, TypeOK,
                ReturnedWasCompleted
  <1>5. /\ saw' \in [Workers -> RowType] /\ puts' \in [Workers -> RowType]
        /\ \A v \in Workers \ {w} : saw'[v] = saw[v] /\ puts'[v] = puts[v]
    <2>1. CASE MarkDoneReads(w) \/ MarkFailedReads(w)
      <3>1. saw'[w] \in RowType /\ puts'[w] \in RowType
        BY <1>3, <2>1, ReadsAgree DEF TypeOK
      <3>2. PICK row : Reads(w, row)
        BY <2>1 DEF MarkDoneReads, MarkFailedReads
      <3> QED
        BY <3>1, <3>2 DEF Reads, TypeOK
    <2>2. CASE MarkErrs(w)
      <3>1. Blank \in RowType
        BY DEF Blank, RowType, Statuses, None
      <3> QED
        BY <2>2, <3>1 DEF MarkErrs, Closes, TypeOK
    <2>3. CASE StartHandler(w) \/ HandlerReturns(w) \/ HandlerRaises(w)
      BY <2>3 DEF StartHandler, HandlerReturns, HandlerRaises, copies, TypeOK
    <2> QED
      BY <2>1, <2>2, <2>3
  <1>6. pc'[w] \in Writing => MarkDoneReads(w) \/ MarkFailedReads(w)
    BY DEF StartHandler, HandlerReturns, HandlerRaises, MarkErrs, Goes, TypeOK,
           Writing
  <1>7. TypeOK'
    BY <1>1, <1>2, <1>4, <1>5 DEF TypeOK
  <1>8. /\ AbsentIsFresh' /\ RunsInTime' /\ NumbersDiffer' /\ AttemptsAddUp'
        /\ LeaseIsOnTheRow' /\ ExclusiveUnlessLate'
    BY <1>1, <1>3 DEF AbsentIsFresh, RunsInTime, NumbersDiffer, AttemptsAddUp,
                      LeaseIsOnTheRow, ExclusiveUnlessLate
  <1>9. DoneWasCompleted'
    BY <1>1, <1>4 DEF DoneWasCompleted
  <1>10. ReturnedWasCompleted'
    <2> SUFFICES ASSUME NEW v \in Workers, pc'[v] \in {"returned", "writesDone"}
                 PROVE  completed'[Current(v).id]
      BY <1>3 DEF ReturnedWasCompleted
    <2>1. CASE v = w
      BY <1>4, <2>1
    <2>2. CASE v # w
      <3>1. pc[v] \in {"returned", "writesDone"}
        BY <1>2, <2>2
      <3>2. completed[Current(v).id] /\ Current(v).id \in Jobs
        BY <3>1, CurrentJob DEF ReturnedWasCompleted
      <3> QED
        BY <1>4, <3>2
    <2> QED
      BY <2>1, <2>2
  <1>11. BatchesAreDistinct'
    BY <1>1, <1>2 DEF BatchesAreDistinct
  <1>12. HandsAgree'
    <2> SUFFICES ASSUME NEW v \in Workers, pc'[v] \in Writing
                 PROVE  LET s == saw'[v]  p == puts'[v]  j == Current(v).id IN
                        /\ s.status # "absent" /\ s.expiresAt = job[j].expiresAt
                        /\ p.status \in {"done", "failed", "queued"}
                        /\ p.status = "done" <=> pc'[v] = "writesDone"
                        /\ p.runAt = s.runAt \/ p.runAt < s.expiresAt
                        /\ p.status = "queued" => Current(v).attempts < MaxAttempts[j]
      BY <1>1, <1>3 DEF HandsAgree
    <2>1. CASE v = w
      BY <1>6, <2>1, ReadsAgree
    <2>2. CASE v # w
      BY <1>2, <1>5, <2>2 DEF HandsAgree
    <2> QED
      BY <2>1, <2>2
  <1>13. FailedWasSeen'
    <2> SUFFICES ASSUME NEW v \in Workers, pc'[v] \in Writing,
                        puts'[v].status = "queued",
                        Leased(v, Current(v).id), ~lateMark[Current(v).id]
                 PROVE  saw'[v].status # "failed"
      <3>1. \A v \in Workers : pc'[v] \in Writing => Current(v).id \in Jobs
        BY <1>2, CurrentJob DEF Writing
      <3> QED
        BY <1>1, <1>3, <3>1 DEF FailedWasSeen
    <2>1. CASE v = w
      <3>1. /\ saw'[w] = job[Current(w).id]
            /\ now < job[Current(w).id].expiresAt
        BY <1>6, <2>1, ReadsAgree
      <3>2. /\ job[Current(w).id].expiresAt \in Nat /\ now \in Nat
        BY <1>3 DEF TypeOK, RowType
      <3>3. job[Current(w).id].status # "failed"
        BY <1>3, <2>1, <3>1, <3>2 DEF LeaseIsOnTheRow
      <3> QED
        BY <2>1, <3>1, <3>3
    <2>2. CASE v # w
      BY <1>2, <1>5, <2>2 DEF FailedWasSeen
    <2> QED
      BY <2>1, <2>2
  <1> QED
    BY <1>7, <1>8, <1>9, <1>10, <1>11, <1>12, <1>13

(* Time only takes leases away and only passes deadlines. *)
LEMMA TickPreserves ==
    ASSUME IInv, Tick PROVE IInv'
  <1> USE DEF IInv
  <1>1. UNCHANGED <<job, batch, until, pc, saw, puts, cancelling, crossed,
                    completed, reclaims, putBack, lateMark>>
    BY DEF Tick, copies, cancels, history
  <1>2. now \in Nat /\ now' = now + 1
    BY DEF Tick, TypeOK
  <1>3. TypeOK'
    BY <1>1, <1>2 DEF TypeOK
  <1>4. \A j \in Jobs : Holders(j)' = Holders(j)
    BY <1>1 DEF Holders
  <1>5. /\ AbsentIsFresh' /\ DoneWasCompleted' /\ ReturnedWasCompleted'
        /\ BatchesAreDistinct' /\ RunsInTime' /\ HandsAgree' /\ NumbersDiffer'
        /\ AttemptsAddUp'
    BY <1>1, <1>4 DEF AbsentIsFresh, DoneWasCompleted, ReturnedWasCompleted, Current,
                      BatchesAreDistinct, RunsInTime, HandsAgree, NumbersDiffer,
                      AttemptsAddUp
  <1>6. \A w \in Workers, j \in Jobs : Leased(w, j)' => Leased(w, j)
    <2> SUFFICES ASSUME NEW w \in Workers, NEW j \in Jobs, Leased(w, j)'
                 PROVE  Leased(w, j)
      OBVIOUS
    <2>1. until[w] \in Nat /\ until[w] > now + 1
      BY <1>1, <1>2 DEF TypeOK, Leased
    <2> QED
      BY <1>2, <1>4, <2>1 DEF Leased
  <1>7. \A j \in Jobs : job[j].expiresAt <= now => job[j].expiresAt <= now'
    BY <1>2 DEF TypeOK, RowType
  <1>8. LeaseIsOnTheRow' /\ ExclusiveUnlessLate'
    BY <1>1, <1>6, <1>7 DEF LeaseIsOnTheRow, ExclusiveUnlessLate
  <1>9. FailedWasSeen'
    <2>1. \A w \in Workers : pc[w] # "idle" =>
             Current(w)' = Current(w) /\ Current(w).id \in Jobs
      BY <1>1, CurrentJob DEF Current
    <2> QED
      BY <1>1, <1>6, <2>1 DEF FailedWasSeen, Writing
  <1> QED
    BY <1>3, <1>5, <1>8, <1>9

(* What Advance does: the worker forgets its first job and its copies. *)
LEMMA AdvanceForgets ==
    ASSUME IInv, NEW w \in Workers, pc[w] # "idle", Advance(w)
    PROVE  /\ batch' \in [Workers -> Seq(Snapshots)]
           /\ pc' \in [Workers -> Places]
           /\ \A v \in Workers : pc'[v] # "idle" => batch'[v] # <<>>
           /\ pc'[w] \in {"idle", "next"}
           /\ \A v \in Workers \ {w} : pc'[v] = pc[v] /\ batch'[v] = batch[v]
           /\ BatchesAreDistinct'
           /\ \A v \in Workers : \A i \in DOMAIN batch'[v] :
                 \E k \in DOMAIN batch[v] : /\ batch'[v][i] = batch[v][k]
                                            /\ v = w => k # 1
           /\ \A j \in Jobs : Current(w).id = j => w \notin Holders(j)'
  <1> USE DEF IInv
  <1> DEFINE tail == Tail(batch[w])
  <1>1. /\ tail \in Seq(Snapshots)
        /\ DOMAIN tail = 1 .. Len(batch[w]) - 1
        /\ \A i \in DOMAIN tail : tail[i] = batch[w][i + 1]
        /\ batch[w] \in Seq(Snapshots)
        /\ Current(w) = batch[w][1]
        /\ Len(batch[w]) \in Nat \ {0}
    BY CurrentJob
  <1>2. /\ batch' = [batch EXCEPT ![w] = tail]
        /\ pc' = [pc EXCEPT ![w] = IF tail = <<>> THEN "idle" ELSE "next"]
    BY DEF Advance, Goes
  <1>3. batch'[w] = tail /\ pc'[w] \in {"idle", "next"}
    BY <1>2 DEF TypeOK
  <1>4. \A v \in Workers \ {w} : pc'[v] = pc[v] /\ batch'[v] = batch[v]
    BY <1>2 DEF TypeOK
  <1>5. pc'[w] = "idle" <=> tail = <<>>
    BY <1>2 DEF TypeOK
  <1>6. DOMAIN batch[w] = 1 .. Len(batch[w])
    BY <1>1
  <1>7. \A i \in DOMAIN tail : i + 1 \in DOMAIN batch[w] /\ i \in Int /\ i + 1 # 1
    BY <1>1, <1>6
  <1> HIDE DEF tail
  <1>8. BatchesAreDistinct'
    <2>1. \A i, k \in DOMAIN tail : tail[i].id = tail[k].id => i = k
      <3> SUFFICES ASSUME NEW i \in DOMAIN tail, NEW k \in DOMAIN tail,
                          tail[i].id = tail[k].id
                   PROVE  i = k
        OBVIOUS
      <3>1. i + 1 = k + 1
        BY <1>1, <1>7 DEF BatchesAreDistinct
      <3> QED
        BY <1>7, <3>1
    <2> QED
      BY <1>3, <1>4, <1>5, <2>1 DEF BatchesAreDistinct
  <1>9. \A v \in Workers : \A i \in DOMAIN batch'[v] :
           \E k \in DOMAIN batch[v] : batch'[v][i] = batch[v][k] /\ (v = w => k # 1)
    <2> SUFFICES ASSUME NEW v \in Workers, NEW i \in DOMAIN batch'[v]
                 PROVE  \E k \in DOMAIN batch[v] :
                           batch'[v][i] = batch[v][k] /\ (v = w => k # 1)
      OBVIOUS
    <2>1. CASE v = w
      BY <1>1, <1>3, <1>7, <2>1
    <2>2. CASE v # w
      BY <1>4, <2>2
    <2> QED
      BY <2>1, <2>2
  <1>10. \A j \in Jobs : Current(w).id = j => w \notin Holders(j)'
    <2> SUFFICES ASSUME NEW i \in DOMAIN tail, tail[i].id = batch[w][1].id
                 PROVE  FALSE
      BY <1>1, <1>3 DEF Holders
    <2>1. 1 \in DOMAIN batch[w] /\ i + 1 \in DOMAIN batch[w]
      BY <1>1, <1>6, <1>7
    <2>2. i + 1 = 1
      BY <1>1, <2>1 DEF BatchesAreDistinct
    <2> QED
      BY <1>7, <2>2
  <1>11. batch' \in [Workers -> Seq(Snapshots)]
    BY <1>1, <1>2 DEF TypeOK, tail
  <1>12. pc' \in [Workers -> Places]
    BY <1>2 DEF TypeOK, Places
  <1>13. \A v \in Workers : pc'[v] # "idle" => batch'[v] # <<>>
    BY <1>3, <1>4, <1>5 DEF TypeOK
  <1> QED
    BY <1>3, <1>4, <1>8, <1>9, <1>10, <1>11, <1>12, <1>13

(* What a step by which one worker forgets jobs, its copies included, keeps of
   the invariant whatever it writes. *)
LEMMA ForgettingKeeps ==
    ASSUME IInv, NEW w \in Workers,
           UNCHANGED <<now, until, completed>>, Closes(w),
           batch' \in [Workers -> Seq(Snapshots)], pc' \in [Workers -> Places],
           pc'[w] \in {"idle", "next"},
           \A v \in Workers \ {w} : pc'[v] = pc[v] /\ batch'[v] = batch[v],
           \A v \in Workers : \A i \in DOMAIN batch'[v] :
              \E k \in DOMAIN batch[v] : batch'[v][i] = batch[v][k]
    PROVE  /\ saw' \in [Workers -> RowType] /\ puts' \in [Workers -> RowType]
           /\ \A v \in Workers \ {w} : /\ saw'[v] = saw[v] /\ puts'[v] = puts[v]
                                       /\ Current(v)' = Current(v)
           /\ \A v \in Workers, j \in Jobs : v \in Holders(j)' => v \in Holders(j)
           /\ \A v \in Workers, j \in Jobs : Leased(v, j)' => Leased(v, j)
           /\ ReturnedWasCompleted'
  <1> USE DEF IInv
  <1>1. /\ saw' \in [Workers -> RowType] /\ puts' \in [Workers -> RowType]
        /\ \A v \in Workers \ {w} : saw'[v] = saw[v] /\ puts'[v] = puts[v]
    <2>1. Blank \in RowType
      BY DEF Blank, RowType, Statuses, None
    <2> QED
      BY <2>1 DEF Closes, TypeOK
  <1>2. \A v \in Workers \ {w} : Current(v)' = Current(v)
    BY DEF Current
  <1>3. \A v \in Workers, j \in Jobs : v \in Holders(j)' => v \in Holders(j)
    <2> SUFFICES ASSUME NEW v \in Workers, NEW j \in Jobs,
                        NEW i \in DOMAIN batch'[v], batch'[v][i].id = j
                 PROVE  \E k \in DOMAIN batch[v] : batch[v][k].id = j
      BY DEF Holders
    <2>1. PICK k \in DOMAIN batch[v] : batch'[v][i] = batch[v][k]
      OBVIOUS
    <2> QED
      BY <2>1
  <1>4. \A v \in Workers, j \in Jobs : Leased(v, j)' => Leased(v, j)
    BY <1>3 DEF Leased
  <1>5. ReturnedWasCompleted'
    BY <1>2 DEF ReturnedWasCompleted
  <1> QED
    BY <1>1, <1>2, <1>3, <1>4, <1>5

LEMMA NumbersStillDiffer ==
    ASSUME IInv,
           \A v \in Workers : \A i \in DOMAIN batch'[v] :
              \E k \in DOMAIN batch[v] : batch'[v][i] = batch[v][k],
           \A j \in Jobs : job'[j].attempts = job[j].attempts,
           UNCHANGED putBack
    PROVE  NumbersDiffer'
  <1> USE DEF IInv
  <1>1. ASSUME NEW v \in Workers, NEW w \in Workers,
               NEW i \in DOMAIN batch'[v], NEW k \in DOMAIN batch'[w],
               batch'[v][i] = batch'[w][k]
        PROVE  v = w
    <2>1. PICK a \in DOMAIN batch[v] : batch'[v][i] = batch[v][a]
      OBVIOUS
    <2>2. PICK b \in DOMAIN batch[w] : batch'[w][k] = batch[w][b]
      OBVIOUS
    <2>3. batch[v][a] = batch[w][b]
      BY <1>1, <2>1, <2>2
    <2> QED
      BY <2>3 DEF NumbersDiffer
  <1>2. ASSUME NEW w \in Workers, NEW i \in DOMAIN batch'[w]
        PROVE  batch'[w][i].attempts
                 \in 1 .. job'[batch'[w][i].id].attempts \ putBack[batch'[w][i].id]
    <2>1. PICK k \in DOMAIN batch[w] : batch'[w][i] = batch[w][k]
      OBVIOUS
    <2>2. /\ batch[w][k].id \in Jobs
          /\ batch[w][k].attempts
                \in 1 .. job[batch[w][k].id].attempts \ putBack[batch[w][k].id]
      BY HeldAreJobs DEF NumbersDiffer
    <2> QED
      BY <2>1, <2>2
  <1>3. \A j \in Jobs : \A n \in putBack[j] :
           n \in 1 .. MaxAttempts[j] - 1 /\ n <= job'[j].attempts
    BY DEF NumbersDiffer
  <1> QED
    BY <1>1, <1>2, <1>3 DEF NumbersDiffer

(* A worker forgets jobs and writes nothing: it dies, or the write of an
   outcome fails in the safety net.  The rows stay as they are. *)
LEMMA DropsPreserve ==
    ASSUME IInv, NEW w \in Workers, Crash(w) \/ NetErrs(w)
    PROVE  IInv'
  <1> USE DEF IInv
  <1>1. /\ UNCHANGED <<now, job, until, cancelling, crossed,
                       completed, reclaims, putBack, lateMark>>
        /\ Closes(w) /\ pc[w] # "idle"
    BY DEF Crash, NetErrs, Advance, cancels, history
  <1>2. /\ batch' \in [Workers -> Seq(Snapshots)]
        /\ pc' \in [Workers -> Places]
        /\ \A v \in Workers : pc'[v] # "idle" => batch'[v] # <<>>
        /\ pc'[w] \in {"idle", "next"}
        /\ \A v \in Workers \ {w} : pc'[v] = pc[v] /\ batch'[v] = batch[v]
        /\ BatchesAreDistinct'
        /\ \A v \in Workers : \A i \in DOMAIN batch'[v] :
              \E k \in DOMAIN batch[v] : batch'[v][i] = batch[v][k]
    <2>1. CASE Crash(w)
      <3>1. /\ batch' = [batch EXCEPT ![w] = <<>>]
            /\ pc' = [pc EXCEPT ![w] = "idle"]
        BY <2>1 DEF Crash, Goes
      <3>2. /\ batch' \in [Workers -> Seq(Snapshots)]
            /\ batch'[w] = <<>> /\ pc'[w] = "idle" /\ DOMAIN batch'[w] = {}
            /\ \A v \in Workers \ {w} : pc'[v] = pc[v] /\ batch'[v] = batch[v]
        BY <3>1 DEF TypeOK
      <3>3. pc' \in [Workers -> Places]
        BY <3>1 DEF TypeOK, Places
      <3>4. BatchesAreDistinct'
        BY <3>2 DEF BatchesAreDistinct
      <3>5. \A v \in Workers : pc'[v] # "idle" => batch'[v] # <<>>
        BY <3>2 DEF TypeOK
      <3> QED
        BY <3>2, <3>3, <3>4, <3>5
    <2>2. CASE NetErrs(w)
      <3>1. pc[w] # "idle" /\ Advance(w)
        BY <1>1, <2>2 DEF NetErrs
      <3> QED
        BY <3>1, AdvanceForgets
    <2> QED
      BY <2>1, <2>2
  <1>3. /\ saw' \in [Workers -> RowType] /\ puts' \in [Workers -> RowType]
        /\ \A v \in Workers \ {w} : /\ saw'[v] = saw[v] /\ puts'[v] = puts[v]
                                    /\ Current(v)' = Current(v)
        /\ \A v \in Workers, j \in Jobs : v \in Holders(j)' => v \in Holders(j)
        /\ \A v \in Workers, j \in Jobs : Leased(v, j)' => Leased(v, j)
        /\ ReturnedWasCompleted'
    BY <1>1, <1>2, ForgettingKeeps
  <1>4. TypeOK'
    BY <1>1, <1>2, <1>3 DEF TypeOK
  <1>5. AbsentIsFresh'
    <2> SUFFICES ASSUME NEW j \in Jobs, job[j].status = "absent"
                 PROVE  job[j].attempts = 0 /\ Holders(j)' = {} /\ j \notin cancelling
      BY <1>1 DEF AbsentIsFresh
    <2>1. Holders(j) = {} /\ job[j].attempts = 0 /\ j \notin cancelling
      BY DEF AbsentIsFresh
    <2>2. Holders(j)' \subseteq Workers
      BY DEF Holders
    <2> QED
      BY <1>3, <2>1, <2>2
  <1>6. DoneWasCompleted' /\ RunsInTime' /\ AttemptsAddUp'
    BY <1>1 DEF DoneWasCompleted, RunsInTime, AttemptsAddUp
  <1>7. HandsAgree' /\ FailedWasSeen'
    <2>1. \A v \in Workers : pc'[v] \in Writing =>
             v # w /\ pc[v] = pc'[v] /\ Current(v)' = Current(v)
             /\ Current(v).id \in Jobs
      BY <1>2, <1>3, CurrentJob DEF Writing
    <2> QED
      BY <1>1, <1>3, <2>1 DEF HandsAgree, FailedWasSeen
  <1>8. NumbersDiffer'
    BY <1>1, <1>2, NumbersStillDiffer
  <1>9. LeaseIsOnTheRow' /\ ExclusiveUnlessLate'
    BY <1>1, <1>3 DEF LeaseIsOnTheRow, ExclusiveUnlessLate
  <1> QED
    BY <1>2, <1>3, <1>4, <1>5, <1>6, <1>7, <1>8, <1>9

-----------------------------------------------------------------------------
(* The write of an outcome.  It is blind to who holds the row and to what the
   row has become since it was read.  A worker queues a row at most once for
   the attempt it claimed, which is what keeps the budget; and exclusion is
   kept as long as the writer is still inside its lease, because then it is
   the only live holder. *)
LEMMA WriteOfARow ==
    ASSUME IInv, NEW w \in Workers, MarkWrites(w)
    PROVE  LET j == Current(w).id  row == job'[j]  c == Current(w) IN
           /\ j \in Jobs /\ w \in Holders(j) /\ pc[w] # "idle" /\ Advance(w)
           /\ UNCHANGED <<now, until, cancelling, crossed, completed, reclaims>>
           /\ job' \in [Jobs -> RowType]
           /\ \A i \in Jobs \ {j} : job'[i] = job[i]
           /\ row.attempts = job[j].attempts /\ row.expiresAt = job[j].expiresAt
           /\ row.status = IF puts[w].status = saw[w].status THEN job[j].status
                                                             ELSE puts[w].status
           /\ row.status # "absent" /\ row.runAt < row.expiresAt
           /\ row.status = "done" => job[j].status = "done" \/ completed[j]
           /\ lateMark' \in [Jobs -> BOOLEAN]
           /\ \A i \in Jobs : lateMark[i] => lateMark'[i]
           /\ ~lateMark'[j] => ~lateMark[j] /\ Leased(w, j)
           /\ putBack' \in [Jobs -> SUBSET Nat]
           /\ \A i \in Jobs \ {j} : putBack'[i] = putBack[i]
           /\ putBack'[j] = IF QueuesAgain(w) THEN putBack[j] \cup {c.attempts}
                                              ELSE putBack[j]
           /\ QueuesAgain(w) => c.attempts \in 1 .. MaxAttempts[j] - 1
  <1> USE DEF IInv
  <1> DEFINE j == Current(w).id
  <1>1. /\ pc[w] \in Writing /\ pc[w] # "idle" /\ Advance(w)
        /\ UNCHANGED <<now, until, cancelling, crossed, completed, reclaims>>
    BY DEF MarkWrites, Advance, cancels, Writing
  <1>2. /\ j \in Jobs /\ w \in Holders(j) /\ Current(w).attempts \in Nat
        /\ 1 \in DOMAIN batch[w] /\ Current(w) = batch[w][1]
    BY <1>1, CurrentJob
  <1>3. /\ job[j] \in RowType /\ saw[w] \in RowType /\ puts[w] \in RowType
        /\ MaxAttempts[j] \in Nat \ {0} /\ until[w] \in Nat /\ now \in Nat
    BY <1>2 DEF TypeOK
  <1>4. /\ saw[w].status # "absent" /\ saw[w].expiresAt = job[j].expiresAt
        /\ puts[w].status \in {"done", "failed", "queued"}
        /\ puts[w].status = "done" <=> pc[w] = "writesDone"
        /\ puts[w].runAt = saw[w].runAt \/ puts[w].runAt < saw[w].expiresAt
        /\ puts[w].status = "queued" => Current(w).attempts < MaxAttempts[j]
    BY <1>1 DEF HandsAgree
  <1>5. job[j].status # "absent" /\ job[j].runAt < job[j].expiresAt
    BY <1>2 DEF AbsentIsFresh, RunsInTime
  <1> DEFINE f == Flushed(job[j], saw[w], puts[w])
  <1>6. /\ f \in RowType
        /\ f.attempts = job[j].attempts /\ f.expiresAt = job[j].expiresAt
        /\ f.status = IF puts[w].status = saw[w].status THEN job[j].status
                                                        ELSE puts[w].status
        /\ f.runAt = IF puts[w].runAt = saw[w].runAt THEN job[j].runAt
                                                     ELSE puts[w].runAt
    BY <1>3, FlushedRow
  <1>7. /\ job' = [job EXCEPT ![j] = f]
        /\ lateMark' = [lateMark EXCEPT ![j] = lateMark[j] \/ until[w] <= now]
        /\ putBack' = IF QueuesAgain(w)
                      THEN [putBack EXCEPT ![j] = putBack[j] \cup {Current(w).attempts}]
                      ELSE putBack
    BY DEF MarkWrites
  <1> HIDE DEF f
  <1>8. /\ job' \in [Jobs -> RowType] /\ job'[j] = f
        /\ \A i \in Jobs \ {j} : job'[i] = job[i]
    BY <1>2, <1>6, <1>7 DEF TypeOK
  <1>9. /\ f.status # "absent" /\ f.runAt < f.expiresAt
        /\ f.status = "done" => job[j].status = "done" \/ completed[j]
    <2>1. pc[w] = "writesDone" => completed[j]
      BY DEF ReturnedWasCompleted
    <2> QED
      BY <1>4, <1>5, <1>6, <2>1
  <1>10. /\ lateMark' \in [Jobs -> BOOLEAN]
         /\ \A i \in Jobs : lateMark[i] => lateMark'[i]
         /\ ~lateMark'[j] => ~lateMark[j] /\ Leased(w, j)
    <2>1. lateMark'[j] <=> (lateMark[j] \/ until[w] <= now)
      BY <1>2, <1>7 DEF TypeOK
    <2>2. \A i \in Jobs \ {j} : lateMark'[i] = lateMark[i]
      BY <1>7 DEF TypeOK
    <2>3. lateMark' \in [Jobs -> BOOLEAN]
      BY <1>7 DEF TypeOK
    <2>4. ~(until[w] <= now) => Leased(w, j)
      BY <1>2, <1>3 DEF Leased
    <2> QED
      BY <1>2, <2>1, <2>2, <2>3, <2>4
  <1>11. /\ putBack' \in [Jobs -> SUBSET Nat]
         /\ \A i \in Jobs \ {j} : putBack'[i] = putBack[i]
         /\ putBack'[j] = IF QueuesAgain(w) THEN putBack[j] \cup {Current(w).attempts}
                                            ELSE putBack[j]
    BY <1>2, <1>7 DEF TypeOK
  <1>12. QueuesAgain(w) => Current(w).attempts \in 1 .. MaxAttempts[j] - 1
    <2>1. Current(w).attempts >= 1
      BY <1>2 DEF NumbersDiffer
    <2> QED
      BY <1>2, <1>3, <1>4, <2>1 DEF QueuesAgain
  <1> QED
    BY <1>1, <1>2, <1>6, <1>8, <1>9, <1>10, <1>11, <1>12

LEMMA OutcomePreserves ==
    ASSUME IInv, NEW w \in Workers, MarkWrites(w)
    PROVE  IInv'
  <1> USE DEF IInv
  <1>1. PICK j \in Jobs : j = Current(w).id
    BY WriteOfARow
  <1>2. /\ w \in Holders(j) /\ pc[w] # "idle" /\ Advance(w)
        /\ UNCHANGED <<now, until, cancelling, crossed, completed, reclaims>>
        /\ job' \in [Jobs -> RowType]
        /\ \A i \in Jobs \ {j} : job'[i] = job[i]
        /\ job'[j].attempts = job[j].attempts
        /\ job'[j].expiresAt = job[j].expiresAt
    BY <1>1, WriteOfARow
  <1>3. /\ job'[j].status = IF puts[w].status = saw[w].status THEN job[j].status
                                                              ELSE puts[w].status
        /\ job'[j].status # "absent" /\ job'[j].runAt < job'[j].expiresAt
        /\ job'[j].status = "done" => job[j].status = "done" \/ completed[j]
    BY <1>1, WriteOfARow
  <1>4. /\ lateMark' \in [Jobs -> BOOLEAN]
        /\ \A i \in Jobs : lateMark[i] => lateMark'[i]
        /\ ~lateMark'[j] => ~lateMark[j] /\ Leased(w, j)
    BY <1>1, WriteOfARow
  <1>5. /\ putBack' \in [Jobs -> SUBSET Nat]
        /\ \A i \in Jobs \ {j} : putBack'[i] = putBack[i]
        /\ putBack'[j] = IF QueuesAgain(w) THEN putBack[j] \cup {Current(w).attempts}
                                           ELSE putBack[j]
        /\ QueuesAgain(w) => Current(w).attempts \in 1 .. MaxAttempts[j] - 1
    BY <1>1, WriteOfARow
  <1>6. /\ batch' \in [Workers -> Seq(Snapshots)]
        /\ pc' \in [Workers -> Places]
        /\ \A v \in Workers : pc'[v] # "idle" => batch'[v] # <<>>
        /\ pc'[w] \in {"idle", "next"}
        /\ \A v \in Workers \ {w} : pc'[v] = pc[v] /\ batch'[v] = batch[v]
        /\ BatchesAreDistinct'
        /\ \A v \in Workers : \A i \in DOMAIN batch'[v] :
              \E k \in DOMAIN batch[v] : /\ batch'[v][i] = batch[v][k]
                                         /\ v = w => k # 1
        /\ w \notin Holders(j)'
    BY <1>1, <1>2, AdvanceForgets
  <1>7. /\ saw' \in [Workers -> RowType] /\ puts' \in [Workers -> RowType]
        /\ \A v \in Workers \ {w} : /\ saw'[v] = saw[v] /\ puts'[v] = puts[v]
                                    /\ Current(v)' = Current(v)
        /\ \A v \in Workers, i \in Jobs : v \in Holders(i)' => v \in Holders(i)
        /\ \A v \in Workers, i \in Jobs : Leased(v, i)' => Leased(v, i)
        /\ ReturnedWasCompleted'
    <2>1. Closes(w) /\ UNCHANGED <<now, until, completed>>
      BY <1>2 DEF Advance
    <2>2. \A v \in Workers : \A i \in DOMAIN batch'[v] :
             \E k \in DOMAIN batch[v] : batch'[v][i] = batch[v][k]
      BY <1>6
    <2> QED
      BY <1>6, <2>1, <2>2, ForgettingKeeps
  <1>8. /\ Current(w) \in Snapshots /\ 1 \in DOMAIN batch[w]
        /\ Current(w) = batch[w][1]
        /\ Current(w).attempts \in 1 .. job[j].attempts \ putBack[j]
    BY <1>1, <1>2, CurrentJob, HeldAreJobs DEF NumbersDiffer
  <1>9. TypeOK'
    BY <1>2, <1>4, <1>5, <1>6, <1>7 DEF TypeOK
  <1>10. AbsentIsFresh'
    <2> SUFFICES ASSUME NEW i \in Jobs, job'[i].status = "absent"
                 PROVE  job'[i].attempts = 0 /\ Holders(i)' = {} /\ i \notin cancelling
      BY <1>2 DEF AbsentIsFresh
    <2>1. i # j
      BY <1>3
    <2>2. /\ Holders(i) = {} /\ job[i].attempts = 0 /\ job'[i] = job[i]
          /\ i \notin cancelling
      BY <1>2, <2>1 DEF AbsentIsFresh
    <2>3. Holders(i)' \subseteq Workers
      BY DEF Holders
    <2> QED
      BY <1>7, <2>2, <2>3
  <1>11. DoneWasCompleted' /\ RunsInTime'
    BY <1>2, <1>3 DEF DoneWasCompleted, RunsInTime
  <1>12. HandsAgree' /\ FailedWasSeen'
    <2>1. \A v \in Workers : pc'[v] \in Writing =>
             v # w /\ pc[v] = pc'[v] /\ Current(v)' = Current(v)
             /\ Current(v).id \in Jobs
      BY <1>6, <1>7, CurrentJob DEF Writing
    <2>2. HandsAgree'
      BY <1>2, <1>7, <2>1 DEF HandsAgree
    <2>3. FailedWasSeen'
      BY <1>4, <1>7, <2>1 DEF FailedWasSeen
    <2> QED
      BY <2>2, <2>3
  <1>13. NumbersDiffer'
    <2>1. ASSUME NEW u \in Workers, NEW v \in Workers,
                 NEW i \in DOMAIN batch'[u], NEW k \in DOMAIN batch'[v],
                 batch'[u][i] = batch'[v][k]
          PROVE  u = v
      <3>1. PICK a \in DOMAIN batch[u] : batch'[u][i] = batch[u][a]
        BY <1>6
      <3>2. PICK b \in DOMAIN batch[v] : batch'[v][k] = batch[v][b]
        BY <1>6
      <3> QED
        BY <2>1, <3>1, <3>2 DEF NumbersDiffer
    \* What the others hold of the job has another number than what was put back.
    <2>2. ASSUME NEW v \in Workers, NEW i \in DOMAIN batch'[v]
          PROVE  batch'[v][i].attempts
                   \in 1 .. job'[batch'[v][i].id].attempts \ putBack'[batch'[v][i].id]
      <3>1. PICK k \in DOMAIN batch[v] : batch'[v][i] = batch[v][k] /\ (v = w => k # 1)
        BY <1>6
      <3>2. /\ batch[v][k] \in Snapshots /\ batch[v][k].id \in Jobs
            /\ batch[v][k].attempts
                  \in 1 .. job[batch[v][k].id].attempts \ putBack[batch[v][k].id]
        BY HeldAreJobs DEF NumbersDiffer
      <3>3. CASE batch[v][k].id = j
        <4>1. batch[v][k] # Current(w)
          BY <1>8, <3>1 DEF NumbersDiffer, BatchesAreDistinct
        <4>2. batch[v][k].attempts # Current(w).attempts
          BY <1>1, <1>8, <3>2, <3>3, <4>1 DEF Snapshots
        <4> QED
          BY <1>2, <1>5, <3>1, <3>2, <3>3, <4>2
      <3>4. CASE batch[v][k].id # j
        BY <1>2, <1>5, <3>1, <3>2, <3>4
      <3> QED
        BY <3>3, <3>4
    <2>3. ASSUME NEW i \in Jobs, NEW n \in putBack'[i]
          PROVE  n \in 1 .. MaxAttempts[i] - 1 /\ n <= job'[i].attempts
      <3>1. CASE i = j /\ QueuesAgain(w) /\ n = Current(w).attempts
        BY <1>2, <1>5, <1>8, <3>1
      <3>2. CASE n \in putBack[i]
        BY <1>2, <3>2 DEF NumbersDiffer
      <3> QED
        BY <1>5, <3>1, <3>2
    <2> QED
      BY <2>1, <2>2, <2>3 DEF NumbersDiffer
  <1>14. AttemptsAddUp'
    <2> SUFFICES ASSUME NEW i \in Jobs
                 PROVE  job'[i].attempts
                          + (IF job'[i].status \in {"absent", "queued"} THEN 1 ELSE 0)
                          <= 1 + Cardinality(putBack'[i]) + reclaims[i]
      BY <1>2 DEF AttemptsAddUp
    <2>1. CASE i # j
      BY <1>2, <1>5, <2>1 DEF AttemptsAddUp
    <2>2. CASE i = j
      <3>1. IsFiniteSet(putBack[j])
        <4>1. putBack[j] \in SUBSET (1 .. MaxAttempts[j] - 1)
          BY DEF NumbersDiffer
        <4>2. IsFiniteSet(1 .. MaxAttempts[j] - 1)
          BY FS_Interval
        <4> QED
          BY <4>1, <4>2, FS_Subset
      <3>2. /\ Cardinality(putBack[j]) \in Nat
            /\ Cardinality(putBack'[j]) = IF QueuesAgain(w)
                                          THEN Cardinality(putBack[j]) + 1
                                          ELSE Cardinality(putBack[j])
        BY <1>5, <1>8, <3>1, FS_CardinalityType, FS_AddElement
      <3>3. job'[j].status \in {"absent", "queued"} =>
               job[j].status = "queued" \/ QueuesAgain(w)
        BY <1>3 DEF QueuesAgain
      <3>4. job[j].attempts \in Nat /\ reclaims[j] \in Nat
        BY DEF TypeOK, RowType
      <3>5. job[j].attempts
              + (IF job[j].status \in {"absent", "queued"} THEN 1 ELSE 0)
              <= 1 + Cardinality(putBack[j]) + reclaims[j]
        BY DEF AttemptsAddUp
      <3> QED
        BY <1>2, <2>2, <3>2, <3>3, <3>4, <3>5
    <2> QED
      BY <2>1, <2>2
  <1>15. ExclusiveUnlessLate'
    BY <1>4, <1>7 DEF ExclusiveUnlessLate
  <1>16. LeaseIsOnTheRow'
    <2> SUFFICES ASSUME NEW i \in Jobs, ~lateMark'[i],
                        NEW v \in Workers, Leased(v, i)'
                 PROVE  \/ job'[i].status = "running" /\ job'[i].lockedUntil = until[v]
                        \/ job'[i].status = "failed" /\ job'[i].expiresAt <= now
                        \/ job'[i].status = "cancelled" /\ i \in crossed
      BY <1>2 DEF LeaseIsOnTheRow
    <2>1. Leased(v, i) /\ ~lateMark[i]
      BY <1>4, <1>7
    <2>2. CASE i = j
      <3>1. v = w
        BY <1>4, <2>1, <2>2 DEF ExclusiveUnlessLate
      <3>2. v \in Holders(i)'
        BY DEF Leased
      <3> QED
        BY <1>6, <2>2, <3>1, <3>2
    <2>3. CASE i # j
      BY <1>2, <2>1, <2>3 DEF LeaseIsOnTheRow
    <2> QED
      BY <2>2, <2>3
  <1> QED
    BY <1>6, <1>7, <1>9, <1>10, <1>11, <1>12, <1>13, <1>14, <1>15, <1>16

-----------------------------------------------------------------------------
(* The claim.  A row it picks is queued or its lease has lapsed, so whoever
   still holds it holds no live lease, unless somebody was late. *)
LEMMA ClaimPreserves ==
    ASSUME IInv, NEW w \in Workers, Claim(w)
    PROVE  IInv'
  <1> USE DEF IInv
  <1>1. /\ pc[w] = "idle" /\ batch[w] = <<>>
        /\ until' = [until EXCEPT ![w] = now + Lease]
        /\ UNCHANGED <<now, saw, puts, cancelling, crossed, completed, putBack, lateMark>>
    BY DEF Claim, BatchesAreDistinct, copies, cancels
  <1>2. PICK q \in Selections :
        LET picked == {q[i] : i \in DOMAIN q} IN
        /\ job' = [j \in Jobs |->
                     IF j \in picked
                     THEN [job[j] EXCEPT !.status = "running",
                                         !.lockedUntil = now + Lease,
                                         !.attempts = job[j].attempts + 1]
                     ELSE IF Expired(j)
                     THEN [job[j] EXCEPT !.status = "failed", !.lockedUntil = None]
                     ELSE job[j]]
        /\ batch' = [batch EXCEPT ![w] =
                       [i \in DOMAIN q |-> [id |-> q[i],
                                            attempts |-> job[q[i]].attempts + 1]]]
        /\ pc' = [pc EXCEPT ![w] = IF q = <<>> THEN "idle" ELSE "next"]
        /\ reclaims' = [j \in Jobs |->
                          IF j \in picked /\ LeaseLapsed(j) THEN reclaims[j] + 1
                                                            ELSE reclaims[j]]
    BY DEF Claim
  <1> DEFINE picked == {q[i] : i \in DOMAIN q}
  <1> DEFINE taken == [i \in DOMAIN q |-> [id |-> q[i],
                                           attempts |-> job[q[i]].attempts + 1]]
  <1>3. PICK n \in 0 .. Limit : q \in [1 .. n -> Due]
    BY DEF Selections
  <1>4. /\ DOMAIN q = 1 .. n /\ n \in Nat
        /\ \A i \in 1 .. n : q[i] \in Due
        /\ picked \subseteq Due /\ Due \subseteq Jobs
    BY <1>3 DEF Due
  <1>5. \A i, k \in 1 .. n : q[i] = q[k] => i = k
    <2> SUFFICES ASSUME NEW i \in 1 .. n, NEW k \in 1 .. n, q[i] = q[k], i # k
                 PROVE  FALSE
      OBVIOUS
    <2>1. \A a, b \in 1 .. n : a < b => q[a] # q[b]
      BY <1>4 DEF Selections
    <2>2. i < k \/ k < i
      BY <1>4
    <2> QED
      BY <2>1, <2>2
  <1>6. q = <<>> <=> n = 0
    BY <1>3, <1>4
  <1>7. \A j \in Jobs : job[j] \in RowType /\ now \in Nat /\ now + Lease \in Nat
    BY DEF TypeOK
  <1>8. /\ taken \in Seq(Snapshots) /\ DOMAIN taken = 1 .. n
        /\ \A i \in 1 .. n : /\ taken[i].id = q[i]
                             /\ taken[i].attempts = job[q[i]].attempts + 1
    <2>1. \A i \in 1 .. n : [id |-> q[i], attempts |-> job[q[i]].attempts + 1]
                               \in Snapshots
      BY <1>4, <1>7 DEF Snapshots, RowType
    <2>2. taken \in [1 .. n -> Snapshots]
      BY <1>4, <2>1
    <2> QED
      BY <1>4, <2>2
  <1>9. /\ batch' = [batch EXCEPT ![w] = taken] /\ batch'[w] = taken
        /\ \A v \in Workers \ {w} : batch'[v] = batch[v]
        /\ batch' \in [Workers -> Seq(Snapshots)]
    BY <1>2, <1>8 DEF TypeOK
  <1>10. /\ pc' \in [Workers -> Places]
         /\ pc'[w] = IF n = 0 THEN "idle" ELSE "next"
         /\ \A v \in Workers \ {w} : pc'[v] = pc[v]
    BY <1>2, <1>6 DEF TypeOK, Places
  <1>11. /\ until' \in [Workers -> Nat] /\ until'[w] = now + Lease
         /\ \A v \in Workers \ {w} : until'[v] = until[v]
    BY <1>1 DEF TypeOK
  <1> HIDE DEF picked, taken
  <1>12. ASSUME NEW j \in picked
         PROVE  /\ j \in Jobs /\ ~Expired(j) /\ job[j].expiresAt > now
                /\ job[j].status = "queued" \/ LeaseLapsed(j)
    BY <1>4, <1>7 DEF Due, Expired, RowType
  <1>13. ASSUME NEW j \in Jobs
         PROVE  /\ Expired(j) =>
                     job'[j] = [job[j] EXCEPT !.status = "failed", !.lockedUntil = None]
                /\ ~Expired(j) /\ j \in picked =>
                     job'[j] = [job[j] EXCEPT !.status = "running",
                                              !.lockedUntil = now + Lease,
                                              !.attempts = job[j].attempts + 1]
                /\ ~Expired(j) /\ j \notin picked => job'[j] = job[j]
                /\ j \in picked /\ LeaseLapsed(j) =>
                     reclaims'[j] = reclaims[j] + 1
                /\ ~(j \in picked /\ LeaseLapsed(j)) => reclaims'[j] = reclaims[j]
    BY <1>2, <1>12 DEF picked
  \* The three fates of a row, with the fields the invariants read.
  <1>14. ASSUME NEW j \in Jobs
         PROVE  /\ job'[j] \in RowType /\ job'[j].expiresAt = job[j].expiresAt
                /\ job'[j].runAt = job[j].runAt
                /\ \/ /\ Expired(j) /\ job'[j].status = "failed"
                      /\ job'[j].attempts = job[j].attempts /\ j \notin picked
                   \/ /\ j \in picked /\ job'[j].status = "running"
                      /\ job'[j].lockedUntil = now + Lease
                      /\ job'[j].attempts = job[j].attempts + 1
                   \/ j \notin picked /\ job'[j] = job[j]
    <2>1. CASE Expired(j)
      <3>1. job'[j] = [job[j] EXCEPT !.status = "failed", !.lockedUntil = None]
        BY <1>13, <2>1
      <3>2. j \notin picked
        BY <1>12, <2>1
      <3>0. /\ [job[j] EXCEPT !.status = "failed", !.lockedUntil = None] \in RowType
            /\ job[j] \in RowType
        BY <1>7 DEF RowType, Statuses, Settled, None
      <3>3. /\ job'[j] \in RowType /\ job'[j].expiresAt = job[j].expiresAt
            /\ job'[j].runAt = job[j].runAt
            /\ job'[j].status = "failed" /\ job'[j].attempts = job[j].attempts
        BY <3>0, <3>1 DEF RowType
      <3> QED
        BY <2>1, <3>2, <3>3
    <2>2. CASE ~Expired(j) /\ j \in picked
      <3>1. job[j].attempts + 1 \in Nat
        BY <1>7 DEF RowType
      <3>2. job'[j] = [job[j] EXCEPT !.status = "running",
                                     !.lockedUntil = now + Lease,
                                     !.attempts = job[j].attempts + 1]
        BY <1>13, <2>2
      <3>3. /\ job[j] \in RowType
            /\ [job[j] EXCEPT !.status = "running", !.lockedUntil = now + Lease,
                              !.attempts = job[j].attempts + 1] \in RowType
        BY <1>7, <3>1 DEF RowType, Statuses
      <3>4. /\ job'[j] \in RowType /\ job'[j].expiresAt = job[j].expiresAt
            /\ job'[j].runAt = job[j].runAt
            /\ job'[j].status = "running" /\ job'[j].lockedUntil = now + Lease
            /\ job'[j].attempts = job[j].attempts + 1
        BY <3>2, <3>3 DEF RowType
      <3> QED
        BY <2>2, <3>4
    <2>3. CASE ~Expired(j) /\ j \notin picked
      BY <1>7, <1>13, <2>3
    <2> QED
      BY <2>1, <2>2, <2>3
  <1>15. TypeOK'
    <2>1. job' \in [Jobs -> RowType]
      BY <1>2, <1>14
    <2>2. reclaims' \in [Jobs -> Nat]
      <3>1. ASSUME NEW j \in Jobs PROVE reclaims'[j] \in Nat
        <4>1. reclaims[j] \in Nat
          BY DEF TypeOK
        <4>2. reclaims'[j] = reclaims[j] + 1 \/ reclaims'[j] = reclaims[j]
          BY <1>13
        <4> QED
          BY <4>1, <4>2
      <3> QED
        BY <1>2, <3>1
    <2>3. \A v \in Workers : pc'[v] # "idle" => batch'[v] # <<>>
      <3>1. n # 0 => taken # <<>>
        BY <1>4, <1>8
      <3> QED
        BY <1>9, <1>10, <3>1 DEF TypeOK
    <2> QED
      BY <1>1, <1>9, <1>10, <1>11, <2>1, <2>2, <2>3 DEF TypeOK
  <1>16. \A v \in Workers, j \in Jobs :
            v \in Holders(j)' => IF v = w THEN j \in picked ELSE v \in Holders(j)
    <2> SUFFICES ASSUME NEW v \in Workers, NEW j \in Jobs,
                        NEW i \in DOMAIN batch'[v], batch'[v][i].id = j
                 PROVE  IF v = w THEN j \in picked ELSE v \in Holders(j)
      BY DEF Holders
    <2>1. CASE v = w
      BY <1>4, <1>8, <1>9, <2>1 DEF picked
    <2>2. CASE v # w
      BY <1>9, <2>2 DEF Holders
    <2> QED
      BY <2>1, <2>2
  <1>17. AbsentIsFresh'
    <2> SUFFICES ASSUME NEW j \in Jobs, job'[j].status = "absent"
                 PROVE  job'[j].attempts = 0 /\ Holders(j)' = {} /\ j \notin cancelling
      BY <1>1 DEF AbsentIsFresh
    <2>1. job'[j] = job[j] /\ j \notin picked
      BY <1>14
    <2>2. Holders(j) = {} /\ job[j].attempts = 0 /\ j \notin cancelling
      BY <2>1 DEF AbsentIsFresh
    <2>3. Holders(j)' \subseteq Workers
      BY DEF Holders
    <2> QED
      BY <1>16, <2>1, <2>2, <2>3
  <1>18. RunsInTime'
    <2> SUFFICES ASSUME NEW j \in Jobs, job'[j].status # "absent"
                 PROVE  job'[j].runAt < job'[j].expiresAt
      BY DEF RunsInTime
    <2>1. job[j].status # "absent"
      BY <1>12, <1>14 DEF Expired, Live, LeaseLapsed
    <2> QED
      BY <1>14, <2>1 DEF RunsInTime
  <1>19. AttemptsAddUp'
    <2> SUFFICES ASSUME NEW j \in Jobs
                 PROVE  job'[j].attempts
                          + (IF job'[j].status \in {"absent", "queued"} THEN 1 ELSE 0)
                          <= 1 + Cardinality(putBack[j]) + reclaims'[j]
      BY <1>1 DEF AttemptsAddUp
    <2>1. /\ job[j].attempts \in Nat /\ reclaims[j] \in Nat
          /\ Cardinality(putBack[j]) \in Nat
      <3>1. putBack[j] \in SUBSET (1 .. MaxAttempts[j] - 1)
        BY DEF NumbersDiffer
      <3>2. IsFiniteSet(1 .. MaxAttempts[j] - 1)
        BY FS_Interval
      <3> QED
        BY <1>7, <3>1, <3>2, FS_Subset, FS_CardinalityType DEF TypeOK, RowType
    <2>2. job[j].attempts
            + (IF job[j].status \in {"absent", "queued"} THEN 1 ELSE 0)
            <= 1 + Cardinality(putBack[j]) + reclaims[j]
      BY DEF AttemptsAddUp
    <2>3. CASE j \in picked
      <3>1. job'[j].attempts = job[j].attempts + 1 /\ job'[j].status = "running"
        BY <1>12, <1>14, <2>3
      <3>2. CASE LeaseLapsed(j)
        <4>1. reclaims'[j] = reclaims[j] + 1
          BY <1>13, <2>3, <3>2
        <4> QED
          BY <2>1, <2>2, <3>1, <4>1
      <3>3. CASE ~LeaseLapsed(j)
        <4>1. reclaims'[j] = reclaims[j] /\ job[j].status = "queued"
          BY <1>13, <1>12, <2>3, <3>3
        <4> QED
          BY <2>1, <2>2, <3>1, <4>1
      <3> QED
        BY <3>2, <3>3
    <2>4. CASE j \notin picked
      <3>1. reclaims'[j] = reclaims[j] /\ job'[j].attempts = job[j].attempts
        BY <1>13, <1>14, <2>4
      <3>2. job'[j].status \in {"absent", "queued"} => job'[j].status = job[j].status
        BY <1>14, <2>4
      <3> QED
        BY <2>1, <2>2, <3>1, <3>2
    <2> QED
      BY <2>3, <2>4
  <1>20. DoneWasCompleted'
    <2> SUFFICES ASSUME NEW j \in Jobs, job'[j].status = "done"
                 PROVE  completed[j]
      BY <1>1 DEF DoneWasCompleted
    <2>1. job[j].status = "done"
      BY <1>14
    <2> QED
      BY <2>1 DEF DoneWasCompleted
  \* The worker itself neither has an outcome to write nor a handler that ran.
  <1>21. \A v \in Workers : pc'[v] \notin {"idle", "next"} =>
            /\ v # w /\ pc'[v] = pc[v] /\ pc[v] # "idle"
            /\ Current(v)' = Current(v) /\ Current(v).id \in Jobs
    <2> SUFFICES ASSUME NEW v \in Workers, pc'[v] \notin {"idle", "next"}
                 PROVE  /\ v # w /\ pc'[v] = pc[v] /\ pc[v] # "idle"
                        /\ Current(v)' = Current(v) /\ Current(v).id \in Jobs
      OBVIOUS
    <2>1. v # w
      BY <1>10
    <2> QED
      BY <1>9, <1>10, <2>1, CurrentJob DEF Current
  <1>22. ReturnedWasCompleted'
    BY <1>1, <1>21 DEF ReturnedWasCompleted
  <1>23. HandsAgree'
    <2> SUFFICES ASSUME NEW v \in Workers, pc'[v] \in Writing
                 PROVE  LET s == saw[v]  p == puts[v]  j == Current(v).id IN
                        /\ s.status # "absent" /\ s.expiresAt = job'[j].expiresAt
                        /\ p.status \in {"done", "failed", "queued"}
                        /\ p.status = "done" <=> pc'[v] = "writesDone"
                        /\ p.runAt = s.runAt \/ p.runAt < s.expiresAt
                        /\ p.status = "queued" => Current(v).attempts < MaxAttempts[j]
      BY <1>1, <1>21 DEF HandsAgree, Writing
    <2>1. pc[v] \in Writing /\ pc'[v] = pc[v] /\ Current(v).id \in Jobs
      BY <1>21 DEF Writing
    <2> QED
      BY <1>14, <2>1 DEF HandsAgree
  <1>24. BatchesAreDistinct'
    <2> SUFFICES ASSUME NEW v \in Workers
                 PROVE  /\ \A i, k \in DOMAIN batch'[v] :
                              batch'[v][i].id = batch'[v][k].id => i = k
                        /\ pc'[v] = "idle" => batch'[v] = <<>>
      BY DEF BatchesAreDistinct
    <2>1. CASE v = w
      <3>1. n = 0 => taken = <<>>
        BY <1>8
      <3> QED
        BY <1>5, <1>8, <1>9, <1>10, <2>1, <3>1
    <2>2. CASE v # w
      BY <1>9, <1>10, <2>2 DEF BatchesAreDistinct
    <2> QED
      BY <2>1, <2>2
  <1>25. NumbersDiffer'
    <2>1. \A j \in Jobs : /\ job[j].attempts \in Nat /\ job'[j].attempts \in Nat
                          /\ job[j].attempts <= job'[j].attempts
                          /\ j \in picked => job'[j].attempts = job[j].attempts + 1
      BY <1>7, <1>12, <1>14 DEF RowType
    \* A number that is taken is above all that were.
    <2>2. ASSUME NEW i \in DOMAIN taken
          PROVE  /\ taken[i].id \in picked /\ taken[i].id \in Jobs
                 /\ taken[i].attempts = job[taken[i].id].attempts + 1
      BY <1>4, <1>8, <1>12 DEF picked
    <2>3. ASSUME NEW v \in Workers \ {w}, NEW i \in DOMAIN batch'[v]
          PROVE  /\ batch'[v] = batch[v] /\ batch[v][i].id \in Jobs
                 /\ batch[v][i].attempts
                       \in 1 .. job[batch[v][i].id].attempts \ putBack[batch[v][i].id]
      BY <1>9, HeldAreJobs DEF NumbersDiffer
    <2>4. ASSUME NEW u \in Workers, NEW v \in Workers,
                 NEW i \in DOMAIN batch'[u], NEW k \in DOMAIN batch'[v],
                 batch'[u][i] = batch'[v][k]
          PROVE  u = v
      <3>1. CASE u # w /\ v # w
        BY <1>9, <2>4, <3>1 DEF NumbersDiffer
      <3>2. CASE u = w /\ v # w
        <4>1. taken[i].attempts \in 1 .. job[taken[i].id].attempts
          BY <1>9, <2>3, <2>4, <3>2
        <4> QED
          BY <1>9, <2>1, <2>2, <3>2, <4>1
      <3>3. CASE u # w /\ v = w
        <4>1. taken[k].attempts \in 1 .. job[taken[k].id].attempts
          BY <1>9, <2>3, <2>4, <3>3
        <4> QED
          BY <1>9, <2>1, <2>2, <3>3, <4>1
      <3> QED
        BY <3>1, <3>2, <3>3
    <2>5. ASSUME NEW j \in Jobs, NEW m \in putBack[j]
          PROVE  m \in 1 .. MaxAttempts[j] - 1 /\ m <= job[j].attempts
                 /\ m <= job'[j].attempts
      BY <2>1 DEF NumbersDiffer
    <2>6. ASSUME NEW v \in Workers, NEW i \in DOMAIN batch'[v]
          PROVE  batch'[v][i].attempts
                   \in 1 .. job'[batch'[v][i].id].attempts \ putBack[batch'[v][i].id]
      <3>1. CASE v = w
        <4>1. PICK j \in Jobs : j = taken[i].id /\ j \in picked
          BY <1>9, <2>2, <3>1
        <4>2. taken[i].attempts = job[j].attempts + 1
          BY <1>9, <2>2, <3>1, <4>1
        <4>3. taken[i].attempts \in 1 .. job'[j].attempts
          BY <2>1, <4>1, <4>2
        <4>4. taken[i].attempts \notin putBack[j]
          BY <2>1, <2>5, <4>2
        <4> QED
          BY <1>9, <3>1, <4>1, <4>3, <4>4
      <3>2. CASE v # w
        BY <2>1, <2>3, <3>2
      <3> QED
        BY <3>1, <3>2
    <2> QED
      BY <1>1, <2>4, <2>5, <2>6 DEF NumbersDiffer
  \* Nobody holds a picked job under a live lease before the claim.
  <1>26. ASSUME NEW j \in picked, ~lateMark[j], NEW v \in Workers, Leased(v, j)
         PROVE  FALSE
    <2>1. \/ job[j].status = "running" /\ job[j].lockedUntil = until[v]
          \/ job[j].status = "failed" /\ job[j].expiresAt <= now
          \/ job[j].status = "cancelled"
      BY <1>12, <1>26 DEF LeaseIsOnTheRow
    <2>2. /\ job[j].expiresAt > now /\ job[j].expiresAt \in Nat /\ now \in Nat
          /\ until[v] \in Nat /\ until[v] > now
      BY <1>7, <1>12, <1>26 DEF TypeOK, RowType, Leased
    <2>3. LeaseLapsed(j) /\ job[j].lockedUntil = until[v]
      BY <1>12, <2>1, <2>2 DEF LeaseLapsed
    <2> QED
      BY <2>2, <2>3 DEF LeaseLapsed
  <1>27. \A v \in Workers, j \in Jobs :
            Leased(v, j)' => IF v = w THEN j \in picked ELSE Leased(v, j)
    BY <1>1, <1>11, <1>16 DEF Leased
  <1>28. ExclusiveUnlessLate'
    <2> SUFFICES ASSUME NEW j \in Jobs, ~lateMark[j],
                        NEW u \in Workers, NEW v \in Workers,
                        Leased(u, j)', Leased(v, j)'
                 PROVE  u = v
      BY <1>1 DEF ExclusiveUnlessLate
    <2>1. CASE j \in picked
      BY <1>26, <1>27, <2>1
    <2>2. CASE j \notin picked
      BY <1>27, <2>2 DEF ExclusiveUnlessLate
    <2> QED
      BY <2>1, <2>2
  <1>29. LeaseIsOnTheRow'
    <2> SUFFICES ASSUME NEW j \in Jobs, ~lateMark[j],
                        NEW v \in Workers, Leased(v, j)'
                 PROVE  \/ job'[j].status = "running" /\ job'[j].lockedUntil = until'[v]
                        \/ job'[j].status = "failed" /\ job'[j].expiresAt <= now
                        \/ job'[j].status = "cancelled" /\ j \in crossed
      BY <1>1 DEF LeaseIsOnTheRow
    <2>1. CASE j \in picked
      <3>1. v = w
        BY <1>26, <1>27, <2>1
      <3> QED
        BY <1>11, <1>14, <2>1, <3>1
    <2>2. CASE j \notin picked
      <3>1. v # w /\ Leased(v, j)
        BY <1>27, <2>2
      <3>2. \/ job[j].status = "running" /\ job[j].lockedUntil = until[v]
            \/ job[j].status = "failed" /\ job[j].expiresAt <= now
            \/ job[j].status = "cancelled" /\ j \in crossed
        BY <3>1 DEF LeaseIsOnTheRow
      <3>3. Expired(j) => job[j].expiresAt <= now
        BY DEF Expired
      <3> QED
        BY <1>11, <1>14, <2>2, <3>1, <3>2, <3>3
    <2> QED
      BY <2>1, <2>2
  <1>30. FailedWasSeen'
    BY <1>1, <1>21, <1>27 DEF FailedWasSeen, Writing
  <1> QED
    BY <1>15, <1>17, <1>18, <1>19, <1>20, <1>22, <1>23, <1>24, <1>25, <1>28,
       <1>29, <1>30

-----------------------------------------------------------------------------
LEMMA StepPreserves == IInv /\ [Next]_vars => IInv'
  <1> SUFFICES ASSUME IInv, [Next]_vars PROVE IInv'
    OBVIOUS
  <1>1. ASSUME NEW j \in Jobs, CancelReads(j) \/ CancelRollsBack(j) PROVE IInv'
    BY <1>1, CancelsInHandPreserve
  <1>2. ASSUME NEW j \in Jobs, CancelWrites(j) PROVE IInv'
    BY <1>2, CancelWritesPreserves
  <1>3. ASSUME NEW j \in Jobs, NEW delay \in Delays, Enqueue(j, delay) PROVE IInv'
    BY <1>3, EnqueuePreserves
  <1>4. ASSUME NEW w \in Workers, RunnerStep(w) \/ Crash(w) PROVE IInv'
    BY <1>4, ClaimPreserves, InsideStepsPreserve, OutcomePreserves,
       DropsPreserve DEF RunnerStep
  <1>5. CASE Tick
    BY <1>5, TickPreserves
  <1>6. CASE UNCHANGED vars
    <2>1. \A j \in Jobs : Holders(j)' = Holders(j)
      BY <1>6 DEF vars, Holders
    <2>2. \A w \in Workers : Current(w)' = Current(w)
      BY <1>6 DEF vars, Current
    <2>3. \A w \in Workers : pc[w] # "idle" => Current(w).id \in Jobs
      BY CurrentJob DEF IInv
    <2>4. \A w \in Workers, j \in Jobs : Leased(w, j)' <=> Leased(w, j)
      BY <1>6, <2>1 DEF vars, Leased
    <2>5. FailedWasSeen'
      BY <1>6, <2>2, <2>3, <2>4 DEF vars, IInv, FailedWasSeen, Writing
    <2>6. HandsAgree' /\ ReturnedWasCompleted'
      BY <1>6, <2>2 DEF vars, IInv, HandsAgree, ReturnedWasCompleted
    <2>7. LeaseIsOnTheRow' /\ ExclusiveUnlessLate'
      BY <1>6, <2>4 DEF vars, IInv, LeaseIsOnTheRow, ExclusiveUnlessLate
    <2>8. /\ TypeOK' /\ AbsentIsFresh' /\ DoneWasCompleted' /\ BatchesAreDistinct'
          /\ RunsInTime' /\ NumbersDiffer' /\ AttemptsAddUp'
      BY <1>6, <2>1 DEF vars, IInv, TypeOK, AbsentIsFresh, DoneWasCompleted,
         BatchesAreDistinct, RunsInTime, NumbersDiffer, AttemptsAddUp
    <2> QED
      BY <2>5, <2>6, <2>7, <2>8 DEF IInv
  <1> QED
    BY <1>1, <1>2, <1>3, <1>4, <1>5, <1>6 DEF Next

(* IInv holds in every reachable state of the queue. *)
THEOREM Invariance == Spec => []IInv
  BY InitEstablishes, StepPreserves, PTL DEF Spec

(* The tables and the workers' bookkeeping keep their types. *)
THEOREM TypeCorrect == Spec => []TypeOK
  <1>1. IInv => TypeOK
    BY DEF IInv
  <1> QED
    BY <1>1, Invariance, PTL

(* Attempts are only put back below the budget, and each but the first was put
   back or taken over: this bounds the attempts. *)
LEMMA AttemptsAreBounded ==
    ASSUME IInv, NEW j \in Jobs
    PROVE  job[j].attempts + (IF job[j].status \in {"absent", "queued"} THEN 1 ELSE 0)
             <= MaxAttempts[j] + reclaims[j]
  <1> USE DEF IInv
  <1>1. /\ job[j].attempts \in Nat /\ reclaims[j] \in Nat
        /\ MaxAttempts[j] \in Nat \ {0}
    BY DEF TypeOK, RowType
  <1>2. putBack[j] \in SUBSET (1 .. MaxAttempts[j] - 1)
    BY DEF NumbersDiffer
  <1>3. /\ IsFiniteSet(1 .. MaxAttempts[j] - 1)
        /\ Cardinality(1 .. MaxAttempts[j] - 1) = MaxAttempts[j] - 1
    <2>1. 1 \in Int /\ MaxAttempts[j] - 1 \in Int
      BY <1>1
    <2>2. Cardinality(1 .. MaxAttempts[j] - 1)
             = IF 1 > MaxAttempts[j] - 1 THEN 0 ELSE MaxAttempts[j] - 1 - 1 + 1
      BY <2>1, FS_Interval
    <2>3. IsFiniteSet(1 .. MaxAttempts[j] - 1)
      BY <2>1, FS_Interval
    <2> QED
      BY <1>1, <2>2, <2>3
  <1>4. /\ Cardinality(putBack[j]) \in Nat
        /\ Cardinality(putBack[j]) <= MaxAttempts[j] - 1
    BY <1>2, <1>3, FS_Subset, FS_CardinalityType
  <1>5. job[j].attempts + (IF job[j].status \in {"absent", "queued"} THEN 1 ELSE 0)
           <= 1 + Cardinality(putBack[j]) + reclaims[j]
    BY DEF AttemptsAddUp
  <1> QED
    BY <1>1, <1>4, <1>5

(* A row that waits has attempts left and a run time before its deadline, and
   a job is attempted at most max_attempts times, both but for one attempt for
   every lease that lapsed on it: with outcome transactions that decide on a
   copy of the row and write it any time later (runner.py:123-210). *)
THEOREM BudgetAlwaysKept == Spec => []BudgetIsKept
  <1>1. ASSUME IInv PROVE BudgetIsKept
    <2>1. \A j \in Jobs : /\ job[j].attempts \in Nat /\ reclaims[j] \in Nat
                          /\ MaxAttempts[j] \in Nat
      BY <1>1 DEF IInv, TypeOK, RowType
    <2>2. QueuedIsServable
      <3> SUFFICES ASSUME NEW j \in Jobs, job[j].status = "queued"
                   PROVE  /\ job[j].attempts < MaxAttempts[j] + reclaims[j]
                          /\ job[j].runAt < job[j].expiresAt
        BY DEF QueuedIsServable
      <3>1. job[j].attempts + 1 <= MaxAttempts[j] + reclaims[j]
        BY <1>1, AttemptsAreBounded
      <3> QED
        BY <1>1, <2>1, <3>1 DEF IInv, RunsInTime
    <2>3. AttemptBudget
      <3> SUFFICES ASSUME NEW j \in Jobs
                   PROVE  job[j].attempts <= MaxAttempts[j] + reclaims[j]
        BY DEF AttemptBudget
      <3>1. job[j].attempts
              + (IF job[j].status \in {"absent", "queued"} THEN 1 ELSE 0)
              <= MaxAttempts[j] + reclaims[j]
        BY <1>1, AttemptsAreBounded
      <3> QED
        BY <2>1, <3>1
    <2> QED
      BY <2>2, <2>3 DEF BudgetIsKept
  <1> QED
    BY <1>1, Invariance, PTL

(* A row says done only if a run of its handler returned. *)
THEOREM DoneIsTrue == Spec => []DoneWasCompleted
  <1>1. IInv => DoneWasCompleted
    BY DEF IInv
  <1> QED
    BY <1>1, Invariance, PTL

(* Two live leases on a job presuppose an outcome written on a lapsed one. *)
THEOREM LeasesExclude == Spec => []ExclusiveUnlessLate
  <1>1. IInv => ExclusiveUnlessLate
    BY DEF IInv
  <1> QED
    BY <1>1, Invariance, PTL

-----------------------------------------------------------------------------
(* The two action properties.  Only Claim changes the attempts of a row, and
   only the write of an outcome or of a cancel the status of a settled one. *)

LEMMA ClaimOfARow ==
    ASSUME IInv, NEW w \in Workers, Claim(w), NEW j \in Jobs
    PROVE  /\ job'[j].attempts # job[j].attempts =>
                /\ now < job[j].expiresAt
                /\ job[j].status \in {"queued", "running"}
                /\ job'[j].attempts = job[j].attempts + 1
           /\ job[j].status \in Settled => job'[j] = job[j]
  <1>1. PICK q \in Selections :
          job' = [i \in Jobs |->
                    IF i \in {q[k] : k \in DOMAIN q}
                    THEN [job[i] EXCEPT !.status = "running",
                                        !.lockedUntil = now + Lease,
                                        !.attempts = job[i].attempts + 1]
                    ELSE IF Expired(i)
                    THEN [job[i] EXCEPT !.status = "failed", !.lockedUntil = None]
                    ELSE job[i]]
    BY DEF Claim
  <1>2. \A k \in DOMAIN q : q[k] \in Due
    BY DEF Selections
  <1>3. job[j] \in RowType /\ now \in Nat
    BY DEF IInv, TypeOK
  <1>4. CASE Expired(j) /\ j \notin {q[k] : k \in DOMAIN q}
    <2>1. job'[j] = [job[j] EXCEPT !.status = "failed", !.lockedUntil = None]
      BY <1>1, <1>4
    <2>2. job'[j].attempts = job[j].attempts
      BY <1>3, <2>1 DEF RowType
    <2>3. job[j].status \notin Settled
      BY <1>4 DEF Expired, Live, Settled
    <2> QED
      BY <2>2, <2>3
  <1>5. CASE j \in {q[k] : k \in DOMAIN q}
    <2>1. job'[j] = [job[j] EXCEPT !.status = "running",
                                   !.lockedUntil = now + Lease,
                                   !.attempts = job[j].attempts + 1]
      BY <1>1, <1>5
    <2>2. job'[j].attempts = job[j].attempts + 1
      BY <1>3, <2>1 DEF RowType
    <2>3. j \in Due
      BY <1>2, <1>5
    <2>4. job[j].status \in {"queued", "running"} /\ job[j].expiresAt > now
      BY <2>3 DEF Due, LeaseLapsed
    <2>5. now < job[j].expiresAt
      BY <1>3, <2>4 DEF RowType
    <2> QED
      BY <2>2, <2>4, <2>5 DEF Settled
  <1>6. CASE ~Expired(j) /\ j \notin {q[k] : k \in DOMAIN q}
    BY <1>1, <1>6
  <1> QED
    BY <1>4, <1>5, <1>6

(* A step that is not a claim, not the write of an outcome and not the write of
   a cancel leaves the table alone, but for a row that appears. *)
LEMMA OtherSteps ==
    ASSUME IInv, [Next]_vars, NEW j \in Jobs,
           \A w \in Workers : ~Claim(w) /\ ~MarkWrites(w),
           \A i \in Jobs : ~CancelWrites(i)
    PROVE  /\ job'[j].attempts = job[j].attempts
           /\ job[j].status # "absent" => job'[j] = job[j]
  <1>1. ASSUME NEW i \in Jobs, NEW delay \in Delays, Enqueue(i, delay)
        PROVE  /\ job'[j].attempts = job[j].attempts
               /\ job[j].status # "absent" => job'[j] = job[j]
    <2>1. job \in [Jobs -> RowType] /\ job[i] \in RowType
      BY DEF IInv, TypeOK
    <2>2. CASE i = j
      <3>1. job[j].status = "absent"
        BY <1>1, <2>2 DEF Enqueue
      <3>2. job'[j] = [job[j] EXCEPT !.status = "queued", !.runAt = now + delay,
                                     !.expiresAt = now + delay + Ttl[j]]
        BY <1>1, <2>1, <2>2 DEF Enqueue
      <3>3. job'[j].attempts = job[j].attempts
        BY <2>1, <2>2, <3>2 DEF RowType
      <3> QED
        BY <3>1, <3>3
    <2>3. CASE i # j
      BY <1>1, <2>1, <2>3 DEF Enqueue
    <2> QED
      BY <2>2, <2>3
  <1>2. ASSUME NEW i \in Jobs, CancelReads(i) \/ CancelRollsBack(i)
        PROVE  job' = job
    BY <1>2 DEF CancelReads, CancelRollsBack
  <1>3. ASSUME NEW w \in Workers,
               \/ StartHandler(w) \/ HandlerReturns(w) \/ HandlerRaises(w)
               \/ MarkDoneReads(w) \/ MarkFailedReads(w) \/ MarkErrs(w)
               \/ NetErrs(w) \/ Crash(w)
        PROVE  job' = job
    BY <1>3 DEF StartHandler, HandlerReturns, HandlerRaises, MarkDoneReads,
                MarkFailedReads, MarkErrs, NetErrs, Crash, Reads
  <1>4. CASE Tick \/ UNCHANGED vars
    BY <1>4 DEF Tick, vars
  <1> QED
    BY <1>1, <1>2, <1>3, <1>4 DEF Next, RunnerStep

(* The write of a cancel, to the row and to the others. *)
LEMMA CancelOfARow ==
    ASSUME IInv, NEW i \in Jobs, CancelWrites(i), NEW j \in Jobs
    PROVE  /\ job'[j].attempts = job[j].attempts
           /\ job'[j] # job[j] => j \in cancelling /\ job'[j].status = "cancelled"
  <1>1. job \in [Jobs -> RowType] /\ job[i] \in RowType
    BY DEF IInv, TypeOK
  <1>2. CASE i = j
    <2>1. job'[j] = [job[j] EXCEPT !.status = "cancelled"] /\ j \in cancelling
      BY <1>1, <1>2 DEF CancelWrites
    <2>2. job'[j].attempts = job[j].attempts /\ job'[j].status = "cancelled"
      BY <1>1, <1>2, <2>1 DEF RowType
    <2> QED
      BY <2>1, <2>2
  <1>3. CASE i # j
    BY <1>1, <1>3 DEF CancelWrites
  <1> QED
    BY <1>2, <1>3

(* No attempt starts after the deadline of a job or once it is settled. *)
THEOREM ClaimsAreInTime == Spec => ClaimsOnlyUnexpired
  <1> DEFINE InTime(j) ==
        job'[j].attempts # job[j].attempts =>
          /\ now < job[j].expiresAt
          /\ job[j].status \in {"queued", "running"}
          /\ job'[j].attempts = job[j].attempts + 1
  <1>1. ASSUME IInv, [Next]_vars, NEW j \in Jobs PROVE InTime(j)
    <2> USE <1>1
    <2>1. ASSUME NEW w \in Workers, Claim(w) PROVE InTime(j)
      BY <2>1, ClaimOfARow
    <2>2. ASSUME NEW w \in Workers, MarkWrites(w) PROVE InTime(j)
      BY <2>2, WriteOfARow
    <2>3. ASSUME NEW i \in Jobs, CancelWrites(i) PROVE InTime(j)
      BY <2>3, CancelOfARow
    <2> QED
      BY <2>1, <2>2, <2>3, OtherSteps
  <1>2. IInv /\ [Next]_vars => \A j \in Jobs : InTime(j)
    BY <1>1
  <1>3. IInv /\ [Next]_vars => [\A j \in Jobs : InTime(j)]_vars
    BY <1>2
  <1> QED
    BY <1>3, Invariance, PTL DEF Spec, ClaimsOnlyUnexpired

(* As long as outcomes are written in time, a settled job is overwritten only
   by a cancel that read it while it was queued, by the worker it was cancelled
   under in that way, and by a run that was going on at its deadline. *)
THEOREM SettledIsFinal == Spec => SettledStays
  <1> DEFINE Final(j) ==
        ~lateMark'[j] =>
          LET Becomes(s) == job'[j].status = s
              late == Becomes("cancelled") /\ j \in cancelling IN
          /\ job[j].status = "done" => Becomes("done") \/ late
          /\ job[j].status = "cancelled" => Becomes("cancelled") \/ j \in crossed
          /\ job[j].status = "failed" =>
                \/ Becomes("failed") \/ Becomes("done") \/ late
                \/ /\ Becomes("queued") /\ job[j].expiresAt <= now
                   /\ \E w \in Workers : pc[w] \in Writing /\ Current(w).id = j
                                         /\ saw[w].status # "failed"
  <1>1. ASSUME IInv, [Next]_vars, NEW j \in Jobs PROVE Final(j)
    <2> USE <1>1
    <2>1. CASE job[j].status \notin Settled
      BY <2>1 DEF Settled
    <2>2. CASE job'[j] = job[j]
      BY <2>2
    <2> SUFFICES ASSUME job[j].status \in Settled, job'[j] # job[j], ~lateMark'[j]
                 PROVE  Final(j)
      BY <2>1, <2>2
    <2>3. ASSUME NEW w \in Workers, Claim(w) PROVE FALSE
      BY <2>3, ClaimOfARow
    <2>4. ASSUME NEW w \in Workers, MarkWrites(w) PROVE Final(j)
      <3>0. \A i \in Jobs \ {Current(w).id} : job'[i] = job[i]
        BY <2>4, WriteOfARow
      <3>1. j = Current(w).id
        BY <3>0
      <3>2. /\ ~lateMark[j] /\ Leased(w, j) /\ pc[w] \in Writing
            /\ job'[j].status = IF puts[w].status = saw[w].status
                                THEN job[j].status ELSE puts[w].status
        BY <2>4, <3>1, WriteOfARow DEF MarkWrites
      <3>3. \/ job[j].status = "failed" /\ job[j].expiresAt <= now
            \/ job[j].status = "cancelled" /\ j \in crossed
        BY <3>2 DEF IInv, LeaseIsOnTheRow, Settled
      <3>4. CASE job[j].status = "cancelled"
        BY <3>3, <3>4
      <3>5. CASE job[j].status = "failed"
        <4>1. puts[w].status \in {"done", "failed", "queued"}
          BY <3>2 DEF IInv, HandsAgree
        <4>2. puts[w].status = "queued" => saw[w].status # "failed"
          BY <3>1, <3>2 DEF IInv, FailedWasSeen
        <4> QED
          BY <3>1, <3>2, <3>3, <3>5, <4>1, <4>2
      <3> QED
        BY <3>3, <3>4, <3>5
    <2>5. ASSUME NEW i \in Jobs, CancelWrites(i) PROVE Final(j)
      BY <2>5, CancelOfARow
    <2>6. job[j].status # "absent"
      BY DEF Settled
    <2> QED
      BY <2>3, <2>4, <2>5, <2>6, OtherSteps
  <1>2. IInv /\ [Next]_vars => [\A j \in Jobs : Final(j)]_vars
    BY <1>1
  <1> QED
    BY <1>2, Invariance, PTL DEF Spec, SettledStays
=============================================================================
