---------------------------- MODULE OutboxProofs ----------------------------
(***************************************************************************)
(* What is proved of the webhook outbox. The first invariant follows a     *)
(* row: the runner that has it in its batch is the only one while its      *)
(* claim lasts, and the stage of the runner says whether the receiver has  *)
(* accepted it. The second follows an endpoint: its counter of failures    *)
(* lags behind the outcomes by the one being counted, as long as outcomes  *)
(* of it do not overlap.                                                   *)
(***************************************************************************)
EXTENDS Outbox, FiniteSetTheorems, SequenceTheorems, TLAPS

-----------------------------------------------------------------------------
(* Deliveries.                                                             *)

(* What a runner holds are rows of the table.                              *)
BatchesKnown == \A w \in Workers : \A i \in DOMAIN runner[w].batch : runner[w].batch[i] \in DOMAIN rows

(* The endpoint of the row r was deleted.                                  *)
Gone(r) == endpoint[rows[r].ep].status = "deleted"

(* A row no claim on which ran out is in one batch, once.                  *)
HeldOnce ==
    \A w, v \in Workers :
        \A i \in DOMAIN runner[w].batch, j \in DOMAIN runner[v].batch :
            runner[w].batch[i] = runner[v].batch[j] /\ ~rows[runner[w].batch[i]].lapsed
            => w = v /\ i = j

(* It is claimed and unsent; and its receiver has it only if the delivery  *)
(* in progress succeeded, after the endpoint went, or because an error     *)
(* kept an earlier acceptance out of the table.                            *)
HeldFresh(w) ==
    \A i \in DOMAIN runner[w].batch :
        LET r == runner[w].batch[i]
        IN  ~rows[r].lapsed =>
              /\ rows[r].locked /\ ~rows[r].sent
              /\ i # 1 \/ runner[w].stage = "load" => rows[r].unsettled \/ rows[r].acks = 0 \/ Gone(r)
              /\ i = 1 /\ runner[w].stage = "post" => rows[r].unsettled \/ rows[r].acks = 0
              /\ i = 1 /\ runner[w].stage \in {"count", "write", "mark"} =>
                    rows[r].unsettled \/ rows[r].acks = IF runner[w].result = "ok" THEN 1 ELSE 0

(* A row no claim on which ran out was accepted at most once, and not      *)
(* before it is marked unless its endpoint is gone, or an error kept an    *)
(* acceptance out of the table.                                            *)
RowFresh(r) ==
    ~rows[r].lapsed =>
        /\ rows[r].unsettled \/ rows[r].acks <= 1
        /\ ~rows[r].sent /\ ~rows[r].locked => rows[r].unsettled \/ rows[r].acks = 0 \/ Gone(r)

(* The invariant of the deliveries.                                        *)
DeliveryInv ==
    /\ TypeOK
    /\ BatchesKnown
    /\ HeldOnce
    /\ \A w \in Workers : HeldFresh(w)
    /\ \A r \in DOMAIN rows : RowFresh(r)

LEMMA IdleType == IdleRunner \in RunnerType
  BY DEF IdleRunner, RunnerType, Stages

LEMMA OutboxStarts == Init => DeliveryInv
  <1> SUFFICES ASSUME Init PROVE DeliveryInv
    OBVIOUS
  <1>1. rows \in Seq(RowType) /\ Len(rows) = 0 /\ DOMAIN rows = {}
    BY DEF Init
  <1>2. runner \in [Workers -> RunnerType] /\ \A w \in Workers : DOMAIN runner[w].batch = {}
    BY IdleType DEF Init, IdleRunner
  <1>3. endpoint \in [Endpoints -> EndpointType] /\ streak \in [Endpoints -> 0..DisableAfter]
        /\ blurred \subseteq Endpoints /\ faults \in 0..MaxFaults
    BY OutboxAssumption DEF Init, EndpointType
  <1>4. TypeOK
    BY <1>1, <1>2, <1>3, OutboxAssumption DEF TypeOK
  <1> QED
    BY <1>1, <1>2, <1>4 DEF DeliveryInv, BatchesKnown, HeldOnce, HeldFresh

LEMMA RowOf ==
    ASSUME TypeOK, NEW r \in DOMAIN rows
    PROVE  /\ r \in 1..Len(rows) /\ r \in Nat /\ r \in 1..MaxRows
           /\ rows[r] \in RowType /\ rows[r].ep \in Endpoints
           /\ rows[r].sent \in BOOLEAN /\ rows[r].locked \in BOOLEAN
           /\ rows[r].acks \in 0..2 /\ rows[r].lapsed \in BOOLEAN
           /\ rows[r].unsettled \in BOOLEAN
  <1>1. rows \in Seq(RowType) /\ Len(rows) \in Nat /\ Len(rows) <= MaxRows
    BY DEF TypeOK
  <1>2. r \in 1..Len(rows) /\ rows[r] \in RowType /\ r \in 1..MaxRows
    BY <1>1, OutboxAssumption
  <1> QED
    BY <1>2 DEF RowType

LEMMA RowWritten ==
    ASSUME TypeOK, NEW h \in DOMAIN rows, NEW new \in RowType, rows' = [rows EXCEPT ![h] = new]
    PROVE  /\ rows' \in Seq(RowType) /\ Len(rows') = Len(rows) /\ DOMAIN rows' = DOMAIN rows
           /\ rows'[h] = new /\ \A q \in DOMAIN rows : q # h => rows'[q] = rows[q]
  <1>1. rows \in Seq(RowType) /\ h \in 1..Len(rows)
    BY RowOf DEF TypeOK
  <1> QED
    BY <1>1, ExceptSeq

LEMMA RunnerOf ==
    ASSUME TypeOK, NEW w \in Workers
    PROVE  /\ runner[w] \in RunnerType /\ runner[w].batch \in Seq(1..MaxRows)
           /\ DOMAIN runner[w].batch = 1..Len(runner[w].batch)
           /\ Len(runner[w].batch) \in Nat
           /\ runner[w].stage \in Stages /\ runner[w].result \in {"ok", "error"}
           /\ runner[w].failures \in Nat /\ runner[w].active \in BOOLEAN
  <1>1. runner[w] \in RunnerType
    BY DEF TypeOK
  <1> QED
    BY <1>1 DEF RunnerType

LEMMA HeadOf ==
    ASSUME DeliveryInv, NEW w \in Workers, runner[w].batch # <<>>
    PROVE  /\ 1 \in DOMAIN runner[w].batch /\ Row(w) = runner[w].batch[1]
           /\ Row(w) \in DOMAIN rows /\ Target(w) \in Endpoints
  <1>1. 1 \in DOMAIN runner[w].batch /\ Row(w) = runner[w].batch[1]
    BY RunnerOf DEF DeliveryInv, Row
  <1> QED
    BY <1>1, RowOf DEF DeliveryInv, BatchesKnown, Target

LEMMA NextRowOf ==
    ASSUME DeliveryInv, NEW w \in Workers, runner[w].batch # <<>>
    PROVE  /\ NextRow(w) \in RunnerType /\ NextRow(w).stage = "load"
           /\ \A i \in DOMAIN NextRow(w).batch :
                 i + 1 \in DOMAIN runner[w].batch /\ i + 1 # 1 /\ i \in Nat
                 /\ NextRow(w).batch[i] = runner[w].batch[i + 1]
  <1>1. runner[w].batch \in Seq(1..MaxRows)
    BY RunnerOf DEF DeliveryInv
  <1>2. Tail(runner[w].batch) \in Seq(1..MaxRows)
        /\ Len(Tail(runner[w].batch)) = Len(runner[w].batch) - 1
        /\ \A i \in 1..Len(Tail(runner[w].batch)) : Tail(runner[w].batch)[i] = runner[w].batch[i + 1]
    BY <1>1, HeadTailProperties
  <1>3. NextRow(w).batch = Tail(runner[w].batch) /\ NextRow(w).stage = "load"
    BY DEF NextRow, IdleRunner
  <1>4. NextRow(w) \in RunnerType
    BY <1>2, IdleType DEF NextRow, RunnerType
  <1>5. ASSUME NEW i \in DOMAIN NextRow(w).batch
        PROVE  /\ i + 1 \in DOMAIN runner[w].batch /\ i + 1 # 1 /\ i \in Nat
               /\ NextRow(w).batch[i] = runner[w].batch[i + 1]
    <2>1. i \in 1..Len(Tail(runner[w].batch))
      BY <1>2, <1>3
    <2> QED
      BY <1>1, <1>2, <1>3, <2>1
  <1> QED
    BY <1>3, <1>4, <1>5

(* A step of one runner that touches no row but the one it treats.         *)
LEMMA RunnerKeepsDelivery ==
    ASSUME DeliveryInv, TypeOK', NEW w \in Workers, NEW new \in RunnerType,
           runner' = [runner EXCEPT ![w] = new],
           NEW d \in {0, 1},
           \A i \in DOMAIN new.batch :
              i + d \in DOMAIN runner[w].batch /\ new.batch[i] = runner[w].batch[i + d],
           DOMAIN rows' = DOMAIN rows,
           \A r \in DOMAIN rows :
              /\ rows'[r].ep = rows[r].ep /\ rows'[r].lapsed = rows[r].lapsed
              /\ Gone(r) => Gone(r)'
              /\ \/ rows'[r] = rows[r]
                 \/ runner[w].batch # <<>> /\ r = Row(w) /\ RowFresh(r)',
           HeldFresh(w)'
    PROVE  DeliveryInv'
  <1>1. runner'[w] = new /\ \A v \in Workers : v # w => runner'[v] = runner[v]
    BY DEF DeliveryInv, TypeOK
  <1>2. new.batch \in Seq(1..MaxRows) /\ DOMAIN new.batch = 1..Len(new.batch) /\ Len(new.batch) \in Nat
    BY DEF RunnerType
  <1>3. BatchesKnown'
    BY <1>1 DEF DeliveryInv, BatchesKnown
  <1>4. HeldOnce'
    <2> SUFFICES ASSUME NEW u \in Workers, NEW v \in Workers,
                        NEW i \in DOMAIN runner'[u].batch, NEW j \in DOMAIN runner'[v].batch,
                        runner'[u].batch[i] = runner'[v].batch[j],
                        ~rows'[runner'[u].batch[i]].lapsed
                 PROVE  u = v /\ i = j
      BY DEF HeldOnce
    <2>1. runner'[u].batch[i] \in DOMAIN rows /\ ~rows[runner'[u].batch[i]].lapsed
      BY <1>3 DEF BatchesKnown
    <2>2. CASE u # w /\ v # w
      BY <1>1, <2>1, <2>2 DEF DeliveryInv, HeldOnce
    <2>3. CASE u = w /\ v # w
      BY <1>1, <2>1, <2>3 DEF DeliveryInv, HeldOnce
    <2>4. CASE u # w /\ v = w
      BY <1>1, <2>1, <2>4 DEF DeliveryInv, HeldOnce
    <2>5. CASE u = w /\ v = w
      <3>1. i + d = j + d
        BY <1>1, <2>1, <2>5 DEF DeliveryInv, HeldOnce
      <3>2. i \in Nat /\ j \in Nat
        BY <1>1, <1>2, <2>5
      <3> QED
        BY <2>5, <3>1, <3>2
    <2> QED
      BY <2>2, <2>3, <2>4, <2>5
  <1>5. ASSUME NEW v \in Workers, v # w PROVE HeldFresh(v)'
    <2> SUFFICES ASSUME NEW j \in DOMAIN runner[v].batch,
                        NEW r, r = runner[v].batch[j], ~rows'[r].lapsed
                 PROVE  /\ rows'[r].locked /\ ~rows'[r].sent
                        /\ j # 1 \/ runner[v].stage = "load" => rows'[r].unsettled \/ rows'[r].acks = 0 \/ Gone(r)'
                        /\ j = 1 /\ runner[v].stage = "post" => rows'[r].unsettled \/ rows'[r].acks = 0
                        /\ j = 1 /\ runner[v].stage \in {"count", "write", "mark"} =>
                              rows'[r].unsettled \/ rows'[r].acks = IF runner[v].result = "ok" THEN 1 ELSE 0
      BY <1>1, <1>5 DEF HeldFresh, Gone
    <2>1. r \in DOMAIN rows /\ ~rows[r].lapsed
      BY DEF DeliveryInv, BatchesKnown
    <2>2. ~(runner[w].batch # <<>> /\ r = Row(w))
      BY <1>5, <2>1, HeadOf DEF DeliveryInv, HeldOnce
    <2>3. rows'[r] = rows[r] /\ (Gone(r) => Gone(r)')
      BY <2>1, <2>2
    <2> QED
      BY <2>1, <2>3 DEF DeliveryInv, HeldFresh
  <1>6. ASSUME NEW r \in DOMAIN rows PROVE RowFresh(r)'
    <2>1. CASE rows'[r] = rows[r]
      BY <2>1 DEF DeliveryInv, RowFresh
    <2> QED
      BY <2>1
  <1> QED
    BY <1>3, <1>4, <1>5, <1>6 DEF DeliveryInv

(* A step that leaves the batches alone, and every row that is not lapsed  *)
(* after it.                                                               *)
LEMMA RowsKeepDelivery ==
    ASSUME DeliveryInv, TypeOK', runner' = runner, DOMAIN rows \subseteq DOMAIN rows',
           \A r \in DOMAIN rows :
              \/ rows'[r] = rows[r] /\ (Gone(r) => Gone(r)')
              \/ rows'[r].lapsed,
           \A r \in DOMAIN rows' \ DOMAIN rows : RowFresh(r)'
    PROVE  DeliveryInv'
  <1>1. BatchesKnown'
    BY DEF DeliveryInv, BatchesKnown
  <1>2. \A r \in DOMAIN rows : ~rows'[r].lapsed => rows'[r] = rows[r] /\ (Gone(r) => Gone(r)')
    OBVIOUS
  <1>3. HeldOnce'
    BY <1>2 DEF DeliveryInv, BatchesKnown, HeldOnce
  <1>4. ASSUME NEW w \in Workers PROVE HeldFresh(w)'
    <2> SUFFICES ASSUME NEW i \in DOMAIN runner[w].batch,
                        NEW r, r = runner[w].batch[i], ~rows'[r].lapsed
                 PROVE  /\ rows'[r].locked /\ ~rows'[r].sent
                        /\ i # 1 \/ runner[w].stage = "load" => rows'[r].unsettled \/ rows'[r].acks = 0 \/ Gone(r)'
                        /\ i = 1 /\ runner[w].stage = "post" => rows'[r].unsettled \/ rows'[r].acks = 0
                        /\ i = 1 /\ runner[w].stage \in {"count", "write", "mark"} =>
                              rows'[r].unsettled \/ rows'[r].acks = IF runner[w].result = "ok" THEN 1 ELSE 0
      BY DEF HeldFresh, Gone
    <2>1. rows'[r] = rows[r] /\ (Gone(r) => Gone(r)')
      BY <1>2 DEF DeliveryInv, BatchesKnown
    <2> QED
      BY <2>1 DEF DeliveryInv, HeldFresh
  <1>5. ASSUME NEW r \in DOMAIN rows' PROVE RowFresh(r)'
    <2>1. CASE r \in DOMAIN rows /\ ~rows'[r].lapsed
      BY <1>2, <2>1 DEF DeliveryInv, RowFresh
    <2>2. CASE r \notin DOMAIN rows
      BY <2>2
    <2>3. CASE rows'[r].lapsed
      BY <2>3 DEF RowFresh
    <2> QED
      BY <2>1, <2>2, <2>3
  <1> QED
    BY <1>1, <1>3, <1>4, <1>5 DEF DeliveryInv

LEMMA EnqueueKeepsDelivery ==
    ASSUME DeliveryInv, NEW ep \in Endpoints, Enqueue(ep)
    PROVE  DeliveryInv'
  <1>1. OutboxRow(ep) \in RowType /\ OutboxRow(ep).acks = 0
    BY DEF OutboxRow, RowType
  <1>2. rows \in Seq(RowType) /\ Len(rows) \in Nat /\ Len(rows) < MaxRows /\ MaxRows \in Nat
    BY OutboxAssumption DEF Enqueue, DeliveryInv, TypeOK
  <1>3. /\ rows' \in Seq(RowType) /\ Len(rows') = Len(rows) + 1
        /\ \A r \in 1..Len(rows) : rows'[r] = rows[r]
        /\ rows'[Len(rows) + 1] = OutboxRow(ep)
        /\ DOMAIN rows = 1..Len(rows) /\ DOMAIN rows' = 1..(Len(rows) + 1)
    BY <1>1, <1>2, AppendProperties DEF Enqueue
  <1>4. UNCHANGED <<endpoint, runner, streak, blurred, faults>>
    BY DEF Enqueue
  <1>5. TypeOK'
    BY <1>2, <1>3, <1>4 DEF DeliveryInv, TypeOK
  <1>6. \A r \in DOMAIN rows' \ DOMAIN rows : r = Len(rows) + 1
    BY <1>2, <1>3
  <1>7. \A r \in DOMAIN rows' \ DOMAIN rows : RowFresh(r)'
    BY <1>1, <1>3, <1>6 DEF RowFresh
  <1>8. DOMAIN rows \subseteq DOMAIN rows'
    BY <1>2, <1>3
  <1>9. \A r \in DOMAIN rows : rows'[r] = rows[r] /\ (Gone(r) => Gone(r)')
    BY <1>3, <1>4 DEF Gone
  <1> QED
    BY <1>4, <1>5, <1>7, <1>8, <1>9, RowsKeepDelivery

LEMMA EndpointsKeepDelivery ==
    ASSUME DeliveryInv, NEW ep \in Endpoints,
           (\E active \in BOOLEAN : WebhookCreate(ep, active)) \/ WebhookDelete(ep)
    PROVE  DeliveryInv'
  <1>1. UNCHANGED <<rows, runner, faults>>
    BY DEF WebhookCreate, WebhookDelete
  <1>2. PICK new \in EndpointType :
           /\ endpoint' = [endpoint EXCEPT ![ep] = new]
           /\ endpoint[ep].status # "deleted"
    <2>1. CASE WebhookDelete(ep)
      <3>1. [status |-> "deleted", failures |-> 0] \in EndpointType
        BY DEF EndpointType
      <3> QED
        BY <2>1, <3>1 DEF WebhookDelete
    <2>2. ASSUME NEW active \in BOOLEAN, WebhookCreate(ep, active)
          PROVE  \E new \in EndpointType :
                    /\ endpoint' = [endpoint EXCEPT ![ep] = new]
                    /\ endpoint[ep].status # "deleted"
      <3>1. endpoint[ep] \in EndpointType
        BY DEF DeliveryInv, TypeOK
      <3>2. [endpoint[ep] EXCEPT !.status = IF active THEN "active" ELSE "inactive"] \in EndpointType
        BY <3>1 DEF EndpointType
      <3>3. endpoint' = [endpoint EXCEPT ![ep] =
                  [endpoint[ep] EXCEPT !.status = IF active THEN "active" ELSE "inactive"]]
        BY <2>2 DEF WebhookCreate, DeliveryInv, TypeOK
      <3> QED
        BY <2>2, <3>2, <3>3 DEF WebhookCreate
    <2> QED
      BY <2>1, <2>2
  <1>3. streak' \in [Endpoints -> 0..DisableAfter] /\ blurred' \subseteq Endpoints
    <2>1. 0 \in 0..DisableAfter
      BY OutboxAssumption
    <2>2. CASE WebhookDelete(ep)
      BY <2>1, <2>2 DEF WebhookDelete, DeliveryInv, TypeOK
    <2>3. CASE UNCHANGED <<streak, blurred>>
      BY <2>3 DEF DeliveryInv, TypeOK
    <2> QED
      BY <2>2, <2>3 DEF WebhookCreate
  <1>4. TypeOK'
    BY <1>1, <1>2, <1>3 DEF DeliveryInv, TypeOK
  <1>5. \A e \in Endpoints : endpoint[e].status = "deleted" => endpoint'[e].status = "deleted"
    BY <1>2 DEF DeliveryInv, TypeOK
  <1>6. \A r \in DOMAIN rows : Gone(r) => Gone(r)'
    BY <1>1, <1>5, RowOf DEF Gone, DeliveryInv
  <1> QED
    BY <1>1, <1>4, <1>6, RowsKeepDelivery

LEMMA ExpiryKeepsDelivery ==
    ASSUME DeliveryInv, NEW r \in DOMAIN rows, LockExpires(r)
    PROVE  DeliveryInv'
  <1> DEFINE new == [rows[r] EXCEPT !.locked = FALSE, !.lapsed = TRUE]
  <1>1. rows' = [rows EXCEPT ![r] = new] /\ UNCHANGED <<endpoint, runner, streak, blurred>>
    BY RowOf DEF LockExpires, DeliveryInv, TypeOK
  <1>2. new \in RowType /\ new.lapsed
    BY RowOf DEF RowType, DeliveryInv
  <1>3. faults' \in 0..MaxFaults
    BY OutboxAssumption DEF LockExpires, Fault, DeliveryInv, TypeOK
  <1> HIDE DEF new
  <1>5. /\ rows' \in Seq(RowType) /\ Len(rows') = Len(rows) /\ DOMAIN rows' = DOMAIN rows
        /\ rows'[r] = new /\ \A q \in DOMAIN rows : q # r => rows'[q] = rows[q]
    BY <1>1, <1>2, RowWritten DEF DeliveryInv
  <1>6. TypeOK'
    BY <1>1, <1>3, <1>5 DEF DeliveryInv, TypeOK
  <1>7. \A q \in DOMAIN rows : (rows'[q] = rows[q] /\ (Gone(q) => Gone(q)')) \/ rows'[q].lapsed
    BY <1>1, <1>2, <1>5 DEF Gone
  <1> QED
    BY <1>1, <1>5, <1>6, <1>7, RowsKeepDelivery

(* The rows a runner claims are free, and it holds each of them once.      *)
LEMMA ClaimKeepsDelivery ==
    ASSUME DeliveryInv, NEW w \in Workers, FetchPending(w)
    PROVE  DeliveryInv'
  <1>1. PICK batch \in [1..Cardinality(Oldest) -> Oldest] :
           InOrder(batch) /\ runner' = [runner EXCEPT ![w] = [IdleRunner EXCEPT !.batch = batch]]
    BY DEF FetchPending
  <1> DEFINE new == [IdleRunner EXCEPT !.batch = batch]
  <1>2. /\ rows \in Seq(RowType) /\ Len(rows) \in Nat /\ Len(rows) <= MaxRows /\ MaxRows \in Nat
        /\ DOMAIN rows = 1..Len(rows)
    BY OutboxAssumption DEF DeliveryInv, TypeOK
  <1>3. Cardinality(Oldest) \in Nat
    <2>1. IsFiniteSet(1..Len(rows)) /\ Oldest \subseteq 1..Len(rows)
      BY <1>2, FS_Interval DEF Oldest
    <2> QED
      BY <2>1, FS_Subset, FS_CardinalityType
  <1>4. Oldest \subseteq 1..MaxRows /\ Oldest \subseteq DOMAIN rows
    BY <1>2 DEF Oldest
  <1>5. batch \in Seq(1..MaxRows) /\ DOMAIN batch = 1..Cardinality(Oldest)
        /\ \A i \in DOMAIN batch : i \in Nat /\ batch[i] \in Oldest
    <2>1. DOMAIN batch = 1..Cardinality(Oldest) /\ \A i \in 1..Cardinality(Oldest) : batch[i] \in Oldest
      BY <1>1
    <2>2. batch \in Seq(1..MaxRows)
      <3>1. batch \in [1..Cardinality(Oldest) -> 1..MaxRows]
        BY <1>1, <1>4
      <3> QED
        BY <1>3, <3>1, SeqDef
    <2> QED
      BY <1>3, <2>1, <2>2
  <1>6. new \in RunnerType /\ new.batch = batch /\ new.stage = "load"
    BY <1>5, IdleType DEF IdleRunner, RunnerType
  <1> HIDE DEF new
  <1>7. runner'[w] = new /\ \A v \in Workers : v # w => runner'[v] = runner[v]
    BY <1>1 DEF DeliveryInv, TypeOK, new
  <1>8. /\ rows' = [r \in DOMAIN rows |->
                   IF r \in Oldest THEN [rows[r] EXCEPT !.locked = TRUE] ELSE rows[r]]
        /\ UNCHANGED <<endpoint, streak, blurred, faults>>
    BY DEF FetchPending
  <1>9. \A r \in DOMAIN rows : rows'[r] \in RowType
    BY <1>8, RowOf DEF DeliveryInv, RowType
  <1>10. rows' \in Seq(RowType) /\ Len(rows') = Len(rows) /\ DOMAIN rows' = DOMAIN rows
    <2>1. rows' \in [1..Len(rows) -> RowType]
      BY <1>2, <1>8, <1>9
    <2> QED
      BY <1>2, <2>1, SeqDef, LenProperties
  <1>11. TypeOK'
    BY <1>1, <1>6, <1>8, <1>10 DEF DeliveryInv, TypeOK, new
  <1>12. \A r \in DOMAIN rows : r \in Oldest => ~rows[r].sent /\ ~rows[r].locked
    BY DEF Oldest, Claimable
  <1>13. \A v \in Workers : \A j \in DOMAIN runner[v].batch :
            ~rows[runner[v].batch[j]].lapsed => runner[v].batch[j] \notin Oldest
    BY <1>12 DEF DeliveryInv, HeldFresh, BatchesKnown
  <1>14. \A r \in DOMAIN rows : /\ rows'[r].lapsed = rows[r].lapsed
                                /\ r \notin Oldest => rows'[r] = rows[r]
                                /\ r \in Oldest => rows'[r] = [rows[r] EXCEPT !.locked = TRUE]
    BY <1>8, RowOf DEF DeliveryInv, RowType
  <1>15. \A i, j \in DOMAIN batch : batch[i] = batch[j] => i = j
    BY <1>1, <1>4, <1>5 DEF InOrder
  <1>16. \A r \in DOMAIN rows : rows'[r].ep = rows[r].ep /\ (Gone(r) <=> Gone(r)')
    BY <1>8, <1>14, RowOf DEF DeliveryInv, RowType, Gone
  <1>17. BatchesKnown'
    BY <1>4, <1>5, <1>6, <1>7, <1>10 DEF DeliveryInv, BatchesKnown
  <1>18. HeldOnce'
    <2> SUFFICES ASSUME NEW u \in Workers, NEW v \in Workers,
                        NEW i \in DOMAIN runner'[u].batch, NEW j \in DOMAIN runner'[v].batch,
                        runner'[u].batch[i] = runner'[v].batch[j],
                        ~rows'[runner'[u].batch[i]].lapsed
                 PROVE  u = v /\ i = j
      BY DEF HeldOnce
    <2>1. runner'[u].batch[i] \in DOMAIN rows /\ ~rows[runner'[u].batch[i]].lapsed
      BY <1>10, <1>14, <1>17 DEF BatchesKnown
    <2>2. CASE u # w /\ v # w
      BY <1>7, <2>1, <2>2 DEF DeliveryInv, HeldOnce
    <2>3. CASE u = w /\ v # w
      <3>1. batch[i] \in Oldest /\ runner'[u].batch[i] = batch[i]
        BY <1>5, <1>6, <1>7, <2>3
      <3>2. j \in DOMAIN runner[v].batch /\ runner'[v].batch[j] = runner[v].batch[j]
        BY <1>7, <2>3
      <3> QED
        BY <1>13, <2>1, <3>1, <3>2
    <2>4. CASE u # w /\ v = w
      <3>1. batch[j] \in Oldest /\ runner'[v].batch[j] = batch[j]
        BY <1>5, <1>6, <1>7, <2>4
      <3>2. i \in DOMAIN runner[u].batch /\ runner'[u].batch[i] = runner[u].batch[i]
        BY <1>7, <2>4
      <3> QED
        BY <1>13, <2>1, <3>1, <3>2
    <2>5. CASE u = w /\ v = w
      BY <1>6, <1>7, <1>15, <2>5
    <2> QED
      BY <2>2, <2>3, <2>4, <2>5
  <1>19. HeldFresh(w)'
    <2> SUFFICES ASSUME NEW i \in DOMAIN batch, NEW r, r = batch[i], ~rows'[r].lapsed
                 PROVE  /\ rows'[r].locked /\ ~rows'[r].sent
                        /\ rows'[r].unsettled \/ rows'[r].acks = 0 \/ Gone(r)'
      BY <1>6, <1>7 DEF HeldFresh, Gone
    <2>1. r \in Oldest /\ r \in DOMAIN rows /\ ~rows[r].lapsed
      BY <1>4, <1>5, <1>14
    <2>2. /\ rows[r] \in RowType /\ rows'[r] = [rows[r] EXCEPT !.locked = TRUE]
          /\ ~rows[r].sent /\ ~rows[r].locked /\ RowFresh(r)
      BY <1>12, <1>14, <2>1, RowOf DEF DeliveryInv
    <2> QED
      BY <1>16, <2>1, <2>2 DEF RowType, RowFresh
  <1>20. ASSUME NEW v \in Workers, v # w PROVE HeldFresh(v)'
    <2> SUFFICES ASSUME NEW j \in DOMAIN runner[v].batch,
                        NEW r, r = runner[v].batch[j], ~rows'[r].lapsed
                 PROVE  /\ rows'[r].locked /\ ~rows'[r].sent
                        /\ j # 1 \/ runner[v].stage = "load" => rows'[r].unsettled \/ rows'[r].acks = 0 \/ Gone(r)'
                        /\ j = 1 /\ runner[v].stage = "post" => rows'[r].unsettled \/ rows'[r].acks = 0
                        /\ j = 1 /\ runner[v].stage \in {"count", "write", "mark"} =>
                              rows'[r].unsettled \/ rows'[r].acks = IF runner[v].result = "ok" THEN 1 ELSE 0
      BY <1>7, <1>20 DEF HeldFresh, Gone
    <2>1. r \in DOMAIN rows /\ ~rows[r].lapsed
      BY <1>14 DEF DeliveryInv, BatchesKnown
    <2>2. rows'[r] = rows[r] /\ (Gone(r) => Gone(r)')
      BY <1>13, <1>14, <1>16, <2>1
    <2> QED
      BY <2>1, <2>2 DEF DeliveryInv, HeldFresh
  <1>21. ASSUME NEW r \in DOMAIN rows PROVE RowFresh(r)'
    <2>1. RowFresh(r) /\ rows[r] \in RowType
      BY RowOf DEF DeliveryInv
    <2>2. CASE r \in Oldest
      BY <1>14, <2>1, <2>2 DEF RowFresh, RowType
    <2>3. CASE r \notin Oldest
      BY <1>14, <1>16, <2>1, <2>3 DEF RowFresh
    <2> QED
      BY <2>2, <2>3
  <1> QED
    BY <1>10, <1>11, <1>17, <1>18, <1>19, <1>20, <1>21 DEF DeliveryInv

(* The runner goes on with the row it treats.                              *)
LEMMA StageKeepsDelivery ==
    ASSUME DeliveryInv, NEW w \in Workers, runner[w].batch # <<>>, UNCHANGED <<rows, blurred, faults>>,
           streak' \in [Endpoints -> 0..DisableAfter],
           endpoint' \in [Endpoints -> EndpointType],
           \A ep \in Endpoints : endpoint[ep].status = "deleted" => endpoint'[ep].status = "deleted",
           NEW new \in RunnerType, runner' = [runner EXCEPT ![w] = new],
           new.batch = runner[w].batch, new.result = runner[w].result,
           \/ runner[w].stage = "load" /\ new.stage = "post" /\ ~Gone(Row(w))
           \/ runner[w].stage \in {"count", "write"} /\ new.stage \in {"write", "mark"}
    PROVE  DeliveryInv'
  <1>1. TypeOK'
    BY DEF DeliveryInv, TypeOK
  <1>2. runner'[w] = new
    BY DEF DeliveryInv, TypeOK
  <1>3. \A r \in DOMAIN rows : Gone(r) => Gone(r)'
    BY RowOf DEF DeliveryInv, Gone
  <1>4. HeldFresh(w)'
    <2> SUFFICES ASSUME NEW i \in DOMAIN runner[w].batch,
                        NEW r, r = runner[w].batch[i], ~rows[r].lapsed
                 PROVE  /\ rows[r].locked /\ ~rows[r].sent
                        /\ i # 1 \/ new.stage = "load" => rows[r].unsettled \/ rows[r].acks = 0 \/ Gone(r)'
                        /\ i = 1 /\ new.stage = "post" => rows[r].unsettled \/ rows[r].acks = 0
                        /\ i = 1 /\ new.stage \in {"count", "write", "mark"} =>
                              rows[r].unsettled \/ rows[r].acks = IF new.result = "ok" THEN 1 ELSE 0
      BY <1>2 DEF HeldFresh, Gone
    <2>1. r \in DOMAIN rows
      BY DEF DeliveryInv, BatchesKnown
    <2>2. HeldFresh(w)
      BY DEF DeliveryInv
    <2>3. i = 1 => r = Row(w)
      BY HeadOf
    <2>4. CASE i # 1
      BY <1>3, <2>1, <2>2, <2>4 DEF HeldFresh
    <2>5. CASE i = 1 /\ runner[w].stage = "load"
      BY <2>2, <2>3, <2>5 DEF HeldFresh
    <2>6. CASE i = 1 /\ runner[w].stage \in {"count", "write"}
      BY <2>2, <2>6 DEF HeldFresh
    <2> QED
      BY <2>4, <2>5, <2>6
  <1>5. \A i \in DOMAIN new.batch : i + 0 \in DOMAIN runner[w].batch /\ new.batch[i] = runner[w].batch[i + 0]
    BY RunnerOf DEF DeliveryInv
  <1> QED
    BY <1>1, <1>3, <1>4, <1>5, RunnerKeepsDelivery

(* The runner is done with its row and leaves it free.                     *)
LEMMA ReleaseKeepsDelivery ==
    ASSUME DeliveryInv, NEW w \in Workers, runner[w].batch # <<>>,
           UNCHANGED <<endpoint, streak>>, blurred' \subseteq Endpoints, faults' \in 0..MaxFaults,
           NEW sent \in BOOLEAN, NEW open \in BOOLEAN, rows[Row(w)].unsettled => open,
           rows' = [rows EXCEPT ![Row(w)] = [rows[Row(w)] EXCEPT !.locked = FALSE, !.sent = sent,
                                                                 !.unsettled = open]],
           runner' = [runner EXCEPT ![w] = NextRow(w)],
           ~rows[Row(w)].lapsed /\ ~sent => open \/ rows[Row(w)].acks = 0 \/ Gone(Row(w))
    PROVE  DeliveryInv'
  <1>0. PICK h : h = Row(w)
    OBVIOUS
  <1> DEFINE released == [rows[h] EXCEPT !.locked = FALSE, !.sent = sent, !.unsettled = open]
  <1>1. h \in DOMAIN rows /\ h = runner[w].batch[1] /\ 1 \in DOMAIN runner[w].batch
    BY <1>0, HeadOf
  <1>2. released \in RowType /\ released.ep = rows[h].ep /\ released.lapsed = rows[h].lapsed
        /\ released.acks = rows[h].acks /\ released.sent = sent /\ released.unsettled = open
    BY <1>1, RowOf DEF DeliveryInv, RowType
  <1> HIDE DEF released
  <1>4. rows' = [rows EXCEPT ![h] = released]
    BY <1>0 DEF released
  <1>5. /\ rows' \in Seq(RowType) /\ Len(rows') = Len(rows) /\ DOMAIN rows' = DOMAIN rows
        /\ rows'[h] = released /\ \A q \in DOMAIN rows : q # h => rows'[q] = rows[q]
    BY <1>1, <1>2, <1>4, RowWritten DEF DeliveryInv
  <1>6. NextRow(w) \in RunnerType /\ NextRow(w).stage = "load"
        /\ \A i \in DOMAIN NextRow(w).batch :
                 i + 1 \in DOMAIN runner[w].batch /\ i + 1 # 1 /\ i \in Nat
                 /\ NextRow(w).batch[i] = runner[w].batch[i + 1]
    BY NextRowOf
  <1>7. TypeOK'
    BY <1>5, <1>6 DEF DeliveryInv, TypeOK
  <1>8. runner'[w] = NextRow(w)
    BY DEF DeliveryInv, TypeOK
  <1>9. \A r \in DOMAIN rows : Gone(r) <=> Gone(r)'
    BY <1>2, <1>5 DEF Gone
  <1>10. RowFresh(h)'
    <2>1. RowFresh(h)
      BY <1>1 DEF DeliveryInv
    <2>2. /\ ~rows[h].lapsed /\ ~sent => open \/ rows[h].acks = 0 \/ Gone(h)
          /\ rows[h].unsettled => open
      BY <1>0
    <2>3. /\ rows'[h].lapsed = rows[h].lapsed /\ rows'[h].acks = rows[h].acks
          /\ rows'[h].sent = sent /\ rows'[h].unsettled = open /\ (Gone(h) <=> Gone(h)')
      BY <1>1, <1>2, <1>5, <1>9
    <2> QED
      BY <2>1, <2>2, <2>3, Zenon DEF RowFresh
  <1>11. HeldFresh(w)'
    <2> SUFFICES ASSUME NEW i \in DOMAIN NextRow(w).batch,
                        NEW r, r = NextRow(w).batch[i], ~rows'[r].lapsed
                 PROVE  rows'[r].locked /\ ~rows'[r].sent /\ (rows'[r].unsettled \/ rows'[r].acks = 0 \/ Gone(r)')
      BY <1>6, <1>8 DEF HeldFresh, Gone
    <2>1. i + 1 \in DOMAIN runner[w].batch /\ i + 1 # 1 /\ r = runner[w].batch[i + 1]
      BY <1>6
    <2>2. r \in DOMAIN rows /\ ~rows[r].lapsed
      BY <1>2, <1>5, <2>1 DEF DeliveryInv, BatchesKnown
    <2>3. r # h
      BY <1>1, <2>1, <2>2 DEF DeliveryInv, HeldOnce
    <2>4. rows[r].locked /\ ~rows[r].sent /\ (rows[r].unsettled \/ rows[r].acks = 0 \/ Gone(r))
      BY <2>1, <2>2 DEF DeliveryInv, HeldFresh
    <2> QED
      BY <1>5, <1>9, <2>2, <2>3, <2>4
  <1>12. \A r \in DOMAIN rows :
              /\ rows'[r].ep = rows[r].ep /\ rows'[r].lapsed = rows[r].lapsed
              /\ Gone(r) => Gone(r)'
              /\ rows'[r] = rows[r] \/ (runner[w].batch # <<>> /\ r = Row(w) /\ RowFresh(r)')
    <2>1. \A r \in DOMAIN rows : rows'[r] = rows[r] \/ (r = h /\ RowFresh(r)')
      BY <1>5, <1>10
    <2>2. \A r \in DOMAIN rows : rows'[r].ep = rows[r].ep /\ rows'[r].lapsed = rows[r].lapsed
      BY <1>2, <1>5
    <2> QED
      BY <1>0, <1>9, <2>1, <2>2
  <1> QED
    BY <1>5, <1>6, <1>7, <1>11, <1>12, RunnerKeepsDelivery

LEMMA LoadKeepsDelivery ==
    ASSUME DeliveryInv, NEW w \in Workers, LoadEndpoint(w)
    PROVE  DeliveryInv'
  <1> DEFINE new == [runner[w] EXCEPT !.stage = "post"]
  <1>1. runner[w] \in RunnerType /\ runner' = [runner EXCEPT ![w] = new]
    BY RunnerOf DEF LoadEndpoint, DeliveryInv, TypeOK
  <1>2. new \in RunnerType /\ new.batch = runner[w].batch /\ new.result = runner[w].result /\ new.stage = "post"
    BY <1>1 DEF RunnerType, Stages
  <1>3. ~Gone(Row(w))
    BY DEF LoadEndpoint, Gone, Target
  <1> HIDE DEF new
  <1> QED
    BY <1>1, <1>2, <1>3, StageKeepsDelivery DEF LoadEndpoint, At, DeliveryInv, TypeOK

LEMMA ReadKeepsDelivery ==
    ASSUME DeliveryInv, NEW w \in Workers, ReadCount(w)
    PROVE  DeliveryInv'
  <1> DEFINE f == endpoint[Target(w)].failures
             a == endpoint[Target(w)].status = "active"
             new == [runner[w] EXCEPT !.stage = "write", !.failures = f, !.active = a]
  <1>1. runner[w] \in RunnerType /\ runner[w].batch # <<>> /\ runner[w].stage = "count"
    BY RunnerOf DEF ReadCount, At, DeliveryInv
  <1>2. f \in Nat /\ a \in BOOLEAN
    BY <1>1, HeadOf DEF DeliveryInv, TypeOK, EndpointType
  <1> HIDE DEF f, a
  <1>3. runner' = [runner EXCEPT ![w] = new]
    BY <1>1 DEF ReadCount, DeliveryInv, TypeOK, f, a
  <1>4. new \in RunnerType /\ new.batch = runner[w].batch /\ new.result = runner[w].result /\ new.stage = "write"
    BY <1>1, <1>2 DEF RunnerType, Stages
  <1> HIDE DEF new
  <1> QED
    BY <1>1, <1>3, <1>4, StageKeepsDelivery DEF ReadCount, DeliveryInv, TypeOK

(* The outcome as it is counted: the endpoint stays what it is, but that   *)
(* an active one may be switched off.                                      *)
LEMMA CountedType ==
    ASSUME DeliveryInv, NEW w \in Workers, runner[w].batch # <<>>
    PROVE  /\ Counted(w) \in EndpointType
           /\ endpoint[Target(w)].status # "deleted" => Counted(w).status # "deleted"
  <1>1. endpoint[Target(w)] \in EndpointType /\ runner[w].failures \in Nat
    BY HeadOf, RunnerOf DEF DeliveryInv, TypeOK
  <1> QED
    BY <1>1 DEF Counted, EndpointType

LEMMA WriteKeepsDelivery ==
    ASSUME DeliveryInv, NEW w \in Workers, WriteCount(w)
    PROVE  DeliveryInv'
  <1> DEFINE new == [runner[w] EXCEPT !.stage = "mark", !.failures = 0, !.active = FALSE]
  <1>1. runner[w] \in RunnerType /\ runner[w].batch # <<>> /\ runner[w].stage = "write"
    BY RunnerOf DEF WriteCount, At, DeliveryInv
  <1>2. runner' = [runner EXCEPT ![w] = new] /\ UNCHANGED <<rows, streak, blurred, faults>>
        /\ endpoint' = [endpoint EXCEPT ![Target(w)] = Counted(w)]
        /\ endpoint[Target(w)].status # "deleted"
    BY <1>1 DEF WriteCount, DeliveryInv, TypeOK
  <1>3. new \in RunnerType /\ new.batch = runner[w].batch /\ new.result = runner[w].result /\ new.stage = "mark"
    BY <1>1 DEF RunnerType, Stages
  <1>4. endpoint' \in [Endpoints -> EndpointType]
        /\ \A ep \in Endpoints : endpoint[ep].status = "deleted" => endpoint'[ep].status = "deleted"
    BY <1>1, <1>2, CountedType, HeadOf DEF DeliveryInv, TypeOK
  <1> HIDE DEF new
  <1> QED
    BY <1>1, <1>2, <1>3, <1>4, StageKeepsDelivery DEF DeliveryInv, TypeOK

LEMMA SettleKeepsDelivery ==
    ASSUME DeliveryInv, NEW w \in Workers,
           EndpointMissing(w) \/ EndpointDeleted(w) \/ WriteCountStale(w) \/ Settle(w)
    PROVE  DeliveryInv'
  <1> DEFINE h == Row(w)
             done == Settle(w) /\ runner[w].result = "ok"
  <1>1. runner[w].batch # <<>> /\ UNCHANGED <<endpoint, streak, blurred, faults>>
        /\ runner' = [runner EXCEPT ![w] = NextRow(w)]
    BY DEF EndpointMissing, EndpointDeleted, WriteCountStale, Settle, At
  <1>2. h \in DOMAIN rows /\ h = runner[w].batch[1] /\ 1 \in DOMAIN runner[w].batch
        /\ rows[h] \in RowType /\ rows[h].sent \in BOOLEAN /\ rows[h].unsettled \in BOOLEAN
        /\ blurred' \subseteq Endpoints /\ faults' \in 0..MaxFaults
    BY <1>1, HeadOf, RowOf DEF DeliveryInv, TypeOK
  <1>3. ~rows[h].lapsed =>
            /\ runner[w].stage = "load" => rows[h].unsettled \/ rows[h].acks = 0 \/ Gone(h)
            /\ runner[w].stage \in {"count", "write", "mark"} =>
                    rows[h].unsettled \/ rows[h].acks = IF runner[w].result = "ok" THEN 1 ELSE 0
    BY <1>2 DEF DeliveryInv, HeldFresh
  <1>4. CASE Settle(w) /\ runner[w].result = "ok"
    <2>1. [rows[h] EXCEPT !.sent = TRUE, !.locked = FALSE]
            = [rows[h] EXCEPT !.locked = FALSE, !.sent = TRUE, !.unsettled = rows[h].unsettled]
      BY <1>2 DEF RowType
    <2>2. rows' = [rows EXCEPT ![h] = [rows[h] EXCEPT !.locked = FALSE, !.sent = TRUE,
                                                      !.unsettled = rows[h].unsettled]]
      BY <1>2, <1>4, <2>1 DEF Settle, MarkSent
    <2> QED
      BY <1>1, <1>2, <2>2, ReleaseKeepsDelivery
  <1>5. CASE ~(Settle(w) /\ runner[w].result = "ok")
    <2>1. MarkFailed(h)
      BY <1>5 DEF EndpointMissing, EndpointDeleted, WriteCountStale, Settle
    <2>2. [rows[h] EXCEPT !.locked = FALSE]
            = [rows[h] EXCEPT !.locked = FALSE, !.sent = rows[h].sent, !.unsettled = rows[h].unsettled]
      BY <1>2 DEF RowType
    <2>3. rows' = [rows EXCEPT ![h] = [rows[h] EXCEPT !.locked = FALSE, !.sent = rows[h].sent,
                                                      !.unsettled = rows[h].unsettled]]
      BY <1>2, <2>1, <2>2 DEF MarkFailed
    <2>4. ~rows[h].lapsed => rows[h].unsettled \/ rows[h].acks = 0 \/ Gone(h)
      BY <1>3, <1>5 DEF EndpointMissing, EndpointDeleted, WriteCountStale, Settle, At, Gone, Target
    <2> QED
      BY <1>1, <1>2, <2>3, <2>4, ReleaseKeepsDelivery
  <1> QED
    BY <1>4, <1>5

LEMMA PostKeepsDelivery ==
    ASSUME DeliveryInv, NEW w \in Workers, Post(w)
    PROVE  DeliveryInv'
  <1>1. PICK h : h = Row(w)
    OBVIOUS
  <1>2. PICK answer \in Answers[Target(w)] :
          /\ runner' = [runner EXCEPT ![w].stage = "count", ![w].result = answer]
          /\ rows' = IF answer = "ok"
                       THEN [rows EXCEPT ![Row(w)].acks = IF @ = 0 THEN 1 ELSE 2]
                       ELSE rows
          /\ streak' = [streak EXCEPT ![Target(w)] = IF answer = "ok" THEN 0 ELSE OneMore(@)]
    BY DEF Post
  <1>3. /\ runner[w].batch # <<>> /\ runner[w].stage = "post" /\ Target(w) \in Endpoints
        /\ h \in DOMAIN rows /\ h = runner[w].batch[1] /\ 1 \in DOMAIN runner[w].batch
    BY <1>1, HeadOf DEF Post, At
  <1>4. answer \in {"ok", "error"}
    BY <1>2, <1>3, OutboxAssumption
  <1> DEFINE new == [runner[w] EXCEPT !.stage = "count", !.result = answer]
             acks == IF answer = "ok" THEN IF rows[h].acks = 0 THEN 1 ELSE 2 ELSE rows[h].acks
             posted == [rows[h] EXCEPT !.acks = acks]
  <1>5. runner[w] \in RunnerType /\ rows[h] \in RowType
    BY <1>3, RunnerOf, RowOf DEF DeliveryInv
  <1>6. runner' = [runner EXCEPT ![w] = new]
    BY <1>2, <1>5 DEF DeliveryInv, TypeOK
  <1>7. /\ new \in RunnerType /\ new.batch = runner[w].batch
        /\ new.result = answer /\ new.stage = "count"
    BY <1>4, <1>5 DEF RunnerType, Stages
  <1>8. acks \in 0..2
    BY <1>5 DEF RowType
  <1>9. rows' = [rows EXCEPT ![h] = posted]
    <2>1. CASE answer = "ok"
      BY <1>1, <1>2, <1>3, <2>1
    <2>2. CASE answer # "ok"
      <3>1. posted = rows[h]
        BY <1>5, <2>2 DEF RowType
      <3>2. rows \in [1..Len(rows) -> RowType]
        BY DEF DeliveryInv, TypeOK
      <3>3. rows = [rows EXCEPT ![h] = rows[h]]
        BY <3>2
      <3> QED
        BY <1>2, <2>2, <3>1, <3>3
    <2> QED
      BY <2>1, <2>2
  <1> HIDE DEF acks
  <1>10. /\ posted \in RowType /\ posted.ep = rows[h].ep /\ posted.lapsed = rows[h].lapsed
         /\ posted.acks = acks /\ posted.sent = rows[h].sent /\ posted.locked = rows[h].locked
         /\ posted.unsettled = rows[h].unsettled
    BY <1>5, <1>8 DEF RowType
  <1> HIDE DEF new, posted
  <1>11. /\ rows' \in Seq(RowType) /\ Len(rows') = Len(rows) /\ DOMAIN rows' = DOMAIN rows
         /\ rows'[h] = posted /\ \A q \in DOMAIN rows : q # h => rows'[q] = rows[q]
    BY <1>3, <1>9, <1>10, RowWritten DEF DeliveryInv
  <1>12. streak' \in [Endpoints -> 0..DisableAfter]
    <2>1. streak[Target(w)] \in 0..DisableAfter
      BY <1>3 DEF DeliveryInv, TypeOK
    <2>2. OneMore(streak[Target(w)]) \in 0..DisableAfter /\ 0 \in 0..DisableAfter
      BY <2>1, OutboxAssumption DEF OneMore
    <2> QED
      BY <1>2, <1>3, <2>2 DEF DeliveryInv, TypeOK
  <1>13. blurred' \subseteq Endpoints /\ UNCHANGED <<endpoint, faults>>
    BY <1>3 DEF Post, DeliveryInv, TypeOK
  <1>14. TypeOK'
    BY <1>6, <1>7, <1>11, <1>12, <1>13 DEF DeliveryInv, TypeOK
  <1>15. \A r \in DOMAIN rows : rows'[r].ep = rows[r].ep /\ rows'[r].lapsed = rows[r].lapsed
                               /\ (Gone(r) => Gone(r)')
    BY <1>10, <1>11, <1>13 DEF Gone
  <1>16. HeldFresh(w)
    BY DEF DeliveryInv
  <1>17. ~rows[h].lapsed => rows[h].locked /\ ~rows[h].sent
    BY <1>3, <1>16 DEF HeldFresh
  <1>18. ~rows[h].lapsed => rows[h].unsettled \/ acks = IF answer = "ok" THEN 1 ELSE 0
    BY <1>3, <1>16 DEF HeldFresh, acks
  <1>19. RowFresh(h)'
    <2>1. /\ (rows'[h].lapsed <=> rows[h].lapsed) /\ (rows'[h].locked <=> rows[h].locked)
          /\ rows'[h].acks = acks /\ (rows'[h].unsettled <=> rows[h].unsettled)
      BY <1>5, <1>10, <1>11 DEF RowType
    <2>2. ~rows[h].lapsed => rows[h].unsettled \/ acks <= 1
      BY <1>18
    <2>3. rows'[h].locked => ~(~rows'[h].sent /\ ~rows'[h].locked)
      OBVIOUS
    <2>4. CASE rows[h].lapsed
      BY <2>1, <2>4 DEF RowFresh
    <2>5. CASE ~rows[h].lapsed
      <3>1. rows'[h].locked
        BY <1>17, <2>1, <2>5
      <3>2. rows[h].unsettled => rows'[h].unsettled
        BY <2>1
      <3>3. ~rows[h].unsettled => rows'[h].acks <= 1
        BY <2>1, <2>2, <2>5
      <3> QED
        BY <3>1, <3>2, <3>3 DEF RowFresh
    <2> QED
      BY <2>4, <2>5
  <1>20. /\ runner'[w].batch = runner[w].batch
         /\ runner'[w].stage = "count" /\ runner'[w].result = answer
    BY <1>6, <1>7 DEF DeliveryInv, TypeOK
  <1>21. HeldFresh(w)'
    <2> SUFFICES ASSUME NEW i \in DOMAIN runner[w].batch,
                        NEW r, r = runner[w].batch[i], ~rows'[r].lapsed
                 PROVE  /\ rows'[r].locked /\ ~rows'[r].sent
                        /\ i # 1 => rows'[r].unsettled \/ rows'[r].acks = 0 \/ Gone(r)'
                        /\ i = 1 => rows'[r].unsettled \/ rows'[r].acks = IF answer = "ok" THEN 1 ELSE 0
      BY <1>20 DEF HeldFresh, Gone
    <2>1. r \in DOMAIN rows /\ ~rows[r].lapsed
      BY <1>15 DEF DeliveryInv, BatchesKnown
    <2>2. CASE i = 1
      <3>1. r = h
        BY <1>3, <2>2
      <3>2. /\ (rows'[h].sent <=> rows[h].sent) /\ (rows'[h].locked <=> rows[h].locked)
            /\ rows'[h].acks = acks /\ (rows'[h].unsettled <=> rows[h].unsettled)
        BY <1>5, <1>10, <1>11 DEF RowType
      <3> QED
        <4>1. rows'[h].locked /\ ~rows'[h].sent
          BY <1>17, <2>1, <3>1, <3>2
        <4>2. rows[h].unsettled => rows'[h].unsettled
          BY <3>2
        <4>3. ~rows[h].unsettled => rows'[h].acks = IF answer = "ok" THEN 1 ELSE 0
          BY <1>18, <2>1, <3>1, <3>2
        <4> QED
          BY <2>2, <3>1, <4>1, <4>2, <4>3
    <2>3. CASE i # 1
      <3>1. r # h
        BY <1>3, <2>1, <2>3 DEF DeliveryInv, HeldOnce
      <3>2. rows[r].locked /\ ~rows[r].sent /\ (rows[r].unsettled \/ rows[r].acks = 0 \/ Gone(r))
        BY <1>16, <2>1, <2>3 DEF HeldFresh
      <3> QED
        BY <1>11, <1>15, <2>1, <2>3, <3>1, <3>2
    <2> QED
      BY <2>2, <2>3
  <1>22. \A r \in DOMAIN rows : rows'[r] = rows[r] \/ (r = Row(w) /\ RowFresh(r)')
    BY <1>1, <1>11, <1>19
  <1>23. \A i \in DOMAIN new.batch : i + 0 \in DOMAIN runner[w].batch /\ new.batch[i] = runner[w].batch[i + 0]
    BY <1>7, RunnerOf DEF DeliveryInv
  <1> QED
    BY <1>3, <1>6, <1>7, <1>11, <1>14, <1>15, <1>21, <1>22, <1>23, RunnerKeepsDelivery

(* What is lost is of an endpoint there is.                                *)
LEMMA FaultTypes ==
    ASSUME DeliveryInv, NEW w \in Workers, runner[w].batch # <<>>, Fault, OutcomeLost(w)
    PROVE  faults' \in 0..MaxFaults /\ blurred' \subseteq Endpoints
  BY OutboxAssumption, HeadOf DEF OutcomeLost, Fault, DeliveryInv, TypeOK

LEMMA FailureKeepsDelivery ==
    ASSUME DeliveryInv, NEW w \in Workers, RunnerFails(w)
    PROVE  DeliveryInv'
  <1>1. runner' = [runner EXCEPT ![w] = IdleRunner] /\ UNCHANGED <<rows, endpoint, streak>>
    BY DEF RunnerFails
  <1>2. faults' \in 0..MaxFaults /\ blurred' \subseteq Endpoints
    BY FaultTypes DEF RunnerFails
  <1>3. TypeOK'
    BY <1>1, <1>2, IdleType DEF DeliveryInv, TypeOK
  <1>4. DOMAIN IdleRunner.batch = {} /\ runner'[w] = IdleRunner
    BY <1>1 DEF IdleRunner, DeliveryInv, TypeOK
  <1>5. HeldFresh(w)'
    BY <1>4 DEF HeldFresh
  <1>6. \A r \in DOMAIN rows : Gone(r) => Gone(r)'
    BY <1>1 DEF Gone
  <1> QED
    BY <1>1, <1>3, <1>4, <1>5, <1>6, IdleType, RunnerKeepsDelivery

(* The row is released as it is, and put on record if its receiver has it. *)
LEMMA ErrorKeepsDelivery ==
    ASSUME DeliveryInv, NEW w \in Workers, ProcessFails(w)
    PROVE  DeliveryInv'
  <1>0. PICK h : h = Row(w)
    OBVIOUS
  <1>1. runner[w].batch # <<>> /\ UNCHANGED <<endpoint, streak>>
        /\ runner' = [runner EXCEPT ![w] = NextRow(w)]
        /\ rows' = [rows EXCEPT ![h].locked = FALSE, ![h].unsettled = @ \/ Accepted(w)]
    BY <1>0 DEF ProcessFails
  <1>2. h \in DOMAIN rows /\ h = runner[w].batch[1] /\ 1 \in DOMAIN runner[w].batch
        /\ rows[h] \in RowType /\ rows[h].sent \in BOOLEAN /\ rows[h].unsettled \in BOOLEAN
    BY <1>0, <1>1, HeadOf, RowOf DEF DeliveryInv
  <1>3. faults' \in 0..MaxFaults /\ blurred' \subseteq Endpoints
    BY <1>1, FaultTypes DEF ProcessFails
  <1>4. ~rows[h].lapsed =>
            /\ runner[w].stage = "load" => rows[h].unsettled \/ rows[h].acks = 0 \/ Gone(h)
            /\ runner[w].stage = "post" => rows[h].unsettled \/ rows[h].acks = 0
            /\ runner[w].stage \in {"count", "write", "mark"} =>
                    rows[h].unsettled \/ rows[h].acks = IF runner[w].result = "ok" THEN 1 ELSE 0
    BY <1>2 DEF DeliveryInv, HeldFresh
  <1>5. runner[w].stage \in Stages
    BY RunnerOf DEF DeliveryInv
  <1> DEFINE open == rows[h].unsettled \/ Accepted(w)
  <1>6. open \in BOOLEAN /\ (rows[h].unsettled => open)
    BY <1>2, Zenon
  <1>7. ~rows[h].lapsed => open \/ rows[h].acks = 0 \/ Gone(h)
    BY <1>4, <1>5 DEF Accepted, Stages
  <1>8. rows' = [rows EXCEPT ![h] = [rows[h] EXCEPT !.locked = FALSE, !.unsettled = open]]
    BY <1>1, <1>2
  <1> HIDE DEF open
  <1>9. [rows[h] EXCEPT !.locked = FALSE, !.unsettled = open]
            = [rows[h] EXCEPT !.locked = FALSE, !.sent = rows[h].sent, !.unsettled = open]
    BY <1>2 DEF RowType
  <1>10. rows' = [rows EXCEPT ![h] = [rows[h] EXCEPT !.locked = FALSE, !.sent = rows[h].sent,
                                                    !.unsettled = open]]
    BY <1>8, <1>9
  <1> QED
    BY <1>0, <1>1, <1>2, <1>3, <1>6, <1>7, <1>10, ReleaseKeepsDelivery

(* Every reachable state of the outbox keeps it: while no claim on a row   *)
(* runs out it is in one batch only, and who holds it knows whether the    *)
(* receiver has it, unless an error kept an acceptance out of the table.   *)
THEOREM DeliveryInvariance == Spec => []DeliveryInv
  <1>1. DeliveryInv /\ [Next]_vars => DeliveryInv'
    <2> SUFFICES ASSUME DeliveryInv, [Next]_vars PROVE DeliveryInv'
      OBVIOUS
    <2>1. CASE UNCHANGED vars
      BY <2>1 DEF vars, DeliveryInv, TypeOK, BatchesKnown, HeldOnce, HeldFresh, RowFresh, Gone
    <2>2. ASSUME NEW w \in Workers, RunnerStep(w) \/ ProcessFails(w) \/ RunnerFails(w)
          PROVE  DeliveryInv'
      BY <2>2, ClaimKeepsDelivery, LoadKeepsDelivery, PostKeepsDelivery, ReadKeepsDelivery,
         WriteKeepsDelivery, SettleKeepsDelivery, ErrorKeepsDelivery, FailureKeepsDelivery DEF RunnerStep
    <2>3. ASSUME NEW ep \in Endpoints,
                 \/ Enqueue(ep) \/ WebhookDelete(ep)
                 \/ \E active \in BOOLEAN : WebhookCreate(ep, active)
          PROVE  DeliveryInv'
      BY <2>3, EnqueueKeepsDelivery, EndpointsKeepDelivery
    <2>4. ASSUME NEW r \in DOMAIN rows, LockExpires(r) PROVE DeliveryInv'
      BY <2>4, ExpiryKeepsDelivery
    <2> QED
      BY <2>1, <2>2, <2>3, <2>4 DEF Next
  <1> QED
    BY <1>1, OutboxStarts, PTL DEF Spec

(* While its claims last, no row is treated by two runners, and none is    *)
(* accepted twice unless an error kept the first acceptance out of the     *)
(* table: for any number of runners, rows, crashes and errors.             *)
THEOREM DeliveryIsExclusive == Spec => []ExclusiveDelivery
  <1>1. DeliveryInv => ExclusiveDelivery
    <2> SUFFICES ASSUME DeliveryInv, NEW r \in DOMAIN rows, ~rows[r].lapsed
                 PROVE  Cardinality(Holders(r)) <= 1 /\ (rows[r].acks <= 1 \/ rows[r].unsettled)
      BY DEF ExclusiveDelivery
    <2>1. \A w, v \in Holders(r) : w = v
      BY DEF Holders, DeliveryInv, HeldOnce
    <2>2. CASE Holders(r) = {}
      BY <2>2, FS_EmptySet DEF DeliveryInv, RowFresh
    <2>3. CASE Holders(r) # {}
      <3>1. PICK w : Holders(r) = {w}
        BY <2>1, <2>3
      <3>2. Cardinality(Holders(r)) = 1
        BY <3>1, FS_Singleton
      <3> QED
        BY <3>2 DEF DeliveryInv, RowFresh
    <2> QED
      BY <2>2, <2>3
  <1> QED
    BY <1>1, DeliveryInvariance, PTL

-----------------------------------------------------------------------------

(* The streak stops counting at the limit.                                 *)
Capped(n) == IF n < DisableAfter THEN n ELSE DisableAfter

(* The runner v is between the answer of the endpoint ep and its count of  *)
(* it.                                                                     *)
Counts(v, ep) ==
    /\ runner[v].batch # <<>>
    /\ runner[v].stage \in {"count", "write"}
    /\ Target(v) = ep

(* Of an endpoint whose outcomes did not overlap, one at a time is being   *)
(* counted, and the count lags behind the streak by that outcome.          *)
CountFollows(ep) ==
    ep \notin blurred /\ endpoint[ep].status # "deleted" =>
        /\ \A v, u \in Workers : Counts(v, ep) /\ Counts(u, ep) => v = u
        /\ (\A v \in Workers : ~Counts(v, ep)) => streak[ep] = Capped(endpoint[ep].failures)
        /\ \A v \in Workers : Counts(v, ep) =>
              /\ streak[ep] = IF runner[v].result = "ok" THEN 0 ELSE Capped(endpoint[ep].failures + 1)
              /\ runner[v].stage = "write" => runner[v].failures = endpoint[ep].failures

(* The counts of all endpoints follow their streaks.                       *)
CountInv == \A ep \in Endpoints : CountFollows(ep)

LEMMA CappedFacts ==
    /\ Capped(0) = 0
    /\ \A n \in Nat : OneMore(Capped(n)) = Capped(n + 1)
    /\ \A n \in Nat : n >= DisableAfter => Capped(n) = DisableAfter
  BY OutboxAssumption DEF Capped, OneMore

LEMMA CountStarts == Init => CountInv
  BY CappedFacts DEF Init, CountInv, CountFollows, Counts, IdleRunner

LEMMA AddresseeStays ==
    ASSUME DeliveryInv, Next
    PROVE  \A r \in DOMAIN rows : r \in DOMAIN rows' /\ rows'[r].ep = rows[r].ep
  <1>1. CASE rows' = rows
    BY <1>1
  <1>2. ASSUME NEW ep \in Endpoints, Enqueue(ep)
        PROVE  \A r \in DOMAIN rows : r \in DOMAIN rows' /\ rows'[r].ep = rows[r].ep
    <2>1. OutboxRow(ep) \in RowType /\ rows \in Seq(RowType)
      BY DEF OutboxRow, RowType, DeliveryInv, TypeOK
    <2> QED
      BY <1>2, <2>1, AppendProperties DEF Enqueue
  <1>3. ASSUME NEW h \in DOMAIN rows, NEW new, rows' = [rows EXCEPT ![h] = new], new.ep = rows[h].ep
        PROVE  \A r \in DOMAIN rows : r \in DOMAIN rows' /\ rows'[r].ep = rows[r].ep
    BY <1>3
  <1>4. ASSUME NEW w \in Workers, FetchPending(w)
        PROVE  \A r \in DOMAIN rows : r \in DOMAIN rows' /\ rows'[r].ep = rows[r].ep
    <2>1. rows' = [r \in DOMAIN rows |->
                   IF r \in Oldest THEN [rows[r] EXCEPT !.locked = TRUE] ELSE rows[r]]
      BY <1>4 DEF FetchPending
    <2>2. \A r \in DOMAIN rows : [rows[r] EXCEPT !.locked = TRUE].ep = rows[r].ep
      BY RowOf DEF DeliveryInv, RowType
    <2> QED
      BY <2>1, <2>2
  <1>5. ASSUME NEW h \in DOMAIN rows
        PROVE  /\ \A locked, lapsed :
                     [[rows[h] EXCEPT !.locked = locked] EXCEPT !.lapsed = lapsed].ep = rows[h].ep
               /\ \A acks : [rows[h] EXCEPT !.acks = acks].ep = rows[h].ep
               /\ \A sent, locked : [[rows[h] EXCEPT !.sent = sent] EXCEPT !.locked = locked].ep = rows[h].ep
               /\ \A locked : [rows[h] EXCEPT !.locked = locked].ep = rows[h].ep
    BY RowOf DEF DeliveryInv, RowType
  <1>6. ASSUME NEW r \in DOMAIN rows, LockExpires(r)
        PROVE  \A q \in DOMAIN rows : q \in DOMAIN rows' /\ rows'[q].ep = rows[q].ep
    BY <1>5, <1>6 DEF LockExpires
  <1>7. ASSUME NEW w \in Workers, runner[w].batch # <<>>, MarkSent(Row(w)) \/ MarkFailed(Row(w))
        PROVE  \A q \in DOMAIN rows : q \in DOMAIN rows' /\ rows'[q].ep = rows[q].ep
    <2>1. Row(w) \in DOMAIN rows
      BY <1>7, HeadOf
    <2> QED
      <3>1. PICK h \in DOMAIN rows : h = Row(w)
        BY <2>1
      <3>2. CASE MarkSent(h)
        <4>1. rows' = [rows EXCEPT ![h] = [[rows[h] EXCEPT !.sent = TRUE] EXCEPT !.locked = FALSE]]
          BY <3>2 DEF MarkSent
        <4> QED
          BY <1>3, <1>5, <4>1
      <3>3. CASE MarkFailed(h)
        <4>1. rows' = [rows EXCEPT ![h] = [rows[h] EXCEPT !.locked = FALSE]]
          BY <3>3 DEF MarkFailed
        <4> QED
          BY <1>3, <1>5, <4>1
      <3> QED
        BY <1>7, <3>1, <3>2, <3>3
  <1>8. ASSUME NEW w \in Workers, Post(w)
        PROVE  \A q \in DOMAIN rows : q \in DOMAIN rows' /\ rows'[q].ep = rows[q].ep
    <2>1. Row(w) \in DOMAIN rows
      BY <1>8, HeadOf DEF Post, At
    <2>2. PICK h \in DOMAIN rows : h = Row(w)
      BY <2>1
    <2>3. \/ rows' = rows
          \/ rows' = [rows EXCEPT ![h] = [rows[h] EXCEPT !.acks = IF rows[h].acks = 0 THEN 1 ELSE 2]]
      <3>1. PICK answer \in Answers[Target(w)] :
               rows' = IF answer = "ok" THEN [rows EXCEPT ![Row(w)].acks = IF @ = 0 THEN 1 ELSE 2]
                                        ELSE rows
        BY <1>8 DEF Post
      <3>2. rows' = IF answer = "ok" THEN [rows EXCEPT ![h].acks = IF @ = 0 THEN 1 ELSE 2] ELSE rows
        BY <2>2, <3>1
      <3> QED
        BY <3>2
    <2>4. CASE rows' = rows
      BY <1>1, <2>4
    <2>5. CASE rows' = [rows EXCEPT ![h] = [rows[h] EXCEPT !.acks = IF rows[h].acks = 0 THEN 1 ELSE 2]]
      <3>1. [rows[h] EXCEPT !.acks = IF rows[h].acks = 0 THEN 1 ELSE 2].ep = rows[h].ep
        BY <1>5
      <3> QED
        BY <1>3, <2>5, <3>1
    <2> QED
      BY <2>3, <2>4, <2>5
  <1>9. ASSUME NEW w \in Workers, ProcessFails(w)
        PROVE  \A q \in DOMAIN rows : q \in DOMAIN rows' /\ rows'[q].ep = rows[q].ep
    <2>1. PICK h \in DOMAIN rows : h = Row(w)
      BY <1>9, HeadOf DEF ProcessFails
    <2>2. rows' = [rows EXCEPT ![h] = [[rows[h] EXCEPT !.locked = FALSE]
                                          EXCEPT !.unsettled = rows[h].unsettled \/ Accepted(w)]]
      BY <1>9, <2>1 DEF ProcessFails
    <2>3. rows[h] \in RowType
      BY RowOf DEF DeliveryInv
    <2>4. \A open : [[rows[h] EXCEPT !.locked = FALSE] EXCEPT !.unsettled = open].ep = rows[h].ep
      BY <2>3 DEF RowType
    <2> QED
      BY <1>3, <2>2, <2>4
  <1> QED
    BY <1>1, <1>2, <1>4, <1>6, <1>7, <1>8, <1>9 DEF Next, RunnerStep, RunnerFails, WebhookCreate, WebhookDelete,
       LoadEndpoint, EndpointMissing, ReadCount, EndpointDeleted, WriteCount, WriteCountStale, Settle, At

LEMMA OthersCount ==
    ASSUME DeliveryInv, NEW v \in Workers, NEW ep, runner'[v] = runner[v],
           \A r \in DOMAIN rows : r \in DOMAIN rows' /\ rows'[r].ep = rows[r].ep
    PROVE  Counts(v, ep)' <=> Counts(v, ep)
  <1>1. CASE runner[v].batch = <<>>
    BY <1>1 DEF Counts
  <1>2. CASE runner[v].batch # <<>>
    <2>1. Row(v)' = Row(v) /\ Row(v) \in DOMAIN rows
      BY <1>2, HeadOf DEF Row
    <2>2. Target(v)' = Target(v)
      BY <2>1 DEF Target
    <2> QED
      BY <2>2 DEF Counts
  <1> QED
    BY <1>1, <1>2

(* Nobody begins or ends counting outcomes of ep, and no count changes.    *)
LEMMA SameCount ==
    ASSUME NEW ep \in Endpoints, CountFollows(ep),
           ep \notin blurred' => ep \notin blurred,
           endpoint'[ep].status # "deleted" =>
              endpoint[ep].status # "deleted" /\ endpoint'[ep].failures = endpoint[ep].failures,
           streak'[ep] = streak[ep],
           \A v \in Workers : Counts(v, ep)' <=> Counts(v, ep),
           \A v \in Workers : Counts(v, ep) =>
              /\ runner'[v].result = runner[v].result
              /\ \/ runner'[v].stage = runner[v].stage /\ runner'[v].failures = runner[v].failures
                 \/ runner'[v].failures = endpoint[ep].failures
    PROVE  CountFollows(ep)'
  BY DEF CountFollows

(* A runner that counts neither before nor after its step.                 *)
LEMMA IdleStepKeepsCount ==
    ASSUME DeliveryInv, CountInv, NEW w \in Workers,
           \A r \in DOMAIN rows : r \in DOMAIN rows' /\ rows'[r].ep = rows[r].ep,
           \A v \in Workers : v # w => runner'[v] = runner[v],
           \A ep \in Endpoints : endpoint[ep].status # "deleted" => ~Counts(w, ep),
           \A ep \in Endpoints : ~Counts(w, ep)',
           UNCHANGED <<endpoint, streak, blurred>>
    PROVE  CountInv'
  <1> SUFFICES ASSUME NEW ep \in Endpoints, endpoint[ep].status # "deleted" PROVE CountFollows(ep)'
    BY DEF CountInv, CountFollows
  <1>1. \A v \in Workers : v # w => (Counts(v, ep)' <=> Counts(v, ep))
    BY OthersCount
  <1>2. \A v \in Workers : Counts(v, ep)' <=> Counts(v, ep)
    BY <1>1
  <1>3. \A v \in Workers : Counts(v, ep) => runner'[v] = runner[v]
    OBVIOUS
  <1> QED
    BY <1>2, <1>3, SameCount DEF CountInv

LEMMA StageStepKeepsCount ==
    ASSUME DeliveryInv, CountInv, NEW w \in Workers,
           \/ FetchPending(w) \/ LoadEndpoint(w) \/ EndpointMissing(w) \/ Settle(w)
           \/ EndpointDeleted(w) \/ WriteCountStale(w),
           \A r \in DOMAIN rows : r \in DOMAIN rows' /\ rows'[r].ep = rows[r].ep
    PROVE  CountInv'
  <1>1. UNCHANGED <<endpoint, streak, blurred>>
    BY DEF FetchPending, LoadEndpoint, EndpointMissing, Settle, EndpointDeleted, WriteCountStale
  <1>2. PICK new : runner' = [runner EXCEPT ![w] = new] /\ new.stage \in {"load", "post"}
    <2>1. CASE FetchPending(w)
      <3>1. PICK batch : runner' = [runner EXCEPT ![w] = [IdleRunner EXCEPT !.batch = batch]]
        BY <2>1 DEF FetchPending
      <3>2. [IdleRunner EXCEPT !.batch = batch].stage = "load"
        BY DEF IdleRunner
      <3> QED
        BY <3>1, <3>2
    <2>2. CASE LoadEndpoint(w)
      <3>1. runner[w] \in RunnerType
        BY RunnerOf DEF DeliveryInv
      <3>2. [runner[w] EXCEPT !.stage = "post"].stage = "post"
        BY <3>1 DEF RunnerType
      <3> QED
        BY <2>2, <3>2 DEF LoadEndpoint, DeliveryInv, TypeOK
    <2>3. CASE ~FetchPending(w) /\ ~LoadEndpoint(w)
      <3>1. runner' = [runner EXCEPT ![w] = NextRow(w)]
        BY <2>3 DEF EndpointMissing, Settle, EndpointDeleted, WriteCountStale
      <3>2. NextRow(w).stage = "load"
        BY DEF NextRow, IdleRunner
      <3> QED
        BY <3>1, <3>2
    <2> QED
      BY <2>1, <2>2, <2>3
  <1>3. runner'[w] = new /\ \A v \in Workers : v # w => runner'[v] = runner[v]
    BY <1>2 DEF DeliveryInv, TypeOK
  <1>4. \A ep \in Endpoints : ~Counts(w, ep)'
    BY <1>2, <1>3 DEF Counts
  <1>5. \A ep \in Endpoints : endpoint[ep].status # "deleted" => ~Counts(w, ep)
    BY DEF Counts, FetchPending, LoadEndpoint, EndpointMissing, Settle, EndpointDeleted, WriteCountStale, At
  <1> QED
    BY <1>1, <1>3, <1>4, <1>5, IdleStepKeepsCount

LEMMA PostKeepsCount ==
    ASSUME DeliveryInv, CountInv, NEW w \in Workers, Post(w),
           \A r \in DOMAIN rows : r \in DOMAIN rows' /\ rows'[r].ep = rows[r].ep
    PROVE  CountInv'
  <1>1. PICK answer \in Answers[Target(w)] :
          /\ runner' = [runner EXCEPT ![w].stage = "count", ![w].result = answer]
          /\ streak' = [streak EXCEPT ![Target(w)] = IF answer = "ok" THEN 0 ELSE OneMore(@)]
    BY DEF Post
  <1>2. /\ runner[w].batch # <<>> /\ runner[w].stage = "post"
        /\ endpoint' = endpoint
        /\ blurred' = IF Counting(Target(w)) # {} THEN blurred \cup {Target(w)} ELSE blurred
    BY DEF Post, At
  <1>3. PICK t \in Endpoints : t = Target(w)
    BY <1>2, HeadOf
  <1>4. \A v \in Workers : v \in Counting(t) <=> Counts(v, t)
    BY DEF Counting, Counts
  <1>5. runner[w] \in RunnerType /\ runner \in [Workers -> RunnerType] /\ streak \in [Endpoints -> 0..DisableAfter]
    BY RunnerOf DEF DeliveryInv, TypeOK
  <1>6. /\ runner'[w].batch = runner[w].batch /\ runner'[w].stage = "count" /\ runner'[w].result = answer
        /\ \A v \in Workers : v # w => runner'[v] = runner[v]
    BY <1>1, <1>5 DEF RunnerType
  <1>7. Counts(w, t)' /\ \A ep : ep # t => ~Counts(w, ep)'
    <2>1. Row(w)' = Row(w) /\ Row(w) \in DOMAIN rows
      BY <1>2, <1>6, HeadOf DEF Row
    <2>2. Target(w)' = t
      BY <1>3, <2>1 DEF Target
    <2> QED
      BY <1>2, <1>6, <2>2 DEF Counts
  <1>8. \A ep : ~Counts(w, ep)
    BY <1>2 DEF Counts
  <1>9. \A v \in Workers, ep \in Endpoints : v # w => (Counts(v, ep)' <=> Counts(v, ep))
    BY <1>6, OthersCount
  <1>10. ASSUME NEW ep \in Endpoints, ep # t PROVE CountFollows(ep)'
    <2>1. \A v \in Workers : Counts(v, ep)' <=> Counts(v, ep)
      BY <1>7, <1>8, <1>9, <1>10
    <2>2. streak'[ep] = streak[ep] /\ (ep \notin blurred' => ep \notin blurred)
      BY <1>1, <1>2, <1>3, <1>5, <1>10
    <2>3. \A v \in Workers : Counts(v, ep) => runner'[v] = runner[v]
      BY <1>6, <1>8
    <2> QED
      BY <1>2, <2>1, <2>2, <2>3, SameCount DEF CountInv
  <1>11. CountFollows(t)'
    <2> SUFFICES ASSUME t \notin blurred', endpoint[t].status # "deleted" PROVE CountFollows(t)'
      BY <1>2 DEF CountFollows
    <2>1. t \notin blurred /\ \A v \in Workers : ~Counts(v, t)
      BY <1>2, <1>3, <1>4 DEF Counting
    <2>2. streak[t] = Capped(endpoint[t].failures) /\ endpoint[t].failures \in Nat
      BY <2>1 DEF CountInv, CountFollows, DeliveryInv, TypeOK, EndpointType
    <2>3. streak'[t] = IF answer = "ok" THEN 0 ELSE Capped(endpoint[t].failures + 1)
      BY <1>1, <1>3, <1>5, <2>2, CappedFacts
    <2>4. \A v \in Workers : Counts(v, t)' <=> v = w
      BY <1>7, <1>9, <2>1
    <2> QED
      BY <1>2, <1>6, <2>3, <2>4 DEF CountFollows
  <1> QED
    BY <1>10, <1>11 DEF CountInv

LEMMA ReadKeepsCount ==
    ASSUME DeliveryInv, CountInv, NEW w \in Workers, ReadCount(w),
           \A r \in DOMAIN rows : r \in DOMAIN rows' /\ rows'[r].ep = rows[r].ep
    PROVE  CountInv'
  <1>1. /\ runner[w].batch # <<>> /\ runner[w].stage = "count"
        /\ UNCHANGED <<endpoint, streak, blurred>>
    BY DEF ReadCount, At
  <1>2. PICK f, a : f = endpoint[Target(w)].failures
                    /\ runner' = [runner EXCEPT ![w] = [runner[w] EXCEPT !.stage = "write", !.failures = f, !.active = a]]
    BY DEF ReadCount, DeliveryInv, TypeOK
  <1>3. /\ runner'[w].batch = runner[w].batch /\ runner'[w].stage = "write"
        /\ runner'[w].result = runner[w].result /\ runner'[w].failures = f
        /\ \A v \in Workers : v # w => runner'[v] = runner[v]
    BY <1>2, RunnerOf DEF DeliveryInv, TypeOK, RunnerType
  <1>4. \A ep : Counts(w, ep)' <=> Counts(w, ep)
    <2>1. Row(w)' = Row(w) /\ Row(w) \in DOMAIN rows
      BY <1>1, <1>3, HeadOf DEF Row
    <2>2. Target(w)' = Target(w)
      BY <2>1 DEF Target
    <2> QED
      BY <1>1, <1>3, <2>2 DEF Counts
  <1>5. \A v \in Workers, ep \in Endpoints : Counts(v, ep)' <=> Counts(v, ep)
    BY <1>3, <1>4, OthersCount
  <1>6. \A ep \in Endpoints : Counts(w, ep) => runner'[w].failures = endpoint[ep].failures
    BY <1>2, <1>3 DEF Counts
  <1>7. ASSUME NEW ep \in Endpoints PROVE CountFollows(ep)'
    BY <1>1, <1>3, <1>5, <1>6, SameCount DEF CountInv
  <1> QED
    BY <1>7 DEF CountInv

LEMMA WriteKeepsCount ==
    ASSUME DeliveryInv, CountInv, NEW w \in Workers, WriteCount(w),
           \A r \in DOMAIN rows : r \in DOMAIN rows' /\ rows'[r].ep = rows[r].ep
    PROVE  CountInv'
  <1>1. /\ runner[w].batch # <<>> /\ runner[w].stage = "write"
        /\ UNCHANGED <<streak, blurred>>
    BY DEF WriteCount, At
  <1>2. PICK t \in Endpoints : t = Target(w)
    BY <1>1, HeadOf
  <1>3. /\ endpoint' = [endpoint EXCEPT ![t] = Counted(w)] /\ endpoint[t].status # "deleted"
        /\ endpoint[t].failures \in Nat
    BY <1>2 DEF WriteCount, DeliveryInv, TypeOK, EndpointType
  <1>4. /\ runner'[w].stage = "mark" /\ \A v \in Workers : v # w => runner'[v] = runner[v]
    BY RunnerOf DEF WriteCount, DeliveryInv, TypeOK, RunnerType
  <1>5. (\A ep : ~Counts(w, ep)') /\ Counts(w, t) /\ (\A ep : ep # t => ~Counts(w, ep))
    BY <1>1, <1>2, <1>4 DEF Counts
  <1>6. \A v \in Workers, ep \in Endpoints : v # w => (Counts(v, ep)' <=> Counts(v, ep))
    BY <1>4, OthersCount
  <1>7. ASSUME NEW ep \in Endpoints, ep # t PROVE CountFollows(ep)'
    <2>1. \A v \in Workers : Counts(v, ep)' <=> Counts(v, ep)
      BY <1>5, <1>6, <1>7
    <2>2. endpoint'[ep] = endpoint[ep]
      BY <1>3, <1>7 DEF DeliveryInv, TypeOK
    <2>3. \A v \in Workers : Counts(v, ep) => runner'[v] = runner[v]
      BY <1>4, <1>5, <1>7
    <2> QED
      BY <1>1, <2>1, <2>2, <2>3, SameCount DEF CountInv
  <1>8. CountFollows(t)'
    <2> SUFFICES ASSUME t \notin blurred PROVE CountFollows(t)'
      BY <1>1 DEF CountFollows
    <2>1. /\ \A v \in Workers : Counts(v, t) => v = w
          /\ streak[t] = IF runner[w].result = "ok" THEN 0 ELSE Capped(endpoint[t].failures + 1)
          /\ runner[w].failures = endpoint[t].failures
      BY <1>1, <1>3, <1>5 DEF CountInv, CountFollows
    <2>2. \A v \in Workers : ~Counts(v, t)'
      BY <1>5, <1>6, <2>1
    <2>3. endpoint'[t].failures = IF runner[w].result = "ok" THEN 0 ELSE endpoint[t].failures + 1
      <3>1. Counted(w).failures = IF runner[w].result = "ok" THEN 0 ELSE endpoint[t].failures + 1
        BY <1>2, <1>3, <2>1 DEF Counted
      <3> QED
        BY <1>3, <3>1 DEF DeliveryInv, TypeOK
    <2>4. streak[t] = Capped(endpoint'[t].failures)
      BY <2>1, <2>3, CappedFacts
    <2> QED
      BY <1>1, <2>2, <2>4 DEF CountFollows, Capped
  <1> QED
    BY <1>7, <1>8 DEF CountInv

LEMMA FailureKeepsCount ==
    ASSUME DeliveryInv, CountInv, NEW w \in Workers, ProcessFails(w) \/ RunnerFails(w),
           \A r \in DOMAIN rows : r \in DOMAIN rows' /\ rows'[r].ep = rows[r].ep
    PROVE  CountInv'
  <1>1. /\ UNCHANGED <<endpoint, streak>>
        /\ runner[w].batch # <<>>
        /\ blurred' = IF runner[w].stage \in {"count", "write"} THEN blurred \cup {Target(w)} ELSE blurred
    BY DEF ProcessFails, RunnerFails, OutcomeLost
  <1>2. runner'[w].stage = "load" /\ \A v \in Workers : v # w => runner'[v] = runner[v]
    BY DEF ProcessFails, RunnerFails, DeliveryInv, TypeOK, NextRow, IdleRunner
  <1>3. \A ep : ~Counts(w, ep)'
    BY <1>2 DEF Counts
  <1>4. ASSUME NEW ep \in Endpoints, ep \notin blurred' PROVE CountFollows(ep)'
    <2>1. ~Counts(w, ep) /\ ep \notin blurred
      BY <1>1, <1>4 DEF Counts
    <2>2. \A v \in Workers : Counts(v, ep)' <=> Counts(v, ep)
      BY <1>2, <1>3, <2>1, OthersCount
    <2>3. \A v \in Workers : Counts(v, ep) => runner'[v] = runner[v]
      BY <1>2, <2>1
    <2> QED
      BY <1>1, <2>1, <2>2, <2>3, SameCount DEF CountInv
  <1> QED
    BY <1>4 DEF CountInv, CountFollows

(* New rows, claims that run out, endpoints that come and go.              *)
LEMMA TableKeepsCount ==
    ASSUME DeliveryInv, CountInv, runner' = runner,
           \A r \in DOMAIN rows : r \in DOMAIN rows' /\ rows'[r].ep = rows[r].ep,
           NEW gone,
           \A ep \in Endpoints : ep # gone =>
              /\ ep \notin blurred' => ep \notin blurred
              /\ streak'[ep] = streak[ep]
              /\ endpoint'[ep].failures = endpoint[ep].failures
              /\ endpoint[ep].status = "deleted" => endpoint'[ep].status = "deleted",
           gone \in Endpoints => endpoint'[gone].status = "deleted"
    PROVE  CountInv'
  <1> SUFFICES ASSUME NEW ep \in Endpoints, ep # gone PROVE CountFollows(ep)'
    BY DEF CountInv, CountFollows
  <1>1. \A v \in Workers : Counts(v, ep)' <=> Counts(v, ep)
    BY OthersCount
  <1> QED
    BY <1>1, SameCount DEF CountInv

LEMMA StepKeepsCount ==
    ASSUME DeliveryInv, CountInv, Next
    PROVE  CountInv'
  <1>1. \A r \in DOMAIN rows : r \in DOMAIN rows' /\ rows'[r].ep = rows[r].ep
    BY AddresseeStays
  <1>2. PICK nobody : nobody \notin Endpoints
    <2>1. \E x : x \notin Endpoints
      BY NoSetContainsEverything
    <2> QED
      BY <2>1
  <1>3. ASSUME NEW ep \in Endpoints, Enqueue(ep) PROVE CountInv'
    BY <1>1, <1>2, <1>3, TableKeepsCount DEF Enqueue
  <1>4. ASSUME NEW r \in DOMAIN rows, LockExpires(r) PROVE CountInv'
    BY <1>1, <1>2, <1>4, TableKeepsCount DEF LockExpires
  <1>5. ASSUME NEW t \in Endpoints, NEW active \in BOOLEAN, WebhookCreate(t, active) PROVE CountInv'
    <2>1. endpoint' = [endpoint EXCEPT ![t].status = IF active THEN "active" ELSE "inactive"]
          /\ endpoint[t].status = "absent" /\ UNCHANGED <<rows, runner, streak, blurred>>
      BY <1>5 DEF WebhookCreate
    <2>2. endpoint \in [Endpoints -> EndpointType]
      BY DEF DeliveryInv, TypeOK
    <2>3. \A ep \in Endpoints : /\ endpoint'[ep].failures = endpoint[ep].failures
                                /\ endpoint[ep].status = "deleted" => endpoint'[ep].status = "deleted"
      BY <2>1, <2>2 DEF EndpointType
    <2> QED
      BY <1>1, <1>2, <2>1, <2>3, TableKeepsCount
  <1>6. ASSUME NEW t \in Endpoints, WebhookDelete(t) PROVE CountInv'
    <2>1. /\ endpoint' = [endpoint EXCEPT ![t] = [status |-> "deleted", failures |-> 0]]
          /\ streak' = [streak EXCEPT ![t] = 0] /\ blurred' = blurred \ {t} /\ runner' = runner
      BY <1>6 DEF WebhookDelete
    <2>2. endpoint'[t].status = "deleted"
          /\ \A ep \in Endpoints : ep # t =>
                /\ endpoint'[ep] = endpoint[ep] /\ streak'[ep] = streak[ep]
                /\ ep \notin blurred' => ep \notin blurred
      BY <2>1 DEF DeliveryInv, TypeOK
    <2> QED
      BY <1>1, <2>1, <2>2, TableKeepsCount
  <1>7. ASSUME NEW w \in Workers, RunnerStep(w) PROVE CountInv'
    BY <1>1, <1>7, StageStepKeepsCount, PostKeepsCount, ReadKeepsCount, WriteKeepsCount DEF RunnerStep
  <1>8. ASSUME NEW w \in Workers, ProcessFails(w) \/ RunnerFails(w) PROVE CountInv'
    BY <1>1, <1>8, FailureKeepsCount
  <1> QED
    BY <1>3, <1>4, <1>5, <1>6, <1>7, <1>8 DEF Next

(* The counter of failures keeps up with the outcomes of every endpoint    *)
(* whose outcomes did not overlap.                                         *)
THEOREM CountInvariance == Spec => []CountInv
  <1>1. DeliveryInv /\ CountInv /\ [Next]_vars => CountInv'
    <2>1. CASE UNCHANGED vars
      BY <2>1 DEF vars, CountInv, CountFollows, Counts, Target, Row
    <2> QED
      BY <2>1, StepKeepsCount
  <1> QED
    BY <1>1, CountStarts, DeliveryInvariance, PTL DEF Spec

LEMMA SwitchedOffByStreak ==
    ASSUME DeliveryInv, CountInv, Next, NEW ep \in Endpoints,
           endpoint[ep].status = "active", endpoint'[ep].status = "inactive", ep \notin blurred
    PROVE  streak[ep] >= DisableAfter
  <1>1. PICK w \in Workers : WriteCount(w)
    <2>1. endpoint' # endpoint
      OBVIOUS
    <2>2. \A t \in Endpoints : ~WebhookDelete(t) /\ \A active \in BOOLEAN : ~WebhookCreate(t, active)
      BY DEF WebhookDelete, WebhookCreate, DeliveryInv, TypeOK
    <2> QED
      BY <2>1, <2>2 DEF Next, RunnerStep, ProcessFails, RunnerFails, Enqueue, LockExpires, FetchPending, LoadEndpoint,
         EndpointMissing, Post, ReadCount, EndpointDeleted, WriteCountStale, Settle
  <1>2. runner[w].batch # <<>> /\ runner[w].stage = "write"
    BY <1>1 DEF WriteCount, At
  <1>3. ep = Target(w) /\ endpoint'[ep] = Counted(w)
    BY <1>1, <1>2, HeadOf DEF WriteCount, DeliveryInv, TypeOK
  <1>4. Counts(w, ep)
    BY <1>2, <1>3 DEF Counts
  <1>5. /\ streak[ep] = IF runner[w].result = "ok" THEN 0 ELSE Capped(endpoint[ep].failures + 1)
        /\ runner[w].failures = endpoint[ep].failures
    BY <1>2, <1>4 DEF CountInv, CountFollows
  <1>6. runner[w].result = "error" /\ runner[w].failures + 1 >= DisableAfter
    BY <1>3 DEF Counted, SwitchesOff
  <1>7. endpoint[ep].failures \in Nat
    BY DEF DeliveryInv, TypeOK, EndpointType
  <1> QED
    BY <1>5, <1>6, <1>7, CappedFacts, OutboxAssumption

(* An endpoint is switched off by as many failures in a row as it takes.   *)
THEOREM SwitchOffIsEarned == Spec => DisabledByStreak
  <1>1. DeliveryInv /\ CountInv /\ [Next]_vars
          => [\A ep \in Endpoints :
                /\ endpoint[ep].status = "active"
                /\ endpoint'[ep].status = "inactive"
                /\ ep \notin blurred
                => streak[ep] >= DisableAfter]_vars
    BY SwitchedOffByStreak
  <1> QED
    BY <1>1, DeliveryInvariance, CountInvariance, PTL DEF Spec, DisabledByStreak

=============================================================================
