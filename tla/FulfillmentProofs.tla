-------------------------- MODULE FulfillmentProofs --------------------------
(***************************************************************************)
(* Proofs about Fulfillment.  Lost updates cannot bring an order to a      *)
(* stage it was not led to, because whatever is written back was read from *)
(* a committed row: every document in flight is backed by the stages the   *)
(* order has been at, and a command adds only the stage that comes next.   *)
(***************************************************************************)
EXTENDS OrderPage, TLAPS

-----------------------------------------------------------------------------
(* The inductive invariant *)

\* StagesInOrder for one set of stages, spelled out.
Ordered(B) ==
    /\ "sourcing_in_progress" \in B => "sourcing_approved" \in B
    /\ "quality_check" \in B => "sourcing_in_progress" \in B
    /\ "packing" \in B => "quality_check" \in B
    /\ "ready_for_dispatch" \in B => "packing" \in B
    /\ "out_for_delivery" \in B => "ready_for_dispatch" \in B
    /\ "delivered" \in B => "out_for_delivery" \in B

\* A status that was committed: it is among the stages reached; a runner is
\* assigned only to an approved order.
Backed(s, B) ==
    /\ s \in Stages => s \in B
    /\ s = "runner_assigned" => "sourcing_approved" \in B

\* A status that may be committed next.
MayFollow(s, B) ==
    /\ Ordered(B \cup ({s} \cap Stages))
    /\ s = "runner_assigned" => "sourcing_approved" \in B

\* A document of o that has been, or could have been, its row.
DocOK(o, d, B, S) ==
    /\ Backed(d.status, B[o])
    /\ \A s \in d.notified : <<o, s>> \in S

RowsOK(tab, B, S) == \A o \in Orders : DocOK(o, tab[o].details, B, S)

AdminsOK(adm, B, S) == \A a \in Admins : adm[a].pc # "idle" =>
    /\ adm[a].order \in Orders
    /\ DocOK(adm[a].order, adm[a].read, B, S)
    /\ CheckTransition(adm[a].read.status, adm[a].target)

TasksOK(tsk, B, S) == \A k \in Tasks :
    /\ tsk[k].pc # "idle" => tsk[k].order \in Orders
    /\ tsk[k].pc \in {"read", "sent"} => DocOK(tsk[k].order, tsk[k].read, B, S)
    /\ tsk[k].pc = "sent" => <<tsk[k].order, tsk[k].target>> \in S

WritersOK(wrt, B, S) == \A w \in Writers : wrt[w].pc # "idle" =>
    /\ wrt[w].order \in Orders
    /\ DocOK(wrt[w].order, wrt[w].read, B, S)

JobsOK(rdy, tab, B, S) == \A o \in Orders :
    /\ rdy[o].pc = "read" => DocOK(o, rdy[o].read, B, S)
    /\ rdy[o].pc \in {"read", "written"} => tab[o].pay = "paid"

IInv ==
    /\ TypeOK
    /\ \A o \in Orders : Ordered(been[o])
    /\ RowsOK(order, been, sent)
    /\ AdminsOK(admin, been, sent)
    /\ TasksOK(task, been, sent)
    /\ WritersOK(writer, been, sent)
    /\ JobsOK(ready, order, been, sent)

-----------------------------------------------------------------------------
(* The transition table *)

LEMMA StagesAre ==
    Stages = {"sourcing_approved", "sourcing_in_progress", "quality_check", "packing",
              "ready_for_dispatch", "out_for_delivery", "delivered"}
  <1>1. Len(Chain) = 7
    BY DEF Chain
  <1>2. /\ Chain[1] = "sourcing_approved" /\ Chain[2] = "sourcing_in_progress"
        /\ Chain[3] = "quality_check" /\ Chain[4] = "packing"
        /\ Chain[5] = "ready_for_dispatch" /\ Chain[6] = "out_for_delivery"
        /\ Chain[7] = "delivered"
    BY DEF Chain
  <1>3. 1 .. Len(Chain) = {1, 2, 3, 4, 5, 6, 7}
    BY <1>1
  <1> QED
    BY <1>2, <1>3 DEF Stages

LEMMA OrderedIsInOrder ==
    (\A o \in Orders : Ordered(been[o])) => StagesInOrder
  <1>1. Len(Chain) = 7
    BY DEF Chain
  <1>2. /\ Chain[1] = "sourcing_approved" /\ Chain[2] = "sourcing_in_progress"
        /\ Chain[3] = "quality_check" /\ Chain[4] = "packing"
        /\ Chain[5] = "ready_for_dispatch" /\ Chain[6] = "out_for_delivery"
        /\ Chain[7] = "delivered"
    BY DEF Chain
  <1> SUFFICES ASSUME \A o \in Orders : Ordered(been[o]),
                      NEW o \in Orders, NEW i \in 1 .. Len(Chain) - 1,
                      Chain[i + 1] \in been[o]
               PROVE  Chain[i] \in been[o]
    BY DEF StagesInOrder
  <1>3. i = 1 \/ i = 2 \/ i = 3 \/ i = 4 \/ i = 5 \/ i = 6
    BY <1>1
  <1>4. i + 1 = 2 \/ i + 1 = 3 \/ i + 1 = 4 \/ i + 1 = 5 \/ i + 1 = 6 \/ i + 1 = 7
    BY <1>3
  <1> QED
    BY <1>2, <1>3 DEF Ordered

LEMMA TableIs ==
    /\ AllowedFrom["runner_assigned"] = {"sourcing_approved"}
    /\ AllowedFrom["sourcing_in_progress"] = {"runner_assigned", "sourcing_approved"}
    /\ AllowedFrom["quality_check"] = {"sourcing_in_progress"}
    /\ AllowedFrom["packing"] = {"quality_check"}
    /\ AllowedFrom["ready_for_dispatch"] = {"packing"}
    /\ AllowedFrom["out_for_delivery"] = {"ready_for_dispatch"}
    /\ AllowedFrom["delivered"] = {"out_for_delivery"}
  BY DEF AllowedFrom, Commands, Underway

\* A command allowed from a committed status leads to the next stage.
LEMMA CommandMayFollow ==
    ASSUME NEW s \in Statuses, NEW t \in Commands, NEW B,
           CheckTransition(s, t), Backed(s, B), Ordered(B)
    PROVE  MayFollow(t, B)
  <1>1. s = t \/ Normalize(s) \in AllowedFrom[t] \/ t = "pending_payment"
    BY DEF CheckTransition, Normalize
  <1>2. t # "pending_payment"
    BY DEF Commands, Underway
  <1>3. CASE s = t
    <2>1. {t} \cap Stages \subseteq B
      BY <1>3 DEF Backed
    <2>2. B \cup ({t} \cap Stages) = B
      BY <2>1
    <2> QED
      BY <1>3, <2>2 DEF MayFollow, Backed
  <1>4. CASE Normalize(s) \in AllowedFrom[t]
    <2>1. Normalize(s) = s \/ Normalize(s) = "pending_payment"
      BY DEF Normalize
    <2>2. CASE t \in {"sourcing_in_progress", "runner_assigned", "quality_check", "packing",
                      "ready_for_dispatch", "out_for_delivery", "delivered"}
      <3>1. Normalize(s) = s
        BY <1>4, <2>1, <2>2, TableIs
      <3>2. s \in AllowedFrom[t]
        BY <1>4, <3>1
      <3> QED
        BY <2>2, <3>2, TableIs, StagesAre DEF MayFollow, Ordered, Backed
    <2>3. CASE t \in {"sourcing_approved", "issue_pending", "cancelled"}
      BY <2>3, StagesAre DEF MayFollow, Ordered
    <2> QED
      BY <2>2, <2>3 DEF Commands, Underway
  <1> QED
    BY <1>1, <1>2, <1>3, <1>4

\* Writing back what was read changes nothing about the stages reached.
LEMMA ReadMayFollow ==
    ASSUME NEW s, NEW B, Backed(s, B), Ordered(B)
    PROVE  MayFollow(s, B)
  <1>1. B \cup ({s} \cap Stages) = B
    BY DEF Backed
  <1> QED
    BY <1>1 DEF MayFollow, Backed

\* The statuses of payments, of order.ready and of the resend are no stages.
LEMMA ForeignMayFollow ==
    ASSUME NEW B, Ordered(B),
           NEW s \in Foreign \cup {"cancelled", "pending_payment"}
    PROVE  MayFollow(s, B)
  <1>1. s \notin Stages /\ s # "runner_assigned"
    BY StagesAre DEF Foreign
  <1>2. B \cup ({s} \cap Stages) = B
    BY <1>1
  <1> QED
    BY <1>1, <1>2 DEF MayFollow

-----------------------------------------------------------------------------
(* Histories only grow *)

Grows(B1, B2, S1, S2) == (\A o \in Orders : B1[o] \subseteq B2[o]) /\ S1 \subseteq S2

LEMMA DocGrows ==
    ASSUME NEW B1, NEW B2, NEW S1, NEW S2, Grows(B1, B2, S1, S2),
           NEW o \in Orders, NEW d, DocOK(o, d, B1, S1)
    PROVE  DocOK(o, d, B2, S2)
  BY DEF Grows, DocOK, Backed

LEMMA AdminsGrow ==
    ASSUME NEW B1, NEW B2, NEW S1, NEW S2, Grows(B1, B2, S1, S2),
           NEW adm, AdminsOK(adm, B1, S1)
    PROVE  AdminsOK(adm, B2, S2)
  BY DocGrows DEF AdminsOK

LEMMA TasksGrow ==
    ASSUME NEW B1, NEW B2, NEW S1, NEW S2, Grows(B1, B2, S1, S2),
           NEW tsk, TasksOK(tsk, B1, S1)
    PROVE  TasksOK(tsk, B2, S2)
  <1> SUFFICES ASSUME NEW k \in Tasks
               PROVE  /\ tsk[k].pc # "idle" => tsk[k].order \in Orders
                      /\ tsk[k].pc \in {"read", "sent"} => DocOK(tsk[k].order, tsk[k].read, B2, S2)
                      /\ tsk[k].pc = "sent" => <<tsk[k].order, tsk[k].target>> \in S2
    BY DEF TasksOK
  <1>1. tsk[k].pc # "idle" => tsk[k].order \in Orders
    BY DEF TasksOK
  <1>2. ASSUME tsk[k].pc \in {"read", "sent"}
        PROVE  DocOK(tsk[k].order, tsk[k].read, B2, S2)
    <2>1. tsk[k].order \in Orders
      BY <1>1, <1>2
    <2>2. DocOK(tsk[k].order, tsk[k].read, B1, S1)
      BY <1>2 DEF TasksOK
    <2> QED
      BY <2>1, <2>2, DocGrows
  <1> QED
    BY <1>1, <1>2 DEF TasksOK, Grows

LEMMA WritersGrow ==
    ASSUME NEW B1, NEW B2, NEW S1, NEW S2, Grows(B1, B2, S1, S2),
           NEW wrt, WritersOK(wrt, B1, S1)
    PROVE  WritersOK(wrt, B2, S2)
  BY DocGrows DEF WritersOK

LEMMA JobsGrow ==
    ASSUME NEW B1, NEW B2, NEW S1, NEW S2, Grows(B1, B2, S1, S2),
           NEW rdy, NEW tab, JobsOK(rdy, tab, B1, S1)
    PROVE  JobsOK(rdy, tab, B2, S2)
  BY DocGrows DEF JobsOK

LEMMA RowsGrow ==
    ASSUME NEW B1, NEW B2, NEW S1, NEW S2, Grows(B1, B2, S1, S2),
           NEW tab, RowsOK(tab, B1, S1)
    PROVE  RowsOK(tab, B2, S2)
  BY DocGrows DEF RowsOK

-----------------------------------------------------------------------------
(* Committed writes *)

\* The part of IInv that is about the table and its history.
TableOK(tab, B, S) ==
    /\ tab \in [Orders -> OrderType]
    /\ B \in [Orders -> SUBSET Stages]
    /\ \A o \in Orders : Ordered(B[o])
    /\ RowsOK(tab, B, S)

\* Writing a document whose status may follow and whose flags are earned keeps
\* the table right, and a paid order paid if the write says so.
LEMMA WriteKeeps ==
    ASSUME TableOK(order, been, sent),
           NEW o \in Orders, NEW pay \in PayStatuses, NEW v \in Nat, NEW d \in Details,
           Write(o, pay, v, d),
           MayFollow(d.status, been[o]),
           \A s \in d.notified : <<o, s>> \in sent
    PROVE  /\ TableOK(order', been', sent)
           /\ Grows(been, been', sent, sent)
           /\ \A x \in Orders : x # o => order'[x] = order[x]
           /\ order'[o].pay = pay
  <1> DEFINE row == [pay |-> pay, version |-> v, details |-> d]
  <1>1. row \in OrderType /\ row.details = d /\ row.pay = pay
    BY DEF OrderType
  <1>2. order' = [order EXCEPT ![o] = row]
    BY DEF Write
  <1>3. been' = [been EXCEPT ![o] = @ \cup ({d.status} \cap Stages)]
    BY DEF Write
  <1> HIDE DEF row
  <1>4. order' \in [Orders -> OrderType]
    BY <1>1, <1>2 DEF TableOK
  <1>5. been' \in [Orders -> SUBSET Stages]
    BY <1>3 DEF TableOK
  <1>6. Grows(been, been', sent, sent)
    BY <1>3 DEF Grows, TableOK
  <1>7. \A x \in Orders : Ordered(been'[x])
    BY <1>3 DEF TableOK, MayFollow
  <1>8. order'[o] = row /\ \A x \in Orders : x # o => order'[x] = order[x]
    BY <1>2 DEF TableOK
  <1>9. RowsOK(order', been', sent)
    <2> SUFFICES ASSUME NEW x \in Orders PROVE DocOK(x, order'[x].details, been', sent)
      BY DEF RowsOK
    <2>1. CASE x = o
      <3>1. been'[o] = been[o] \cup ({d.status} \cap Stages)
        BY <1>3 DEF TableOK
      <3>2. Backed(d.status, been'[o])
        BY <3>1 DEF Backed, MayFollow
      <3> QED
        BY <1>1, <1>8, <2>1, <3>2 DEF DocOK
    <2>2. CASE x # o
      BY <1>6, <1>8, <2>2, DocGrows DEF TableOK, RowsOK
    <2> QED
      BY <2>1, <2>2
  <1> QED
    BY <1>1, <1>4, <1>5, <1>6, <1>7, <1>8, <1>9 DEF TableOK

\* What WriteDetails adds: the payment columns stay.
LEMMA WriteDetailsKeeps ==
    ASSUME TableOK(order, been, sent),
           NEW o \in Orders, NEW d \in Details, WriteDetails(o, d),
           MayFollow(d.status, been[o]),
           \A s \in d.notified : <<o, s>> \in sent
    PROVE  /\ TableOK(order', been', sent)
           /\ Grows(been, been', sent, sent)
           /\ \A x \in Orders : order'[x].pay = order[x].pay
  <1>1. order[o].pay \in PayStatuses /\ order[o].version \in Nat
    BY DEF TableOK, OrderType
  <1>2. Write(o, order[o].pay, order[o].version, d)
    BY DEF WriteDetails
  <1> QED
    BY <1>1, <1>2, WriteKeeps

\* A job's promise about the payment survives a write that keeps paid orders paid.
LEMMA JobsKeep ==
    ASSUME NEW rdy, NEW B, NEW S, NEW tab, NEW new, JobsOK(rdy, tab, B, S),
           \A o \in Orders : tab[o].pay = "paid" => new[o].pay = "paid"
    PROVE  JobsOK(rdy, new, B, S)
  BY DEF JobsOK

LEMMA IInvTable ==
    IInv <=> /\ TableOK(order, been, sent)
             /\ admin \in [Admins -> AdminType] /\ task \in [Tasks -> TaskType]
             /\ writer \in [Writers -> WriterType] /\ ready \in [Orders -> JobType]
             /\ sent \in SUBSET (Orders \X Announced)
             /\ acked \in [Orders -> 0 .. AuditKeep]
             /\ AdminsOK(admin, been, sent) /\ TasksOK(task, been, sent)
             /\ WritersOK(writer, been, sent) /\ JobsOK(ready, order, been, sent)
  BY DEF IInv, TypeOK, TableOK
-----------------------------------------------------------------------------
(* Each step keeps the invariant *)

LEMMA InitHolds == Init => IInv
  <1> SUFFICES ASSUME Init PROVE IInv
    OBVIOUS
  <1>1. AuditKeep \in Nat
    BY FulfillmentAssumption
  <1>2. Blank \in Details
    BY <1>1 DEF Blank, Details, Statuses, Canonical
  <1>3. [pay |-> "pending", version |-> 0, details |-> Blank] \in OrderType
    BY <1>2 DEF OrderType, PayStatuses
  <1>4. order \in [Orders -> OrderType] /\ \A o \in Orders : order[o].details = Blank
    BY <1>3 DEF Init
  <1>5. NoAdmin \in AdminType /\ NoTask \in TaskType /\ NoWrite \in WriterType /\ NoJob \in JobType
    BY <1>2 DEF NoAdmin, AdminType, NoTask, TaskType, NoWrite, WriterType, NoJob, JobType,
                Commands, Underway, Announced, AllKinds
  <1>6. /\ admin \in [Admins -> AdminType] /\ task \in [Tasks -> TaskType]
        /\ writer \in [Writers -> WriterType] /\ ready \in [Orders -> JobType]
    BY <1>5 DEF Init
  <1>7. /\ \A a \in Admins : admin[a].pc = "idle"
        /\ \A k \in Tasks : task[k].pc = "idle"
        /\ \A w \in Writers : writer[w].pc = "idle"
        /\ \A o \in Orders : ready[o].pc = "none"
    BY DEF Init, NoAdmin, NoTask, NoWrite, NoJob
  <1>8. TypeOK
    BY <1>1, <1>4, <1>6 DEF Init, TypeOK
  <1>9. \A o \in Orders : Ordered(been[o])
    BY DEF Init, Ordered
  <1>10. RowsOK(order, been, sent)
    <2>1. "pending_payment" \notin Stages
      BY StagesAre
    <2>2. Blank.status = "pending_payment" /\ Blank.notified = {}
      BY DEF Blank
    <2> QED
      BY <1>4, <2>1, <2>2 DEF RowsOK, DocOK, Backed
  <1>11. AdminsOK(admin, been, sent) /\ WritersOK(writer, been, sent)
    BY <1>7 DEF AdminsOK, WritersOK
  <1>12. TasksOK(task, been, sent)
    BY <1>7 DEF TasksOK
  <1>13. JobsOK(ready, order, been, sent)
    BY <1>7 DEF JobsOK
  <1> QED
    BY <1>8, <1>9, <1>10, <1>11, <1>12, <1>13 DEF IInv

\* An admin goes idle.
LEMMA AdminLeaves ==
    ASSUME NEW a \in Admins, admin \in [Admins -> AdminType], AdminsOK(admin, been, sent),
           NEW adm, adm = [admin EXCEPT ![a] = NoAdmin]
    PROVE  adm \in [Admins -> AdminType] /\ AdminsOK(adm, been, sent)
  <1>1. Blank \in Details
    BY FulfillmentAssumption DEF Blank, Details, Statuses, Canonical
  <1>2. NoAdmin \in AdminType /\ NoAdmin.pc = "idle"
    BY <1>1 DEF NoAdmin, AdminType, Commands, Underway
  <1> QED
    BY <1>2 DEF AdminsOK

\* A task ends.
LEMMA TaskLeaves ==
    ASSUME NEW k \in Tasks, task \in [Tasks -> TaskType], TasksOK(task, been, sent),
           NEW tsk, tsk = [task EXCEPT ![k] = NoTask]
    PROVE  tsk \in [Tasks -> TaskType] /\ TasksOK(tsk, been, sent)
  <1>1. Blank \in Details
    BY FulfillmentAssumption DEF Blank, Details, Statuses, Canonical
  <1>2. NoTask \in TaskType /\ NoTask.pc = "idle"
    BY <1>1 DEF NoTask, TaskType, Announced
  <1>3. tsk \in [Tasks -> TaskType]
    BY <1>2
  <1>4. TasksOK(tsk, been, sent)
    <2> SUFFICES ASSUME NEW j \in Tasks
                 PROVE  /\ tsk[j].pc # "idle" => tsk[j].order \in Orders
                        /\ tsk[j].pc \in {"read", "sent"} => DocOK(tsk[j].order, tsk[j].read, been, sent)
                        /\ tsk[j].pc = "sent" => <<tsk[j].order, tsk[j].target>> \in sent
      BY DEF TasksOK
    <2>1. CASE j = k
      <3>1. tsk[j].pc = "idle"
        BY <1>2, <2>1
      <3> QED
        BY <3>1
    <2>2. CASE j # k
      <3>1. tsk[j] = task[j]
        BY <2>2
      <3> QED
        BY <3>1 DEF TasksOK
    <2> QED
      BY <2>1, <2>2
  <1> QED
    BY <1>3, <1>4

\* A writer goes idle.
LEMMA WriterLeaves ==
    ASSUME NEW w \in Writers, writer \in [Writers -> WriterType], WritersOK(writer, been, sent),
           NEW wrt, wrt = [writer EXCEPT ![w] = NoWrite]
    PROVE  wrt \in [Writers -> WriterType] /\ WritersOK(wrt, been, sent)
  <1>1. Blank \in Details
    BY FulfillmentAssumption DEF Blank, Details, Statuses, Canonical
  <1>2. NoWrite \in WriterType /\ NoWrite.pc = "idle"
    BY <1>1 DEF NoWrite, WriterType, AllKinds
  <1> QED
    BY <1>2 DEF WritersOK

LEMMA OpsReadPreserves ==
    ASSUME IInv, NEW a \in Admins, NEW o \in Orders, NEW t \in Targets, OpsRead(a, o, t)
    PROVE  IInv'
  <1> DEFINE new == [pc |-> "read", order |-> o, read |-> order[o].details, target |-> t]
  <1>1. order[o].details \in Details
    BY DEF IInv, TypeOK, OrderType
  <1>2. t \in Commands
    BY FulfillmentAssumption DEF Commands, Underway
  <1>3. new \in AdminType
    BY <1>1, <1>2 DEF AdminType
  <1>4. new.order = o /\ new.read = order[o].details /\ new.target = t
    OBVIOUS
  <1>5. admin' = [admin EXCEPT ![a] = new]
    BY DEF OpsRead
  <1>6. UNCHANGED <<order, task, writer, ready, been, sent, acked>>
    BY DEF OpsRead
  <1>7. CheckTransition(order[o].details.status, t) /\ DocOK(o, order[o].details, been, sent)
    BY DEF OpsRead, IInv, RowsOK
  <1> HIDE DEF new
  <1>8. admin' \in [Admins -> AdminType]
    BY <1>3, <1>5 DEF IInv, TypeOK
  <1>9. AdminsOK(admin', been, sent)
    <2> SUFFICES ASSUME NEW x \in Admins, admin'[x].pc # "idle"
                 PROVE  /\ admin'[x].order \in Orders
                        /\ DocOK(admin'[x].order, admin'[x].read, been, sent)
                        /\ CheckTransition(admin'[x].read.status, admin'[x].target)
      BY DEF AdminsOK
    <2>1. CASE x = a
      <3>1. admin'[x] = new
        BY <1>5, <2>1 DEF IInv, TypeOK
      <3> QED
        BY <1>4, <1>7, <3>1
    <2>2. CASE x # a
      <3>1. admin'[x] = admin[x]
        BY <1>5, <2>2 DEF IInv, TypeOK
      <3> QED
        BY <3>1 DEF IInv, AdminsOK
    <2> QED
      BY <2>1, <2>2
  <1> QED
    BY <1>6, <1>8, <1>9 DEF IInv, TypeOK
\* A task moves on.
LEMMA TaskMoves ==
    ASSUME NEW k \in Tasks, task \in [Tasks -> TaskType], NEW B, NEW S, TasksOK(task, B, S),
           NEW new \in TaskType, new.order \in Orders,
           new.pc \in {"read", "sent"} => DocOK(new.order, new.read, B, S),
           new.pc = "sent" => <<new.order, new.target>> \in S,
           NEW tsk, tsk = [task EXCEPT ![k] = new]
    PROVE  tsk \in [Tasks -> TaskType] /\ TasksOK(tsk, B, S)
  <1>1. tsk \in [Tasks -> TaskType]
    OBVIOUS
  <1>2. TasksOK(tsk, B, S)
    <2> SUFFICES ASSUME NEW j \in Tasks
                 PROVE  /\ tsk[j].pc # "idle" => tsk[j].order \in Orders
                        /\ tsk[j].pc \in {"read", "sent"} => DocOK(tsk[j].order, tsk[j].read, B, S)
                        /\ tsk[j].pc = "sent" => <<tsk[j].order, tsk[j].target>> \in S
      BY DEF TasksOK
    <2>1. CASE j = k
      <3>1. tsk[j] = new
        BY <2>1
      <3> QED
        BY <3>1
    <2>2. CASE j # k
      <3>1. tsk[j] = task[j]
        BY <2>2
      <3> QED
        BY <3>1 DEF TasksOK
    <2> QED
      BY <2>1, <2>2
  <1> QED
    BY <1>1, <1>2

\* The job of an order moves on.
LEMMA JobMoves ==
    ASSUME NEW o \in Orders, ready \in [Orders -> JobType], NEW tab, JobsOK(ready, tab, been, sent),
           NEW new \in JobType,
           new.pc = "read" => DocOK(o, new.read, been, sent),
           new.pc \in {"read", "written"} => tab[o].pay = "paid",
           NEW rdy, rdy = [ready EXCEPT ![o] = new]
    PROVE  rdy \in [Orders -> JobType] /\ JobsOK(rdy, tab, been, sent)
  <1>1. rdy \in [Orders -> JobType]
    OBVIOUS
  <1>2. JobsOK(rdy, tab, been, sent)
    <2> SUFFICES ASSUME NEW x \in Orders
                 PROVE  /\ rdy[x].pc = "read" => DocOK(x, rdy[x].read, been, sent)
                        /\ rdy[x].pc \in {"read", "written"} => tab[x].pay = "paid"
      BY DEF JobsOK
    <2>1. CASE x = o
      <3>1. rdy[x] = new
        BY <2>1
      <3> QED
        BY <2>1, <3>1
    <2>2. CASE x # o
      <3>1. rdy[x] = ready[x]
        BY <2>2
      <3> QED
        BY <3>1 DEF JobsOK
    <2> QED
      BY <2>1, <2>2
  <1> QED
    BY <1>1, <1>2

LEMMA OpsFlushPreserves ==
    ASSUME IInv, NEW a \in Admins, OpsFlush(a)
    PROVE  IInv'
  <1>1. UNCHANGED <<order, writer, ready, been, sent, acked>>
    BY DEF OpsFlush
  <1>2. /\ admin[a].pc = "read" /\ admin[a].order \in Orders
        /\ admin' = [admin EXCEPT ![a].pc = "flushed"]
    BY DEF OpsFlush, IInv, AdminsOK
  <1>3. admin \in [Admins -> AdminType]
    BY DEF IInv, TypeOK
  <1>4. admin' \in [Admins -> AdminType]
    BY <1>2, <1>3 DEF AdminType
  <1>5. AdminsOK(admin', been, sent)
    BY <1>2, <1>3 DEF IInv, AdminsOK, AdminType
  <1>6. task' \in [Tasks -> TaskType] /\ TasksOK(task', been, sent)
    <2>0. task \in [Tasks -> TaskType] /\ TasksOK(task, been, sent)
      BY DEF IInv, TypeOK
    <2>1. CASE Notifies(admin[a])
      <3>1. PICK k \in Tasks :
              task' = [task EXCEPT ![k] = [pc |-> "created", order |-> admin[a].order,
                                           read |-> Blank, target |-> admin[a].target]]
        BY <2>1 DEF OpsFlush
      <3> DEFINE new == [pc |-> "created", order |-> admin[a].order,
                         read |-> Blank, target |-> admin[a].target]
      <3>2. Blank \in Details
        BY FulfillmentAssumption DEF Blank, Details, Statuses, Canonical
      <3>3. new \in TaskType /\ new.pc = "created" /\ new.order = admin[a].order
        BY <1>2, <2>1, <3>2 DEF TaskType, Notifies
      <3>4. task' = [task EXCEPT ![k] = new]
        BY <3>1
      <3> HIDE DEF new
      <3>5. new.order \in Orders
        BY <1>2, <3>3
      <3> QED
        BY <2>0, <3>3, <3>4, <3>5, TaskMoves
    <2>2. CASE ~ Notifies(admin[a])
      BY <2>0, <2>2 DEF OpsFlush
    <2> QED
      BY <2>1, <2>2
  <1> QED
    BY <1>1, <1>4, <1>5, <1>6 DEF IInv, TypeOK

\* What a write leaves of the rest of the invariant.
LEMMA OthersKeep ==
    ASSUME IInv, Grows(been, been', sent, sent),
           \A x \in Orders : order[x].pay = "paid" => order'[x].pay = "paid"
    PROVE  /\ AdminsOK(admin, been', sent) /\ TasksOK(task, been', sent)
           /\ WritersOK(writer, been', sent) /\ JobsOK(ready, order', been', sent)
  <1>1. /\ AdminsOK(admin, been, sent) /\ TasksOK(task, been, sent)
        /\ WritersOK(writer, been, sent) /\ JobsOK(ready, order, been, sent)
    BY DEF IInv
  <1>2. JobsOK(ready, order', been, sent)
    BY <1>1, JobsKeep
  <1>3. JobsOK(ready, order', been', sent)
    BY <1>2, JobsGrow
  <1> QED
    BY <1>1, <1>3, AdminsGrow, TasksGrow, WritersGrow

LEMMA OpsCommitPreserves ==
    ASSUME IInv, NEW a \in Admins, OpsCommit(a)
    PROVE  IInv'
  <1> DEFINE r == admin[a]
             d == Commanded(r)
  <1>1. /\ r.pc = "flushed" /\ WriteDetails(r.order, d)
        /\ acked' = [acked EXCEPT ![r.order] = OneMore(@)]
        /\ admin' = [admin EXCEPT ![a] = NoAdmin]
        /\ UNCHANGED <<task, writer, ready, sent>>
    BY DEF OpsCommit
  <1>2. /\ r \in AdminType /\ r.order \in Orders /\ DocOK(r.order, r.read, been, sent)
        /\ CheckTransition(r.read.status, r.target)
    BY <1>1 DEF IInv, TypeOK, AdminsOK
  <1>3. r.read \in Details /\ r.target \in Commands
    BY <1>2 DEF AdminType
  <1>4. OneMore(r.read.audit) \in 0 .. AuditKeep
    BY <1>3, FulfillmentAssumption DEF OneMore, Details
  <1>5. r.target \in Statuses
    BY <1>3 DEF Commands, Underway, Statuses, Canonical
  <1>6. d \in Details /\ d.status = r.target /\ d.notified = r.read.notified
    BY <1>3, <1>4, <1>5 DEF Commanded, Details
  <1>7. TableOK(order, been, sent)
    BY IInvTable
  <1>8. MayFollow(r.target, been[r.order])
    <2>1. r.read.status \in Statuses
      BY <1>3 DEF Details
    <2> QED
      BY <1>2, <1>3, <1>7, <2>1, CommandMayFollow DEF DocOK, TableOK
  <1>9. \A s \in d.notified : <<r.order, s>> \in sent
    BY <1>2, <1>6 DEF DocOK
  <1>10. /\ TableOK(order', been', sent) /\ Grows(been, been', sent, sent)
         /\ \A x \in Orders : order'[x].pay = order[x].pay
    <2> HIDE DEF d, r
    <2> QED
      BY <1>1, <1>2, <1>6, <1>7, <1>8, <1>9, WriteDetailsKeeps
  <1>11. /\ AdminsOK(admin, been', sent) /\ TasksOK(task, been', sent)
         /\ WritersOK(writer, been', sent) /\ JobsOK(ready, order', been', sent)
    BY <1>10, OthersKeep
  <1>12. admin' \in [Admins -> AdminType] /\ AdminsOK(admin', been', sent)
    <2>1. admin' \in [Admins -> AdminType] /\ AdminsOK(admin', been, sent)
      BY <1>1, AdminLeaves DEF IInv, TypeOK
    <2> QED
      BY <1>10, <2>1, AdminsGrow
  <1>13. acked' \in [Orders -> 0 .. AuditKeep]
    <2>1. acked \in [Orders -> 0 .. AuditKeep] /\ AuditKeep \in Nat
      BY FulfillmentAssumption DEF IInv, TypeOK
    <2>2. \A n \in 0 .. AuditKeep : OneMore(n) \in 0 .. AuditKeep
      BY <2>1 DEF OneMore
    <2> HIDE DEF r
    <2> QED
      BY <1>1, <2>1, <2>2
  <1> QED
    BY <1>1, <1>10, <1>11, <1>12, <1>13 DEF IInv, TypeOK, TableOK

LEMMA OpsAbortPreserves ==
    ASSUME IInv, NEW a \in Admins, OpsAbort(a)
    PROVE  IInv'
  <1>1. /\ admin' = [admin EXCEPT ![a] = NoAdmin]
        /\ UNCHANGED <<order, task, writer, ready, been, sent, acked>>
    BY DEF OpsAbort
  <1>2. admin' \in [Admins -> AdminType] /\ AdminsOK(admin', been, sent)
    BY <1>1, AdminLeaves DEF IInv, TypeOK
  <1> QED
    BY <1>1, <1>2 DEF IInv, TypeOK
LEMMA NotifyReadPreserves ==
    ASSUME IInv, NEW k \in Tasks, NotifyRead(k)
    PROVE  IInv'
  <1> DEFINE r == task[k]
  <1>1. r.pc = "created" /\ UNCHANGED <<order, admin, writer, ready, been, sent, acked>>
    BY DEF NotifyRead
  <1>2. /\ task \in [Tasks -> TaskType] /\ TasksOK(task, been, sent)
        /\ r \in TaskType /\ r.order \in Orders
    BY <1>1 DEF IInv, TypeOK, TasksOK
  <1>3. task' \in [Tasks -> TaskType] /\ TasksOK(task', been, sent)
    <2>1. CASE r.target \in order[r.order].details.notified
      BY <1>2, <2>1, TaskLeaves DEF NotifyRead
    <2>2. CASE r.target \notin order[r.order].details.notified
      <3> DEFINE new == [r EXCEPT !.pc = "read", !.read = order[r.order].details]
      <3>1. order[r.order].details \in Details /\ DocOK(r.order, order[r.order].details, been, sent)
        BY <1>2 DEF IInv, TypeOK, OrderType, RowsOK
      <3>2. new \in TaskType
        BY <1>2, <3>1 DEF TaskType
      <3>3. new.pc = "read" /\ new.order = r.order /\ new.read = order[r.order].details
        BY <1>2 DEF TaskType
      <3>4. task' = [task EXCEPT ![k] = new]
        BY <1>2, <2>2 DEF NotifyRead
      <3>5. new.order \in Orders /\ DocOK(new.order, new.read, been, sent)
        BY <1>2, <3>1, <3>3
      <3> HIDE DEF new
      <3> QED
        BY <1>2, <3>2, <3>3, <3>4, <3>5, TaskMoves
    <2> QED
      BY <2>1, <2>2
  <1> QED
    BY <1>1, <1>3 DEF IInv, TypeOK

LEMMA NotifySendPreserves ==
    ASSUME IInv, NEW k \in Tasks, NotifySend(k)
    PROVE  IInv'
  <1> DEFINE r == task[k]
             new == [r EXCEPT !.pc = "sent"]
  <1>1. /\ r.pc = "read" /\ sent' = sent \cup {<<r.order, r.target>>}
        /\ UNCHANGED <<order, admin, writer, ready, been, acked>>
    BY DEF NotifySend
  <1>2. /\ task \in [Tasks -> TaskType] /\ TasksOK(task, been, sent)
        /\ r \in TaskType /\ r.order \in Orders /\ DocOK(r.order, r.read, been, sent)
    BY <1>1 DEF IInv, TypeOK, TasksOK
  <1>3. Grows(been, been', sent, sent')
    BY <1>1 DEF Grows
  <1>4. new \in TaskType /\ new.pc = "sent" /\ new.order = r.order /\ new.read = r.read /\ new.target = r.target
    BY <1>2 DEF TaskType
  <1>5. task' = [task EXCEPT ![k] = new]
    BY <1>2 DEF NotifySend
  <1>6. DocOK(r.order, r.read, been', sent')
    BY <1>2, <1>3, DocGrows
  <1>7. <<r.order, r.target>> \in sent'
    BY <1>1
  <1>8. TasksOK(task, been', sent')
    BY <1>2, <1>3, TasksGrow
  <1>9. task' \in [Tasks -> TaskType] /\ TasksOK(task', been', sent')
    <2> HIDE DEF new
    <2> QED
      BY <1>2, <1>4, <1>5, <1>6, <1>7, <1>8, TaskMoves
  <1>10. sent' \in SUBSET (Orders \X Announced)
    BY <1>1, <1>2 DEF IInv, TypeOK, TaskType
  <1>11. /\ RowsOK(order, been', sent') /\ AdminsOK(admin, been', sent')
         /\ WritersOK(writer, been', sent') /\ JobsOK(ready, order, been', sent')
    BY <1>3, RowsGrow, AdminsGrow, WritersGrow, JobsGrow DEF IInv
  <1> QED
    BY <1>1, <1>9, <1>10, <1>11 DEF IInv, TypeOK

LEMMA NotifyCommitPreserves ==
    ASSUME IInv, NEW k \in Tasks, NotifyCommit(k)
    PROVE  IInv'
  <1> DEFINE r == task[k]
             d == Flagged(r)
  <1>1. /\ r.pc = "sent" /\ WriteDetails(r.order, d) /\ task' = [task EXCEPT ![k] = NoTask]
        /\ UNCHANGED <<admin, writer, ready, sent, acked>>
    BY DEF NotifyCommit
  <1>2. /\ task \in [Tasks -> TaskType] /\ TasksOK(task, been, sent)
        /\ r \in TaskType /\ r.order \in Orders /\ DocOK(r.order, r.read, been, sent)
        /\ <<r.order, r.target>> \in sent
    BY <1>1 DEF IInv, TypeOK, TasksOK
  <1>3. d \in Details /\ d.status = r.read.status /\ d.notified = r.read.notified \cup {r.target}
    BY <1>2 DEF Flagged, TaskType, Details
  <1>4. TableOK(order, been, sent)
    BY IInvTable
  <1>5. MayFollow(d.status, been[r.order])
    BY <1>2, <1>3, <1>4, ReadMayFollow DEF DocOK, TableOK
  <1>6. \A s \in d.notified : <<r.order, s>> \in sent
    BY <1>2, <1>3 DEF DocOK
  <1>7. /\ TableOK(order', been', sent) /\ Grows(been, been', sent, sent)
        /\ \A x \in Orders : order'[x].pay = order[x].pay
    <2> HIDE DEF d, r
    <2> QED
      BY <1>1, <1>2, <1>3, <1>4, <1>5, <1>6, WriteDetailsKeeps
  <1>8. /\ AdminsOK(admin, been', sent) /\ WritersOK(writer, been', sent)
        /\ JobsOK(ready, order', been', sent)
    BY <1>7, OthersKeep
  <1>9. task' \in [Tasks -> TaskType] /\ TasksOK(task', been', sent)
    <2>1. task' \in [Tasks -> TaskType] /\ TasksOK(task', been, sent)
      BY <1>1, <1>2, TaskLeaves
    <2> QED
      BY <1>7, <2>1, TasksGrow
  <1> QED
    BY <1>1, <1>7, <1>8, <1>9 DEF IInv, TypeOK, TableOK

LEMMA NotifyFailsPreserves ==
    ASSUME IInv, NEW k \in Tasks, NotifyFails(k)
    PROVE  IInv'
  <1>1. /\ task' = [task EXCEPT ![k] = NoTask]
        /\ UNCHANGED <<order, admin, writer, ready, been, sent, acked>>
    BY DEF NotifyFails
  <1>2. task' \in [Tasks -> TaskType] /\ TasksOK(task', been, sent)
    BY <1>1, TaskLeaves DEF IInv, TypeOK
  <1> QED
    BY <1>1, <1>2 DEF IInv, TypeOK

LEMMA ReadyReadPreserves ==
    ASSUME IInv, NEW o \in Orders, ReadyRead(o)
    PROVE  IInv'
  <1>1. UNCHANGED <<order, admin, task, writer, been, sent, acked>>
    BY DEF ReadyRead
  <1>2. ready \in [Orders -> JobType] /\ JobsOK(ready, order, been, sent)
    BY DEF IInv, TypeOK
  <1>3. order[o].details \in Details /\ DocOK(o, order[o].details, been, sent)
    BY DEF IInv, TypeOK, OrderType, RowsOK
  <1>4. Blank \in Details
    BY FulfillmentAssumption DEF Blank, Details, Statuses, Canonical
  <1>5. ready' \in [Orders -> JobType] /\ JobsOK(ready', order, been, sent)
    <2>1. CASE order[o].pay = "paid"
      <3> DEFINE new == [pc |-> "read", read |-> order[o].details]
      <3>1. new \in JobType /\ new.pc = "read" /\ new.read = order[o].details
        BY <1>3 DEF JobType
      <3>2. ready' = [ready EXCEPT ![o] = new]
        BY <2>1 DEF ReadyRead
      <3> HIDE DEF new
      <3> QED
        BY <1>2, <1>3, <2>1, <3>1, <3>2, JobMoves
    <2>2. CASE order[o].pay # "paid"
      <3>1. NoJob \in JobType /\ NoJob.pc = "none"
        BY <1>4 DEF NoJob, JobType
      <3>2. ready' = [ready EXCEPT ![o] = NoJob]
        BY <2>2 DEF ReadyRead
      <3> QED
        BY <1>2, <3>1, <3>2, JobMoves
    <2> QED
      BY <2>1, <2>2
  <1> QED
    BY <1>1, <1>5 DEF IInv, TypeOK

LEMMA ReadyCommitPreserves ==
    ASSUME IInv, NEW o \in Orders, ReadyCommit(o)
    PROVE  IInv'
  <1> DEFINE d == [ready[o].read EXCEPT !.status = "ready"]
             new == [pc |-> "written", read |-> Blank]
  <1>1. /\ ready[o].pc = "read" /\ WriteDetails(o, d) /\ ready' = [ready EXCEPT ![o] = new]
        /\ UNCHANGED <<admin, task, writer, sent, acked>>
    BY DEF ReadyCommit
  <1>2. /\ ready \in [Orders -> JobType] /\ ready[o].read \in Details
        /\ DocOK(o, ready[o].read, been, sent) /\ order[o].pay = "paid"
    BY <1>1 DEF IInv, TypeOK, JobsOK, JobType
  <1>3. d \in Details /\ d.status = "ready" /\ d.notified = ready[o].read.notified
    BY <1>2 DEF Details, Statuses, Foreign
  <1>4. TableOK(order, been, sent)
    BY IInvTable
  <1>5. MayFollow(d.status, been[o])
    BY <1>3, <1>4, ForeignMayFollow DEF TableOK, Foreign
  <1>6. \A s \in d.notified : <<o, s>> \in sent
    BY <1>2, <1>3 DEF DocOK
  <1>7. /\ TableOK(order', been', sent) /\ Grows(been, been', sent, sent)
        /\ \A x \in Orders : order'[x].pay = order[x].pay
    <2> HIDE DEF d
    <2> QED
      BY <1>1, <1>3, <1>4, <1>5, <1>6, WriteDetailsKeeps
  <1>8. /\ AdminsOK(admin, been', sent) /\ TasksOK(task, been', sent)
        /\ WritersOK(writer, been', sent) /\ JobsOK(ready, order', been', sent)
    BY <1>7, OthersKeep
  <1>9. ready' \in [Orders -> JobType] /\ JobsOK(ready', order', been', sent)
    <2>1. Blank \in Details
      BY FulfillmentAssumption DEF Blank, Details, Statuses, Canonical
    <2>2. new \in JobType /\ new.pc = "written"
      BY <2>1 DEF JobType
    <2> HIDE DEF new
    <2>3. order'[o].pay = "paid"
      BY <1>2, <1>7
    <2>4. ready' \in [Orders -> JobType] /\ JobsOK(ready', order', been, sent)
      BY <1>1, <1>2, <1>7, <2>2, <2>3, JobMoves, JobsKeep DEF IInv
    <2> QED
      BY <1>7, <2>4, JobsGrow
  <1> QED
    BY <1>1, <1>7, <1>8, <1>9 DEF IInv, TypeOK, TableOK

\* The job leaves the two stages at which it has read the order.
LEMMA JobLeavesPreserves ==
    ASSUME IInv, NEW o \in Orders, NEW new \in JobType, new.pc \in {"none", "queued"},
           ready' = [ready EXCEPT ![o] = new],
           UNCHANGED <<order, admin, task, writer, been, sent, acked>>
    PROVE  IInv'
  <1>1. ready' \in [Orders -> JobType] /\ JobsOK(ready', order, been, sent)
    BY JobMoves DEF IInv, TypeOK
  <1> QED
    BY <1>1 DEF IInv, TypeOK

LEMMA ReadyEndsPreserves ==
    ASSUME IInv, NEW o \in Orders, ReadySend(o) \/ ReadyFails(o)
    PROVE  IInv'
  <1>1. Blank \in Details
    BY FulfillmentAssumption DEF Blank, Details, Statuses, Canonical
  <1>2. CASE ReadySend(o)
    <2>1. NoJob \in JobType /\ NoJob.pc = "none"
      BY <1>1 DEF NoJob, JobType
    <2> QED
      BY <1>2, <2>1, JobLeavesPreserves DEF ReadySend
  <1>3. CASE ReadyFails(o)
    <2>1. PICK pc \in {"queued", "none"} : ready' = [ready EXCEPT ![o] = [pc |-> pc, read |-> Blank]]
      BY <1>3 DEF ReadyFails
    <2> DEFINE new == [pc |-> pc, read |-> Blank]
    <2>2. new \in JobType /\ new.pc \in {"none", "queued"}
      BY <1>1 DEF JobType
    <2>3. ready' = [ready EXCEPT ![o] = new]
      BY <2>1
    <2> HIDE DEF new
    <2> QED
      BY <1>3, <2>2, <2>3, JobLeavesPreserves DEF ReadyFails
  <1> QED
    BY <1>2, <1>3
LEMMA WriterReadPreserves ==
    ASSUME IInv, NEW w \in Writers, NEW o \in Orders, NEW kind \in Kinds, WriterRead(w, o, kind)
    PROVE  IInv'
  <1> DEFINE v == IF kind \in {"resend", "touch"} THEN 0 ELSE order[o].version
             new == [pc |-> "read", order |-> o, read |-> order[o].details,
                     kind |-> kind, version |-> v]
  <1>1. UNCHANGED <<order, admin, task, ready, been, sent, acked>> /\ writer' = [writer EXCEPT ![w] = new]
    BY DEF WriterRead
  <1>2. /\ order[o].details \in Details /\ order[o].version \in Nat
        /\ DocOK(o, order[o].details, been, sent)
    BY DEF IInv, TypeOK, OrderType, RowsOK
  <1>3. kind \in AllKinds
    BY FulfillmentAssumption DEF AllKinds, Transitions, PayStatuses
  <1>4. v \in Nat
    BY <1>2
  <1>5. new \in WriterType /\ new.pc = "read" /\ new.order = o /\ new.read = order[o].details
    BY <1>2, <1>3, <1>4 DEF WriterType
  <1> HIDE DEF new
  <1>6. writer' \in [Writers -> WriterType]
    BY <1>1, <1>5 DEF IInv, TypeOK
  <1>7. WritersOK(writer', been, sent)
    <2> SUFFICES ASSUME NEW x \in Writers, writer'[x].pc # "idle"
                 PROVE  writer'[x].order \in Orders /\ DocOK(writer'[x].order, writer'[x].read, been, sent)
      BY DEF WritersOK
    <2>1. CASE x = w
      <3>1. writer'[x] = new
        BY <1>1, <2>1 DEF IInv, TypeOK
      <3> QED
        BY <1>2, <1>5, <3>1
    <2>2. CASE x # w
      <3>1. writer'[x] = writer[x]
        BY <1>1, <2>2 DEF IInv, TypeOK
      <3> QED
        BY <3>1 DEF IInv, WritersOK
    <2> QED
      BY <2>1, <2>2
  <1> QED
    BY <1>1, <1>6, <1>7 DEF IInv, TypeOK

\* What a writer at work has read.
LEMMA WriterHas ==
    ASSUME IInv, NEW w \in Writers, writer[w].pc = "read"
    PROVE  /\ writer[w] \in WriterType /\ writer[w].order \in Orders
           /\ writer[w].read \in Details /\ writer[w].version \in Nat
           /\ DocOK(writer[w].order, writer[w].read, been, sent)
  BY DEF IInv, TypeOK, WritersOK, WriterType

\* A writer's document, its status replaced by one that is no stage or left alone.
LEMMA WriterWrites ==
    ASSUME IInv, NEW w \in Writers, writer[w].pc = "read",
           NEW s, s \in Foreign \cup {"cancelled", "pending_payment"} \/ s = writer[w].read.status,
           NEW d, d = [writer[w].read EXCEPT !.status = s]
    PROVE  /\ d \in Details /\ MayFollow(d.status, been[writer[w].order])
           /\ \A x \in d.notified : <<writer[w].order, x>> \in sent
  <1> DEFINE r == writer[w]
  <1>1. /\ r \in WriterType /\ r.order \in Orders /\ r.read \in Details
        /\ DocOK(r.order, r.read, been, sent)
    BY WriterHas
  <1>2. s \in Statuses
    BY <1>1 DEF Details, Statuses, Canonical
  <1>3. d \in Details /\ d.status = s /\ d.notified = r.read.notified
    BY <1>1, <1>2 DEF Details
  <1>4. Ordered(been[r.order])
    BY <1>1 DEF IInv
  <1>5. MayFollow(s, been[r.order])
    <2>1. CASE s \in Foreign \cup {"cancelled", "pending_payment"}
      BY <1>4, <2>1, ForeignMayFollow
    <2>2. CASE s = r.read.status
      BY <1>1, <1>4, <2>2, ReadMayFollow DEF DocOK
    <2> QED
      BY <2>1, <2>2
  <1> QED
    BY <1>1, <1>3, <1>5 DEF DocOK

\* The rest of a writer's step.
LEMMA WriterDone ==
    ASSUME IInv, NEW w \in Writers, writer' = [writer EXCEPT ![w] = NoWrite],
           UNCHANGED <<admin, task, sent, acked>>,
           TableOK(order', been', sent), Grows(been, been', sent, sent),
           \A x \in Orders : order[x].pay = "paid" => order'[x].pay = "paid",
           ready' \in [Orders -> JobType],
           \A x \in Orders : ready'[x] = ready[x] \/ ready'[x].pc = "queued"
    PROVE  IInv'
  <1>1. /\ AdminsOK(admin, been', sent) /\ TasksOK(task, been', sent)
        /\ JobsOK(ready, order', been', sent)
    BY OthersKeep
  <1>2. writer' \in [Writers -> WriterType] /\ WritersOK(writer', been, sent)
    BY WriterLeaves DEF IInv, TypeOK
  <1>3. WritersOK(writer', been', sent)
    BY <1>2, WritersGrow
  <1>4. JobsOK(ready', order', been', sent)
    BY <1>1 DEF JobsOK
  <1> QED
    BY <1>1, <1>2, <1>3, <1>4 DEF IInv, TypeOK, TableOK

LEMMA TransitionPreserves ==
    ASSUME IInv, NEW w \in Writers, Transition(w)
    PROVE  IInv'
  <1> DEFINE r == writer[w]
             d == [r.read EXCEPT !.status = StatusOf(r.kind)]
  <1>1. /\ r.pc = "read" /\ r.kind \in Transitions /\ Swaps(r)
        /\ Write(r.order, r.kind, r.version + 1, d)
        /\ writer' = [writer EXCEPT ![w] = NoWrite]
        /\ UNCHANGED <<admin, task, sent, acked>>
    BY DEF Transition
  <1>2. r.order \in Orders /\ r.version \in Nat
    BY <1>1, WriterHas
  <1>3. r.kind \in PayStatuses /\ r.version + 1 \in Nat
    BY <1>1, <1>2 DEF Transitions
  <1>4. StatusOf(r.kind) \in Foreign \cup {"cancelled", "pending_payment"}
    BY <1>1 DEF StatusOf, Transitions, PayStatuses, Foreign
  <1>5. /\ d \in Details /\ MayFollow(d.status, been[r.order])
        /\ \A x \in d.notified : <<r.order, x>> \in sent
    BY <1>1, <1>4, WriterWrites
  <1>6. TableOK(order, been, sent)
    BY IInvTable
  <1>7. /\ TableOK(order', been', sent) /\ Grows(been, been', sent, sent)
        /\ \A x \in Orders : x # r.order => order'[x] = order[x]
        /\ order'[r.order].pay = r.kind
    <2> HIDE DEF d, r
    <2> QED
      BY <1>1, <1>2, <1>3, <1>5, <1>6, WriteKeeps
  <1>8. order[r.order].pay = "paid" => r.kind = "paid"
    BY <1>1 DEF Swaps, Sources, Transitions, PayStatuses
  <1>9. \A x \in Orders : order[x].pay = "paid" => order'[x].pay = "paid"
    BY <1>7, <1>8
  <1>10. /\ ready' \in [Orders -> JobType]
         /\ \A x \in Orders : ready'[x] = ready[x] \/ ready'[x].pc = "queued"
    <2>1. ready \in [Orders -> JobType]
      BY DEF IInv, TypeOK
    <2>2. ready' = ready \/ ready' = [ready EXCEPT ![r.order].pc = "queued"]
      BY DEF Transition
    <2> HIDE DEF r
    <2> QED
      BY <1>2, <2>1, <2>2 DEF JobType
  <1> QED
    BY <1>1, <1>7, <1>9, <1>10, WriterDone

LEMMA CancelCommitPreserves ==
    ASSUME IInv, NEW w \in Writers, CancelCommit(w)
    PROVE  IInv'
  <1> DEFINE r == writer[w]
             d == [r.read EXCEPT !.status = "cancelled"]
  <1>1. /\ r.pc = "read" /\ r.kind = "cancel" /\ writer' = [writer EXCEPT ![w] = NoWrite]
        /\ UNCHANGED <<admin, task, ready, sent, acked>>
    BY DEF CancelCommit
  <1>2. /\ r.order \in Orders /\ r.version \in Nat /\ r.version + 1 \in Nat
        /\ r.read \in Details /\ DocOK(r.order, r.read, been, sent)
    BY <1>1, WriterHas
  <1>3. TableOK(order, been, sent)
    BY IInvTable
  <1>4. /\ TableOK(order', been', sent) /\ Grows(been, been', sent, sent)
        /\ \A x \in Orders : order[x].pay = "paid" => order'[x].pay = "paid"
    <2>1. CASE Swaps(r)
      <3>1. Write(r.order, "cancelled", r.version + 1, d) /\ "cancelled" \in PayStatuses
        BY <2>1 DEF CancelCommit, PayStatuses
      <3>2. /\ d \in Details /\ MayFollow(d.status, been[r.order])
            /\ \A x \in d.notified : <<r.order, x>> \in sent
        BY <1>1, WriterWrites
      <3>3. order[r.order].pay = "pending"
        BY <1>1, <2>1 DEF Swaps, Sources
      <3> HIDE DEF d, r
      <3>4. /\ TableOK(order', been', sent) /\ Grows(been, been', sent, sent)
            /\ \A x \in Orders : x # r.order => order'[x] = order[x]
        BY <1>2, <1>3, <3>1, <3>2, WriteKeeps
      <3> QED
        BY <3>3, <3>4
    <2>2. CASE ~ Swaps(r)
      <3>1. WriteDetails(r.order, r.read)
        BY <2>2 DEF CancelCommit
      <3>2. MayFollow(r.read.status, been[r.order]) /\ \A x \in r.read.notified : <<r.order, x>> \in sent
        BY <1>2, <1>3, ReadMayFollow DEF DocOK, TableOK
      <3> HIDE DEF r
      <3>3. /\ TableOK(order', been', sent) /\ Grows(been, been', sent, sent)
            /\ \A x \in Orders : order'[x].pay = order[x].pay
        BY <1>2, <1>3, <3>1, <3>2, WriteDetailsKeeps
      <3> QED
        BY <3>3
    <2> QED
      BY <2>1, <2>2
  <1>5. ready' \in [Orders -> JobType] /\ \A x \in Orders : ready'[x] = ready[x]
    BY <1>1 DEF IInv, TypeOK
  <1> QED
    BY <1>1, <1>4, <1>5, WriterDone

LEMMA BlindCommitPreserves ==
    ASSUME IInv, NEW w \in Writers, BlindCommit(w)
    PROVE  IInv'
  <1> DEFINE r == writer[w]
             d == IF r.kind = "resend" THEN [r.read EXCEPT !.status = "pending_payment"] ELSE r.read
  <1>1. /\ r.pc = "read" /\ WriteDetails(r.order, d) /\ writer' = [writer EXCEPT ![w] = NoWrite]
        /\ UNCHANGED <<admin, task, ready, sent, acked>>
    BY DEF BlindCommit
  <1>2. r.order \in Orders /\ r.read \in Details /\ DocOK(r.order, r.read, been, sent)
    BY <1>1, WriterHas
  <1>3. TableOK(order, been, sent)
    BY IInvTable
  <1>4. /\ d \in Details /\ MayFollow(d.status, been[r.order])
        /\ \A x \in d.notified : <<r.order, x>> \in sent
    <2>1. CASE r.kind = "resend"
      BY <1>1, <2>1, WriterWrites
    <2>2. CASE r.kind # "resend"
      BY <1>2, <1>3, <2>2, ReadMayFollow DEF DocOK, TableOK
    <2> QED
      BY <2>1, <2>2
  <1>5. /\ TableOK(order', been', sent) /\ Grows(been, been', sent, sent)
        /\ \A x \in Orders : order'[x].pay = order[x].pay
    <2> HIDE DEF d, r
    <2> QED
      BY <1>1, <1>2, <1>3, <1>4, WriteDetailsKeeps
  <1>6. ready' \in [Orders -> JobType] /\ \A x \in Orders : ready'[x] = ready[x]
    BY <1>1 DEF IInv, TypeOK
  <1> QED
    BY <1>1, <1>5, <1>6, WriterDone

LEMMA WriterGivesUpPreserves ==
    ASSUME IInv, NEW w \in Writers, WriterGivesUp(w)
    PROVE  IInv'
  <1>1. /\ writer' = [writer EXCEPT ![w] = NoWrite]
        /\ UNCHANGED <<order, admin, task, ready, been, sent, acked>>
    BY DEF WriterGivesUp
  <1>2. writer' \in [Writers -> WriterType] /\ WritersOK(writer', been, sent)
    BY <1>1, WriterLeaves DEF IInv, TypeOK
  <1> QED
    BY <1>1, <1>2 DEF IInv, TypeOK

LEMMA NextPreserves == IInv /\ [Next]_vars => IInv'
  <1> SUFFICES ASSUME IInv, [Next]_vars PROVE IInv'
    OBVIOUS
  <1>1. CASE OpsNext
    BY <1>1, OpsReadPreserves, OpsFlushPreserves, OpsCommitPreserves, OpsAbortPreserves DEF OpsNext
  <1>2. CASE TaskNext
    BY <1>2, NotifyReadPreserves, NotifySendPreserves, NotifyCommitPreserves,
       NotifyFailsPreserves DEF TaskNext
  <1>3. CASE ReadyNext
    BY <1>3, ReadyReadPreserves, ReadyCommitPreserves, ReadyEndsPreserves DEF ReadyNext
  <1>4. CASE WriterNext
    BY <1>4, WriterReadPreserves, TransitionPreserves, CancelCommitPreserves,
       BlindCommitPreserves, WriterGivesUpPreserves DEF WriterNext
  <1>5. CASE UNCHANGED vars
    BY <1>5 DEF vars, IInv, TypeOK
  <1> QED
    BY <1>1, <1>2, <1>3, <1>4, <1>5 DEF Next

-----------------------------------------------------------------------------
(* The theorems *)

\* The inductive invariant holds of every behaviour.
THEOREM Invariance == Spec => []IInv
  <1> QED
    BY InitHolds, NextPreserves, PTL DEF Spec

\* The table, the processes and the jobs keep their types.
THEOREM TypeCorrect == Spec => []TypeOK
  <1>1. IInv => TypeOK
    BY DEF IInv
  <1> QED
    BY <1>1, Invariance, PTL

\* No order reaches a stage without having been at the stage before it, whatever
\* the admins, tasks, jobs, payments and chat turns overwrite.
THEOREM NoStageIsSkipped == Spec => []StagesInOrder
  <1>1. IInv => StagesInOrder
    BY OrderedIsInOrder DEF IInv
  <1> QED
    BY <1>1, Invariance, PTL

\* An order flagged as announced was announced.
THEOREM FlagsAreEarned == Spec => []FlaggedWasSent
  <1>1. IInv => FlaggedWasSent
    BY DEF IInv, RowsOK, DocOK, FlaggedWasSent
  <1> QED
    BY <1>1, Invariance, PTL

\* The pickup message of order.ready goes to customers who have paid.
THEOREM PickupsArePaid == Spec => []PickupIsPaid
  <1>1. IInv => PickupIsPaid
    BY DEF IInv, JobsOK, PickupIsPaid
  <1> QED
    BY <1>1, Invariance, PTL


-----------------------------------------------------------------------------
(* What overwriting breaks, and what the customer is shown.                *)

(* A step writes no document but o's, and o's only as described.            *)
LEMMA HarmlessWrite ==
    ASSUME TypeOK, NEW o \in Orders, NEW pay, NEW version, NEW d, Write(o, pay, version, d),
           \A x \in Orders : x # o => acked'[x] = acked[x],
           Overwrites(o) \/ (TableKept(o) /\ AuditKept(o))
    PROVE  \A x \in Orders : Overwrites(x) \/ (TableKept(x) /\ AuditKept(x))
  <1> SUFFICES ASSUME NEW x \in Orders, x # o
               PROVE  TableKept(x) /\ AuditKept(x)
    OBVIOUS
  <1>1. order'[x] = order[x]
    BY DEF Write, TypeOK
  <1> QED
    BY <1>1 DEF TableKept, AuditKept

(* The row as it is after a write. *)
LEMMA RowWritten ==
    ASSUME TypeOK, NEW o \in Orders, NEW pay, NEW version, NEW d, Write(o, pay, version, d)
    PROVE  order'[o].details = d
  BY DEF Write, TypeOK

LEMMA CommandFollowsTable ==
    ASSUME NEW s \in Statuses, NEW t \in Commands, CheckTransition(s, t)
    PROVE  s = t \/ Normalize(s) \in AllowedFrom[t]
  <1>1. t # "pending_payment"
    BY DEF Commands, Underway
  <1> QED
    BY <1>1 DEF CheckTransition, Normalize

LEMMA OpsCommitHarms ==
    ASSUME IInv, NEW a \in Admins, OpsCommit(a)
    PROVE  \A x \in Orders : Overwrites(x) \/ (TableKept(x) /\ AuditKept(x))
  <1> DEFINE r == admin[a]
             o == r.order
  <1>1. TypeOK /\ o \in Orders /\ CheckTransition(r.read.status, r.target)
    BY DEF IInv, AdminsOK, OpsCommit
  <1>2. r.read \in Details /\ r.target \in Commands
    BY <1>1 DEF TypeOK, AdminType
  <1>3. WriteDetails(o, Commanded(r)) /\ acked' = [acked EXCEPT ![o] = OneMore(@)]
    BY DEF OpsCommit
  <1>4. Write(o, order[o].pay, order[o].version, Commanded(r))
    BY <1>3 DEF WriteDetails
  <1>5. admin'[a].pc = "idle" /\ r.pc = "flushed"
    BY <1>1 DEF OpsCommit, TypeOK, NoAdmin
  <1>6. order'[o].details = Commanded(r)
    BY <1>1, <1>4, RowWritten
  <1>7. ASSUME ~Overwrites(o) PROVE TableKept(o) /\ AuditKept(o)
    <2>1. r.read = order[o].details
      BY <1>5, <1>7 DEF Overwrites
    <2>2. TableKept(o)
      <3>1. r.read.status = r.target \/ Normalize(r.read.status) \in AllowedFrom[r.target]
        BY <1>1, <1>2, CommandFollowsTable DEF Details
      <3>2. order'[o].details.status = r.target
        BY <1>6 DEF Commanded
      <3> QED
        BY <1>2, <2>1, <3>1, <3>2 DEF TableKept
    <2>3. AuditKept(o)
      <3>1. acked[o] \in 0 .. AuditKeep /\ acked'[o] = OneMore(acked[o])
        BY <1>1, <1>3 DEF TypeOK
      <3>2. order[o].details.audit \in 0 .. AuditKeep
        BY <1>2, <2>1 DEF Details
      <3>3. order'[o].details.audit = OneMore(order[o].details.audit)
        BY <1>6, <2>1 DEF Commanded
      <3> QED
        BY <3>1, <3>2, <3>3, FulfillmentAssumption DEF AuditKept, OneMore
    <2> QED
      BY <2>2, <2>3
  <1>8. \A x \in Orders : x # o => acked'[x] = acked[x]
    BY <1>1, <1>3 DEF TypeOK
  <1> QED
    BY <1>1, <1>4, <1>7, <1>8, HarmlessWrite

LEMMA NotifyCommitHarms ==
    ASSUME IInv, NEW k \in Tasks, NotifyCommit(k)
    PROVE  \A x \in Orders : Overwrites(x) \/ (TableKept(x) /\ AuditKept(x))
  <1> DEFINE r == task[k]
             o == r.order
  <1>1. TypeOK /\ o \in Orders
    BY DEF IInv, TasksOK, NotifyCommit
  <1>2. r.read \in Details
    BY <1>1 DEF TypeOK, TaskType
  <1>3. Write(o, order[o].pay, order[o].version, Flagged(r)) /\ acked' = acked
    BY DEF NotifyCommit, WriteDetails
  <1>4. task'[k].pc = "idle" /\ r.pc = "sent"
    BY <1>1 DEF NotifyCommit, TypeOK, NoTask
  <1>5. order'[o].details = Flagged(r)
    BY <1>1, <1>3, RowWritten
  <1>6. Flagged(r).status = r.read.status /\ Flagged(r).audit = r.read.audit
    BY <1>2 DEF Flagged, Details
  <1>7. ASSUME ~Overwrites(o) PROVE TableKept(o) /\ AuditKept(o)
    <2>1. r.read = order[o].details
      BY <1>4, <1>7 DEF Overwrites
    <2> QED
      BY <1>3, <1>5, <1>6, <2>1 DEF TableKept, AuditKept
  <1> QED
    BY <1>1, <1>3, <1>7, HarmlessWrite

LEMMA ReadyCommitHarms ==
    ASSUME IInv, NEW o \in Orders, ReadyCommit(o)
    PROVE  \A x \in Orders : Overwrites(x) \/ (TableKept(x) /\ AuditKept(x))
  <1> DEFINE d == [ready[o].read EXCEPT !.status = "ready"]
  <1>1. TypeOK /\ ready[o].read \in Details
    BY DEF IInv, TypeOK, JobType
  <1>2. Write(o, order[o].pay, order[o].version, d) /\ UNCHANGED <<acked, admin, task>>
    BY DEF ReadyCommit, WriteDetails
  <1>3. ready[o].pc = "read" /\ ready'[o].pc = "written"
    BY <1>1 DEF ReadyCommit, TypeOK
  <1>4. order'[o].details = d
    BY <1>1, <1>2, RowWritten
  <1>5. d.status = "ready" /\ d.audit = ready[o].read.audit
    BY <1>1 DEF Details
  <1>6. ASSUME ~Overwrites(o) PROVE TableKept(o) /\ AuditKept(o)
    <2>1. ready[o].read = order[o].details
      BY <1>3, <1>6 DEF Overwrites
    <2>2. "ready" \in Unconditional
      BY DEF Unconditional, Foreign
    <2>3. TableKept(o)
      BY <1>2, <1>4, <1>5, <2>2 DEF TableKept
    <2>4. AuditKept(o)
      BY <1>2, <1>4, <1>5, <2>1 DEF AuditKept
    <2> QED
      BY <2>3, <2>4
  <1> QED
    BY <1>1, <1>2, <1>6, HarmlessWrite

LEMMA WriterHarms ==
    ASSUME IInv, NEW w \in Writers, Transition(w) \/ CancelCommit(w) \/ BlindCommit(w)
    PROVE  \A x \in Orders : Overwrites(x) \/ (TableKept(x) /\ AuditKept(x))
  <1> DEFINE r == writer[w]
             o == r.order
  <1>1. r.pc = "read" /\ writer' = [writer EXCEPT ![w] = NoWrite]
        /\ UNCHANGED <<admin, task, acked>>
    BY DEF Transition, CancelCommit, BlindCommit
  <1>2. TypeOK /\ o \in Orders
    BY <1>1 DEF IInv, WritersOK
  <1>3. r.read \in Details /\ writer'[w].pc = "idle"
    BY <1>1, <1>2 DEF TypeOK, WriterType, NoWrite
  <1>4. \A s : [r.read EXCEPT !.status = s].status = s
               /\ [r.read EXCEPT !.status = s].audit = r.read.audit
    BY <1>3 DEF Details
  <1>5. ASSUME NEW pay, NEW version, NEW d, Write(o, pay, version, d),
               d.audit = r.read.audit,
               d.status = r.read.status \/ d.status \in Unconditional
        PROVE  \A x \in Orders : Overwrites(x) \/ (TableKept(x) /\ AuditKept(x))
    <2>1. order'[o].details = d
      BY <1>2, <1>5, RowWritten
    <2>2. ASSUME ~Overwrites(o) PROVE TableKept(o) /\ AuditKept(o)
      <3>1. r.read = order[o].details
        BY <1>1, <1>3, <2>2 DEF Overwrites
      <3> QED
        BY <1>1, <1>5, <2>1, <3>1 DEF TableKept, AuditKept
    <2> QED
      BY <1>1, <1>2, <1>5, <2>2, HarmlessWrite
  <1>6. CASE Transition(w)
    <2>1. Write(o, r.kind, r.version + 1, [r.read EXCEPT !.status = StatusOf(r.kind)])
      BY <1>6 DEF Transition
    <2>2. StatusOf(r.kind) \in Unconditional
      BY <1>6 DEF Transition, Transitions, PayStatuses, StatusOf, Unconditional, Foreign
    <2> QED
      BY <1>4, <1>5, <2>1, <2>2
  <1>7. CASE CancelCommit(w)
    <2>1. \/ Write(o, "cancelled", r.version + 1, [r.read EXCEPT !.status = "cancelled"])
          \/ Write(o, order[o].pay, order[o].version, r.read)
      BY <1>7 DEF CancelCommit, WriteDetails
    <2>2. "cancelled" \in Unconditional
      BY DEF Unconditional
    <2> QED
      BY <1>4, <1>5, <2>1, <2>2
  <1>8. CASE BlindCommit(w)
    <2>1. \/ Write(o, order[o].pay, order[o].version, [r.read EXCEPT !.status = "pending_payment"])
          \/ Write(o, order[o].pay, order[o].version, r.read)
      BY <1>8 DEF BlindCommit, WriteDetails
    <2>2. "pending_payment" \in Unconditional
      BY DEF Unconditional
    <2> QED
      BY <1>4, <1>5, <2>1, <2>2
  <1> QED
    BY <1>6, <1>7, <1>8

(* Whatever keeps the rows and the confirmations keeps both promises.      *)
LEMMA ReadersHarmNothing ==
    ASSUME UNCHANGED <<order, acked>>
    PROVE  \A x \in Orders : Overwrites(x) \/ (TableKept(x) /\ AuditKept(x))
  BY DEF TableKept, AuditKept

(* Only a writer that overwrites what another one committed since it read  *)
(* breaks the table of transitions or loses an audit entry, for any number *)
(* of orders, admins and jobs.                                             *)
THEOREM OverwritesAloneHarm == Spec => OnlyOverwritesHarm
  <1>1. IInv /\ [Next]_vars =>
          [\A o \in Orders : Overwrites(o) \/ (TableKept(o) /\ AuditKept(o))]_vars
    <2> SUFFICES ASSUME IInv, Next
                 PROVE  \A o \in Orders : Overwrites(o) \/ (TableKept(o) /\ AuditKept(o))
      OBVIOUS
    <2>1. CASE OpsNext
      BY <2>1, OpsCommitHarms, ReadersHarmNothing DEF OpsNext, OpsRead, OpsFlush, OpsAbort
    <2>2. CASE TaskNext
      BY <2>2, NotifyCommitHarms, ReadersHarmNothing DEF TaskNext, NotifyRead, NotifySend, NotifyFails
    <2>3. CASE ReadyNext
      BY <2>3, ReadyCommitHarms, ReadersHarmNothing DEF ReadyNext, ReadyRead, ReadySend, ReadyFails
    <2>4. CASE WriterNext
      BY <2>4, WriterHarms, ReadersHarmNothing DEF WriterNext, WriterRead, WriterGivesUp
    <2> QED
      BY <2>1, <2>2, <2>3, <2>4 DEF Next
  <1> QED
    BY Invariance, <1>1, PTL DEF Spec, OnlyOverwritesHarm

-----------------------------------------------------------------------------
LEMMA StepsAre ==
    /\ DOMAIN PageSteps = 1 .. 6 /\ Len(PageSteps) = 6
    /\ PageSteps[1] = "sourcing_in_progress" /\ PageSteps[2] = "quality_check"
    /\ PageSteps[3] = "packing" /\ PageSteps[4] = "ready_for_dispatch"
    /\ PageSteps[5] = "out_for_delivery" /\ PageSteps[6] = "delivered"
  BY DEF PageSteps

(* A step before the one under way, or of a delivered order, was begun.    *)
LEMMA CompleteIsBegun ==
    ASSUME NEW B, Ordered(B), NEW s, Backed(s, B), NEW n \in DOMAIN PageSteps,
           Timeline(s)[n] = "complete"
    PROVE  PageSteps[n] \in B /\ Begun(n) \in B
  <1>1. n \in {1, 2, 3, 4, 5, 6}
    BY StepsAre
  <1>2. n < ActiveStep(s) \/ s = "delivered"
    BY DEF Timeline
  <1>3. s \in Stages => s \in B
    BY DEF Backed
  <1>4. CASE s = "delivered"
    <2>1. {"sourcing_in_progress", "quality_check", "packing", "ready_for_dispatch",
           "out_for_delivery", "delivered"} \subseteq B
      BY <1>3, <1>4, StagesAre DEF Ordered
    <2> QED
      BY <1>1, <2>1, StepsAre DEF Begun
  <1>5. CASE s # "delivered" /\ n < ActiveStep(s)
    <2>1. s \in {"quality_check", "packing", "ready_for_dispatch", "out_for_delivery"}
      BY <1>1, <1>5 DEF ActiveStep
    <2>2. s \in B
      BY <1>3, <2>1, StagesAre
    <2>3. CASE s = "quality_check"
      <3>1. n = 1
        BY <1>1, <1>5, <2>3 DEF ActiveStep
      <3> QED
        BY <2>2, <2>3, <3>1, StepsAre DEF Ordered, Begun
    <2>4. CASE s = "packing"
      <3>1. n \in {1, 2}
        BY <1>1, <1>5, <2>4 DEF ActiveStep
      <3> QED
        BY <2>2, <2>4, <3>1, StepsAre DEF Ordered, Begun
    <2>5. CASE s = "ready_for_dispatch"
      <3>1. n \in {1, 2, 3}
        BY <1>1, <1>5, <2>5 DEF ActiveStep
      <3> QED
        BY <2>2, <2>5, <3>1, StepsAre DEF Ordered, Begun
    <2>6. CASE s = "out_for_delivery"
      <3>1. n \in {1, 2, 3, 4}
        BY <1>1, <1>5, <2>6 DEF ActiveStep
      <3> QED
        BY <2>2, <2>6, <3>1, StepsAre DEF Ordered, Begun
    <2> QED
      BY <2>1, <2>3, <2>4, <2>5, <2>6
  <1> QED
    BY <1>2, <1>4, <1>5

(* For any number of orders: a step that the order page shows as complete  *)
(* was begun and passed, and the chat says out for delivery or delivered   *)
(* only after quality check and packing.                                   *)
THEOREM PagesAreEarned == Spec => []PageIsEarned
  <1>1. ASSUME IInv PROVE PageIsEarned
    <2> SUFFICES ASSUME NEW o \in Orders
                 PROVE  /\ \A n \in DOMAIN PageSteps :
                              Page(order[o]).timeline[n] = "complete" =>
                                 {PageSteps[n], Begun(n)} \subseteq been[o]
                        /\ ChatStatus(order[o]) \in {"out for delivery", "delivered"} =>
                              {"quality_check", "packing"} \subseteq been[o]
      BY DEF PageIsEarned
    <2>1. Ordered(been[o]) /\ Backed(order[o].details.status, been[o])
          /\ order[o].pay \in PayStatuses
      BY <1>1 DEF IInv, RowsOK, DocOK, TypeOK, OrderType
    <2>2. Backed(Normalize(order[o].details.status), been[o])
      <3>1. "pending_payment" \notin Stages
        BY StagesAre
      <3> QED
        BY <2>1, <3>1 DEF Normalize, Backed
    <2>3. Page(order[o]).timeline = Timeline(Normalize(order[o].details.status))
      BY DEF Page
    <2>4. ASSUME ChatStatus(order[o]) \in {"out for delivery", "delivered"}
          PROVE  {"quality_check", "packing"} \subseteq been[o]
      <3>1. order[o].details.status \in {"out_for_delivery", "delivered"}
        <4>1. order[o].pay \notin {"out for delivery", "delivered"}
          BY <2>1 DEF PayStatuses
        <4> QED
          BY <2>4, <4>1 DEF ChatStatus
      <3>2. order[o].details.status \in been[o]
        BY <2>1, <3>1, StagesAre DEF Backed
      <3> QED
        BY <2>1, <3>1, <3>2 DEF Ordered
    <2>5. ASSUME NEW n \in DOMAIN PageSteps, Page(order[o]).timeline[n] = "complete"
          PROVE  {PageSteps[n], Begun(n)} \subseteq been[o]
      <3>1. Timeline(Normalize(order[o].details.status))[n] = "complete"
        BY <2>3, <2>5
      <3> QED
        BY <2>1, <2>2, <3>1, CompleteIsBegun
    <2> QED
      BY <2>4, <2>5
  <1> QED
    BY Invariance, <1>1, PTL
=============================================================================
