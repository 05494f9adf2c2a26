--------------------------- MODULE PaymentsProofs ---------------------------
(***************************************************************************)
(* The payment properties hold for any number of orders, checkouts and     *)
(* concurrent processes, for both providers and any poll budget.           *)
(*                                                                         *)
(* The inductive invariant IInv says that every copy of a pair (order,     *)
(* checkout) - in the table, in a job, in a process - agrees with the      *)
(* provider's books, that what a process believes the provider said was    *)
(* said, and that a recorded charge stands behind a paid order.            *)
(***************************************************************************)
EXTENDS Payments, TLAPS

USE ConstantsAssumption

\* What holds of the state s of a process.
ProcOK(s, own, said) ==
    /\ s \in ProcType
    /\ s.pc \notin {"idle", "claimed"} => s.order \in Orders
    /\ s.pc \in {"stk_sent", "chat_sent", "read", "fetched", "poll_again",
                 "nudged", "rechecked"}
          => s.ref \in Refs /\ own[s.ref] = s.order
    /\ s.pc = "claimed" => s.ref \in Refs
    /\ s.pc \in {"claimed", "read"} => s.result \in Results
    /\ s.pc \in {"claimed", "read", "fetched"} /\ s.result = "paid"
          => <<s.ref, "paid">> \in said
    /\ s.pc = "claimed" => s.n = 0
    /\ s.pc \in {"fetched", "poll_again"} => s.n \in 1 .. MaxPolls
    /\ s.pc = "poll_again" => s.n < MaxPolls

JobOK(j, own) ==
    /\ j \in JobType
    /\ j.kind # "ready" => own[j.ref] = j.order

RowOK(o, row, own) ==
    /\ row \in OrderType
    /\ row.ref # NoRef => own[row.ref] = o

ProcsOK == proc \in [Procs -> ProcType] /\ \A p \in Procs : ProcOK(proc[p], owner, notices)
JobsOK  == \A j \in jobs : JobOK(j, owner)
RowsOK  == order \in [Orders -> OrderType] /\ \A o \in Orders : RowOK(o, order[o], owner)

BooksOK ==
    /\ owner \in [Refs -> Orders \cup {NoOrder}]
    /\ notices \subseteq Refs \X Results
    /\ claimed \subseteq Refs \X (Results \cup {"any"})

\* A Daraja prompt is answered once.
OneResult ==
    Provider = "daraja" =>
        \A c \in Refs, s, t \in Results :
            <<c, s>> \in notices /\ <<c, t>> \in notices => s = t

\* A key is taken only by a notice that was given.
ClaimsAreOfNotices ==
    \A c \in Refs, s \in Results :
        Key(c, s) \in claimed =>
            \E t \in Results : Key(c, t) = Key(c, s) /\ <<c, t>> \in notices

RecordedIsPaid ==
    /\ fate \in [Refs -> Fates]
    /\ \A c \in Refs : fate[c] = "recorded" =>
           owner[c] \in Orders /\ order[owner[c]].status = "paid"

IInv ==
    /\ BooksOK
    /\ ProcsOK
    /\ JobsOK
    /\ RowsOK
    /\ OneResult
    /\ ClaimsAreOfNotices
    /\ RecordedIsPaid
    /\ ChargesAccountedFor

-----------------------------------------------------------------------------
(* Shapes                                                                  *)

\* The provider's books only grow.
Grows ==
    /\ \A c \in Refs : owner[c] # NoOrder => owner'[c] = owner[c]
    /\ notices \subseteq notices'

LEMMA IdleOK == ASSUME NEW own, NEW said PROVE ProcOK(Idle, own, said)
  BY DEF ProcOK, Idle, Knows, ProcType, Statuses, Unpaid

(* A process that has just read a row knows its status and version. *)
LEMMA ReadsOK ==
    ASSUME RowsOK, NEW o \in Orders, NEW c \in Refs \cup {NoRef},
           NEW result \in Results \cup {"open"}, NEW n \in 0 .. MaxPolls,
           NEW pc \in {"stk_sent", "cancel_read", "read", "rechecked"},
           NEW own, NEW said,
           pc # "cancel_read" => c \in Refs /\ own[c] = o,
           pc = "read" => result \in Results,
           result = "paid" => <<c, "paid">> \in said
    PROVE  ProcOK(Reads(pc, o, c, result, n), own, said)
  <1>1. order[o].status \in Statuses /\ order[o].version \in Nat
    BY DEF RowsOK, OrderType
  <1>2. Reads(pc, o, c, result, n) \in ProcType
    BY <1>1 DEF Reads, ProcType
  <1> QED
    BY <1>2 DEF Reads, ProcOK

(* What holds of a process goes on holding while the books grow. *)
LEMMA ProcOKGrows ==
    ASSUME BooksOK, Grows, NEW s, ProcOK(s, owner, notices)
    PROVE  ProcOK(s, owner', notices')
  <1>1. s.order \in Orders => s.order # NoOrder
    OBVIOUS
  <1> QED
    BY <1>1 DEF ProcOK, Grows

LEMMA JobOKGrows ==
    ASSUME BooksOK, Grows, NEW j, JobOK(j, owner)
    PROVE  JobOK(j, owner')
  BY DEF JobOK, Grows, JobType

LEMMA RowOKGrows ==
    ASSUME BooksOK, Grows, NEW o \in Orders, NEW row, RowOK(o, row, owner)
    PROVE  RowOK(o, row, owner')
  BY DEF RowOK, Grows, OrderType

(* One process moves to a good state; the others are where they were. *)
LEMMA OneMoves ==
    ASSUME BooksOK, ProcsOK, Grows, NEW p \in Procs, NEW s,
           Becomes(p, s), ProcOK(s, owner', notices')
    PROVE  ProcsOK'
  <1>1. proc' = [proc EXCEPT ![p] = s] /\ s \in ProcType /\ proc \in [Procs -> ProcType]
    BY DEF Becomes, ProcOK, ProcsOK
  <1>2. \A q \in Procs : ProcOK(proc'[q], owner', notices')
    <2> TAKE q \in Procs
    <2>1. CASE q = p
      BY <1>1, <2>1
    <2>2. CASE q # p
      <3>1. proc'[q] = proc[q] /\ ProcOK(proc[q], owner, notices)
        BY <1>1, <2>2 DEF ProcsOK
      <3> QED
        BY <3>1, ProcOKGrows
    <2> QED
      BY <2>1, <2>2
  <1> QED
    BY <1>1, <1>2 DEF ProcsOK

LEMMA NooneMoves ==
    ASSUME BooksOK, ProcsOK, Grows, UNCHANGED proc
    PROVE  ProcsOK'
  BY ProcOKGrows DEF ProcsOK

(* One row is rewritten; its reference is kept or is the order's own, and a
   paid row stays paid. *)
LEMMA OneRow ==
    ASSUME BooksOK, RowsOK, Grows, NEW o \in Orders, NEW row,
           RowOK(o, row, owner'), order' = [order EXCEPT ![o] = row]
    PROVE  RowsOK'
  <1>1. row \in OrderType /\ order \in [Orders -> OrderType]
    BY DEF RowOK, RowsOK
  <1>2. \A x \in Orders : RowOK(x, order'[x], owner')
    <2> TAKE x \in Orders
    <2>1. CASE x = o
      BY <1>1, <2>1
    <2>2. CASE x # o
      BY <1>1, <2>2, RowOKGrows DEF RowsOK
    <2> QED
      BY <2>1, <2>2
  <1> QED
    BY <1>1, <1>2 DEF RowsOK

LEMMA NoRow ==
    ASSUME BooksOK, RowsOK, Grows, UNCHANGED order
    PROVE  RowsOK'
  BY RowOKGrows DEF RowsOK

LEMMA JobsChange ==
    ASSUME BooksOK, JobsOK, Grows, \A j \in jobs' : j \in jobs \/ JobOK(j, owner')
    PROVE  JobsOK'
  BY JobOKGrows DEF JobsOK

LEMMA Frozen == ASSUME UNCHANGED <<owner, notices>> PROVE Grows
  BY DEF Grows

-----------------------------------------------------------------------------
(* What every step of a process has to show                                *)

PaidStays == \A o \in Orders : order[o].status = "paid" => order'[o].status = "paid"

LEMMA RecordedStays ==
    ASSUME RecordedIsPaid, PaidStays, Grows, UNCHANGED fate
    PROVE  RecordedIsPaid'
  BY DEF RecordedIsPaid, PaidStays, Grows

(* A miss is a fate, never a record, and never forgets one. *)
LEMMA MissFacts ==
    ASSUME RecordedIsPaid, NEW p \in Procs, proc[p].ref \in Refs,
           NEW why \in Fates \ {"open", "recorded"}
    PROVE  /\ FateOfMiss(p, why) \in [Refs -> Fates]
           /\ \A c \in Refs : FateOfMiss(p, why)[c] = "recorded" => fate[c] = "recorded"
           /\ \A c \in Refs : fate[c] # "open" => FateOfMiss(p, why)[c] # "open"
           /\ proc[p].result = "paid" => FateOfMiss(p, why)[proc[p].ref] # "open"
  <1>1. fate \in [Refs -> Fates] /\ fate[proc[p].ref] \in Fates
    BY DEF RecordedIsPaid
  <1>2. CASE proc[p].result = "paid"
    BY <1>1, <1>2 DEF FateOfMiss, Missed, Fates
  <1>3. CASE proc[p].result # "paid"
    BY <1>1, <1>3 DEF FateOfMiss
  <1> QED
    BY <1>2, <1>3

LEMMA StepPreserves ==
    ASSUME IInv, NEW p \in Procs, NEW s, Becomes(p, s),
           UNCHANGED <<notices, claimed>>, Grows, BooksOK',
           ProcOK(s, owner', notices'), RowsOK', JobsOK', RecordedIsPaid',
           \A c \in Refs : fate[c] # "open" => fate'[c] # "open",
           \A c \in Refs : HandledBy(p, c) =>
               \/ fate'[c] # "open"
               \/ s.pc = "read" /\ s.n = 0 /\ s.ref = c /\ s.result = "paid"
    PROVE  IInv'
  <1>1. ProcsOK'
    BY OneMoves DEF IInv
  <1>2. OneResult' /\ ClaimsAreOfNotices'
    BY DEF IInv, OneResult, ClaimsAreOfNotices, Key
  <1>3. ChargesAccountedFor'
    <2> SUFFICES ASSUME NEW c \in Refs,
                        <<c, "paid">> \in notices, Key(c, "paid") \in claimed,
                        fate'[c] = "open"
                 PROVE  \E q \in Procs : HandledBy(q, c)'
      BY DEF ChargesAccountedFor, Key
    <2>1. PICK q \in Procs : HandledBy(q, c)
      BY DEF IInv, ChargesAccountedFor
    <2>2. proc' = [proc EXCEPT ![p] = s] /\ proc \in [Procs -> ProcType]
      BY DEF Becomes, IInv, ProcsOK
    <2>3. CASE q = p
      BY <2>1, <2>2, <2>3 DEF HandledBy
    <2>4. CASE q # p
      BY <2>1, <2>2, <2>4 DEF HandledBy
    <2> QED
      BY <2>3, <2>4
  <1> QED
    BY <1>1, <1>2, <1>3 DEF IInv

(* The common case: no charge meets its fate. *)
LEMMA QuietStep ==
    ASSUME IInv, NEW p \in Procs, NEW s, Becomes(p, s),
           UNCHANGED <<notices, claimed, fate>>, Grows, BooksOK',
           ProcOK(s, owner', notices'), RowsOK', JobsOK', PaidStays,
           proc[p].pc \notin {"claimed", "read"}
    PROVE  IInv'
  <1>1. RecordedIsPaid'
    BY RecordedStays DEF IInv
  <1>2. \A c \in Refs : ~HandledBy(p, c)
    BY DEF HandledBy
  <1> QED
    BY <1>1, <1>2, StepPreserves

(* The still more common one: only the process and the queue change. *)
LEMMA LocalStep ==
    ASSUME IInv, NEW p \in Procs, NEW s, Becomes(p, s),
           UNCHANGED <<order, owner, notices, claimed, fate>>,
           ProcOK(s, owner, notices),
           \A j \in jobs' : j \in jobs \/ JobOK(j, owner),
           proc[p].pc \notin {"claimed", "read"}
    PROVE  IInv'
  <1>1. Grows
    BY Frozen
  <1>2. BooksOK'
    BY DEF IInv, BooksOK
  <1>3. RowsOK' /\ JobsOK' /\ PaidStays
    BY <1>1, NoRow, JobsChange DEF IInv, PaidStays
  <1> QED
    BY <1>1, <1>2, <1>3, QuietStep

(* What a process that is not idle refers to. *)
LEMMA ProcFacts ==
    ASSUME IInv, NEW p \in Procs
    PROVE  ProcOK(proc[p], owner, notices) /\ proc[p] \in ProcType
  BY DEF IInv, ProcsOK

-----------------------------------------------------------------------------
(* Steps that read *)
LEMMA ReadStepsPreserve ==
    ASSUME IInv, NEW p \in Procs, NEW o \in Orders,
           ChatRead(p, o) \/ CancelRead(p, o)
    PROVE  IInv'
  <1>1. /\ UNCHANGED <<order, owner, notices, claimed, jobs, fate>>
        /\ proc[p].pc = "idle"
    BY DEF ChatRead, CancelRead
  <1>2. RowsOK /\ 0 \in 0 .. MaxPolls
    BY DEF IInv
  <1>3. CASE CancelRead(p, o)
    <2>1. ProcOK(Reads("cancel_read", o, NoRef, "open", 0), owner, notices)
      BY <1>2, ReadsOK
    <2> QED
      BY <1>1, <1>3, <2>1, LocalStep DEF CancelRead
  <1>4. CASE ChatRead(p, o)
    <2>1. Knows("chat_read", o, NoRef, "open", 0) \in ProcType
      BY <1>2 DEF Knows, ProcType, Statuses, Unpaid
    <2>2. ProcOK(Knows("chat_read", o, NoRef, "open", 0), owner, notices)
      BY <2>1 DEF ProcOK, Knows
    <2> QED
      BY <1>1, <1>4, <2>2, LocalStep DEF ChatRead
  <1> QED
    BY <1>3, <1>4

LEMMA JobsOfTyped == ASSUME IInv, NEW o PROVE JobsOf(o) \in SUBSET JobType
  BY DEF IInv, JobsOK, JobOK, JobsOf

LEMMA SelectionsTyped ==
    ASSUME IInv, NEW p \in Procs, NEW drop \in Selections(p)
    PROVE  drop \in SUBSET JobType
  <1>1. proc[p] \in ProcType
    BY ProcFacts
  <1> QED
    BY <1>1, JobsOfTyped DEF Selections, ProcType

-----------------------------------------------------------------------------
(* Steps that open a checkout, or fail to                                  *)
LEMMA OpenFacts ==
    ASSUME IInv, NEW o \in Orders,
           UNCHANGED <<order, notices, claimed, fate>>, jobs' \subseteq jobs,
           UNCHANGED owner \/ \E c \in Refs : Open(o, c)
    PROVE  Grows /\ BooksOK' /\ RowsOK' /\ JobsOK' /\ PaidStays
  <1>1. Grows /\ BooksOK'
    <2>1. CASE UNCHANGED owner
      BY <2>1 DEF IInv, BooksOK, Grows
    <2>2. CASE \E c \in Refs : Open(o, c)
      BY <2>2 DEF IInv, BooksOK, Grows, Open
    <2> QED
      BY <2>1, <2>2
  <1> QED
    BY <1>1, NoRow, JobsChange DEF IInv, PaidStays

LEMMA StkRequestPreserves ==
    ASSUME IInv, NEW p \in Procs, NEW o \in Orders, NEW c \in Refs,
           StkRequest(p, o, c) \/ StkAnswerLost(p, o, c)
    PROVE  IInv'
  <1>1. /\ proc[p].pc = "idle"
        /\ Open(o, c)
        /\ UNCHANGED <<order, notices, claimed, jobs, fate>>
    BY DEF StkRequest, StkAnswerLost
  <1>2. Grows /\ BooksOK' /\ RowsOK' /\ JobsOK' /\ PaidStays
    BY <1>1, OpenFacts
  <1>3. CASE Becomes(p, Reads("stk_sent", o, c, "open", 0))
    <2>1. RowsOK /\ 0 \in 0 .. MaxPolls /\ owner'[c] = o
      BY <1>1 DEF IInv, Open, BooksOK
    <2>2. ProcOK(Reads("stk_sent", o, c, "open", 0), owner', notices')
      BY <2>1, ReadsOK
    <2> QED
      BY <1>1, <1>2, <1>3, <2>2, QuietStep
  <1>4. CASE UNCHANGED proc
    <2>1. Becomes(p, proc[p])
      BY <1>4 DEF Becomes, IInv, ProcsOK
    <2>2. ProcOK(proc[p], owner', notices')
      BY <1>2, ProcFacts, ProcOKGrows DEF IInv
    <2> QED
      BY <1>1, <1>2, <2>1, <2>2, QuietStep
  <1> QED
    BY <1>3, <1>4 DEF StkRequest, StkAnswerLost

LEMMA ChatSendPreserves ==
    ASSUME IInv, NEW p \in Procs, NEW c \in Refs, ChatSend(p, c)
    PROVE  IInv'
  <1>1. ProcOK(proc[p], owner, notices) /\ proc[p] \in ProcType
    BY ProcFacts
  <1>2. /\ proc[p].pc \in {"chat_read", "chat_again"}
        /\ Open(proc[p].order, c)
        /\ UNCHANGED <<order, notices, claimed, jobs, fate>>
    BY DEF ChatSend
  <1>3. proc[p].order \in Orders
    BY <1>1, <1>2 DEF ProcOK
  <1>4. Grows /\ BooksOK' /\ RowsOK' /\ JobsOK' /\ PaidStays
    BY <1>2, <1>3, OpenFacts
  <1>5. owner'[c] = proc[p].order
    BY <1>2 DEF Open, IInv, BooksOK
  <1>6. PICK drop \in Selections(p) :
            Becomes(p, [proc[p] EXCEPT !.pc = "chat_sent", !.ref = c, !.drop = drop])
    BY DEF ChatSend
  <1>7. drop \in SUBSET JobType
    BY <1>6, SelectionsTyped
  <1> DEFINE s == [proc[p] EXCEPT !.pc = "chat_sent", !.ref = c, !.drop = drop]
  <1>8. s \in ProcType
    BY <1>1, <1>7 DEF ProcType
  <1>9. s.pc = "chat_sent" /\ s.ref = c /\ s.order = proc[p].order
    BY <1>1 DEF ProcType
  <1>10. ProcOK(s, owner', notices')
    <2> HIDE DEF s
    <2> QED
      BY <1>3, <1>5, <1>8, <1>9 DEF ProcOK
  <1> QED
    BY <1>2, <1>4, <1>6, <1>10, QuietStep

LEMMA ChatSendFailsPreserves ==
    ASSUME IInv, NEW p \in Procs, ChatSendFails(p)
    PROVE  IInv'
  <1>1. ProcOK(proc[p], owner, notices) /\ proc[p] \in ProcType
    BY ProcFacts
  <1>2. /\ proc[p].pc \in {"chat_read", "chat_again"}
        /\ UNCHANGED <<order, notices, claimed, fate>>
        /\ UNCHANGED owner \/ \E c \in Refs : Open(proc[p].order, c)
        /\ jobs' \subseteq jobs
    BY DEF ChatSendFails
  <1>3. proc[p].order \in Orders
    BY <1>1, <1>2 DEF ProcOK
  <1>4. Grows /\ BooksOK' /\ RowsOK' /\ JobsOK' /\ PaidStays
    BY <1>2, <1>3, OpenFacts
  <1>5. CASE Ends(p)
    BY <1>2, <1>4, <1>5, IdleOK, QuietStep DEF Ends
  <1>6. ASSUME NEW drop \in Selections(p),
               Becomes(p, [proc[p] EXCEPT !.pc = "chat_again", !.drop = drop])
        PROVE  IInv'
    <2> DEFINE s == [proc[p] EXCEPT !.pc = "chat_again", !.drop = drop]
    <2>1. drop \in SUBSET JobType
      BY <1>6, SelectionsTyped
    <2>2. s \in ProcType
      BY <1>1, <2>1 DEF ProcType
    <2>3. s.pc = "chat_again" /\ s.order = proc[p].order
      BY <1>1 DEF ProcType
    <2>4. ProcOK(s, owner', notices')
      <3> HIDE DEF s
      <3> QED
        BY <1>3, <2>2, <2>3 DEF ProcOK
    <2> QED
      BY <1>2, <1>4, <1>6, <2>4, QuietStep
  <1> QED
    BY <1>5, <1>6 DEF ChatSendFails

-----------------------------------------------------------------------------
(* Steps that write the order and queue its job                            *)
LEMMA FirstJobOK ==
    ASSUME NEW o \in Orders, NEW c \in Refs, owner[c] = o
    PROVE  JobOK(FirstJob(o, c), owner)
  <1>1. 1 \in 1 .. MaxPolls
    OBVIOUS
  <1>2. FirstJob(o, c) \in JobType
    BY <1>1 DEF FirstJob, JobType
  <1> QED
    BY <1>2 DEF JobOK, FirstJob

(* The row of a process moved by the guarded write. *)
LEMMA MovedFacts ==
    ASSUME IInv, NEW p \in Procs, proc[p].order \in Orders,
           NEW status \in Statuses, UNCHANGED <<owner, notices>>,
           order' = Moved(p, status)
    PROVE  /\ RowsOK'
           /\ order'[proc[p].order].status = status
           /\ \A o \in Orders \ {proc[p].order} : order'[o] = order[o]
  <1> DEFINE o == proc[p].order
             row == [order[o] EXCEPT !.status = status, !.version = @ + 1]
  <1>1. order \in [Orders -> OrderType] /\ RowOK(o, order[o], owner)
    BY DEF IInv, RowsOK
  <1>2. row \in OrderType /\ row.ref = order[o].ref /\ row.status = status
    <2>1. order[o] \in OrderType /\ order[o].version \in Nat
      BY <1>1 DEF OrderType
    <2>2. order[o].version + 1 \in Nat
      BY <2>1
    <2>3. row \in OrderType
      BY <2>1, <2>2 DEF OrderType
    <2> QED
      BY <2>1, <2>3 DEF OrderType
  <1>3. order' = [order EXCEPT ![o] = row]
    BY <1>1 DEF Moved
  <1>4. RowOK(o, row, owner')
    BY <1>1, <1>2 DEF RowOK
  <1>5. RowsOK'
    BY <1>3, <1>4, Frozen, OneRow DEF IInv
  <1> QED
    BY <1>1, <1>2, <1>3, <1>5

LEMMA BooksStay ==
    ASSUME IInv, UNCHANGED <<owner, notices, claimed>> PROVE BooksOK' /\ Grows
  BY Frozen DEF IInv, BooksOK

LEMMA WinsFacts ==
    ASSUME NEW p, NEW from, Wins(p, from), "paid" \notin from
    PROVE  order[proc[p].order].status # "paid"
  BY DEF Wins

LEMMA StkCommitPreserves ==
    ASSUME IInv, NEW p \in Procs, StkCommit(p)
    PROVE  IInv'
  <1> DEFINE o == proc[p].order
             c == proc[p].ref
  <1>1. /\ proc[p].pc = "stk_sent"
        /\ Ends(p)
        /\ UNCHANGED <<owner, notices, claimed, fate>>
    BY DEF StkCommit
  <1>2. o \in Orders /\ c \in Refs /\ owner[c] = o
    BY <1>1, ProcFacts DEF ProcOK
  <1>3. CASE UNCHANGED <<order, jobs>>
    BY <1>1, <1>3, IdleOK, LocalStep DEF Ends
  <1>4. CASE /\ Wins(p, Unpaid)
             /\ order' = [Moved(p, "pending") EXCEPT ![o].ref = c]
             /\ jobs' = jobs \cup {FirstJob(o, c)}
    <2> DEFINE row == [order[o] EXCEPT !.status = "pending", !.version = @ + 1, !.ref = c]
    <2>1. order \in [Orders -> OrderType] /\ order[o] \in OrderType
      BY <1>2 DEF IInv, RowsOK
    <2>2. row \in OrderType /\ row.ref = c
      <3>1. order[o].version + 1 \in Nat /\ "pending" \in Statuses
        BY <2>1 DEF OrderType, Statuses, Unpaid
      <3>2. row \in OrderType
        BY <1>2, <2>1, <3>1 DEF OrderType
      <3> QED
        BY <2>1, <3>2 DEF OrderType
    <2>3. order' = [order EXCEPT ![o] = row]
      BY <1>2, <1>4, <2>1 DEF Moved
    <2>4. RowOK(o, row, owner')
      BY <1>1, <1>2, <2>2 DEF RowOK
    <2>5. BooksOK' /\ Grows
      BY <1>1, BooksStay
    <2>6. RowsOK'
      BY <1>2, <2>3, <2>4, <2>5, OneRow DEF IInv
    <2>7. JobsOK'
      BY <1>1, <1>2, <1>4, <2>5, FirstJobOK, JobsChange DEF IInv
    <2>8. PaidStays
      BY <1>2, <1>4, <2>1, <2>3, WinsFacts DEF PaidStays, Unpaid
    <2> QED
      BY <1>1, <2>5, <2>6, <2>7, <2>8, IdleOK, QuietStep DEF Ends
  <1> QED
    BY <1>3, <1>4 DEF StkCommit

LEMMA ChatCommitPreserves ==
    ASSUME IInv, NEW p \in Procs, ChatCommit(p)
    PROVE  IInv'
  <1> DEFINE o == proc[p].order
             c == proc[p].ref
  <1>1. /\ proc[p].pc = "chat_sent"
        /\ Ends(p)
        /\ order' = [order EXCEPT ![o].ref = c]
        /\ UNCHANGED <<owner, notices, claimed, fate>>
        /\ \A j \in jobs' : j \in jobs \/ j = FirstJob(o, c)
    BY DEF ChatCommit
  <1>2. o \in Orders /\ c \in Refs /\ owner[c] = o
    BY <1>1, ProcFacts DEF ProcOK
  <1> DEFINE row == [order[o] EXCEPT !.ref = c]
  <1>3. order \in [Orders -> OrderType] /\ order[o] \in OrderType
    BY <1>2 DEF IInv, RowsOK
  <1>4. row \in OrderType /\ row.ref = c /\ row.status = order[o].status
    BY <1>2, <1>3 DEF OrderType
  <1>5. order' = [order EXCEPT ![o] = row]
    BY <1>1, <1>3
  <1>6. RowOK(o, row, owner')
    BY <1>1, <1>2, <1>4 DEF RowOK
  <1>7. BooksOK' /\ Grows
    BY <1>1, BooksStay
  <1>8. RowsOK'
    BY <1>2, <1>5, <1>6, <1>7, OneRow DEF IInv
  <1>9. JobsOK'
    BY <1>1, <1>2, <1>7, FirstJobOK, JobsChange DEF IInv
  <1>10. PaidStays
    BY <1>2, <1>3, <1>4, <1>5 DEF PaidStays
  <1> QED
    BY <1>1, <1>7, <1>8, <1>9, <1>10, IdleOK, QuietStep DEF Ends

(* The customer's cancellation and the follow-up's timeout end a pending
   order in the same way. *)
LEMMA GiveUpPreserves ==
    ASSUME IInv, NEW p \in Procs, CancelCommit(p) \/ FollowupApply(p)
    PROVE  IInv'
  <1>1. /\ proc[p].pc \in {"cancel_read", "rechecked"}
        /\ Ends(p)
        /\ UNCHANGED <<owner, notices, claimed, fate>>
        /\ jobs' \subseteq jobs
    BY DEF CancelCommit, FollowupApply
  <1>2. proc[p].order \in Orders
    BY <1>1, ProcFacts DEF ProcOK
  <1>3. CASE UNCHANGED order
    BY <1>1, <1>3, IdleOK, LocalStep DEF Ends
  <1>4. ASSUME NEW status \in {"cancelled", "timeout"},
               Wins(p, {"pending"}), order' = Moved(p, status)
        PROVE  IInv'
    <2>1. RowsOK' /\ \A o \in Orders \ {proc[p].order} : order'[o] = order[o]
      BY <1>1, <1>2, <1>4, MovedFacts DEF Statuses, Unpaid
    <2>2. PaidStays
      BY <1>4, <2>1, WinsFacts DEF PaidStays
    <2>3. BooksOK' /\ Grows
      BY <1>1, BooksStay
    <2>4. JobsOK'
      BY <1>1, <2>3, JobsChange DEF IInv
    <2> QED
      BY <1>1, <2>1, <2>2, <2>3, <2>4, IdleOK, QuietStep DEF Ends
  <1> QED
    BY <1>3, <1>4 DEF CancelCommit, FollowupApply

-----------------------------------------------------------------------------
(* The jobs                                                                *)
LEMMA JobFacts ==
    ASSUME IInv, NEW j \in jobs
    PROVE  /\ j.order \in Orders
           /\ j.kind \in {"followup", "poll"} => j.ref \in Refs /\ owner[j.ref] = j.order
           /\ j.kind = "poll" => j.n \in 1 .. MaxPolls
  BY DEF IInv, JobsOK, JobOK, JobType

(* What the poller reads from the provider was said by the provider. *)
LEMMA FetchedFacts ==
    ASSUME NEW c
    PROVE  /\ Fetched(c) \in Results \cup {"open"}
           /\ Fetched(c) = "paid" => <<c, "paid">> \in notices
  BY DEF Fetched, Answered, Results, Declines

LEMMA FollowupReadsPreserve ==
    ASSUME IInv, NEW p \in Procs,
           (\E j \in jobs : FollowupStart(p, j)) \/ FollowupRecheck(p)
    PROVE  IInv'
  <1>1. /\ UNCHANGED <<order, owner, notices, claimed, fate>>
        /\ proc[p].pc \in {"idle", "nudged"}
        /\ jobs' \subseteq jobs
    BY DEF FollowupStart, FollowupRecheck, Take
  <1>2. ASSUME NEW j \in jobs, j.kind = "followup",
               Becomes(p, Knows("nudged", j.order, j.ref, "open", 0))
        PROVE  IInv'
    <2>1. j.order \in Orders /\ j.ref \in Refs /\ owner[j.ref] = j.order
      BY <1>2, JobFacts
    <2>2. 0 \in 0 .. MaxPolls
      OBVIOUS
    <2>3. Knows("nudged", j.order, j.ref, "open", 0) \in ProcType
      BY <2>1, <2>2 DEF Knows, ProcType, Statuses, Unpaid
    <2>4. ProcOK(Knows("nudged", j.order, j.ref, "open", 0), owner, notices)
      BY <2>1, <2>3 DEF ProcOK, Knows
    <2> QED
      BY <1>1, <1>2, <2>4, LocalStep
  <1>3. CASE UNCHANGED proc /\ \E j \in jobs : FollowupStart(p, j)
    <2>1. Becomes(p, proc[p])
      BY <1>3 DEF Becomes, IInv, ProcsOK
    <2> QED
      BY <1>1, <2>1, ProcFacts, LocalStep
  <1>4. CASE FollowupRecheck(p)
    <2> DEFINE s == Reads("rechecked", proc[p].order, proc[p].ref, "open", 0)
    <2>1. proc[p].order \in Orders /\ proc[p].ref \in Refs
          /\ owner[proc[p].ref] = proc[p].order
      BY <1>4, ProcFacts DEF FollowupRecheck, ProcOK
    <2>2. RowsOK /\ 0 \in 0 .. MaxPolls
      BY DEF IInv
    <2>3. ProcOK(s, owner, notices)
      BY <2>1, <2>2, ReadsOK
    <2> QED
      BY <1>1, <1>4, <2>3, IdleOK, LocalStep DEF FollowupRecheck, Ends
  <1> QED
    BY <1>2, <1>3, <1>4 DEF FollowupStart

LEMMA PollFetchPreserves ==
    ASSUME IInv, NEW p \in Procs, NEW j \in jobs, PollFetch(p, j)
    PROVE  IInv'
  <1> DEFINE s == Knows("fetched", j.order, j.ref, Fetched(j.ref), j.n)
  <1>1. /\ j.order \in Orders /\ j.ref \in Refs /\ owner[j.ref] = j.order
        /\ j.n \in 1 .. MaxPolls /\ j.n \in 0 .. MaxPolls
    BY JobFacts DEF PollFetch
  <1>2. Fetched(j.ref) \in Results \cup {"open"}
        /\ (Fetched(j.ref) = "paid" => <<j.ref, "paid">> \in notices)
    BY FetchedFacts
  <1>3. s \in ProcType
    BY <1>1, <1>2 DEF Knows, ProcType, Statuses, Unpaid
  <1>4. ProcOK(s, owner, notices)
    BY <1>1, <1>2, <1>3 DEF ProcOK, Knows
  <1> QED
    BY <1>4, LocalStep DEF PollFetch, Take

LEMMA PollAgainPreserves ==
    ASSUME IInv, NEW p \in Procs, PollStillPending(p) \/ PollEnqueue(p)
    PROVE  IInv'
  <1>1. ProcOK(proc[p], owner, notices) /\ proc[p] \in ProcType
    BY ProcFacts
  <1>2. CASE PollStillPending(p) /\ Goes(p, "poll_again")
    <2>1. proc[p].pc = "fetched" /\ proc[p].n < MaxPolls /\ proc[p].result = "open"
      <3>1. proc[p].pc = "fetched" /\ proc[p].result = "open"
        BY <1>2 DEF PollStillPending
      <3>2. CASE proc[p].n < MaxPolls
        BY <3>1, <3>2
      <3>3. CASE ~(proc[p].n < MaxPolls)
        <4>1. Becomes(p, Idle) /\ Becomes(p, [proc[p] EXCEPT !.pc = "poll_again"])
          BY <1>2, <3>3 DEF PollStillPending, Goes, Ends
        <4>2. Idle = [proc[p] EXCEPT !.pc = "poll_again"]
          BY <4>1 DEF Becomes, IInv, ProcsOK
        <4>3. Idle.pc = "idle" /\ [proc[p] EXCEPT !.pc = "poll_again"].pc = "poll_again"
          BY <1>1 DEF Idle, Knows, ProcType
        <4> QED
          BY <4>2, <4>3
      <3> QED
        BY <3>2, <3>3
    <2>2. [proc[p] EXCEPT !.pc = "poll_again"] \in ProcType
      BY <1>1 DEF ProcType
    <2>3. ProcOK([proc[p] EXCEPT !.pc = "poll_again"], owner, notices)
      BY <1>1, <2>1, <2>2 DEF ProcOK, ProcType
    <2> QED
      BY <1>2, <2>1, <2>3, LocalStep DEF PollStillPending, Goes
  <1>3. CASE PollStillPending(p) /\ Ends(p)
    BY <1>3, IdleOK, LocalStep DEF PollStillPending, Ends
  <1>4. CASE PollEnqueue(p)
    <2> DEFINE j == [kind |-> "poll", order |-> proc[p].order,
                     ref |-> proc[p].ref, n |-> proc[p].n + 1]
    <2>1. /\ proc[p].order \in Orders /\ proc[p].ref \in Refs
          /\ owner[proc[p].ref] = proc[p].order
          /\ proc[p].n \in 1 .. MaxPolls /\ proc[p].n < MaxPolls
      BY <1>1, <1>4 DEF PollEnqueue, ProcOK
    <2>2. proc[p].n + 1 \in 1 .. MaxPolls
      BY <2>1
    <2>3. j \in JobType
      BY <2>1, <2>2 DEF JobType
    <2>4. JobOK(j, owner)
      BY <2>1, <2>3 DEF JobOK
    <2> QED
      BY <1>4, <2>4, IdleOK, LocalStep DEF PollEnqueue, Ends
  <1> QED
    BY <1>2, <1>3, <1>4 DEF PollStillPending

-----------------------------------------------------------------------------
(* What the provider said, applied to the order                            *)

(* A step of p that leaves the order and meets the fate of p's charge. *)
LEMMA MissPreserves ==
    ASSUME IInv, NEW p \in Procs, proc[p].ref \in Refs,
           NEW why \in Fates \ {"open", "recorded"},
           UNCHANGED <<order, owner, notices, claimed>>,
           \A j \in jobs' : j \in jobs \/ JobOK(j, owner),
           fate' = FateOfMiss(p, why), Ends(p)
    PROVE  IInv'
  <1>1. BooksOK' /\ Grows
    BY BooksStay
  <1>2. RowsOK' /\ JobsOK'
    BY <1>1, NoRow, JobsChange DEF IInv
  <1>3. RecordedIsPaid /\ RecordedIsPaid'
    BY MissFacts DEF IInv, RecordedIsPaid
  <1>4. \A c \in Refs : fate[c] # "open" => fate'[c] # "open"
    BY <1>3, MissFacts
  <1>5. \A c \in Refs : HandledBy(p, c) => fate'[c] # "open"
    BY <1>3, MissFacts DEF HandledBy
  <1> QED
    BY <1>1, <1>2, <1>3, <1>4, <1>5, IdleOK, StepPreserves DEF Ends

(* A step of p that ends it without a charge to account for. *)
LEMMA NothingLost ==
    ASSUME IInv, NEW p \in Procs, proc[p].result # "paid" \/ proc[p].n # 0,
           UNCHANGED <<order, owner, notices, claimed, fate>>,
           \A j \in jobs' : j \in jobs \/ JobOK(j, owner), Ends(p)
    PROVE  IInv'
  <1>1. BooksOK' /\ Grows
    BY BooksStay
  <1>2. RowsOK' /\ JobsOK' /\ RecordedIsPaid'
    BY <1>1, NoRow, JobsChange DEF IInv, RecordedIsPaid
  <1>3. \A c \in Refs : ~HandledBy(p, c)
    BY DEF HandledBy
  <1> QED
    BY <1>1, <1>2, <1>3, IdleOK, StepPreserves DEF Ends

LEMMA InspectPreserves ==
    ASSUME IInv, NEW p \in Procs, NEW o \in Orders, Inspect(p, o),
           proc[p].ref \in Refs, owner[proc[p].ref] = o, proc[p].result \in Results,
           proc[p].result = "paid" => <<proc[p].ref, "paid">> \in notices,
           UNCHANGED <<order, owner, notices, claimed, jobs>>
    PROVE  IInv'
  <1>1. CASE fate' = FateOfMiss(p, "already") /\ Ends(p)
    BY <1>1, MissPreserves DEF Fates
  <1>2. CASE Ignored(o, proc[p].result) /\ Ends(p) /\ UNCHANGED fate
    BY <1>2, NothingLost DEF Ignored
  <1>3. CASE /\ Becomes(p, Reads("read", o, proc[p].ref, proc[p].result, proc[p].n))
             /\ UNCHANGED fate
    <2> DEFINE s == Reads("read", o, proc[p].ref, proc[p].result, proc[p].n)
    <2>1. proc[p] \in ProcType /\ proc[p].n \in 0 .. MaxPolls /\ RowsOK
      BY ProcFacts DEF IInv, ProcType
    <2>2. ProcOK(s, owner, notices)
      BY <2>1, ReadsOK
    <2>3. BooksOK' /\ Grows
      BY BooksStay
    <2>4. RowsOK' /\ JobsOK' /\ RecordedIsPaid'
      BY <1>3, <2>3, NoRow, JobsChange DEF IInv, RecordedIsPaid
    <2>5. s.pc = "read" /\ s.ref = proc[p].ref /\ s.result = proc[p].result
          /\ s.n = proc[p].n
      BY DEF Reads
    <2>6. \A c \in Refs : HandledBy(p, c) =>
              s.pc = "read" /\ s.n = 0 /\ s.ref = c /\ s.result = "paid"
      BY <2>5 DEF HandledBy
    <2> HIDE DEF s
    <2> QED
      BY <1>3, <2>2, <2>3, <2>4, <2>6, StepPreserves DEF s
  <1> QED
    BY <1>1, <1>2, <1>3 DEF Inspect

LEMMA ReadCallbackPreserves ==
    ASSUME IInv, NEW p \in Procs,
           CallbackRead(p) \/ PollRead(p) \/ CallbackRefused(p)
    PROVE  IInv'
  <1>1. ProcOK(proc[p], owner, notices) /\ proc[p] \in ProcType
    BY ProcFacts
  <1>2. /\ UNCHANGED <<order, owner, notices, claimed, jobs>>
        /\ proc[p].pc \in {"claimed", "fetched", "read"}
    BY DEF CallbackRead, PollRead, CallbackRefused
  <1>3. proc[p].ref \in Refs
    BY <1>1, <1>2 DEF ProcOK
  <1>4. ASSUME NEW o \in Orders, proc[p].pc = "claimed", order[o].ref = proc[p].ref,
               Inspect(p, o)
        PROVE  IInv'
    <2>1. owner[proc[p].ref] = o
      BY <1>3, <1>4 DEF IInv, RowsOK, RowOK
    <2>2. proc[p].result \in Results
          /\ (proc[p].result = "paid" => <<proc[p].ref, "paid">> \in notices)
      BY <1>1, <1>4 DEF ProcOK
    <2> QED
      BY <1>2, <1>3, <1>4, <2>1, <2>2, InspectPreserves
  <1>5. CASE PollRead(p)
    <2>1. proc[p].order \in Orders /\ owner[proc[p].ref] = proc[p].order
      BY <1>1, <1>5 DEF PollRead, ProcOK
    <2>2. proc[p].result \in Results
          /\ (proc[p].result = "paid" => <<proc[p].ref, "paid">> \in notices)
      BY <1>1, <1>5 DEF PollRead, ProcOK, ProcType
    <2> QED
      BY <1>2, <1>3, <1>5, <2>1, <2>2, InspectPreserves DEF PollRead
  <1>6. CASE Ends(p) /\ \E why \in {"unknown", "refused"} : fate' = FateOfMiss(p, why)
    BY <1>2, <1>3, <1>6, MissPreserves DEF Fates
  <1> QED
    BY <1>4, <1>5, <1>6 DEF CallbackRead, CallbackRefused

(* A charge is recorded: its order was unpaid and is paid now. *)
LEMMA RecordPreserves ==
    ASSUME IInv, NEW p \in Procs, proc[p].pc = "read", proc[p].result = "paid",
           Wins(p, Unpaid), order' = Moved(p, "paid"),
           jobs' = jobs \cup {[kind |-> "ready", order |-> proc[p].order]},
           fate' = [fate EXCEPT ![proc[p].ref] = "recorded"],
           UNCHANGED <<owner, notices, claimed>>, Ends(p)
    PROVE  IInv'
  <1> DEFINE o == proc[p].order
             c == proc[p].ref
  <1>1. o \in Orders /\ c \in Refs /\ owner[c] = o
    BY ProcFacts DEF ProcOK
  <1>2. /\ RowsOK'
        /\ order'[o].status = "paid"
        /\ \A x \in Orders \ {o} : order'[x] = order[x]
    BY <1>1, MovedFacts DEF Statuses
  <1>3. BooksOK' /\ Grows
    BY BooksStay
  <1>4. JobsOK'
    <2>1. JobOK([kind |-> "ready", order |-> o], owner')
      BY <1>1 DEF JobOK, JobType
    <2> QED
      BY <1>3, <2>1, JobsChange DEF IInv
  <1>5. fate \in [Refs -> Fates]
    BY DEF IInv, RecordedIsPaid
  <1>6. RecordedIsPaid'
    <2>1. fate' \in [Refs -> Fates]
      BY <1>5 DEF Fates
    <2>2. ASSUME NEW d \in Refs, fate'[d] = "recorded"
          PROVE  owner'[d] \in Orders /\ order'[owner'[d]].status = "paid"
      <3>1. CASE d = c
        BY <1>1, <1>2, <3>1
      <3>2. CASE d # c
        <4>1. owner[d] \in Orders /\ order[owner[d]].status = "paid"
          BY <1>5, <2>2, <3>2 DEF IInv, RecordedIsPaid
        <4> QED
          BY <1>2, <4>1
      <3> QED
        BY <3>1, <3>2
    <2> QED
      BY <2>1, <2>2 DEF RecordedIsPaid
  <1>7. /\ \A d \in Refs : fate[d] # "open" => fate'[d] # "open"
        /\ fate'[c] # "open"
    BY <1>1, <1>5
  <1>8. \A d \in Refs : HandledBy(p, d) => fate'[d] # "open"
    BY <1>7 DEF HandledBy
  <1> QED
    BY <1>2, <1>3, <1>4, <1>6, <1>7, <1>8, IdleOK, StepPreserves DEF Ends

LEMMA ApplyPreserves ==
    ASSUME IInv, NEW p \in Procs, Apply(p)
    PROVE  IInv'
  <1>1. /\ proc[p].pc = "read"
        /\ Ends(p)
        /\ UNCHANGED <<owner, notices, claimed>>
    BY DEF Apply
  <1>2. /\ proc[p].order \in Orders /\ proc[p].ref \in Refs
        /\ proc[p].result \in Results
    BY <1>1, ProcFacts DEF ProcOK
  <1>3. CASE /\ proc[p].result = "paid"
             /\ Wins(p, Unpaid)
             /\ order' = Moved(p, "paid")
             /\ jobs' = jobs \cup {[kind |-> "ready", order |-> proc[p].order]}
             /\ fate' = [fate EXCEPT ![proc[p].ref] = "recorded"]
    BY <1>1, <1>3, RecordPreserves
  <1>4. CASE /\ proc[p].result # "paid"
             /\ Wins(p, {"pending"})
             /\ order' = Moved(p, proc[p].result)
             /\ UNCHANGED <<jobs, fate>>
    <2>1. proc[p].result \in Statuses
      BY <1>2 DEF Results, Declines, Statuses, Unpaid
    <2>2. RowsOK' /\ \A o \in Orders \ {proc[p].order} : order'[o] = order[o]
      BY <1>1, <1>2, <1>4, <2>1, MovedFacts
    <2>3. PaidStays
      BY <1>4, <2>2, WinsFacts DEF PaidStays
    <2>4. BooksOK' /\ Grows
      BY <1>1, BooksStay
    <2>5. JobsOK' /\ RecordedIsPaid'
      BY <1>4, <2>3, <2>4, JobsChange, RecordedStays DEF IInv
    <2>6. \A c \in Refs : ~HandledBy(p, c)
      BY <1>4 DEF HandledBy
    <2> QED
      BY <1>1, <1>4, <2>2, <2>4, <2>5, <2>6, IdleOK, StepPreserves DEF Ends
  <1>5. CASE UNCHANGED <<order, jobs>>
             /\ \E why \in {"already", "conflict"} : fate' = FateOfMiss(p, why)
    BY <1>1, <1>2, <1>5, MissPreserves DEF Fates
  <1> QED
    BY <1>3, <1>4, <1>5 DEF Apply

LEMMA CrashPreserves ==
    ASSUME IInv, NEW p \in Procs, Crash(p)
    PROVE  IInv'
  <1>1. ProcOK(proc[p], owner, notices) /\ proc[p] \in ProcType
    BY ProcFacts
  <1>3. \A j \in jobs' : j \in jobs \/ JobOK(j, owner)
    BY DEF Crash
  <1>4. UNCHANGED <<order, owner, notices, claimed>> /\ Ends(p) /\ proc[p].pc # "idle"
    BY DEF Crash
  <1>5. CASE proc[p].pc \in {"claimed", "read"} /\ proc[p].n = 0
    <2>1. proc[p].ref \in Refs /\ fate' = FateOfMiss(p, "crash")
      BY <1>1, <1>5 DEF ProcOK, Crash
    <2> QED
      BY <1>3, <1>4, <2>1, MissPreserves DEF Fates
  <1>6. CASE proc[p].pc = "read" /\ proc[p].n # 0
    BY <1>3, <1>4, <1>6, NothingLost DEF Crash
  <1>7. CASE proc[p].pc \notin {"claimed", "read"}
    BY <1>3, <1>4, <1>7, IdleOK, LocalStep DEF Crash, Ends
  <1>8. proc[p].pc = "claimed" => proc[p].n = 0
    BY <1>1 DEF ProcOK
  <1> QED
    BY <1>5, <1>6, <1>7, <1>8

-----------------------------------------------------------------------------
(* The provider, and the arrival of its notices                            *)
LEMMA KeyFacts ==
    ASSUME NEW c, NEW d, NEW s, NEW t, Key(c, s) = Key(d, t)
    PROVE  c = d /\ (Provider # "daraja" => s = t)
  BY DEF Key

LEMMA DeliverPreserves ==
    ASSUME IInv, NEW p \in Procs, NEW c \in Refs, NEW s \in Results, Deliver(p, c, s)
    PROVE  IInv'
  <1> DEFINE k == Knows("claimed", NoOrder, c, s, 0)
  <1>1. /\ proc[p].pc = "idle"
        /\ <<c, s>> \in notices
        /\ claimed' = claimed \cup {Key(c, s)}
        /\ proc' = [proc EXCEPT ![p] = k]
        /\ UNCHANGED <<order, owner, notices, jobs, fate>>
    BY DEF Deliver, Becomes
  <1>2. BooksOK' /\ Grows
    <2>1. Key(c, s) \in Refs \X (Results \cup {"any"})
      BY DEF Key
    <2> QED
      BY <1>1, <2>1, Frozen DEF IInv, BooksOK
  <1>3. ProcsOK'
    <2>1. 0 \in 0 .. MaxPolls
      OBVIOUS
    <2>2. k \in ProcType
      BY <2>1 DEF Knows, ProcType, Statuses, Unpaid
    <2>3. ProcOK(k, owner', notices')
      BY <1>1, <2>2 DEF ProcOK, Knows
    <2> QED
      BY <1>1, <1>2, <2>3, OneMoves DEF IInv, Becomes
  <1>4. RowsOK' /\ JobsOK' /\ RecordedIsPaid' /\ OneResult'
    BY <1>1, <1>2, NoRow, JobsChange DEF IInv, RecordedIsPaid, OneResult
  <1>5. ClaimsAreOfNotices'
    <2> SUFFICES ASSUME NEW d \in Refs, NEW t \in Results, Key(d, t) \in claimed'
                 PROVE  \E u \in Results : Key(d, u) = Key(d, t) /\ <<d, u>> \in notices
      BY <1>1 DEF ClaimsAreOfNotices, Key
    <2>1. CASE Key(d, t) \in claimed
      BY <2>1 DEF IInv, ClaimsAreOfNotices
    <2>2. CASE Key(d, t) = Key(c, s)
      BY <1>1, <2>2, KeyFacts
    <2> QED
      BY <1>1, <2>1, <2>2
  <1>6. ChargesAccountedFor'
    <2> SUFFICES ASSUME NEW d \in Refs, <<d, "paid">> \in notices,
                        Key(d, "paid") \in claimed', fate[d] = "open"
                 PROVE  \E q \in Procs : HandledBy(q, d)'
      BY <1>1 DEF ChargesAccountedFor, Key
    <2>1. CASE Key(d, "paid") \in claimed
      <3>1. PICK q \in Procs : HandledBy(q, d)
        BY <2>1 DEF IInv, ChargesAccountedFor
      <3>2. q # p
        BY <1>1, <3>1 DEF HandledBy
      <3> QED
        BY <1>1, <3>1, <3>2 DEF HandledBy, IInv, ProcsOK
    <2>2. CASE Key(d, "paid") = Key(c, s)
      <3>1. d = c /\ s = "paid"
        BY <1>1, <2>2, KeyFacts DEF IInv, OneResult, Results
      <3>2. proc'[p] = k
        BY <1>1 DEF IInv, ProcsOK
      <3>3. k.pc = "claimed" /\ k.ref = d /\ k.result = "paid" /\ k.n = 0
        BY <3>1 DEF Knows
      <3> HIDE DEF k
      <3> QED
        BY <3>2, <3>3 DEF HandledBy
    <2> QED
      BY <1>1, <2>1, <2>2
  <1> QED
    BY <1>2, <1>3, <1>4, <1>5, <1>6 DEF IInv

(* A new notice: for Daraja the first of its checkout, for any provider one
   whose key nobody has claimed. *)
LEMMA NoticePreserves ==
    ASSUME IInv, NEW c \in Refs, NEW s \in Results,
           (Charge(c) /\ s = "paid") \/ Decline(c, s)
    PROVE  IInv'
  <1>1. /\ notices' = notices \cup {<<c, s>>}
        /\ UNCHANGED <<order, owner, claimed, jobs, proc, fate>>
        /\ Provider = "daraja" \/ s # "paid" => \A t \in Results : <<c, t>> \notin notices
        /\ <<c, s>> \notin notices
    BY DEF Charge, Decline, Answered
  <1>2. BooksOK' /\ Grows
    BY <1>1 DEF IInv, BooksOK, Grows
  <1>3. ProcsOK' /\ RowsOK' /\ JobsOK' /\ RecordedIsPaid'
    BY <1>1, <1>2, NooneMoves, NoRow, JobsChange DEF IInv, RecordedIsPaid
  <1>4. OneResult'
    BY <1>1 DEF IInv, OneResult
  <1>5. ClaimsAreOfNotices'
    BY <1>1 DEF IInv, ClaimsAreOfNotices, Key
  <1>6. Key(c, s) \notin claimed
    <2> SUFFICES ASSUME Key(c, s) \in claimed PROVE FALSE
      OBVIOUS
    <2>1. PICK t \in Results : Key(c, t) = Key(c, s) /\ <<c, t>> \in notices
      BY DEF IInv, ClaimsAreOfNotices
    <2> QED
      BY <1>1, <2>1, KeyFacts
  <1>7. ChargesAccountedFor'
    <2> SUFFICES ASSUME NEW d \in Refs, <<d, "paid">> \in notices',
                        Key(d, "paid") \in claimed, fate[d] = "open"
                 PROVE  \E q \in Procs : HandledBy(q, d)'
      BY <1>1 DEF ChargesAccountedFor, Key
    <2>1. <<d, "paid">> \in notices
      BY <1>1, <1>6
    <2> QED
      BY <1>1, <2>1 DEF IInv, ChargesAccountedFor, HandledBy
  <1> QED
    BY <1>2, <1>3, <1>4, <1>5, <1>7 DEF IInv

-----------------------------------------------------------------------------
(* Invariance                                                              *)
LEMMA InitEstablishes == Init => IInv
  <1> SUFFICES ASSUME Init PROVE IInv
    OBVIOUS
  <1>1. BooksOK /\ OneResult /\ ClaimsAreOfNotices /\ ChargesAccountedFor
    BY DEF Init, BooksOK, OneResult, ClaimsAreOfNotices, ChargesAccountedFor
  <1>2. ProcsOK
    BY IdleOK DEF Init, ProcsOK, ProcOK
  <1>3. JobsOK /\ RowsOK
    BY DEF Init, JobsOK, RowsOK, RowOK, OrderType, Statuses, Unpaid
  <1>4. RecordedIsPaid
    BY DEF Init, RecordedIsPaid, Fates
  <1> QED
    BY <1>1, <1>2, <1>3, <1>4 DEF IInv

LEMMA NextPreserves ==
    ASSUME IInv, [Next]_vars PROVE IInv'
  <1>1. CASE UNCHANGED vars
    BY <1>1 DEF vars, IInv, BooksOK, ProcsOK, JobsOK, RowsOK, OneResult,
                ClaimsAreOfNotices, RecordedIsPaid, ChargesAccountedFor, HandledBy, Key
  <1>2. CASE Customer
    BY <1>2, NoticePreserves DEF Customer, Results
  <1>3. ASSUME NEW p \in Procs, Step(p) PROVE IInv'
    <2>1. CASE \E o \in Orders, c \in Refs : StkRequest(p, o, c) \/ StkAnswerLost(p, o, c)
      BY <2>1, StkRequestPreserves
    <2>2. CASE \E o \in Orders : ChatRead(p, o) \/ CancelRead(p, o)
      BY <2>2, ReadStepsPreserve
    <2>3. CASE (\E c \in Refs : ChatSend(p, c)) \/ ChatSendFails(p)
      BY <2>3, ChatSendPreserves, ChatSendFailsPreserves
    <2>4. CASE StkCommit(p) \/ ChatCommit(p)
      BY <2>4, StkCommitPreserves, ChatCommitPreserves
    <2>5. CASE CancelCommit(p) \/ FollowupApply(p)
      BY <2>5, GiveUpPreserves
    <2>6. CASE \E c \in Refs, s \in Results : Deliver(p, c, s)
      BY <2>6, DeliverPreserves
    <2>7. CASE CallbackRead(p) \/ CallbackRefused(p) \/ PollRead(p)
      BY <2>7, ReadCallbackPreserves
    <2>8. CASE Apply(p) \/ Crash(p)
      BY <2>8, ApplyPreserves, CrashPreserves
    <2>9. CASE (\E j \in jobs : FollowupStart(p, j)) \/ FollowupRecheck(p)
      BY <2>9, FollowupReadsPreserve
    <2>10. CASE (\E j \in jobs : PollFetch(p, j)) \/ PollStillPending(p) \/ PollEnqueue(p)
      BY <2>10, PollFetchPreserves, PollAgainPreserves
    <2> QED
      BY <1>3, <2>1, <2>2, <2>3, <2>4, <2>5, <2>6, <2>7, <2>8, <2>9, <2>10 DEF Step
  <1> QED
    BY <1>1, <1>2, <1>3 DEF Next

THEOREM Invariance == Spec => []IInv
  BY InitEstablishes, NextPreserves, PTL DEF Spec

LEMMA InvariantIsTyped == IInv => TypeOK
  BY DEF IInv, TypeOK, BooksOK, ProcsOK, JobsOK, JobOK, RowsOK, RecordedIsPaid

(* The table, the queue and every process keep their types; in particular no
   poll is queued beyond the budget of MaxPolls. *)
THEOREM TypeCorrect == Spec => []TypeOK
  BY Invariance, InvariantIsTyped, PTL

(* A paid callback whose key is claimed is in progress, recorded, or lost in
   a way the code names. *)
THEOREM ChargesAreAccountedFor == Spec => []ChargesAccountedFor
  <1>1. IInv => ChargesAccountedFor
    BY DEF IInv
  <1> QED
    BY <1>1, Invariance, PTL

-----------------------------------------------------------------------------
(* What a step may do to the table                                         *)

\* The steps that write no order.
Elsewhere(p) ==
    \/ \E o \in Orders, c \in Refs : StkRequest(p, o, c) \/ StkAnswerLost(p, o, c)
    \/ \E o \in Orders : ChatRead(p, o) \/ CancelRead(p, o)
    \/ (\E c \in Refs : ChatSend(p, c)) \/ ChatSendFails(p)
    \/ \E c \in Refs, s \in Results : Deliver(p, c, s)
    \/ CallbackRead(p) \/ CallbackRefused(p)
    \/ \E j \in jobs : PollFetch(p, j) \/ FollowupStart(p, j)
    \/ PollStillPending(p) \/ PollEnqueue(p) \/ PollRead(p)
    \/ FollowupRecheck(p) \/ Crash(p)

LEMMA ElsewhereKeepsOrders == ASSUME NEW p, Elsewhere(p) PROVE UNCHANGED order
  BY DEF Elsewhere, StkRequest, StkAnswerLost, ChatRead, CancelRead,
           ChatSend, ChatSendFails, Deliver, CallbackRead, CallbackRefused,
         PollFetch, FollowupStart, PollStillPending, PollEnqueue, PollRead,
         FollowupRecheck, Crash

\* One order moves along a legal edge to its next version.
MovesLegally(o) ==
    /\ <<order[o].status, order'[o].status>> \in Edges
    /\ order'[o].version = order[o].version + 1

LEMMA WriteIsLegal ==
    ASSUME IInv, NEW p \in Procs, NEW from \in SUBSET Unpaid, NEW to \in Statuses,
           Wins(p, from), proc[p].order \in Orders,
           \A s \in from : s # to => <<s, to>> \in Edges,
           NEW o \in Orders, order'[o].status # order[o].status,
           \A x \in Orders \ {proc[p].order} : order'[x] = order[x],
           order'[proc[p].order].status = to,
           order'[proc[p].order].version = order[proc[p].order].version + 1
    PROVE  MovesLegally(o)
  <1>1. o = proc[p].order /\ order[o].status \in from
    BY DEF Wins
  <1> QED
    BY <1>1 DEF MovesLegally

LEMMA MovedShape ==
    ASSUME IInv, NEW p \in Procs, proc[p].order \in Orders, NEW to,
           order' = Moved(p, to)
    PROVE  /\ \A x \in Orders \ {proc[p].order} : order'[x] = order[x]
           /\ order'[proc[p].order].status = to
           /\ order'[proc[p].order].version = order[proc[p].order].version + 1
  <1>1. order \in [Orders -> OrderType] /\ order[proc[p].order] \in OrderType
    BY DEF IInv, RowsOK
  <1> QED
    BY <1>1 DEF Moved, OrderType

LEMMA StepIsLegal ==
    ASSUME IInv, [Next]_vars, NEW o \in Orders, order'[o].status # order[o].status
    PROVE  MovesLegally(o)
  <1>1. PICK p \in Procs : Step(p)
    BY DEF Next, vars, Customer, Charge, Decline
  <1>2. ProcOK(proc[p], owner, notices)
    BY ProcFacts
  <1>3. CASE Elsewhere(p)
    BY <1>3, ElsewhereKeepsOrders
  <1>4. CASE StkCommit(p)
    <2>1. proc[p].order \in Orders
      BY <1>2, <1>4 DEF StkCommit, ProcOK
    <2>2. Wins(p, Unpaid) /\ order' = [Moved(p, "pending") EXCEPT ![proc[p].order].ref = proc[p].ref]
      BY <1>4 DEF StkCommit
    <2>3. order \in [Orders -> OrderType] /\ order[proc[p].order] \in OrderType
      BY <2>1 DEF IInv, RowsOK
    <2>4. /\ \A x \in Orders \ {proc[p].order} : order'[x] = order[x]
          /\ order'[proc[p].order].status = "pending"
          /\ order'[proc[p].order].version = order[proc[p].order].version + 1
      BY <2>1, <2>2, <2>3 DEF Moved, OrderType
    <2>5. "pending" \in Statuses /\ \A s \in Unpaid : s # "pending" => <<s, "pending">> \in Edges
      BY DEF Edges, Statuses, Unpaid
    <2> QED
      BY <2>1, <2>2, <2>4, <2>5, WriteIsLegal
  <1>5. CASE ChatCommit(p)
    BY <1>5 DEF ChatCommit, IInv, RowsOK, OrderType
  <1>6. ASSUME NEW to \in {"failed", "cancelled", "timeout"}, Wins(p, {"pending"}),
               order' = Moved(p, to), proc[p].order \in Orders
        PROVE  MovesLegally(o)
    <2>1. to \in Statuses /\ <<"pending", to>> \in Edges /\ {"pending"} \in SUBSET Unpaid
      BY DEF Edges, Statuses, Unpaid
    <2> QED
      BY <1>6, <2>1, MovedShape, WriteIsLegal
  <1>7. CASE CancelCommit(p) \/ FollowupApply(p)
    <2>1. proc[p].order \in Orders
      BY <1>2, <1>7 DEF CancelCommit, FollowupApply, ProcOK
    <2> QED
      BY <1>6, <1>7, <2>1 DEF CancelCommit, FollowupApply
  <1>8. CASE Apply(p)
    <2>1. proc[p].order \in Orders /\ proc[p].result \in Results
      BY <1>2, <1>8 DEF Apply, ProcOK
    <2>2. CASE proc[p].result # "paid"
      <3>1. proc[p].result \in {"failed", "cancelled", "timeout"}
        BY <2>1, <2>2 DEF Results, Declines
      <3> QED
        BY <1>6, <1>8, <2>1, <2>2, <3>1 DEF Apply
    <2>3. CASE proc[p].result = "paid"
      <3>1. Wins(p, Unpaid) /\ order' = Moved(p, "paid")
        BY <1>8, <2>3 DEF Apply
      <3>2. "paid" \in Statuses /\ \A s \in Unpaid : <<s, "paid">> \in Edges
        BY DEF Edges, Statuses, Unpaid
      <3> QED
        BY <2>1, <3>1, <3>2, MovedShape, WriteIsLegal
    <2> QED
      BY <2>2, <2>3
  <1> QED
    BY <1>1, <1>3, <1>4, <1>5, <1>7, <1>8 DEF Step, Elsewhere

(* Paid is final, failures come only from pending, and each change of status
   takes the next version, whatever is running concurrently. *)
THEOREM OnlyLegalTransitions == Spec => TransitionsAreLegal
  <1>1. IInv /\ [Next]_vars =>
            [\A o \in Orders : order'[o].status # order[o].status =>
                /\ <<order[o].status, order'[o].status>> \in Edges
                /\ order'[o].version = order[o].version + 1]_order
    BY StepIsLegal DEF MovesLegally
  <1> QED
    BY <1>1, Invariance, PTL DEF Spec, TransitionsAreLegal

-----------------------------------------------------------------------------
(* The ledger                                                              *)

chargedRefs  == {c \in Refs : <<c, "paid">> \in notices}
creditedRefs == {c \in Refs : fate[c] = "recorded"}
paidOrders   == {o \in Orders : order[o].status = "paid"}

\* A step the ledger does not see.
Invisible == UNCHANGED <<owner, chargedRefs, creditedRefs, paidOrders>>

LEMMA InvisibleIsStutter == ASSUME Invisible PROVE UNCHANGED Ledger!vars
  BY DEF Invisible, chargedRefs, creditedRefs, paidOrders, Ledger!vars

LEMMA ChargedFollows == ASSUME UNCHANGED notices PROVE UNCHANGED chargedRefs
  BY DEF chargedRefs

LEMMA PaidFollows == ASSUME UNCHANGED order PROVE UNCHANGED paidOrders
  BY DEF paidOrders

LEMMA MissCreditsNothing ==
    ASSUME IInv, NEW p \in Procs, NEW why \in Fates \ {"open", "recorded"},
           UNCHANGED fate \/ (proc[p].ref \in Refs /\ fate' = FateOfMiss(p, why))
    PROVE  UNCHANGED creditedRefs
  <1>1. CASE UNCHANGED fate
    BY <1>1 DEF creditedRefs
  <1>2. CASE proc[p].ref \in Refs /\ fate' = FateOfMiss(p, why)
    <2>1. fate \in [Refs -> Fates]
      BY DEF IInv, RecordedIsPaid
    <2>2. \A c \in Refs : fate'[c] = "recorded" <=> fate[c] = "recorded"
      BY <1>2, <2>1 DEF FateOfMiss, Missed
    <2> QED
      BY <2>2 DEF creditedRefs
  <1> QED
    BY <1>1, <1>2

(* A write of an order that neither was nor becomes paid is not seen. *)
LEMMA UnpaidWrite ==
    ASSUME IInv, NEW p \in Procs, proc[p].order \in Orders,
           \A x \in Orders \ {proc[p].order} : order'[x] = order[x],
           order'[proc[p].order].status = "paid" <=> order[proc[p].order].status = "paid"
    PROVE  UNCHANGED paidOrders
  BY DEF paidOrders

LEMMA ElsewhereSeen ==
    ASSUME IInv, NEW p \in Procs, Elsewhere(p)
    PROVE  Invisible \/ \E c \in Refs : Ledger!Open(c)
  <1>1. UNCHANGED paidOrders
    BY ElsewhereKeepsOrders, PaidFollows
  <1>2. UNCHANGED notices
    BY DEF Elsewhere, StkRequest, StkAnswerLost, ChatRead, CancelRead,
           ChatSend, ChatSendFails, Deliver, CallbackRead, CallbackRefused,
           PollFetch, FollowupStart, PollStillPending, PollEnqueue, PollRead,
           FollowupRecheck, Crash
  <1>3. UNCHANGED creditedRefs
    <2>1. CASE UNCHANGED fate
      BY <2>1 DEF creditedRefs
    <2>2. CASE fate' # fate
      <3>1. /\ proc[p].pc \in {"claimed", "read", "fetched"}
            /\ \E why \in {"already", "unknown", "refused", "crash"} :
                   fate' = FateOfMiss(p, why)
        BY <2>2 DEF Elsewhere, StkRequest, StkAnswerLost, ChatRead, CancelRead,
           ChatSend, ChatSendFails, Deliver, CallbackRead,
           CallbackRefused, PollFetch, FollowupStart, PollStillPending, PollEnqueue,
           PollRead, FollowupRecheck, Crash, Inspect
      <3>2. proc[p].ref \in Refs
        BY <3>1, ProcFacts DEF ProcOK
      <3> QED
        BY <3>1, <3>2, MissCreditsNothing DEF Fates
    <2> QED
      BY <2>1, <2>2
  <1>4. CASE UNCHANGED owner
    BY <1>1, <1>2, <1>3, <1>4, ChargedFollows DEF Invisible
  <1>5. CASE owner' # owner
    <2>1. \/ \E o \in Orders, c \in Refs : Open(o, c)
          \/ /\ proc[p].pc \in {"chat_read", "chat_again"}
             /\ \E c \in Refs : Open(proc[p].order, c)
      BY <1>5 DEF Elsewhere, StkRequest, StkAnswerLost, ChatRead, CancelRead,
           ChatSend, ChatSendFails, Deliver, CallbackRead,
         CallbackRefused, PollFetch, FollowupStart, PollStillPending, PollEnqueue,
         PollRead, FollowupRecheck, Crash
    <2>2. proc[p].pc \in {"chat_read", "chat_again"} => proc[p].order \in Orders
      BY ProcFacts DEF ProcOK
    <2>3. PICK o \in Orders, c \in Refs : Open(o, c)
      BY <2>1, <2>2
    <2>4. Ledger!Open(c)
      BY <1>1, <1>2, <1>3, <2>3, ChargedFollows
         DEF Open, Ledger!Open, chargedRefs, creditedRefs, paidOrders
    <2> QED
      BY <2>4
  <1> QED
    BY <1>4, <1>5

LEMMA CustomerSeen ==
    ASSUME IInv, Customer
    PROVE  Invisible \/ \E c \in Refs : Ledger!Charge(c)
  <1>1. UNCHANGED <<owner, order, fate>>
    BY DEF Customer, Charge, Decline
  <1>2. UNCHANGED creditedRefs /\ UNCHANGED paidOrders
    BY <1>1, PaidFollows DEF creditedRefs
  <1>3. ASSUME NEW c \in Refs, Charge(c) PROVE Ledger!Charge(c)
    <2>1. owner[c] # NoOrder /\ <<c, "paid">> \notin notices
      BY <1>3 DEF Charge, Answered, Results
    <2>2. chargedRefs' = chargedRefs \cup {c}
      BY <1>3 DEF chargedRefs, Charge
    <2> QED
      BY <1>1, <1>2, <2>1, <2>2 DEF Ledger!Charge, chargedRefs, creditedRefs, paidOrders
  <1>4. ASSUME NEW c \in Refs, NEW s \in Declines, Decline(c, s) PROVE Invisible
    <2>1. s # "paid" /\ notices' = notices \cup {<<c, s>>}
      BY <1>4 DEF Declines, Decline
    <2>2. UNCHANGED chargedRefs
      BY <2>1 DEF chargedRefs
    <2> QED
      BY <1>1, <1>2, <2>2 DEF Invisible
  <1> QED
    BY <1>3, <1>4 DEF Customer

LEMMA RecordSeen ==
    ASSUME IInv, NEW p \in Procs, Apply(p), proc[p].result = "paid", Wins(p, Unpaid)
    PROVE  \E c \in Refs : Ledger!Credit(c)
  <1> DEFINE o == proc[p].order
  <1>0. PICK c \in Refs : c = proc[p].ref
    BY ProcFacts DEF Apply, ProcOK
  <1>1. /\ proc[p].pc = "read"
        /\ UNCHANGED <<owner, notices>>
        /\ order' = Moved(p, "paid")
        /\ fate' = [fate EXCEPT ![c] = "recorded"]
    BY <1>0 DEF Apply
  <1>2. o \in Orders /\ c \in Refs /\ owner[c] = o /\ <<c, "paid">> \in notices
    BY <1>0, <1>1, ProcFacts DEF ProcOK
  <1>3. order[o].status # "paid"
    BY WinsFacts DEF Unpaid
  <1>4. fate \in [Refs -> Fates] /\ fate[c] # "recorded"
    BY <1>2, <1>3 DEF IInv, RecordedIsPaid
  <1>5. c \in chargedRefs \ creditedRefs /\ owner[c] \in Orders \ paidOrders
    BY <1>2, <1>3, <1>4 DEF chargedRefs, creditedRefs, paidOrders
  <1>6. creditedRefs' = creditedRefs \cup {c}
    BY <1>1, <1>2, <1>4 DEF creditedRefs
  <1>7. paidOrders' = paidOrders \cup {owner[c]}
    BY <1>1, <1>2, MovedShape DEF paidOrders
  <1>8. UNCHANGED chargedRefs
    BY <1>1, ChargedFollows
  <1>9. Ledger!Credit(c)
    BY <1>1, <1>5, <1>6, <1>7, <1>8
       DEF Ledger!Credit, chargedRefs, creditedRefs, paidOrders
  <1> QED
    BY <1>9

LEMMA WriteSeen ==
    ASSUME IInv, NEW p \in Procs,
           StkCommit(p) \/ ChatCommit(p) \/ CancelCommit(p) \/ FollowupApply(p) \/ Apply(p)
    PROVE  Invisible \/ \E c \in Refs : Ledger!Credit(c)
  <1>1. /\ proc[p].pc \in {"stk_sent", "chat_sent", "cancel_read", "rechecked", "read"}
        /\ UNCHANGED <<owner, notices>>
    BY DEF StkCommit, ChatCommit, CancelCommit, FollowupApply, Apply
  <1>2. proc[p].order \in Orders
    BY <1>1, ProcFacts DEF ProcOK
  <1>3. order \in [Orders -> OrderType] /\ order[proc[p].order] \in OrderType
    BY <1>2 DEF IInv, RowsOK
  <1>4. UNCHANGED chargedRefs
    BY <1>1, ChargedFollows
  <1>5. ASSUME NEW from \in SUBSET Unpaid, Wins(p, from), NEW to, to # "paid",
               order' = Moved(p, to)
        PROVE  UNCHANGED paidOrders
    <2>1. order[proc[p].order].status # "paid"
      BY <1>5, WinsFacts DEF Unpaid
    <2> QED
      BY <1>2, <1>5, <2>1, MovedShape, UnpaidWrite
  <1>6. {"pending"} \in SUBSET Unpaid /\ Unpaid \in SUBSET Unpaid
    BY DEF Unpaid
  <1>7. CASE StkCommit(p)
    <2>1. CASE UNCHANGED order
      BY <1>1, <1>4, <1>7, <2>1, PaidFollows DEF Invisible, StkCommit, creditedRefs
    <2>2. CASE Wins(p, Unpaid)
               /\ order' = [Moved(p, "pending") EXCEPT ![proc[p].order].ref = proc[p].ref]
      <3>1. /\ \A x \in Orders \ {proc[p].order} : order'[x] = order[x]
            /\ order'[proc[p].order].status = "pending"
        BY <1>2, <1>3, <2>2 DEF Moved, OrderType
      <3>2. order[proc[p].order].status # "paid"
        BY <2>2, WinsFacts DEF Unpaid
      <3>3. UNCHANGED paidOrders
        BY <1>2, <3>1, <3>2, UnpaidWrite
      <3> QED
        BY <1>1, <1>4, <1>7, <3>3 DEF Invisible, StkCommit, creditedRefs
    <2> QED
      BY <1>7, <2>1, <2>2 DEF StkCommit
  <1>8. CASE ChatCommit(p)
    <2>1. /\ \A x \in Orders \ {proc[p].order} : order'[x] = order[x]
          /\ order'[proc[p].order].status = order[proc[p].order].status
      BY <1>2, <1>3, <1>8 DEF ChatCommit, OrderType
    <2>2. UNCHANGED paidOrders
      BY <1>2, <2>1, UnpaidWrite
    <2> QED
      BY <1>1, <1>4, <1>8, <2>2 DEF Invisible, ChatCommit, creditedRefs
  <1>9. CASE CancelCommit(p) \/ FollowupApply(p)
    <2>1. UNCHANGED paidOrders
      BY <1>5, <1>6, <1>9, PaidFollows DEF CancelCommit, FollowupApply
    <2> QED
      BY <1>1, <1>4, <1>9, <2>1 DEF Invisible, CancelCommit, FollowupApply, creditedRefs
  <1>10. CASE Apply(p)
    <2>1. CASE proc[p].result = "paid" /\ Wins(p, Unpaid)
      BY <1>10, <2>1, RecordSeen
    <2>2. CASE proc[p].result # "paid" /\ Wins(p, {"pending"})
      <3>1. order' = Moved(p, proc[p].result) /\ UNCHANGED fate
        BY <1>10, <2>2 DEF Apply
      <3>2. UNCHANGED paidOrders
        BY <1>5, <1>6, <2>2, <3>1
      <3> QED
        BY <1>1, <1>4, <3>1, <3>2 DEF Invisible, creditedRefs
    <2>3. CASE ~Wins(p, IF proc[p].result = "paid" THEN Unpaid ELSE {"pending"})
      <3>1. UNCHANGED order /\ \E why \in {"already", "conflict"} : fate' = FateOfMiss(p, why)
        BY <1>10, <2>3 DEF Apply
      <3>2. proc[p].ref \in Refs
        BY <1>10, ProcFacts DEF Apply, ProcOK
      <3>3. UNCHANGED creditedRefs
        BY <3>1, <3>2, MissCreditsNothing DEF Fates
      <3> QED
        BY <1>1, <1>4, <3>1, <3>3, PaidFollows DEF Invisible
    <2> QED
      BY <2>1, <2>2, <2>3
  <1> QED
    BY <1>7, <1>8, <1>9, <1>10

LEMMA InitMaps == Init => Ledger!Init
  BY DEF Init, Ledger!Init

LEMMA NextMaps ==
    ASSUME IInv, [Next]_vars PROVE [Ledger!Next]_(Ledger!vars)
  <1>1. CASE UNCHANGED vars
    <2>1. Invisible
      BY <1>1, ChargedFollows, PaidFollows DEF vars, Invisible, creditedRefs
    <2> QED
      BY <2>1, InvisibleIsStutter
  <1>2. CASE Customer
    BY <1>2, CustomerSeen, InvisibleIsStutter DEF Ledger!Next
  <1>3. ASSUME NEW p \in Procs, Step(p) PROVE [Ledger!Next]_(Ledger!vars)
    <2>1. CASE Elsewhere(p)
      BY <2>1, ElsewhereSeen, InvisibleIsStutter DEF Ledger!Next
    <2>2. CASE StkCommit(p) \/ ChatCommit(p) \/ CancelCommit(p) \/ FollowupApply(p) \/ Apply(p)
      BY <2>2, WriteSeen, InvisibleIsStutter DEF Ledger!Next
    <2> QED
      BY <1>3, <2>1, <2>2 DEF Step, Elsewhere
  <1> QED
    BY <1>1, <1>2, <1>3 DEF Next

(* Payments implement the ledger: an order is credited at most once, only with
   a charge on a checkout opened for it, and the credit is never undone. *)
THEOREM PaymentsImplementLedger == Spec => ImplementsLedger
  BY InitMaps, NextMaps, Invariance, PTL DEF Spec, ImplementsLedger, Ledger!Spec
=============================================================================
