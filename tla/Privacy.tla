------------------------------ MODULE Privacy -------------------------------
(***************************************************************************)
(* A customer's data on request (api/privacy.py): the export and the       *)
(* erasure, each a series of statements, beside the turns of a chat that   *)
(* keep writing (services/conversation_service.py, ai/tools.py).           *)
(*                                                                         *)
(* Each statement sees what was committed before it.  What a turn writes   *)
(* appears when it commits, and needs the row it refers to: it waits while *)
(* an erasure has that row in hand, and fails when the row is gone.  The   *)
(* erasure deletes the tool invocations of the conversations it has listed *)
(* and then, by statement or by cascade, whatever hangs on the customer; a *)
(* tool invocation does not: it only loses its conversation.               *)
(***************************************************************************)
EXTENDS Integers, FiniteSets

CONSTANTS
    MaxLives,    \* BOUND: times the customer is made
    MaxThreads,  \* BOUND: conversations
    MaxEntries   \* BOUND: messages, orders and tool invocations

ASSUME PrivacyAssumption == MaxLives \in Nat /\ MaxThreads \in Nat /\ MaxEntries \in Nat

VARIABLES
    life,      \* the customer's row: which of the customer's lives, 0 for none
    lives,     \* customers made so far
    threads,   \* the conversations: number and customer
    entries,   \* the rows of messages, orders and tool_invocations
    holds,     \* the turn under way: the conversation it holds, 0 for none
    erasure,   \* forget_customer under way
    export,    \* export_customer_data under way, or its answer
    opened,    \* conversations opened so far
    written    \* entries written so far

privacyVars == <<life, lives, threads, entries, holds, erasure, export, opened, written>>

Lives == 1..MaxLives

Thread == [id : 1..MaxThreads, of : Lives]

\* thread 0 is NULL; of and late, histories: whose data it is, and whether the
\* erasure under way had passed its place when it was written
Entry == [id : 1..MaxEntries, kind : {"message", "order", "tool"},
          thread : 0..MaxThreads, of : Lives, late : BOOLEAN]

\* listed: the conversations found; doomed: the rows deleted, not committed yet
Erasure == [stage : {"none", "listed", "tools", "threads"}, of : 0..MaxLives,
            listed : SUBSET (1..MaxThreads), doomed : SUBSET (1..MaxEntries)]

\* owed, a history: what the customer's data were when the export began
Export == [stage : {"none", "listed", "messages", "tools", "answered"}, of : 0..MaxLives,
           listed : SUBSET (1..MaxThreads), dump : SUBSET (1..MaxEntries),
           owed : SUBSET (1..MaxEntries)]

NoErasure == [stage |-> "none", of |-> 0, listed |-> {}, doomed |-> {}]
NoExport  == [stage |-> "none", of |-> 0, listed |-> {}, dump |-> {}, owed |-> {}]

PrivacyInit ==
    /\ life = 0 /\ lives = 0
    /\ threads = {} /\ entries = {}
    /\ holds = 0
    /\ erasure = NoErasure
    /\ export = NoExport
    /\ opened = 0 /\ written = 0

ThreadsOf(x) == {t.id : t \in {u \in threads : u.of = x}}

EntriesIn(kind, S) == {e.id : e \in {d \in entries : d.kind = kind /\ d.thread \in S}}

OrdersOf(x) == {e.id : e \in {d \in entries : d.kind = "order" /\ d.of = x}}

\* The erasure has deleted the row, or waits to.
InHand(id) == erasure.stage = "threads" /\ id \in erasure.listed

-----------------------------------------------------------------------------
(* Turns.                                                                  *)

(* get_or_create_customer and get_or_open_conversation: the thread the     *)
(* customer has, or a new one.                                             *)
TurnOpens ==
    /\ holds = 0
    /\ IF life = 0 THEN lives < MaxLives /\ lives' = lives + 1 /\ life' = lives'
                   ELSE UNCHANGED <<life, lives>>
    /\ \/ \E id \in ThreadsOf(life) :
            /\ ~InHand(id)
            /\ holds' = id
            /\ UNCHANGED <<threads, opened>>
       \/ /\ opened < MaxThreads
          /\ opened' = opened + 1 /\ holds' = opened'
          /\ threads' = threads \cup {[id |-> opened', of |-> life']}
    /\ UNCHANGED <<entries, erasure, export, written>>

Holding == {t \in threads : t.id = holds}

\* The tool invocations of the thread have been deleted, or it was not listed.
Escapes(t) == erasure.of = t.of /\ (erasure.stage # "listed" \/ t.id \notin erasure.listed)

(* A commit of the turn: a message, an order or a tool's record.           *)
TurnWrites ==
    /\ Holding # {} /\ ~InHand(holds)
    /\ written < MaxEntries /\ written' = written + 1
    /\ \E kind \in {"message", "order", "tool"}, t \in Holding :
          entries' = entries \cup {[id |-> written', kind |-> kind, thread |-> holds,
                                    of |-> t.of, late |-> Escapes(t)]}
    /\ UNCHANGED <<life, lives, threads, holds, erasure, export, opened>>

(* It is over; or the row it refers to is gone, and it fails.              *)
TurnEnds ==
    /\ holds # 0 /\ holds' = 0
    /\ UNCHANGED <<life, lives, threads, entries, erasure, export, opened, written>>

-----------------------------------------------------------------------------
(* forget_customer.                                                        *)

Forgets ==
    /\ erasure = NoErasure /\ life # 0
    /\ erasure' = [stage |-> "listed", of |-> life, listed |-> ThreadsOf(life), doomed |-> {}]
    /\ UNCHANGED <<life, lives, threads, entries, holds, export, opened, written>>

ForgetsTools ==
    /\ erasure.stage = "listed"
    /\ erasure' = [erasure EXCEPT !.stage = "tools", !.doomed = EntriesIn("tool", erasure.listed)]
    /\ UNCHANGED <<life, lives, threads, entries, holds, export, opened, written>>

(* The customer's conversations, the new ones among them.                  *)
ForgetsThreads ==
    /\ erasure.stage = "tools"
    /\ erasure' = [erasure EXCEPT !.stage = "threads", !.listed = ThreadsOf(erasure.of)]
    /\ UNCHANGED <<life, lives, threads, entries, holds, export, opened, written>>

\* Only the rows that were found are deleted, and nothing follows them.
LeftListed(x) == {e \in entries : e.id \notin erasure.doomed
                                  /\ ~(e.kind = "message" /\ e.thread \in erasure.listed)}

(* What is left of the entries: messages go with their thread, orders with *)
(* the customer, tool invocations lose the thread.                         *)
Left(x) ==
    {IF e.thread \in ThreadsOf(x) THEN [e EXCEPT !.thread = 0] ELSE e :
        e \in {d \in entries : /\ d.id \notin erasure.doomed
                               /\ d.id \notin EntriesIn("message", ThreadsOf(x))
                               /\ d.id \notin OrdersOf(x)}}

(* The customer's row, and the commit.                                     *)
ForgetCommits ==
    /\ erasure.stage = "threads"
    /\ life' = 0
    /\ threads' = {t \in threads : t.of # erasure.of}
    /\ entries' = Left(erasure.of)
    /\ erasure' = NoErasure
    /\ UNCHANGED <<lives, holds, export, opened, written>>

(* A deadlock with a turn, or a lost connection: nothing was deleted.      *)
ForgetFails ==
    /\ erasure # NoErasure /\ erasure' = NoErasure
    /\ entries' = {[e EXCEPT !.late = e.late /\ e.of # erasure.of] : e \in entries}
    /\ UNCHANGED <<life, lives, threads, holds, export, opened, written>>

-----------------------------------------------------------------------------
(* export_customer_data.                                                   *)

Exports ==
    /\ export.stage \in {"none", "answered"} /\ life # 0
    /\ export' = [stage |-> "listed", of |-> life, listed |-> ThreadsOf(life), dump |-> {},
                  owed |-> {e.id : e \in {d \in entries : d.of = life}}]
    /\ UNCHANGED <<life, lives, threads, entries, holds, erasure, opened, written>>

Dumps(from, to, ids) ==
    /\ export.stage = from
    /\ export' = [export EXCEPT !.stage = to, !.dump = @ \cup ids]
    /\ UNCHANGED <<life, lives, threads, entries, holds, erasure, opened, written>>

ExportReads ==
    \/ Dumps("listed", "messages", EntriesIn("message", export.listed))
    \/ Dumps("messages", "tools", EntriesIn("tool", export.listed))
    \/ Dumps("tools", "answered", OrdersOf(export.of))

PrivacyNext ==
    \/ TurnOpens \/ TurnWrites \/ TurnEnds
    \/ Forgets \/ ForgetsTools \/ ForgetsThreads \/ ForgetCommits \/ ForgetFails
    \/ Exports \/ ExportReads

PrivacySpec == PrivacyInit /\ [][PrivacyNext]_privacyVars

-----------------------------------------------------------------------------
PrivacyTypeOK ==
    /\ life \in 0..lives /\ lives \in 0..MaxLives
    /\ threads \subseteq Thread
    /\ entries \subseteq Entry
    /\ holds \in 0..opened
    /\ erasure \in Erasure /\ export \in Export
    /\ opened \in 0..MaxThreads /\ written \in 0..MaxEntries

Erased == (1..lives) \ {life}

(* Of a customer who was forgotten nothing is left and nothing comes back, *)
(* whatever turns were under way, but for the records of tools that were   *)
(* written when the erasure had passed: these keep what they were called   *)
(* with and no later erasure or export finds them (privacy.py:136,         *)
(* "Cascade-delete all customer data").                                    *)
ErasureIsComplete ==
    /\ \A t \in threads : t.of \notin Erased
    /\ \A e \in entries : e.of \in Erased => e.kind = "tool" /\ e.late

(* An export tells all that was there when it began and was not erased     *)
(* since, though it reads table by table (privacy.py:41, "Return every     *)
(* record linked to a phone number").                                      *)
ExportIsWhole ==
    export.stage = "answered" =>
        \A e \in entries : e.id \in export.owed /\ e.of \notin Erased => e.id \in export.dump

(* Both rights of a customer: to be told everything and to be forgotten.   *)
DataRights == ErasureIsComplete /\ ExportIsWhole
=============================================================================
