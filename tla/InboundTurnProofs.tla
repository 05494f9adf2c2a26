-------------------------- MODULE InboundTurnProofs --------------------------
(***************************************************************************)
(* What the per-customer lock does for the conversations table, proved for *)
(* any number of customers, messages, deliveries, workers and faults.      *)
(***************************************************************************)
EXTENDS InboundTurn, FiniteSetTheorems, TLAPS

-----------------------------------------------------------------------------
(* The inductive invariant *)

\* A turn is about a delivery.
Known == \A w \in Workers : turn[w].pc # "idle" => turn[w].job \in Jobs

\* Before it has loaded a conversation, a turn has read nothing; and before it
\* has a lock, it has not lost one.
Early == \A w \in Workers :
    /\ turn[w].pc \in {"begun", "claimed", "inside"} =>
         turn[w].conv = None /\ turn[w].failed_turns = 0
    /\ turn[w].pc \in {"begun", "claimed"} => turn[w].via = "redis" /\ turn[w].lost = FALSE

\* A queued job has an attempt left.
Attempts == \A j \in Jobs :
    /\ job[j].status = "absent" => job[j].starts = 0
    /\ job[j].status = "queued" => job[j].starts < MaxStarts

\* A turn whose key has not gone is named in it.
KeyHeld == \A w \in Workers :
    Inside(w) /\ turn[w].via = "redis" /\ turn[w].lost = FALSE => lock[Customer(w)] = w

\* Every other turn is on record.
LossSeen == \A w \in Workers :
    Inside(w) /\ (turn[w].via = "advisory" \/ turn[w].lost = TRUE) => Customer(w) \in breached

\* The model works on saved messages not yet answered, for one turn each.
Asked ==
    /\ \A m \in Messages : m \notin rows => answers[m] = 0
    /\ \A w \in Workers : turn[w].pc = "thinking" =>
         /\ Msg(w) \in rows /\ answers[Msg(w)] = 0
         /\ \A x \in Workers : turn[x].pc = "thinking" /\ Msg(x) = Msg(w) => x = w

Fresh == \A v \in Convs : conv[v].status = "unused" =>
    conv[v].failed_turns = 0 /\ conv[v].ai_paused = FALSE /\ spoke[v] = 0 /\ streak[v] = 0

Working(w) == turn[w].pc \in {"loaded", "thinking"}

\* What a turn with no conversation of its own yet relies on.
OpensAlone(w) ==
    /\ turn[w].pc = "loaded"
    /\ turn[w].failed_turns = 0
    /\ Customer(w) \notin breached => \A v \in Convs : v \notin Active(Customer(w))

\* What a turn may rely on of the row it read.
ReadsTruly(w) ==
    LET v == turn[w].conv IN
    /\ conv[v].customer = Customer(w)
    /\ conv[v].status # "unused"
    /\ Customer(w) \notin breached =>
         /\ conv[v].failed_turns <= turn[w].failed_turns
         /\ turn[w].failed_turns <= streak[v]
         /\ conv[v].ai_paused = TRUE /\ turn[w].ai_paused = FALSE => spoke[v] = 0

Reading == \A w \in Workers : Working(w) =>
    /\ turn[w].conv = None => OpensAlone(w)
    /\ turn[w].conv # None => ReadsTruly(w)
    /\ turn[w].pc = "thinking" => turn[w].ai_paused = FALSE

OneRow == \A c \in Customers : c \notin breached =>
    \A u, v \in Convs : u \in Active(c) /\ v \in Active(c) => u = v

Rows == Asked /\ Fresh /\ Reading /\ OneRow /\ AnsweredOnce
             /\ TakeoverSilencesModel /\ StrikesAreReal

IInv == TypeOK /\ Known /\ Early /\ Attempts /\ KeyHeld /\ LossSeen /\ Rows

-----------------------------------------------------------------------------
(* Types *)

LEMMA InitType == Init => TypeOK
  <1> USE InboundAssumption
  <1> SUFFICES ASSUME Init PROVE TypeOK OBVIOUS
  <1>1. NoTurn \in TurnType BY DEF NoTurn, TurnType
  <1>2. Blank \in ConvType BY DEF Blank, ConvType
  <1>3. [status |-> "absent", starts |-> 0] \in JobType BY DEF JobType
  <1> QED BY <1>1, <1>2, <1>3 DEF Init, TypeOK

\* A turn keeps its type when its program counter moves.
LEMMA AtType ==
    ASSUME turn \in [Workers -> TurnType], NEW w \in Workers,
           NEW pc \in {"idle", "begun", "claimed", "inside", "loaded", "thinking",
                       "leaving", "replying", "answered", "raised"},
           At(w, pc)
    PROVE  /\ turn' \in [Workers -> TurnType]
           /\ turn'[w] = [turn[w] EXCEPT !.pc = pc]
           /\ \A x \in Workers : x # w => turn'[x] = turn[x]
  BY DEF At, TurnType

LEMMA FreedType ==
    ASSUME lock \in [Customers -> Workers \cup {None}], NEW w
    PROVE  Freed(w) \in [Customers -> Workers \cup {None}]
  BY DEF Freed

LEMMA MsgType ==
    ASSUME TypeOK, Known, NEW w \in Workers, turn[w].pc # "idle"
    PROVE  Msg(w) \in Messages /\ Customer(w) \in Customers
  BY InboundAssumption DEF TypeOK, Known, Msg, Customer

\* Steps of one turn that leave the tables alone.
LEMMA QuietTurnType ==
    ASSUME TypeOK, Known, NEW w \in Workers,
           \/ ClaimMessage(w) \/ ClaimFails(w) \/ Deflect(w) \/ Enter(w) \/ Busy(w)
           \/ TurnAway(w) \/ Raise(w) \/ Leave(w) \/ LeaveFails(w) \/ SendReply(w) \/ SendFails(w)
    PROVE  TypeOK'
<1> USE DEF TypeOK
<1>1. turn[w].pc # "idle"
  BY DEF ClaimMessage, ClaimFails, Deflect, Enter, Busy, TurnAway, Raise, Leave, LeaveFails,
         SendReply, SendFails
<1>2. Msg(w) \in Messages /\ Customer(w) \in Customers BY <1>1, MsgType
<1>3. \E pc \in {"claimed", "inside", "leaving", "replying", "answered", "raised"} : At(w, pc)
  BY DEF ClaimMessage, ClaimFails, Deflect, Enter, Busy, TurnAway, Raise, Leave, LeaveFails,
         SendReply, SendFails
<1>4. turn' \in [Workers -> TurnType] BY <1>3, AtType
<1>5. lock' \in [Customers -> Workers \cup {None}]
  BY <1>2, FreedType
     DEF ClaimMessage, ClaimFails, Deflect, Enter, Busy, TurnAway, Raise, Leave, LeaveFails,
         SendReply, SendFails
<1>6. claimed' \subseteq Messages /\ replied' \subseteq Messages
  BY <1>2 DEF ClaimMessage, ClaimFails, Deflect, Enter, Busy, TurnAway, Raise, Leave, LeaveFails,
         SendReply, SendFails
<1> QED BY <1>4, <1>5, <1>6
  DEF ClaimMessage, ClaimFails, Deflect, Enter, Busy, TurnAway, Raise, Leave, LeaveFails,
      SendReply, SendFails

\* A turn that deletes a key with its own token's value ends inside the lock; the
\* turn the key belonged to, if it is still there, has lost it.
LEMMA FreedTurn ==
    ASSUME TypeOK, Known, NEW w \in Workers, FreesAnother(w)
    PROVE  /\ turn' \in [Workers -> TurnType] /\ Customer(w) \in Customers
           /\ breached' \subseteq Customers
           /\ Inside(w) /\ turn'[w].pc \in {"replying", "raised"}
           /\ \A x \in Workers :
                 /\ turn'[x].job = turn[x].job /\ turn'[x].via = turn[x].via
                 /\ turn'[x].conv = turn[x].conv /\ turn'[x].ai_paused = turn[x].ai_paused
                 /\ turn'[x].failed_turns = turn[x].failed_turns
           /\ \A x \in Workers \ {w} :
                 /\ turn'[x].pc = turn[x].pc
                 /\ x \in Holders({Customer(w)}) => turn'[x].lost = TRUE
                 /\ x \notin Holders({Customer(w)}) => turn'[x].lost = turn[x].lost
<1> USE DEF TypeOK
<1> DEFINE c == Customer(w)
<1>1. Inside(w) /\ c \in Customers BY MsgType DEF FreesAnother, Inside
<1> HIDE DEF c
<1> DEFINE end == IF turn[w].pc = "leaving" THEN "replying" ELSE "raised"
<1>2. /\ [turn[w] EXCEPT !.pc = end] \in TurnType
      /\ [turn[w] EXCEPT !.pc = end].pc = end
      /\ turn' = [x \in Workers |->
           IF x = w THEN [turn[w] EXCEPT !.pc = end]
                    ELSE [turn[x] EXCEPT !.lost = @ \/ x \in Holders({c})]]
  BY DEF FreesAnother, TurnType, c
<1>3. ASSUME NEW x \in Workers
      PROVE  LET mine == [turn[x] EXCEPT !.lost = turn[x].lost \/ x \in Holders({c})] IN
             /\ mine \in TurnType /\ mine.pc = turn[x].pc /\ mine.job = turn[x].job
             /\ mine.via = turn[x].via /\ mine.conv = turn[x].conv
             /\ mine.ai_paused = turn[x].ai_paused /\ mine.failed_turns = turn[x].failed_turns
             /\ x \in Holders({c}) => mine.lost = TRUE
             /\ x \notin Holders({c}) => mine.lost = turn[x].lost
  <2>1. ASSUME NEW b \in BOOLEAN
        PROVE  LET mine == [turn[x] EXCEPT !.lost = b] IN
               /\ mine \in TurnType /\ mine.pc = turn[x].pc /\ mine.job = turn[x].job
               /\ mine.via = turn[x].via /\ mine.conv = turn[x].conv
               /\ mine.ai_paused = turn[x].ai_paused /\ mine.failed_turns = turn[x].failed_turns
               /\ mine.lost = b
    BY DEF TurnType
  <2>2. turn[x].lost \in BOOLEAN BY DEF TurnType
  <2>3. CASE x \in Holders({c})
    <3>1. (turn[x].lost \/ x \in Holders({c})) = TRUE BY <2>3
    <3> QED BY <2>1, <2>3, <3>1
  <2>4. CASE x \notin Holders({c})
    <3>1. (turn[x].lost \/ x \in Holders({c})) = turn[x].lost BY <2>2, <2>4
    <3> QED BY <2>1, <2>2, <2>4, <3>1
  <2> QED BY <2>3, <2>4
<1>4. \A x \in Holders({c}) : Customer(x) = c BY DEF Holders, InsideOf
<1>5. breached' \subseteq Customers BY <1>1, <1>4 DEF FreesAnother, c
<1>6. turn[w] \in TurnType OBVIOUS
<1>7. /\ turn'[w] = [turn[w] EXCEPT !.pc = end]
      /\ \A x \in Workers \ {w} :
            turn'[x] = [turn[x] EXCEPT !.lost = turn[x].lost \/ x \in Holders({c})]
  BY <1>2
<1>8. /\ turn'[w].pc = end /\ turn'[w].job = turn[w].job /\ turn'[w].via = turn[w].via
      /\ turn'[w].conv = turn[w].conv /\ turn'[w].ai_paused = turn[w].ai_paused
      /\ turn'[w].failed_turns = turn[w].failed_turns
  BY <1>6, <1>7 DEF TurnType
<1>9. turn' \in [Workers -> TurnType] BY <1>2, <1>3
<1>10. ASSUME NEW x \in Workers \ {w}
       PROVE  /\ turn'[x].pc = turn[x].pc /\ turn'[x].job = turn[x].job
              /\ turn'[x].via = turn[x].via /\ turn'[x].conv = turn[x].conv
              /\ turn'[x].ai_paused = turn[x].ai_paused
              /\ turn'[x].failed_turns = turn[x].failed_turns
              /\ x \in Holders({c}) => turn'[x].lost = TRUE
              /\ x \notin Holders({c}) => turn'[x].lost = turn[x].lost
  <2>1. turn'[x] = [turn[x] EXCEPT !.lost = turn[x].lost \/ x \in Holders({c})] BY <1>7
  <2> QED BY <1>3, <2>1
<1> QED BY <1>1, <1>5, <1>8, <1>9, <1>10 DEF c

\* Steps of the queue.
LEMMA QueueType ==
    ASSUME TypeOK, Known, Attempts, QueueNext
    PROVE  TypeOK' /\ Attempts'
<1> USE InboundAssumption DEF TypeOK
<1>1. ASSUME NEW j \in Jobs, Deliver(j) PROVE TypeOK' /\ Attempts'
  BY <1>1 DEF Deliver, JobType, Attempts
<1>2. ASSUME NEW j \in Jobs, Expire(j) PROVE TypeOK' /\ Attempts'
  BY <1>2 DEF Expire, JobType, Fault, Attempts
<1>3. ASSUME NEW w \in Workers, Done(w) PROVE TypeOK' /\ Attempts'
  <2>1. turn[w].job \in Jobs BY <1>3 DEF Done, Known
  <2>2. job' \in [Jobs -> JobType] BY <1>3, <2>1 DEF Done, JobType
  <2>3. turn' \in [Workers -> TurnType] BY <1>3 DEF Done, NoTurn, TurnType
  <2> QED BY <1>3, <2>1, <2>2, <2>3 DEF Done, JobType, Attempts
<1>4. ASSUME NEW w \in Workers, Failed(w) PROVE TypeOK' /\ Attempts'
  <2>1. turn[w].job \in Jobs /\ Msg(w) \in Messages BY <1>4, MsgType DEF Failed, Known
  <2>2. job' \in [Jobs -> JobType] BY <1>4, <2>1 DEF Failed, JobType, Retry
  <2>3. turn' \in [Workers -> TurnType] BY <1>4 DEF Failed, NoTurn, TurnType
  <2> QED BY <1>4, <2>1, <2>2, <2>3 DEF Failed, JobType, Attempts, Retry
<1>5. ASSUME NEW w \in Workers, NEW j \in Jobs, Start(w, j) PROVE TypeOK' /\ Attempts'
  <2>0. job[j].starts < MaxStarts BY <1>5 DEF Start, Attempts
  <2>1. job' \in [Jobs -> JobType] BY <1>5, <2>0 DEF Start, JobType
  <2>2. [NoTurn EXCEPT !.pc = "begun", !.job = j] \in TurnType BY DEF NoTurn, TurnType
  <2>3. turn' \in [Workers -> TurnType] BY <1>5, <2>2 DEF Start
  <2>4. faults' \in 0 .. MaxFaults /\ acts' \in 0 .. MaxActs BY <1>5 DEF Start, Fault
  <2> QED BY <1>5, <2>1, <2>3, <2>4 DEF Start, JobType, Attempts
<1> QED BY <1>1, <1>2, <1>3, <1>4, <1>5 DEF QueueNext

LEMMA OthersType ==
    ASSUME TypeOK, Known,
           \/ \E w \in Workers : Crash(w) \/ EnterAdvisory(w) \/ FreesAnother(w)
           \/ \E c \in Customers : LockLapses(c)
           \/ RedisRestart
    PROVE  TypeOK'
<1> USE InboundAssumption DEF TypeOK, Fault
<1>1. ASSUME NEW w \in Workers, Crash(w) PROVE TypeOK'
  <2>1. turn' \in [Workers -> TurnType] BY <1>1 DEF Crash, NoTurn, TurnType
  <2> QED BY <1>1, <2>1 DEF Crash
<1>2. ASSUME NEW w \in Workers, EnterAdvisory(w) PROVE TypeOK'
  <2>1. ASSUME NEW t \in TurnType
        PROVE  [t EXCEPT !.pc = "inside", !.via = "advisory"] \in TurnType
    BY DEF TurnType
  <2>3. turn' \in [Workers -> TurnType] BY <1>2, <2>1 DEF EnterAdvisory
  <2>2. Customer(w) \in Customers BY <1>2, MsgType DEF EnterAdvisory
  <2> QED BY <1>2, <2>2, <2>3 DEF EnterAdvisory
<1>3. ASSUME NEW cs \in SUBSET Customers, KeysGone(cs)
      PROVE  /\ turn' \in [Workers -> TurnType]
             /\ lock' \in [Customers -> Workers \cup {None}]
             /\ breached' \subseteq Customers
             /\ faults' \in 0 .. MaxFaults
             /\ acts' \in 0 .. MaxActs
  <2>1. ASSUME NEW w \in Workers
        PROVE  [turn[w] EXCEPT !.lost = @ \/ w \in Holders(cs)] \in TurnType
    <3>1. ASSUME NEW b \in BOOLEAN PROVE [turn[w] EXCEPT !.lost = b] \in TurnType
      BY DEF TurnType
    <3>2. (turn[w].lost \/ w \in Holders(cs)) \in BOOLEAN OBVIOUS
    <3> QED BY <3>1, <3>2
  <2>2. ASSUME NEW w \in Holders(cs) PROVE Customer(w) \in Customers
    BY MsgType DEF Holders, InsideOf, Inside
  <2>3. Holders(cs) \subseteq Workers BY DEF Holders
  <2>4. breached' \subseteq Customers BY <1>3, <2>2, <2>3 DEF KeysGone
  <2> QED BY <1>3, <2>1, <2>4 DEF KeysGone
<1>4. ASSUME NEW c \in Customers, LockLapses(c) PROVE TypeOK'
  BY <1>3, <1>4 DEF LockLapses
<1>5. ASSUME RedisRestart PROVE TypeOK'
  BY <1>3, <1>5 DEF RedisRestart
<1>6. ASSUME NEW w \in Workers, FreesAnother(w) PROVE TypeOK'
  <2>1. lock' \in [Customers -> Workers \cup {None}] BY <1>6 DEF FreesAnother
  <2> QED BY <1>6, <2>1, FreedTurn DEF FreesAnother
<1> QED BY <1>1, <1>2, <1>4, <1>5, <1>6

LEMMA RowType ==
    ASSUME NEW row \in ConvType
    PROVE  /\ \A yes \in BOOLEAN : Escalated(row, yes) \in ConvType
           /\ \A read : Reset(row, read) \in ConvType
           /\ \A n \in Nat : [row EXCEPT !.failed_turns = n] \in ConvType
           /\ \A b \in BOOLEAN : [row EXCEPT !.ai_paused = b] \in ConvType
  BY DEF ConvType, Escalated, Reset

LEMMA OpenedType ==
    ASSUME TypeOK, Known, NEW w \in Workers, turn[w].pc = "loaded", NEW v \in Target(w)
    PROVE  /\ v \in Convs
           /\ Opened(w, v) \in ConvType
<1>1. Customer(w) \in Customers BY MsgType
<1>2. v \in Convs BY DEF TypeOK, TurnType, Target
<1>3. [Blank EXCEPT !.customer = Customer(w), !.status = "active"] \in ConvType
  BY <1>1 DEF Blank, ConvType
<1> QED BY <1>2, <1>3 DEF Opened, TypeOK

LEMMA MovedType ==
    ASSUME NEW t \in TurnType, NEW v \in Convs, NEW b \in BOOLEAN, NEW n \in Nat,
           NEW pc \in {"loaded", "thinking", "leaving"}
    PROVE  /\ [t EXCEPT !.pc = pc, !.conv = v] \in TurnType
           /\ [t EXCEPT !.pc = pc, !.conv = v, !.ai_paused = b, !.failed_turns = n] \in TurnType
  BY DEF TurnType

\* Counters stay counters.
LEMMA CounterType ==
    ASSUME NEW S, NEW f \in [S -> Nat], NEW s
    PROVE  /\ [f EXCEPT ![s] = @ + 1] \in [S -> Nat]
           /\ [f EXCEPT ![s] = 0] \in [S -> Nat]
<1>1. CASE s \in S
  <2>1. f[s] + 1 \in Nat BY <1>1
  <2> QED BY <2>1
<1>2. CASE s \notin S
  <2>1. [f EXCEPT ![s] = @ + 1] = f BY <1>2
  <2>2. [f EXCEPT ![s] = 0] = f BY <1>2
  <2> QED BY <2>1, <2>2
<1> QED BY <1>1, <1>2

LEMMA SpokenType ==
    ASSUME TypeOK, NEW v, Spoken(v) PROVE spoke' \in [Convs -> Nat]
<1>1. CASE conv[v].ai_paused
  <2>1. spoke' = [spoke EXCEPT ![v] = @ + 1] BY <1>1 DEF Spoken
  <2> QED BY <2>1, CounterType DEF TypeOK
<1>2. CASE ~ conv[v].ai_paused
  <2>1. spoke' = [spoke EXCEPT ![v] = @] BY <1>2 DEF Spoken
  <2> QED BY <2>1 DEF TypeOK
<1> QED BY <1>1, <1>2

\* Steps that read or write the conversations table.
LEMMA TableType ==
    ASSUME TypeOK, Known, NEW w \in Workers,
           Load(w) \/ Control(w) \/ Save(w) \/ Answer(w) \/ FallBack(w)
    PROVE  TypeOK'
<1> USE DEF TypeOK
<1>0. turn[w].pc # "idle" BY DEF Load, Control, NewRow, Save, Answer, FallBack
<1>1. Msg(w) \in Messages /\ Customer(w) \in Customers BY <1>0, MsgType
<1>2. CASE Load(w)
  <2>1. turn' \in [Workers -> TurnType]
    <3>1. CASE Active(Customer(w)) = {} BY <1>2, <3>1, AtType DEF Load
    <3>2. CASE Active(Customer(w)) # {}
      <4>1. PICK v \in Active(Customer(w)) :
              turn' = [turn EXCEPT ![w].pc = "loaded", ![w].conv = v,
                                   ![w].ai_paused = conv[v].ai_paused,
                                   ![w].failed_turns = conv[v].failed_turns]
        BY <1>2, <3>2 DEF Load
      <4>2. v \in Convs /\ conv[v].ai_paused \in BOOLEAN /\ conv[v].failed_turns \in Nat
        BY DEF Active, ConvType
      <4>3. [turn[w] EXCEPT !.pc = "loaded", !.conv = v, !.ai_paused = conv[v].ai_paused,
                            !.failed_turns = conv[v].failed_turns] \in TurnType
        BY <4>2, MovedType
      <4> QED BY <4>1, <4>3
    <3> QED BY <3>1, <3>2
  <2> QED BY <1>2, <2>1 DEF Load
<1>3. CASE Control(w)
  <2>1. PICK v \in Target(w), escalates \in BOOLEAN :
           /\ conv' = [conv EXCEPT ![v] = Escalated(Opened(w, v), escalates)]
           /\ turn' = [turn EXCEPT ![w].pc = "leaving", ![w].conv = v]
    BY <1>3 DEF Control
  <2>2. v \in Convs /\ Escalated(Opened(w, v), escalates) \in ConvType
    BY <1>3, OpenedType, RowType DEF Control, NewRow
  <2>3. conv' \in [Convs -> ConvType] BY <2>1, <2>2
  <2>4. turn' \in [Workers -> TurnType]
    <3>1. [turn[w] EXCEPT !.pc = "leaving", !.conv = v] \in TurnType BY <2>2, MovedType
    <3> QED BY <2>1, <3>1
  <2>5. answers' \in [Messages -> Nat] BY <1>3, CounterType DEF Control
  <2> QED BY <1>1, <1>3, <2>3, <2>4, <2>5 DEF Control
<1>4. CASE Save(w)
  <2>1. PICK v \in Target(w) :
           /\ conv' = [conv EXCEPT ![v] = Opened(w, v)]
           /\ turn' = [turn EXCEPT ![w].pc = AfterSave(w), ![w].conv = v]
    BY <1>4 DEF Save
  <2>2. v \in Convs /\ Opened(w, v) \in ConvType
    BY <1>4, OpenedType DEF Save, NewRow
  <2>3. conv' \in [Convs -> ConvType] BY <2>1, <2>2
  <2>4. turn' \in [Workers -> TurnType]
    <3>1. AfterSave(w) \in {"loaded", "thinking", "leaving"} BY DEF AfterSave
    <3>2. [turn[w] EXCEPT !.pc = AfterSave(w), !.conv = v] \in TurnType
      BY <2>2, <3>1, MovedType
    <3> QED BY <2>1, <3>2
  <2> QED BY <1>1, <1>4, <2>3, <2>4 DEF Save
<1>5. CASE Answer(w)
  <2> DEFINE v == turn[w].conv
  <2>1. turn' \in [Workers -> TurnType] BY <1>5, AtType DEF Answer
  <2>2. PICK escalates \in BOOLEAN :
         /\ conv' = [conv EXCEPT ![v] = IF escalates THEN Escalated(@, TRUE)
                                                     ELSE Reset(@, turn[w].failed_turns)]
         /\ streak' = IF escalates THEN streak ELSE [streak EXCEPT ![v] = 0]
    BY <1>5 DEF Answer
  <2>3. conv' \in [Convs -> ConvType] BY <2>2, RowType
  <2>4. streak' \in [Convs -> Nat] BY <2>2
  <2>5. spoke' \in [Convs -> Nat] BY <1>5, SpokenType DEF Answer
  <2>6. answers' \in [Messages -> Nat] BY <1>5, CounterType DEF Answer
  <2> QED BY <1>5, <2>1, <2>3, <2>4, <2>5, <2>6 DEF Answer
<1>6. CASE FallBack(w)
  <2> DEFINE v == turn[w].conv
             n == turn[w].failed_turns + 1
  <2>1. turn' \in [Workers -> TurnType] BY <1>6, AtType DEF FallBack
  <2>2. n \in Nat BY DEF TurnType
  <2>3. PICK rescue \in BOOLEAN :
         conv' = [conv EXCEPT ![v] = Escalated([@ EXCEPT !.failed_turns = n],
                                               rescue \/ n >= MaxFailedTurns)]
    BY <1>6 DEF FallBack
  <2>4. ASSUME NEW row \in ConvType
        PROVE  Escalated([row EXCEPT !.failed_turns = n], rescue \/ n >= MaxFailedTurns) \in ConvType
    <3> DEFINE bumped == [row EXCEPT !.failed_turns = n]
    <3>1. bumped \in ConvType BY <2>2 DEF ConvType
    <3>2. (rescue \/ n >= MaxFailedTurns) \in BOOLEAN OBVIOUS
    <3> HIDE DEF bumped, n
    <3>3. Escalated(bumped, rescue \/ n >= MaxFailedTurns) \in ConvType BY <3>1, <3>2, RowType
    <3> QED BY <3>3 DEF bumped
  <2>5. conv' \in [Convs -> ConvType] BY <2>3, <2>4
  <2>6. streak' \in [Convs -> Nat] BY <1>6, CounterType DEF FallBack
  <2>7. answers' \in [Messages -> Nat] BY <1>6, CounterType DEF FallBack
  <2>8. spoke' \in [Convs -> Nat] BY <1>6, SpokenType DEF FallBack
  <2> QED BY <1>6, <2>1, <2>5, <2>6, <2>7, <2>8 DEF FallBack
<1> QED BY <1>2, <1>3, <1>4, <1>5, <1>6

LEMMA StaffType == ASSUME TypeOK, StaffNext PROVE TypeOK'
<1>1. PICK v \in Convs : Takeover(v) \/ Release(v) \/ Resolve(v) BY DEF StaffNext
<1>2. conv' \in [Convs -> ConvType]
  <2>1. [conv[v] EXCEPT !.ai_paused = TRUE] \in ConvType BY DEF TypeOK, ConvType
  <2>2. [conv[v] EXCEPT !.ai_paused = FALSE, !.failed_turns = 0] \in ConvType
    BY DEF TypeOK, ConvType
  <2>3. [conv[v] EXCEPT !.status = "resolved", !.ai_paused = FALSE] \in ConvType
    BY DEF TypeOK, ConvType
  <2>4. CASE Takeover(v) BY <2>1, <2>4 DEF TypeOK, Takeover
  <2>5. CASE Release(v) BY <2>2, <2>5 DEF TypeOK, Release
  <2>6. CASE Resolve(v) BY <2>3, <2>6 DEF TypeOK, Resolve
  <2> QED BY <1>1, <2>4, <2>5, <2>6
<1>3. spoke' \in [Convs -> Nat] BY <1>1 DEF TypeOK, Takeover, Release, Resolve
<1> QED BY <1>1, <1>2, <1>3, InboundAssumption DEF TypeOK, Takeover, Release, Resolve, Act

LEMMA Types ==
    ASSUME TypeOK, Known, Attempts, Next
    PROVE  TypeOK' /\ Attempts'
<1>1. CASE QueueNext BY <1>1, QueueType
<1>2. CASE LockNext
  <2>1. TypeOK' BY <1>2, QuietTurnType, OthersType DEF LockNext
  <2>2. job' = job
    BY <1>2 DEF LockNext, Enter, Busy, EnterAdvisory, Leave, LeaveFails, FreesAnother,
                LockLapses, RedisRestart
  <2> QED BY <2>1, <2>2 DEF Attempts
<1>3. CASE TurnNext
  <2>1. TypeOK' BY <1>3, QuietTurnType, OthersType, TableType DEF TurnNext
  <2>2. job' = job
    BY <1>3 DEF TurnNext, ClaimMessage, ClaimFails, Deflect, TurnAway, Load, Control, Save,
                Answer, FallBack, Raise, SendReply, SendFails, Crash
  <2> QED BY <2>1, <2>2 DEF Attempts
<1>4. CASE StaffNext
  <2>1. TypeOK' BY <1>4, StaffType
  <2>2. job' = job BY <1>4 DEF StaffNext, Takeover, Release, Resolve
  <2> QED BY <2>1, <2>2 DEF Attempts
<1> QED BY <1>1, <1>2, <1>3, <1>4 DEF Next

-----------------------------------------------------------------------------
(* How turns move *)

\* What a step may do to a turn: end or begin it, move it on with what it holds,
\* or load it.  History apart: its key may go meanwhile.
TurnStep(w) ==
    \/ turn'[w] = turn[w]
    \/ turn'[w].pc = "idle"
    \/ /\ turn'[w].pc = "begun"
       /\ turn'[w].job \in Jobs /\ turn'[w].conv = None /\ turn'[w].failed_turns = 0
       /\ turn'[w].via = "redis" /\ turn'[w].lost = FALSE
    \/ /\ turn[w].pc # "idle"
       /\ turn'[w].job = turn[w].job
       /\ turn'[w].pc \in {"begun", "claimed", "inside"} =>
            /\ turn[w].pc \in {"begun", "claimed", "inside"}
            /\ turn'[w].conv = turn[w].conv /\ turn'[w].failed_turns = turn[w].failed_turns
       /\ turn'[w].pc \in {"begun", "claimed"} =>
            /\ turn[w].pc \in {"begun", "claimed"}
            /\ turn'[w].via = turn[w].via /\ turn'[w].lost = turn[w].lost

LEMMA TurnsKnown ==
    ASSUME Known, Early, \A w \in Workers : TurnStep(w)
    PROVE  Known' /\ Early'
  BY DEF Known, Early, TurnStep

\* Loading a conversation and committing to it keep the turn what it was.
LEMMA TableMoves ==
    ASSUME TypeOK, NEW w \in Workers, Load(w) \/ Control(w) \/ Save(w)
    PROVE  /\ turn[w].pc \in {"inside", "loaded"}
           /\ turn'[w].pc \in {"loaded", "thinking", "leaving"}
           /\ turn'[w].job = turn[w].job
           /\ turn'[w].via = turn[w].via /\ turn'[w].lost = turn[w].lost
           /\ \A x \in Workers : x # w => turn'[x] = turn[x]
<1> USE DEF TypeOK
<1>1. CASE Load(w) /\ Active(Customer(w)) = {}
  <2>1. At(w, "loaded") BY <1>1 DEF Load
  <2>2. turn'[w] = [turn[w] EXCEPT !.pc = "loaded"] BY <2>1, AtType
  <2> QED BY <1>1, <2>1, <2>2, AtType DEF Load, TurnType
<1>2. CASE Load(w) /\ Active(Customer(w)) # {}
  <2>1. PICK v : turn' = [turn EXCEPT ![w].pc = "loaded", ![w].conv = v,
                                      ![w].ai_paused = conv[v].ai_paused,
                                      ![w].failed_turns = conv[v].failed_turns]
    BY <1>2 DEF Load
  <2>2. turn'[w] = [turn[w] EXCEPT !.pc = "loaded", !.conv = v, !.ai_paused = conv[v].ai_paused,
                                   !.failed_turns = conv[v].failed_turns]
    BY <2>1
  <2>3. \A x \in Workers : x # w => turn'[x] = turn[x] BY <2>1
  <2>4. turn[w].pc = "inside" BY <1>2 DEF Load
  <2>5. /\ turn'[w].pc = "loaded" /\ turn'[w].job = turn[w].job
        /\ turn'[w].via = turn[w].via /\ turn'[w].lost = turn[w].lost
    BY <2>2 DEF TurnType
  <2> QED BY <2>3, <2>4, <2>5
<1>3. CASE Control(w) \/ Save(w)
  <2>1. \E pc \in {"thinking", "leaving"} : \E v :
          turn' = [turn EXCEPT ![w].pc = pc, ![w].conv = v]
    <3>1. CASE Control(w) BY <3>1 DEF Control
    <3>2. CASE Save(w)
      <4>1. AfterSave(w) \in {"thinking", "leaving"} BY DEF AfterSave
      <4>2. PICK v : turn' = [turn EXCEPT ![w].pc = AfterSave(w), ![w].conv = v]
        BY <3>2 DEF Save
      <4> QED BY <4>1, <4>2
    <3> QED BY <1>3, <3>1, <3>2
  <2>2. PICK pc \in {"thinking", "leaving"} : \E v :
          turn'[w] = [turn[w] EXCEPT !.pc = pc, !.conv = v]
    BY <2>1
  <2>3. \A x \in Workers : x # w => turn'[x] = turn[x] BY <2>1
  <2>4. turn[w].pc = "loaded" BY <1>3 DEF Control, Save, NewRow
  <2> QED BY <2>2, <2>3, <2>4 DEF TurnType
<1> QED BY <1>1, <1>2, <1>3

\* A turn keeps its job through its own steps.
LEMMA StepsKnown ==
    ASSUME TypeOK, Known, Early, Next
    PROVE  Known' /\ Early'
<1> SUFFICES ASSUME NEW x \in Workers PROVE TurnStep(x) BY TurnsKnown
<1> USE DEF TypeOK, TurnStep
<1>1. CASE QueueNext
  <2>1. ASSUME NEW j \in Jobs, Deliver(j) \/ Expire(j) PROVE TurnStep(x)
    BY <2>1 DEF Deliver, Expire
  <2>2. ASSUME NEW w \in Workers, Done(w) \/ Failed(w) PROVE TurnStep(x)
    BY <2>2 DEF Done, Failed, NoTurn
  <2>3. ASSUME NEW w \in Workers, NEW j \in Jobs, Start(w, j) PROVE TurnStep(x)
    <3>1. turn' = [turn EXCEPT ![w] = [NoTurn EXCEPT !.pc = "begun", !.job = j]]
      BY <2>3 DEF Start
    <3>2. CASE x = w BY <3>1, <3>2 DEF NoTurn
    <3>3. CASE x # w BY <3>1, <3>3
    <3> QED BY <3>2, <3>3
  <2> QED BY <1>1, <2>1, <2>2, <2>3 DEF QueueNext
<1>2. CASE LockNext
  <2>1. ASSUME NEW w \in Workers, Enter(w) \/ Busy(w) \/ Leave(w) \/ LeaveFails(w)
        PROVE  TurnStep(x)
    BY <2>1 DEF Enter, Busy, Leave, LeaveFails, At, TurnType
  <2>2. ASSUME NEW w \in Workers, EnterAdvisory(w) PROVE TurnStep(x)
    BY <2>2 DEF EnterAdvisory, TurnType
  <2>3. ASSUME NEW cs \in SUBSET Customers, KeysGone(cs) PROVE TurnStep(x)
    <3>1. turn'[x] = [turn[x] EXCEPT !.lost = @ \/ x \in Holders(cs)] BY <2>3 DEF KeysGone
    <3>2. CASE x \in Holders(cs)
      <4>1. turn[x].pc \in {"inside", "loaded", "thinking", "leaving"}
        BY <3>2 DEF Holders, InsideOf, Inside
      <4> QED BY <3>1, <4>1 DEF TurnType
    <3>3. CASE x \notin Holders(cs)
      <4>1. turn'[x] = [turn[x] EXCEPT !.lost = @] BY <3>1, <3>3 DEF TurnType
      <4> QED BY <4>1 DEF TurnType
    <3> QED BY <3>2, <3>3
  <2>4. ASSUME NEW w \in Workers, FreesAnother(w) PROVE TurnStep(x)
    <3>1. CASE x = w BY <2>4, <3>1, FreedTurn DEF Inside
    <3>2. CASE x \in Holders({Customer(w)}) /\ x # w
      <4>1. turn[x].pc \in {"inside", "loaded", "thinking", "leaving"}
        BY <3>2 DEF Holders, InsideOf, Inside
      <4> QED BY <2>4, <3>2, <4>1, FreedTurn
    <3>3. CASE x \notin Holders({Customer(w)}) /\ x # w
      <4>1. turn'[x] = [turn[x] EXCEPT !.lost = @ \/ x \in Holders({Customer(w)})]
        BY <2>4, <3>3 DEF FreesAnother
      <4>2. turn'[x] = [turn[x] EXCEPT !.lost = @] BY <3>3, <4>1 DEF TurnType
      <4> QED BY <4>2 DEF TurnType
    <3> QED BY <3>1, <3>2, <3>3
  <2> QED BY <1>2, <2>1, <2>2, <2>3, <2>4 DEF LockNext, LockLapses, RedisRestart
<1>3. CASE TurnNext
  <2>0. ASSUME NEW w \in Workers, NEW pc \in {"claimed", "leaving", "answered", "raised", "replying"},
               At(w, pc), turn[w].pc # "idle", pc = "claimed" => turn[w].pc = "begun"
        PROVE  TurnStep(x)
    <3>1. CASE x = w
      <4>1. turn'[w] = [turn[w] EXCEPT !.pc = pc] BY <2>0, AtType
      <4>2. /\ turn'[w].pc = pc /\ turn'[w].job = turn[w].job
            /\ turn'[w].conv = turn[w].conv /\ turn'[w].failed_turns = turn[w].failed_turns
            /\ turn'[w].via = turn[w].via /\ turn'[w].lost = turn[w].lost
        BY <4>1 DEF TurnType
      <4> QED BY <2>0, <3>1, <4>2
    <3>2. CASE x # w BY <2>0, <3>2, AtType
    <3> QED BY <3>1, <3>2
  <2>1. ASSUME NEW w \in Workers,
               \/ ClaimMessage(w) \/ ClaimFails(w) \/ Deflect(w) \/ TurnAway(w)
               \/ Answer(w) \/ FallBack(w) \/ Raise(w) \/ SendReply(w) \/ SendFails(w)
        PROVE  TurnStep(x)
    <3>1. CASE ClaimMessage(w) BY <3>1, <2>0 DEF ClaimMessage
    <3>2. CASE ~ ClaimMessage(w)
      BY <2>1, <3>2, <2>0
         DEF ClaimFails, Deflect, TurnAway, Answer, FallBack, Raise, SendReply, SendFails
    <3> QED BY <3>1, <3>2
  <2>2. ASSUME NEW w \in Workers, Load(w) \/ Control(w) \/ Save(w) PROVE TurnStep(x)
    <3>1. CASE x = w BY <2>2, <3>1, TableMoves
    <3>2. CASE x # w BY <2>2, <3>2, TableMoves
    <3> QED BY <3>1, <3>2
  <2>3. ASSUME NEW w \in Workers, Crash(w) PROVE TurnStep(x)
    BY <2>3 DEF Crash, NoTurn
  <2> QED BY <1>3, <2>1, <2>2, <2>3 DEF TurnNext
<1>4. CASE StaffNext BY <1>4 DEF StaffNext, Takeover, Release, Resolve
<1> QED BY <1>1, <1>2, <1>3, <1>4 DEF Next

-----------------------------------------------------------------------------
(* The lock *)

\* A step that does not let x in, nor touches what is known of its key.
Keeps(x) == Inside(x)' =>
    /\ Inside(x)
    /\ turn'[x].job = turn[x].job /\ turn'[x].via = turn[x].via /\ turn'[x].lost = turn[x].lost

LEMMA KeysKept ==
    ASSUME KeyHeld, LossSeen, \A x \in Workers : Keeps(x),
           \A x \in Workers : Inside(x)' => lock'[Customer(x)] = lock[Customer(x)],
           breached \subseteq breached'
    PROVE  KeyHeld' /\ LossSeen'
<1>1. ASSUME NEW x \in Workers, Inside(x)'
      PROVE  /\ Inside(x) /\ Customer(x)' = Customer(x)
             /\ turn'[x].via = turn[x].via /\ turn'[x].lost = turn[x].lost
             /\ lock'[Customer(x)] = lock[Customer(x)]
  BY <1>1 DEF Keeps, Customer, Msg
<1> QED BY <1>1 DEF KeyHeld, LossSeen

\* Moving a turn on keeps its key, unless that lets it in.
LEMMA MovesKeep ==
    ASSUME TypeOK, NEW w \in Workers,
           NEW pc \in {"idle", "begun", "claimed", "inside", "loaded", "thinking",
                       "leaving", "replying", "answered", "raised"},
           At(w, pc), pc \in {"inside", "loaded", "thinking", "leaving"} => Inside(w)
    PROVE  \A x \in Workers : Keeps(x)
<1>1. turn'[w] = [turn[w] EXCEPT !.pc = pc] BY AtType DEF TypeOK
<1>2. /\ turn'[w].pc = pc /\ turn'[w].job = turn[w].job
      /\ turn'[w].via = turn[w].via /\ turn'[w].lost = turn[w].lost
  BY <1>1 DEF TypeOK, TurnType
<1>3. Keeps(w) BY <1>2 DEF Keeps, Inside
<1>4. ASSUME NEW x \in Workers, x # w PROVE Keeps(x)
  <2>1. turn'[x] = turn[x] BY <1>4, AtType DEF TypeOK
  <2> QED BY <2>1 DEF Keeps, Inside
<1> QED BY <1>3, <1>4

\* A turn that gives its key up takes no other turn's along.
LEMMA FreedKeeps ==
    ASSUME TypeOK, Known, KeyHeld, LossSeen, NEW w \in Workers, Inside(w),
           At(w, "raised") \/ At(w, "replying"), lock' \in {lock, Freed(w)},
           breached' = breached
    PROVE  KeyHeld' /\ LossSeen'
<1>1. \A x \in Workers : Keeps(x) BY MovesKeep
<1>2. ~ Inside(w)'
  <2>1. turn'[w].pc \in {"raised", "replying"} BY AtType DEF TypeOK, TurnType
  <2> QED BY <2>1 DEF Inside
<1>3. ASSUME NEW x \in Workers, Inside(x)' PROVE x # w /\ Inside(x) /\ turn'[x] = turn[x]
  <2>1. x # w BY <1>2, <1>3
  <2>2. turn'[x] = turn[x] BY <2>1, AtType DEF TypeOK
  <2> QED BY <1>1, <1>3, <2>1, <2>2 DEF Keeps
<1>4. ASSUME NEW x \in Workers, Inside(x)', turn[x].via = "redis", turn[x].lost = FALSE
      PROVE  lock'[Customer(x)] = x
  <2>1. lock[Customer(x)] = x BY <1>3, <1>4 DEF KeyHeld
  <2>2. Customer(x) \in Customers BY <1>3, <1>4, MsgType DEF Inside
  <2> QED BY <1>3, <1>4, <2>1, <2>2 DEF Freed, TypeOK
<1>5. ASSUME NEW x \in Workers, Inside(x)' PROVE Customer(x)' = Customer(x)
  BY <1>3, <1>5 DEF Customer, Msg
<1>6. KeyHeld' BY <1>3, <1>4, <1>5 DEF KeyHeld
<1>7. LossSeen' BY <1>3, <1>5 DEF LossSeen
<1> QED BY <1>6, <1>7

LEMMA LockKeys ==
    ASSUME TypeOK, Known, Early, KeyHeld, LossSeen, LockNext
    PROVE  KeyHeld' /\ LossSeen'
<1> USE DEF TypeOK
<1>1. ASSUME NEW w \in Workers, Enter(w) PROVE KeyHeld' /\ LossSeen'
  <2>1. Customer(w) \in Customers BY <1>1, MsgType DEF Enter
  <2>2. turn'[w] = [turn[w] EXCEPT !.pc = "inside"] BY <1>1, AtType DEF Enter
  <2>3. turn'[w].job = turn[w].job /\ turn'[w].via = turn[w].via /\ turn'[w].lost = turn[w].lost
    BY <2>2 DEF TurnType
  <2>4. ASSUME NEW x \in Workers, x # w PROVE turn'[x] = turn[x] BY <1>1, <2>4, AtType DEF Enter
  <2>5. \A x \in Workers : Customer(x)' = Customer(x) BY <2>3, <2>4 DEF Customer, Msg
  <2>6. lock'[Customer(w)] = w BY <1>1, <2>1 DEF Enter
  <2>7. ASSUME NEW x \in Workers, x # w, Inside(x), turn[x].via = "redis", turn[x].lost = FALSE
        PROVE  lock'[Customer(x)] = x
    <3>1. lock[Customer(x)] = x BY <2>7 DEF KeyHeld
    <3>2. Customer(x) # Customer(w) BY <1>1, <3>1, InboundAssumption DEF Enter
    <3> QED BY <1>1, <3>1, <3>2 DEF Enter
  <2>8. KeyHeld' BY <2>3, <2>4, <2>5, <2>6, <2>7 DEF KeyHeld, Inside
  <2>9. turn'[w].lost = FALSE /\ turn'[w].via = "redis" BY <1>1, <2>3 DEF Enter, Early
  <2>10. ASSUME NEW x \in Workers, Inside(x)', turn'[x].via = "advisory" \/ turn'[x].lost = TRUE
         PROVE  Customer(x)' \in breached'
    <3>1. x # w BY <2>9, <2>10
    <3>2. turn'[x] = turn[x] BY <2>4, <3>1
    <3>3. Inside(x) BY <2>10, <3>2 DEF Inside
    <3>4. Customer(x) \in breached BY <2>10, <3>2, <3>3 DEF LossSeen
    <3> QED BY <1>1, <2>5, <3>4 DEF Enter
  <2>11. LossSeen' BY <2>10 DEF LossSeen
  <2> QED BY <2>8, <2>11
<1>2. ASSUME NEW w \in Workers, Busy(w) \/ LeaveFails(w) PROVE KeyHeld' /\ LossSeen'
  <2>1. \E pc \in {"replying", "raised"} : At(w, pc) BY <1>2 DEF Busy, LeaveFails
  <2>2. \A x \in Workers : Keeps(x) BY <2>1, MovesKeep
  <2> QED BY <1>2, <2>2, KeysKept DEF Busy, LeaveFails
<1>3. ASSUME NEW w \in Workers, Leave(w) PROVE KeyHeld' /\ LossSeen'
  BY <1>3, FreedKeeps DEF Leave, Inside
<1>4. ASSUME NEW w \in Workers, EnterAdvisory(w) PROVE KeyHeld' /\ LossSeen'
  <2>1. turn'[w] = [turn[w] EXCEPT !.pc = "inside", !.via = "advisory"]
    BY <1>4 DEF EnterAdvisory
  <2>2. turn'[w].job = turn[w].job /\ turn'[w].via = "advisory" BY <2>1 DEF TurnType
  <2>3. ASSUME NEW x \in Workers, x # w PROVE turn'[x] = turn[x]
    BY <1>4, <2>3 DEF EnterAdvisory
  <2>4. \A x \in Workers : Customer(x)' = Customer(x) BY <2>2, <2>3 DEF Customer, Msg
  <2>5. lock' = lock /\ breached' = breached \cup {Customer(w)} BY <1>4 DEF EnterAdvisory
  <2>6. ASSUME NEW x \in Workers, Inside(x)', turn'[x].via = "redis", turn'[x].lost = FALSE
        PROVE  lock'[Customer(x)'] = x
    <3>1. x # w BY <2>2, <2>6
    <3>2. turn'[x] = turn[x] BY <2>3, <3>1
    <3>3. Inside(x) BY <2>6, <3>2 DEF Inside
    <3> QED BY <2>4, <2>5, <2>6, <3>2, <3>3 DEF KeyHeld
  <2>7. ASSUME NEW x \in Workers, Inside(x)', turn'[x].via = "advisory" \/ turn'[x].lost = TRUE
        PROVE  Customer(x)' \in breached'
    <3>1. CASE x = w BY <2>4, <2>5, <3>1
    <3>2. CASE x # w
      <4>1. turn'[x] = turn[x] BY <2>3, <3>2
      <4>2. Inside(x) BY <2>7, <4>1 DEF Inside
      <4> QED BY <2>4, <2>5, <2>7, <4>1, <4>2 DEF LossSeen
    <3> QED BY <3>1, <3>2
  <2> QED BY <2>6, <2>7 DEF KeyHeld, LossSeen
<1>5. ASSUME NEW cs \in SUBSET Customers, KeysGone(cs) PROVE KeyHeld' /\ LossSeen'
  <2>1. ASSUME NEW x \in Workers, x \in Holders(cs)
        PROVE  turn'[x].lost = TRUE /\ Customer(x) \in breached'
    <3>1. turn'[x] = [turn[x] EXCEPT !.lost = @ \/ x \in Holders(cs)] BY <1>5 DEF KeysGone
    <3>2. turn'[x].lost = TRUE BY <2>1, <3>1 DEF TurnType
    <3> QED BY <1>5, <2>1, <3>2 DEF KeysGone
  <2>2. ASSUME NEW x \in Workers, x \notin Holders(cs) PROVE turn'[x] = turn[x]
    <3>1. turn'[x] = [turn[x] EXCEPT !.lost = @ \/ x \in Holders(cs)] BY <1>5 DEF KeysGone
    <3>2. turn'[x] = [turn[x] EXCEPT !.lost = @] BY <2>2, <3>1 DEF TurnType
    <3> QED BY <3>2 DEF TurnType
  <2>3. ASSUME NEW x \in Workers
        PROVE  turn'[x].pc = turn[x].pc /\ turn'[x].job = turn[x].job /\ turn'[x].via = turn[x].via
    <3>1. turn'[x] = [turn[x] EXCEPT !.lost = @ \/ x \in Holders(cs)] BY <1>5 DEF KeysGone
    <3> QED BY <3>1 DEF TurnType
  <2>4. \A x \in Workers : Customer(x)' = Customer(x) /\ (Inside(x)' <=> Inside(x))
    BY <2>3 DEF Customer, Msg, Inside
  <2>5. ASSUME NEW x \in Workers, Inside(x)', turn'[x].via = "redis", turn'[x].lost = FALSE
        PROVE  lock'[Customer(x)'] = x
    <3>1. x \notin Holders(cs) /\ Inside(x) BY <2>1, <2>4, <2>5
    <3>2. lock[Customer(x)] = x BY <2>2, <2>5, <3>1 DEF KeyHeld
    <3>3. Customer(x) \in Customers BY <3>1, MsgType DEF Inside
    <3>4. Customer(x) \notin cs BY <3>1, <3>2 DEF Holders, InsideOf
    <3> QED BY <1>5, <2>4, <3>2, <3>3, <3>4 DEF KeysGone
  <2>6. ASSUME NEW x \in Workers, Inside(x)', turn'[x].via = "advisory" \/ turn'[x].lost = TRUE
        PROVE  Customer(x)' \in breached'
    <3>1. CASE x \in Holders(cs) BY <2>1, <2>4, <3>1
    <3>2. CASE x \notin Holders(cs)
      <4>1. Customer(x) \in breached BY <2>2, <2>4, <2>6, <3>2 DEF LossSeen
      <4> QED BY <1>5, <2>4, <4>1 DEF KeysGone
    <3> QED BY <3>1, <3>2
  <2> QED BY <2>5, <2>6 DEF KeyHeld, LossSeen
<1>6. ASSUME NEW c \in Customers, LockLapses(c) PROVE KeyHeld' /\ LossSeen'
  BY <1>5, <1>6 DEF LockLapses
<1>7. ASSUME RedisRestart PROVE KeyHeld' /\ LossSeen'
  BY <1>5, <1>7 DEF RedisRestart
<1>8. ASSUME NEW w \in Workers, FreesAnother(w) PROVE KeyHeld' /\ LossSeen'
  <2> DEFINE gone == Holders({Customer(w)})
  <2>1. /\ lock' = [lock EXCEPT ![Customer(w)] = None]
        /\ breached' = breached \cup {Customer(x) : x \in gone}
    BY <1>8 DEF FreesAnother
  <2>2. \A x \in Workers : Customer(x)' = Customer(x)
    BY <1>8, FreedTurn DEF Customer, Msg
  <2>3. ASSUME NEW x \in Workers, Inside(x)'
        PROVE  /\ x # w /\ Inside(x) /\ turn'[x].via = turn[x].via
               /\ x \in gone => turn'[x].lost = TRUE
               /\ x \notin gone => turn'[x].lost = turn[x].lost
    BY <1>8, <2>3, FreedTurn DEF Inside
  <2>4. ASSUME NEW x \in Workers, Inside(x)', turn'[x].via = "redis", turn'[x].lost = FALSE
        PROVE  lock'[Customer(x)'] = x
    <3>1. Inside(x) /\ turn[x].via = "redis" /\ turn[x].lost = FALSE /\ x \notin gone
      BY <2>3, <2>4
    <3>2. lock[Customer(x)] = x BY <3>1 DEF KeyHeld
    <3>3. Customer(x) \in Customers BY <3>1, MsgType DEF Inside
    <3>4. Customer(x) # Customer(w) BY <3>1, <3>2 DEF Holders, InsideOf
    <3> QED BY <2>1, <2>2, <3>2, <3>3, <3>4
  <2>5. ASSUME NEW x \in Workers, Inside(x)', turn'[x].via = "advisory" \/ turn'[x].lost = TRUE
        PROVE  Customer(x)' \in breached'
    <3>1. CASE x \in gone BY <2>1, <2>2, <3>1
    <3>2. CASE x \notin gone
      <4>1. Inside(x) /\ (turn[x].via = "advisory" \/ turn[x].lost = TRUE) BY <2>3, <2>5, <3>2
      <4>2. Customer(x) \in breached BY <4>1 DEF LossSeen
      <4> QED BY <2>1, <2>2, <4>2
    <3> QED BY <3>1, <3>2
  <2> QED BY <2>4, <2>5 DEF KeyHeld, LossSeen
<1> QED BY <1>1, <1>2, <1>3, <1>4, <1>6, <1>7, <1>8 DEF LockNext

LEMMA StepKeys ==
    ASSUME TypeOK, Known, Early, KeyHeld, LossSeen, Next
    PROVE  KeyHeld' /\ LossSeen'
<1> USE DEF TypeOK
<1>1. CASE QueueNext
  <2>1. lock' = lock /\ breached' = breached
    BY <1>1 DEF QueueNext, Deliver, Expire, Done, Failed, Start
  <2>2. ASSUME NEW x \in Workers PROVE Keeps(x)
    <3>1. turn'[x] = turn[x] \/ turn'[x].pc \in {"idle", "begun"}
      <4>1. ASSUME NEW j \in Jobs, Deliver(j) \/ Expire(j) PROVE turn'[x] = turn[x]
        BY <4>1 DEF Deliver, Expire
      <4>2. ASSUME NEW w \in Workers, Done(w) \/ Failed(w)
            PROVE  turn'[x] = turn[x] \/ turn'[x].pc = "idle"
        BY <4>2 DEF Done, Failed, NoTurn
      <4>3. ASSUME NEW w \in Workers, NEW j \in Jobs, Start(w, j)
            PROVE  turn'[x] = turn[x] \/ turn'[x].pc = "begun"
        <5>1. turn' = [turn EXCEPT ![w] = [NoTurn EXCEPT !.pc = "begun", !.job = j]]
          BY <4>3 DEF Start
        <5>2. CASE x = w BY <5>1, <5>2 DEF NoTurn
        <5>3. CASE x # w BY <5>1, <5>3
        <5> QED BY <5>2, <5>3
      <4> QED BY <1>1, <4>1, <4>2, <4>3 DEF QueueNext
    <3> QED BY <3>1 DEF Keeps, Inside
  <2> QED BY <2>1, <2>2, KeysKept
<1>2. CASE LockNext BY <1>2, LockKeys
<1>3. CASE TurnNext
  <2>1. ASSUME NEW w \in Workers, Raise(w) PROVE KeyHeld' /\ LossSeen'
    BY <2>1, FreedKeeps DEF Raise, Inside
  <2>2. ASSUME NEW w \in Workers, NEW pc \in {"claimed", "leaving", "answered", "raised", "replying"},
               At(w, pc), pc = "leaving" => Inside(w), lock' = lock, breached' = breached
        PROVE  KeyHeld' /\ LossSeen'
    <3>1. \A x \in Workers : Keeps(x) BY <2>2, MovesKeep
    <3> QED BY <2>2, <3>1, KeysKept
  <2>3. ASSUME NEW w \in Workers,
               \/ ClaimMessage(w) \/ ClaimFails(w) \/ Deflect(w) \/ TurnAway(w)
               \/ Answer(w) \/ FallBack(w) \/ SendReply(w) \/ SendFails(w)
        PROVE  KeyHeld' /\ LossSeen'
    <3>1. CASE ClaimMessage(w) BY <3>1, <2>2 DEF ClaimMessage
    <3>2. CASE ~ ClaimMessage(w)
      BY <2>2, <2>3, <3>2 DEF ClaimFails, Deflect, TurnAway, Answer, FallBack, SendReply, SendFails,
                              Inside
    <3> QED BY <3>1, <3>2
  <2>4. ASSUME NEW w \in Workers, Load(w) \/ Control(w) \/ Save(w)
        PROVE  KeyHeld' /\ LossSeen'
    <3>1. \A x \in Workers : Keeps(x) BY <2>4, TableMoves DEF Keeps, Inside
    <3> QED BY <2>4, <3>1, KeysKept DEF Load, Control, Save
  <2>5. ASSUME NEW w \in Workers, Crash(w) PROVE KeyHeld' /\ LossSeen'
    <3>1. \A x \in Workers : Keeps(x) BY <2>5 DEF Crash, Keeps, Inside, NoTurn
    <3> QED BY <2>5, <3>1, KeysKept DEF Crash
  <2> QED BY <1>3, <2>1, <2>3, <2>4, <2>5 DEF TurnNext
<1>4. CASE StaffNext
  <2>1. UNCHANGED <<turn, lock, breached>> BY <1>4 DEF StaffNext, Takeover, Release, Resolve
  <2>2. \A x \in Workers : Keeps(x) BY <2>1 DEF Keeps, Inside
  <2> QED BY <2>1, <2>2, KeysKept
<1> QED BY <1>1, <1>2, <1>3, <1>4 DEF Next

-----------------------------------------------------------------------------
(* The tables, left alone *)

\* A step that does not set x to work, nor touches what it has read.
Quiet(x) == turn'[x].pc \in {"loaded", "thinking"} =>
    /\ turn'[x].pc = turn[x].pc /\ turn'[x].job = turn[x].job /\ turn'[x].conv = turn[x].conv
    /\ turn'[x].ai_paused = turn[x].ai_paused /\ turn'[x].failed_turns = turn[x].failed_turns

Tables == <<conv, rows, answers, spoke, streak>>

LEMMA QuietRows ==
    ASSUME Rows, UNCHANGED Tables, breached \subseteq breached', \A x \in Workers : Quiet(x)
    PROVE  Rows'
<1> USE DEF Tables
<1>1. ASSUME NEW x \in Workers, turn'[x].pc \in {"loaded", "thinking"}
      PROVE  /\ turn'[x].pc = turn[x].pc /\ turn'[x].conv = turn[x].conv
             /\ turn'[x].ai_paused = turn[x].ai_paused /\ turn'[x].failed_turns = turn[x].failed_turns
             /\ Msg(x)' = Msg(x) /\ Customer(x)' = Customer(x)
  BY <1>1 DEF Quiet, Msg, Customer
<1>2. \A c : Active(c)' = Active(c) BY DEF Active
<1>3. Asked' BY <1>1 DEF Rows, Asked
<1>4. Fresh' BY DEF Rows, Fresh
<1>5. Reading'
  <2> SUFFICES ASSUME NEW x \in Workers, Working(x)'
               PROVE  /\ turn'[x].conv = None => OpensAlone(x)'
                      /\ turn'[x].conv # None => ReadsTruly(x)'
                      /\ turn'[x].pc = "thinking" => turn'[x].ai_paused = FALSE
    BY DEF Reading
  <2>1. /\ turn'[x].pc = turn[x].pc /\ turn'[x].conv = turn[x].conv
        /\ turn'[x].ai_paused = turn[x].ai_paused /\ turn'[x].failed_turns = turn[x].failed_turns
        /\ Customer(x)' = Customer(x)
    BY <1>1 DEF Working
  <2>2. Working(x) BY <2>1 DEF Working
  <2>3. turn[x].conv = None => OpensAlone(x)' BY <1>2, <2>1, <2>2 DEF Rows, Reading, OpensAlone
  <2>4. turn[x].conv # None => ReadsTruly(x)' BY <2>1, <2>2 DEF Rows, Reading, ReadsTruly
  <2> QED BY <2>1, <2>2, <2>3, <2>4 DEF Rows, Reading
<1>6. OneRow' BY <1>2 DEF Rows, OneRow
<1>7. AnsweredOnce' /\ TakeoverSilencesModel' /\ StrikesAreReal'
  BY DEF Rows, AnsweredOnce, TakeoverSilencesModel, StrikesAreReal
<1> QED BY <1>3, <1>4, <1>5, <1>6, <1>7 DEF Rows

LEMMA AtQuiet ==
    ASSUME TypeOK, NEW w \in Workers,
           NEW pc \in {"claimed", "inside", "leaving", "replying", "answered", "raised"}, At(w, pc)
    PROVE  \A x \in Workers : Quiet(x)
<1>0. turn'[w] = [turn[w] EXCEPT !.pc = pc] BY AtType DEF TypeOK
<1>1. turn'[w].pc = pc BY <1>0 DEF TypeOK, TurnType
<1>2. \A x \in Workers : x # w => turn'[x] = turn[x] BY AtType DEF TypeOK
<1> QED BY <1>1, <1>2 DEF Quiet

LEMMA QueueRows == ASSUME TypeOK, Rows, QueueNext PROVE Rows'
<1>1. UNCHANGED Tables /\ breached' = breached
  BY DEF QueueNext, Deliver, Expire, Done, Failed, Start, Tables
<1>2. ASSUME NEW x \in Workers PROVE Quiet(x)
  <2>1. ASSUME NEW j \in Jobs, Deliver(j) \/ Expire(j) PROVE Quiet(x)
    BY <2>1 DEF Deliver, Expire, Quiet
  <2>2. ASSUME NEW w \in Workers, Done(w) \/ Failed(w) PROVE Quiet(x)
    BY <2>2 DEF Done, Failed, NoTurn, Quiet, TypeOK
  <2>3. ASSUME NEW w \in Workers, NEW j \in Jobs, Start(w, j) PROVE Quiet(x)
    <3>1. turn' = [turn EXCEPT ![w] = [NoTurn EXCEPT !.pc = "begun", !.job = j]]
      BY <2>3 DEF Start
    <3>2. CASE x = w BY <3>1, <3>2 DEF NoTurn, Quiet, TypeOK
    <3>3. CASE x # w BY <3>1, <3>3 DEF Quiet, TypeOK
    <3> QED BY <3>2, <3>3
  <2> QED BY <2>1, <2>2, <2>3 DEF QueueNext
<1> QED BY <1>1, <1>2, QuietRows

LEMMA LockRows == ASSUME TypeOK, Known, Rows, LockNext PROVE Rows'
<1>1. UNCHANGED Tables /\ breached \subseteq breached'
  BY DEF LockNext, Enter, Busy, EnterAdvisory, Leave, LeaveFails, FreesAnother, LockLapses,
         RedisRestart, KeysGone, Tables
<1>2. ASSUME NEW x \in Workers PROVE Quiet(x)
  <2>1. ASSUME NEW w \in Workers, Enter(w) \/ Busy(w) \/ Leave(w) \/ LeaveFails(w) PROVE Quiet(x)
    BY <2>1, AtQuiet DEF Enter, Busy, Leave, LeaveFails
  <2>2. ASSUME NEW w \in Workers, EnterAdvisory(w) PROVE Quiet(x)
    <3>1. CASE x = w
      <4>1. turn'[w] = [turn[w] EXCEPT !.pc = "inside", !.via = "advisory"]
        BY <2>2 DEF EnterAdvisory, TypeOK
      <4> QED BY <3>1, <4>1 DEF Quiet, TypeOK, TurnType
    <3>2. CASE x # w BY <2>2, <3>2 DEF EnterAdvisory, Quiet, TypeOK
    <3> QED BY <3>1, <3>2
  <2>3. ASSUME NEW cs \in SUBSET Customers, KeysGone(cs) PROVE Quiet(x)
    <3>1. turn'[x] = [turn[x] EXCEPT !.lost = @ \/ x \in Holders(cs)] BY <2>3 DEF KeysGone
    <3> QED BY <3>1 DEF Quiet, TypeOK, TurnType
  <2>4. ASSUME NEW w \in Workers, FreesAnother(w) PROVE Quiet(x)
    <3>1. CASE x = w BY <2>4, <3>1, FreedTurn DEF Quiet
    <3>2. CASE x # w BY <2>4, <3>2, FreedTurn DEF Quiet
    <3> QED BY <3>1, <3>2
  <2> QED BY <2>1, <2>2, <2>3, <2>4 DEF LockNext, LockLapses, RedisRestart
<1> QED BY <1>1, <1>2, QuietRows

\* The steps of a turn outside the tables.
QuietTurn(w) ==
    \/ ClaimMessage(w) \/ ClaimFails(w) \/ Deflect(w) \/ TurnAway(w) \/ Raise(w)
    \/ SendReply(w) \/ SendFails(w) \/ Crash(w)

LEMMA QuietTurnRows ==
    ASSUME TypeOK, Rows, NEW w \in Workers, QuietTurn(w)
    PROVE  Rows'
<1>1. UNCHANGED Tables /\ breached \subseteq breached'
  BY DEF QuietTurn, ClaimMessage, ClaimFails, Deflect, TurnAway, Raise, SendReply, SendFails,
         Crash, Tables
<1>2. CASE Crash(w)
  <2>1. \A x \in Workers : Quiet(x) BY <1>2 DEF Crash, NoTurn, Quiet, TypeOK
  <2> QED BY <1>1, <2>1, QuietRows
<1>3. CASE ~ Crash(w)
  <2>1. \E pc \in {"claimed", "leaving", "replying", "answered", "raised"} : At(w, pc)
    BY <1>3 DEF QuietTurn, ClaimMessage, ClaimFails, Deflect, TurnAway, Raise, SendReply, SendFails
  <2>2. \A x \in Workers : Quiet(x) BY <2>1, AtQuiet
  <2> QED BY <1>1, <2>2, QuietRows
<1> QED BY <1>2, <1>3

-----------------------------------------------------------------------------
(* The tables, read and written *)

\* While its customer's lock keeps turns apart, a turn is alone.
LEMMA Alone ==
    ASSUME TypeOK, KeyHeld, LossSeen, NEW w \in Workers, NEW x \in Workers, Inside(w), Inside(x),
           Customer(x) = Customer(w), Customer(w) \notin breached
    PROVE  x = w
<1>1. \A y \in {w, x} : turn[y].via \in {"redis", "advisory"} /\ turn[y].lost \in BOOLEAN
  BY DEF TypeOK, TurnType
<1>2. \A y \in {w, x} : turn[y].via = "redis" /\ turn[y].lost = FALSE BY <1>1 DEF LossSeen
<1>3. lock[Customer(w)] = w /\ lock[Customer(x)] = x BY <1>2 DEF KeyHeld
<1> QED BY <1>3

\* What Reading says of one turn.
Sound(w) == Working(w) =>
    /\ turn[w].conv = None => OpensAlone(w)
    /\ turn[w].conv # None => ReadsTruly(w)
    /\ turn[w].pc = "thinking" => turn[w].ai_paused = FALSE

\* A turn writes the row v: its customer's, or a new one.
Writes(w, v) ==
    /\ \/ conv[v].status # "unused" /\ conv[v].customer = Customer(w)
       \/ /\ conv[v].status = "unused"
          /\ Customer(w) \notin breached => \A u \in Convs : u \notin Active(Customer(w))
    /\ conv'[v].customer = Customer(w) /\ conv'[v].status # "unused"
    /\ conv'[v].status = "active" => conv[v].status \in {"unused", "active"}
    /\ \A u \in Convs : u # v => conv'[u] = conv[u] /\ spoke'[u] = spoke[u] /\ streak'[u] = streak[u]
    /\ \A x \in Workers : x # w => turn'[x] = turn[x]
    /\ breached' = breached

\* Such a step leaves the other turns what they rely on, and one thread.
LEMMA WritesApart ==
    ASSUME TypeOK, Known, KeyHeld, LossSeen, Rows, NEW w \in Workers, Inside(w),
           NEW v \in Convs, Writes(w, v)
    PROVE  /\ \A x \in Workers : x # w => Sound(x)'
           /\ Fresh'
           /\ OneRow'
<1>1. ASSUME NEW c, NEW u \in Convs, u \in Active(c)'
      PROVE  u \in Active(c) \/ (u = v /\ c = Customer(w) /\ conv[v].status = "unused")
  <2>1. CASE u # v BY <1>1, <2>1 DEF Active, Writes
  <2>2. CASE u = v BY <1>1, <2>2 DEF Active, Writes
  <2> QED BY <2>1, <2>2
<1>2. ASSUME NEW x \in Workers, x # w PROVE Sound(x)'
  <2> SUFFICES ASSUME Working(x)'
               PROVE  /\ turn[x].conv = None => OpensAlone(x)'
                      /\ turn[x].conv # None => ReadsTruly(x)'
                      /\ turn[x].pc = "thinking" => turn[x].ai_paused = FALSE
    BY <1>2 DEF Sound, Writes
  <2>1. turn'[x] = turn[x] /\ Customer(x)' = Customer(x) /\ breached' = breached
    BY <1>2 DEF Writes, Customer, Msg
  <2>2. Working(x) /\ Inside(x) BY <2>1 DEF Working, Inside
  <2>3. Customer(x) \notin breached => Customer(x) # Customer(w) BY <1>2, <2>2, Alone
  <2>4. ASSUME turn[x].conv = None PROVE OpensAlone(x)'
    <3>1. OpensAlone(x) BY <2>2, <2>4 DEF Rows, Reading
    <3> QED BY <1>1, <2>1, <2>3, <3>1 DEF OpensAlone
  <2>5. ASSUME turn[x].conv # None PROVE ReadsTruly(x)'
    <3> DEFINE u == turn[x].conv
    <3>1. ReadsTruly(x) BY <2>2, <2>5 DEF Rows, Reading
    <3>2. u \in Convs BY <2>5 DEF TypeOK, TurnType
    <3>3. CASE u # v
      <4>1. conv'[u] = conv[u] /\ spoke'[u] = spoke[u] /\ streak'[u] = streak[u]
        BY <3>2, <3>3 DEF Writes
      <4> QED BY <2>1, <3>1, <4>1 DEF ReadsTruly
    <3>4. CASE u = v
      <4>1. Customer(x) = Customer(w) BY <3>1, <3>4 DEF ReadsTruly, Writes
      <4>2. Customer(x) \in breached BY <2>3, <4>1
      <4> QED BY <2>1, <3>4, <4>1, <4>2 DEF ReadsTruly, Writes
    <3> QED BY <3>3, <3>4
  <2> QED BY <2>2, <2>4, <2>5 DEF Rows, Reading
<1>3. Fresh' BY DEF Fresh, Rows, Writes
<1>4. OneRow'
  <2> SUFFICES ASSUME NEW c \in Customers, c \notin breached, NEW t \in Convs, NEW u \in Convs,
                      t \in Active(c)', u \in Active(c)'
               PROVE  t = u
    BY DEF OneRow, Writes
  <2>1. CASE t \in Active(c) /\ u \in Active(c) BY <2>1 DEF Rows, OneRow
  <2>2. CASE ~ (t \in Active(c) /\ u \in Active(c))
    <3>1. c = Customer(w) /\ conv[v].status = "unused" BY <1>1, <2>2
    <3>2. \A s \in Convs : s \notin Active(c) BY <3>1 DEF Writes
    <3> QED BY <1>1, <3>2
  <2> QED BY <2>1, <2>2
<1> QED BY <1>2, <1>3, <1>4

LEMMA LoadRows ==
    ASSUME TypeOK, Known, Early, Rows, NEW w \in Workers, Load(w)
    PROVE  Rows'
<1> USE DEF TypeOK
<1>1. UNCHANGED Tables /\ breached' = breached BY DEF Load, Tables
<1>2. turn[w].pc = "inside" /\ turn'[w].job = turn[w].job BY TableMoves DEF Load
<1>3. \A x \in Workers : x # w => turn'[x] = turn[x] BY TableMoves
<1>4. turn'[w].pc = "loaded" /\ Sound(w)'
  <2>1. CASE Active(Customer(w)) = {}
    <3>1. turn'[w] = [turn[w] EXCEPT !.pc = "loaded"] BY <2>1, AtType DEF Load
    <3>2. /\ turn'[w].pc = "loaded" /\ turn'[w].conv = None /\ turn'[w].failed_turns = 0
          /\ Customer(w)' = Customer(w)
      BY <1>2, <3>1 DEF TurnType, Early, Customer, Msg
    <3>3. Active(Customer(w))' = {} BY <1>1, <2>1, <3>2 DEF Active, Tables
    <3> QED BY <3>2, <3>3 DEF Sound, OpensAlone
  <2>2. CASE Active(Customer(w)) # {}
    <3>1. PICK v \in Active(Customer(w)) :
            turn' = [turn EXCEPT ![w].pc = "loaded", ![w].conv = v,
                                 ![w].ai_paused = conv[v].ai_paused,
                                 ![w].failed_turns = conv[v].failed_turns]
      BY <2>2 DEF Load
    <3>2. turn'[w] = [turn[w] EXCEPT !.pc = "loaded", !.conv = v, !.ai_paused = conv[v].ai_paused,
                                     !.failed_turns = conv[v].failed_turns]
      BY <3>1
    <3>3. /\ turn'[w].pc = "loaded" /\ turn'[w].conv = v /\ Customer(w)' = Customer(w)
          /\ turn'[w].ai_paused = conv[v].ai_paused /\ turn'[w].failed_turns = conv[v].failed_turns
      BY <1>2, <3>2 DEF TurnType, Customer, Msg
    <3>4. v \in Convs /\ conv[v].customer = Customer(w) /\ conv[v].status = "active" BY DEF Active
    <3>5. Customer(w) \notin breached => conv[v].failed_turns <= streak[v]
      BY <3>4 DEF Rows, StrikesAreReal
    <3>6. conv[v].failed_turns \in Nat BY <3>4 DEF ConvType
    <3>7. v # None BY <3>4, InboundAssumption
    <3> QED BY <1>1, <3>3, <3>4, <3>5, <3>6, <3>7 DEF Sound, ReadsTruly, Tables
  <2> QED BY <2>1, <2>2
<1>5. ASSUME NEW x \in Workers, x # w PROVE Sound(x)'
  <2>1. Sound(x) BY DEF Rows, Reading, Sound
  <2>2. turn'[x] = turn[x] /\ Customer(x)' = Customer(x) BY <1>3, <1>5 DEF Customer, Msg
  <2> QED BY <1>1, <2>1, <2>2 DEF Sound, Working, OpensAlone, ReadsTruly, Active, Tables
<1>6. Reading' BY <1>4, <1>5 DEF Reading, Sound
<1>7. Asked'
  <2>1. ASSUME NEW x \in Workers, turn'[x].pc = "thinking"
        PROVE  turn[x].pc = "thinking" /\ Msg(x)' = Msg(x)
    BY <1>3, <1>4, <2>1 DEF Msg
  <2> QED BY <1>1, <2>1 DEF Rows, Asked, Tables
<1>8. Fresh' /\ OneRow' BY <1>1 DEF Rows, Fresh, OneRow, Active, Tables
<1>9. AnsweredOnce' /\ TakeoverSilencesModel' /\ StrikesAreReal'
  BY <1>1 DEF Rows, AnsweredOnce, TakeoverSilencesModel, StrikesAreReal, Tables
<1> QED BY <1>6, <1>7, <1>8, <1>9 DEF Rows

\* The first commit of a turn: to the row it read, or to a new one.
LEMMA Commits ==
    ASSUME TypeOK, Known, KeyHeld, LossSeen, Rows, NEW w \in Workers, turn[w].pc = "loaded",
           NEW v \in Target(w), NEW escalates \in BOOLEAN,
           conv' = [conv EXCEPT ![v] = Escalated(Opened(w, v), escalates)],
           \A x \in Workers : x # w => turn'[x] = turn[x],
           UNCHANGED <<spoke, streak, breached>>
    PROVE  /\ v \in Convs /\ Writes(w, v)
           /\ Customer(w) \notin breached =>
                /\ conv'[v].failed_turns <= turn[w].failed_turns
                /\ turn[w].failed_turns <= streak'[v]
                /\ conv'[v].ai_paused = TRUE /\ turn[w].ai_paused = FALSE => spoke'[v] = 0
           /\ TakeoverSilencesModel' /\ StrikesAreReal'
<1> USE DEF TypeOK
<1>1. Working(w) /\ Inside(w) BY DEF Working, Inside
<1>2. Customer(w) \in Customers BY MsgType
<1>3. v \in Convs BY OpenedType
<1>4. conv'[v] = Escalated(Opened(w, v), escalates) /\ \A u \in Convs : u # v => conv'[u] = conv[u]
  BY <1>3
<1>5. CASE turn[w].conv # None
  <2>1. v = turn[w].conv /\ Opened(w, v) = conv[v] BY <1>5 DEF Target, Opened
  <2>2. ReadsTruly(w) BY <1>1, <1>5 DEF Rows, Reading
  <2>3. /\ conv'[v].customer = conv[v].customer /\ conv'[v].failed_turns = conv[v].failed_turns
        /\ conv'[v].ai_paused = conv[v].ai_paused
        /\ conv'[v].status \in {conv[v].status, "human_escalated"}
    BY <1>3, <1>4, <2>1 DEF Escalated, ConvType
  <2>4. Writes(w, v) BY <1>3, <1>4, <2>1, <2>2, <2>3 DEF Writes, ReadsTruly
  <2>5. TakeoverSilencesModel' /\ StrikesAreReal'
    BY <1>4, <2>3 DEF Rows, TakeoverSilencesModel, StrikesAreReal
  <2> QED BY <1>3, <2>1, <2>2, <2>3, <2>4, <2>5 DEF ReadsTruly
<1>6. CASE turn[w].conv = None
  <2>1. OpensAlone(w) BY <1>1, <1>6 DEF Rows, Reading
  <2>2. conv[v].status = "unused" BY <1>6 DEF Target
  <2>3. Opened(w, v) = [Blank EXCEPT !.customer = Customer(w), !.status = "active"]
    BY <1>6 DEF Opened
  <2>4. /\ conv'[v].customer = Customer(w) /\ conv'[v].failed_turns = 0
        /\ conv'[v].ai_paused = FALSE /\ conv'[v].status \in {"active", "human_escalated"}
    <3> DEFINE row == Opened(w, v)
    <3>1. /\ row.customer = Customer(w) /\ row.failed_turns = 0 /\ row.ai_paused = FALSE
          /\ row.status = "active"
      BY <2>3 DEF Blank
    <3>2. row \in ConvType BY OpenedType
    <3> HIDE DEF row
    <3>3. CASE escalates
      <4>1. conv'[v] = [row EXCEPT !.status = "human_escalated"] BY <1>4, <3>3 DEF Escalated, row
      <4> QED BY <3>1, <3>2, <4>1 DEF ConvType
    <3>4. CASE ~ escalates
      <4>1. conv'[v] = row BY <1>4, <3>4 DEF Escalated, row
      <4> QED BY <3>1, <4>1
    <3> QED BY <3>3, <3>4
  <2>5. Writes(w, v) BY <1>4, <2>1, <2>2, <2>4 DEF Writes, OpensAlone
  <2>6. spoke[v] = 0 /\ streak[v] = 0 BY <1>3, <2>2 DEF Rows, Fresh
  <2>7. TakeoverSilencesModel' /\ StrikesAreReal'
    BY <1>4, <2>4, <2>6 DEF Rows, TakeoverSilencesModel, StrikesAreReal
  <2> QED BY <1>3, <2>1, <2>4, <2>5, <2>6, <2>7 DEF OpensAlone
<1> QED BY <1>5, <1>6

LEMMA SaveRows ==
    ASSUME TypeOK, Known, KeyHeld, LossSeen, Rows, NEW w \in Workers, Save(w)
    PROVE  Rows'
<1> USE DEF TypeOK
<1>1. turn[w].pc = "loaded" /\ Msg(w) \notin rows /\ Inside(w) BY DEF Save, NewRow, Inside
<1>2. /\ \A x \in Workers : x # w => turn'[x] = turn[x]
      /\ turn'[w].job = turn[w].job
  BY TableMoves
<1>3. PICK v \in Target(w) :
         /\ conv' = [conv EXCEPT ![v] = Opened(w, v)]
         /\ turn' = [turn EXCEPT ![w].pc = AfterSave(w), ![w].conv = v]
  BY DEF Save
<1>4. /\ UNCHANGED <<answers, spoke, streak, breached>>
      /\ rows' = rows \cup {Msg(w)}
  BY DEF Save
<1>5. Opened(w, v) = Escalated(Opened(w, v), FALSE) BY DEF Escalated
<1>6. /\ v \in Convs /\ Writes(w, v)
      /\ Customer(w) \notin breached =>
           /\ conv'[v].failed_turns <= turn[w].failed_turns
           /\ turn[w].failed_turns <= streak'[v]
           /\ conv'[v].ai_paused = TRUE /\ turn[w].ai_paused = FALSE => spoke'[v] = 0
      /\ TakeoverSilencesModel' /\ StrikesAreReal'
  BY <1>1, <1>2, <1>3, <1>4, <1>5, Commits
<1>7. turn'[w] = [turn[w] EXCEPT !.pc = AfterSave(w), !.conv = v] BY <1>3
<1>8. /\ turn'[w].pc = AfterSave(w) /\ turn'[w].conv = v
      /\ turn'[w].failed_turns = turn[w].failed_turns /\ turn'[w].ai_paused = turn[w].ai_paused
      /\ Customer(w)' = Customer(w) /\ Msg(w)' = Msg(w)
  BY <1>2, <1>7 DEF TurnType, Customer, Msg
<1>9. turn[w].ai_paused \in BOOLEAN BY DEF TurnType
<1>10. Sound(w)'
  <2>1. v # None BY <1>6, InboundAssumption
  <2>2. ReadsTruly(w)' BY <1>4, <1>6, <1>8 DEF ReadsTruly, Writes
  <2>3. turn'[w].pc = "thinking" => turn'[w].ai_paused = FALSE BY <1>8, <1>9 DEF AfterSave
  <2> QED BY <1>8, <2>1, <2>2, <2>3 DEF Sound
<1>11. (\A x \in Workers : x # w => Sound(x)') /\ Fresh' /\ OneRow' BY <1>1, <1>6, WritesApart
<1>12. Reading' BY <1>10, <1>11 DEF Reading, Sound
<1>13. Asked'
  <2>1. \A m \in Messages : m \notin rows' => answers'[m] = 0 BY <1>4 DEF Rows, Asked
  <2>2. Msg(w) \in Messages BY <1>1, MsgType
  <2>3. answers[Msg(w)] = 0 BY <1>1, <2>2 DEF Rows, Asked
  <2>4. ASSUME NEW x \in Workers, x # w, turn'[x].pc = "thinking"
        PROVE  /\ turn[x].pc = "thinking" /\ Msg(x)' = Msg(x)
               /\ Msg(x) \in rows /\ answers[Msg(x)] = 0 /\ Msg(x) # Msg(w)
    <3>1. turn[x].pc = "thinking" /\ Msg(x)' = Msg(x) BY <1>2, <2>4 DEF Msg
    <3> QED BY <1>1, <3>1 DEF Rows, Asked
  <2>5. \A x \in Workers : turn'[x].pc = "thinking" => Msg(x)' \in rows' /\ answers'[Msg(x)'] = 0
    BY <1>4, <1>8, <2>3, <2>4
  <2>6. \A x, y \in Workers :
          turn'[x].pc = "thinking" /\ turn'[y].pc = "thinking" /\ Msg(x)' = Msg(y)' => x = y
    BY <1>8, <2>4 DEF Rows, Asked
  <2> QED BY <2>1, <2>5, <2>6 DEF Asked
<1>14. AnsweredOnce' BY <1>4 DEF Rows, AnsweredOnce
<1> QED BY <1>6, <1>11, <1>12, <1>13, <1>14 DEF Rows

\* A turn that answers its message leaves the others theirs.
LEMMA Answers ==
    ASSUME TypeOK, Known, Rows, NEW w \in Workers, turn[w].pc # "idle", answers[Msg(w)] = 0,
           Msg(w) \in rows', rows \subseteq rows',
           answers' = [answers EXCEPT ![Msg(w)] = @ + 1], turn'[w].pc = "leaving",
           \A x \in Workers : x # w => turn'[x] = turn[x],
           \A x \in Workers : x # w /\ turn[x].pc = "thinking" => Msg(x) # Msg(w)
    PROVE  Asked' /\ AnsweredOnce'
<1>1. Msg(w) \in Messages BY MsgType
<1>2. answers'[Msg(w)] = 1 /\ \A m \in Messages : m # Msg(w) => answers'[m] = answers[m]
  BY <1>1 DEF TypeOK
<1>3. AnsweredOnce' BY <1>2 DEF Rows, AnsweredOnce
<1>4. ASSUME NEW x \in Workers, turn'[x].pc = "thinking"
      PROVE  /\ turn[x].pc = "thinking" /\ Msg(x)' = Msg(x)
             /\ Msg(x) \in rows /\ answers[Msg(x)] = 0 /\ Msg(x) # Msg(w)
             /\ Msg(x) \in Messages
  <2>1. x # w BY <1>4
  <2>2. turn[x].pc = "thinking" /\ Msg(x)' = Msg(x) BY <1>4, <2>1 DEF Msg
  <2> QED BY <2>1, <2>2, MsgType DEF Rows, Asked
<1>5. \A m \in Messages : m \notin rows' => answers'[m] = 0 BY <1>2 DEF Rows, Asked
<1>6. \A x \in Workers : turn'[x].pc = "thinking" => Msg(x)' \in rows' /\ answers'[Msg(x)'] = 0
  BY <1>2, <1>4
<1>7. \A x, y \in Workers :
        turn'[x].pc = "thinking" /\ turn'[y].pc = "thinking" /\ Msg(x)' = Msg(y)' => x = y
  BY <1>4 DEF Rows, Asked
<1> QED BY <1>3, <1>5, <1>6, <1>7 DEF Asked

LEMMA ControlRows ==
    ASSUME TypeOK, Known, KeyHeld, LossSeen, Rows, NEW w \in Workers, Control(w)
    PROVE  Rows'
<1> USE DEF TypeOK
<1>1. turn[w].pc = "loaded" /\ Msg(w) \notin rows /\ Inside(w) BY DEF Control, NewRow, Inside
<1>2. \A x \in Workers : x # w => turn'[x] = turn[x] BY TableMoves
<1>3. PICK v \in Target(w), escalates \in BOOLEAN :
         /\ conv' = [conv EXCEPT ![v] = Escalated(Opened(w, v), escalates)]
         /\ turn' = [turn EXCEPT ![w].pc = "leaving", ![w].conv = v]
  BY DEF Control
<1>4. /\ UNCHANGED <<spoke, streak, breached>>
      /\ rows' = rows \cup {Msg(w)}
      /\ answers' = [answers EXCEPT ![Msg(w)] = @ + 1]
  BY DEF Control
<1>5. v \in Convs /\ Writes(w, v) /\ TakeoverSilencesModel' /\ StrikesAreReal'
  BY <1>1, <1>2, <1>3, <1>4, Commits
<1>6. turn'[w].pc = "leaving"
  <2>1. turn'[w] = [turn[w] EXCEPT !.pc = "leaving", !.conv = v] BY <1>3
  <2> QED BY <2>1 DEF TurnType
<1>7. Msg(w) \in Messages BY <1>1, MsgType
<1>8. answers[Msg(w)] = 0 BY <1>1, <1>7 DEF Rows, Asked
<1>9. \A x \in Workers : turn[x].pc = "thinking" => Msg(x) # Msg(w) BY <1>1 DEF Rows, Asked
<1>10. Asked' /\ AnsweredOnce' BY <1>1, <1>2, <1>4, <1>6, <1>8, <1>9, Answers
<1>11. (\A x \in Workers : x # w => Sound(x)') /\ Fresh' /\ OneRow' BY <1>1, <1>5, WritesApart
<1>12. Reading' BY <1>6, <1>11 DEF Reading, Sound, Working
<1> QED BY <1>5, <1>10, <1>11, <1>12 DEF Rows

\* The model's turn at an end: what Answer and FallBack have in common.
LEMMA Replies ==
    ASSUME TypeOK, Known, KeyHeld, LossSeen, Rows, NEW w \in Workers, turn[w].pc = "thinking",
           At(w, "leaving"), Spoken(turn[w].conv), rows' = rows, breached' = breached,
           answers' = [answers EXCEPT ![Msg(w)] = @ + 1],
           NEW row \in ConvType, conv' = [conv EXCEPT ![turn[w].conv] = row],
           row.customer = conv[turn[w].conv].customer,
           row.status \in {conv[turn[w].conv].status, "human_escalated"},
           \A u \in Convs : u # turn[w].conv => streak'[u] = streak[u],
           row.failed_turns <= streak'[turn[w].conv] \/ Customer(w) \in breached
    PROVE  Rows'
<1> USE DEF TypeOK
<1> DEFINE v == turn[w].conv
<1>1. Working(w) /\ Inside(w) BY DEF Working, Inside
<1>2. v # None /\ ReadsTruly(w) /\ turn[w].ai_paused = FALSE
  BY <1>1 DEF Rows, Reading, OpensAlone
<1>3. v \in Convs BY <1>2 DEF TurnType
<1>4. conv'[v] = row /\ \A u \in Convs : u # v => conv'[u] = conv[u] BY <1>3
<1>5. turn'[w].pc = "leaving"
  <2>1. turn'[w] = [turn[w] EXCEPT !.pc = "leaving"] BY AtType
  <2> QED BY <2>1 DEF TurnType
<1>6. \A x \in Workers : x # w => turn'[x] = turn[x] BY AtType
<1>7. \A u \in Convs : u # v => spoke'[u] = spoke[u] BY <1>3 DEF Spoken
<1>8. Writes(w, v) BY <1>2, <1>3, <1>4, <1>6, <1>7 DEF Writes, ReadsTruly
<1>9. (\A x \in Workers : x # w => Sound(x)') /\ Fresh' /\ OneRow'
  BY <1>1, <1>3, <1>8, WritesApart
<1>10. Reading' BY <1>5, <1>9 DEF Reading, Sound, Working
<1>11. Asked' /\ AnsweredOnce'
  BY <1>5, <1>6, Answers DEF Rows, Asked
<1>12. TakeoverSilencesModel'
  <2>1. spoke'[v] <= 1 \/ Customer(w) \in breached
    <3>1. CASE conv[v].ai_paused = TRUE
      <4>1. spoke'[v] = spoke[v] + 1 BY <1>3, <3>1 DEF Spoken
      <4> QED BY <1>2, <3>1, <4>1 DEF ReadsTruly
    <3>2. CASE conv[v].ai_paused = FALSE
      <4>1. spoke'[v] = spoke[v] BY <1>3, <3>2 DEF Spoken
      <4> QED BY <1>2, <1>3, <4>1 DEF Rows, TakeoverSilencesModel, ReadsTruly
    <3> QED BY <1>3, <3>1, <3>2 DEF ConvType
  <2> QED BY <1>2, <1>3, <1>4, <1>7, <2>1 DEF Rows, TakeoverSilencesModel, ReadsTruly
<1>13. StrikesAreReal' BY <1>2, <1>3, <1>4 DEF Rows, StrikesAreReal, ReadsTruly
<1> QED BY <1>9, <1>10, <1>11, <1>12, <1>13 DEF Rows

LEMMA AnswerRows ==
    ASSUME TypeOK, Known, KeyHeld, LossSeen, Rows, NEW w \in Workers, Answer(w)
    PROVE  Rows'
<1> USE DEF TypeOK
<1> DEFINE v == turn[w].conv
           n == turn[w].failed_turns
<1>1. /\ turn[w].pc = "thinking" /\ At(w, "leaving") /\ Spoken(v)
      /\ rows' = rows /\ breached' = breached
      /\ answers' = [answers EXCEPT ![Msg(w)] = @ + 1]
  BY DEF Answer
<1>2. PICK escalates \in BOOLEAN :
         /\ conv' = [conv EXCEPT ![v] = IF escalates THEN Escalated(@, TRUE) ELSE Reset(@, n)]
         /\ streak' = IF escalates THEN streak ELSE [streak EXCEPT ![v] = 0]
  BY DEF Answer
<1>3. Working(w) BY <1>1 DEF Working
<1>4. v # None /\ ReadsTruly(w) BY <1>1, <1>3 DEF Rows, Reading, OpensAlone
<1>5. v \in Convs /\ n \in Nat BY <1>4 DEF TurnType
<1>6. conv[v] \in ConvType /\ streak[v] \in Nat BY <1>5
<1>7. Customer(w) \notin breached => conv[v].failed_turns <= n /\ n <= streak[v]
  BY <1>4 DEF ReadsTruly
<1>8. CASE escalates
  <2> DEFINE row == [conv[v] EXCEPT !.status = "human_escalated"]
  <2>1. conv' = [conv EXCEPT ![v] = row] /\ streak' = streak BY <1>2, <1>8 DEF Escalated
  <2>2. /\ row \in ConvType /\ row.customer = conv[v].customer
        /\ row.status = "human_escalated" /\ row.failed_turns = conv[v].failed_turns
    BY <1>6 DEF ConvType
  <2>3. row.failed_turns <= streak'[v] \/ Customer(w) \in breached
    BY <1>6, <1>7, <1>5, <2>1, <2>2 DEF ConvType
  <2> HIDE DEF row
  <2> QED BY <1>1, <2>1, <2>2, <2>3, Replies
<1>9. CASE ~ escalates /\ n # 0
  <2> DEFINE row == [conv[v] EXCEPT !.failed_turns = 0]
  <2>1. conv' = [conv EXCEPT ![v] = row] /\ streak' = [streak EXCEPT ![v] = 0]
    BY <1>2, <1>9 DEF Reset
  <2>2. /\ row \in ConvType /\ row.customer = conv[v].customer
        /\ row.status = conv[v].status /\ row.failed_turns = 0
    BY <1>6 DEF ConvType
  <2>3. row.failed_turns <= streak'[v] BY <1>5, <2>1, <2>2
  <2>4. \A u \in Convs : u # v => streak'[u] = streak[u] BY <2>1
  <2> HIDE DEF row
  <2> QED BY <1>1, <2>1, <2>2, <2>3, <2>4, Replies
<1>10. CASE ~ escalates /\ n = 0
  <2>1. conv' = [conv EXCEPT ![v] = conv[v]] /\ streak' = [streak EXCEPT ![v] = 0]
    BY <1>2, <1>10 DEF Reset
  <2>2. conv[v].failed_turns <= streak'[v] \/ Customer(w) \in breached
    BY <1>5, <1>7, <1>10, <2>1
  <2>3. \A u \in Convs : u # v => streak'[u] = streak[u] BY <2>1
  <2> QED BY <1>1, <1>6, <2>1, <2>2, <2>3, Replies
<1> QED BY <1>8, <1>9, <1>10

LEMMA FallBackRows ==
    ASSUME TypeOK, Known, KeyHeld, LossSeen, Rows, NEW w \in Workers, FallBack(w)
    PROVE  Rows'
<1> USE DEF TypeOK
<1> DEFINE v == turn[w].conv
           n == turn[w].failed_turns + 1
<1>1. /\ turn[w].pc = "thinking" /\ At(w, "leaving") /\ Spoken(v)
      /\ rows' = rows /\ breached' = breached
      /\ answers' = [answers EXCEPT ![Msg(w)] = @ + 1]
      /\ streak' = [streak EXCEPT ![v] = @ + 1]
  BY DEF FallBack
<1>2. PICK rescue \in BOOLEAN :
         conv' = [conv EXCEPT ![v] = Escalated([@ EXCEPT !.failed_turns = n],
                                               rescue \/ n >= MaxFailedTurns)]
  BY DEF FallBack
<1>3. Working(w) BY <1>1 DEF Working
<1>4. v # None /\ ReadsTruly(w) BY <1>1, <1>3 DEF Rows, Reading, OpensAlone
<1>5. v \in Convs /\ turn[w].failed_turns \in Nat BY <1>4 DEF TurnType
<1>6. conv[v] \in ConvType /\ streak'[v] = streak[v] + 1 /\ streak[v] \in Nat BY <1>1, <1>5
<1>7. n <= streak'[v] \/ Customer(w) \in breached BY <1>4, <1>5, <1>6 DEF ReadsTruly
<1>8. n \in Nat BY <1>5
<1> HIDE DEF n
<1> DEFINE row == Escalated([conv[v] EXCEPT !.failed_turns = n], rescue \/ n >= MaxFailedTurns)
<1>9. conv' = [conv EXCEPT ![v] = row] BY <1>2
<1>10. /\ row \in ConvType /\ row.customer = conv[v].customer
       /\ row.status \in {conv[v].status, "human_escalated"} /\ row.failed_turns = n
  <2>1. CASE rescue \/ n >= MaxFailedTurns
    BY <1>6, <1>8, <2>1 DEF Escalated, ConvType
  <2>2. CASE ~ (rescue \/ n >= MaxFailedTurns)
    BY <1>6, <1>8, <2>2 DEF Escalated, ConvType
  <2> QED BY <2>1, <2>2
<1>11. \A u \in Convs : u # v => streak'[u] = streak[u] BY <1>1
<1> HIDE DEF row
<1> QED BY <1>1, <1>7, <1>9, <1>10, <1>11, Replies

\* Staff change a row under the turns that have read it.
LEMMA StaffRows == ASSUME TypeOK, Rows, StaffNext PROVE Rows'
<1> USE DEF TypeOK
<1>1. PICK v \in Convs : Takeover(v) \/ Release(v) \/ Resolve(v) BY DEF StaffNext
<1>2. UNCHANGED <<turn, rows, answers, streak, breached>>
  BY <1>1 DEF Takeover, Release, Resolve
<1>3. \A u \in Convs : u # v => conv'[u] = conv[u] /\ spoke'[u] = spoke[u]
  BY <1>1 DEF Takeover, Release, Resolve
<1>4. /\ conv[v].status # "unused" /\ conv'[v].status \in {conv[v].status, "resolved"}
      /\ conv'[v].customer = conv[v].customer
      /\ conv'[v].failed_turns \in {conv[v].failed_turns, 0}
      /\ \/ conv'[v].ai_paused = TRUE /\ spoke'[v] = 0
         \/ conv'[v].ai_paused = FALSE /\ spoke'[v] = spoke[v]
  <2>1. conv[v] \in ConvType OBVIOUS
  <2>2. CASE Takeover(v)
    <3>1. conv'[v] = [conv[v] EXCEPT !.ai_paused = TRUE] /\ spoke'[v] = 0
      BY <2>2 DEF Takeover
    <3> QED BY <2>1, <2>2, <3>1 DEF ConvType, Takeover
  <2>3. CASE Release(v)
    <3>1. conv'[v] = [conv[v] EXCEPT !.ai_paused = FALSE, !.failed_turns = 0] /\ spoke' = spoke
      BY <2>3 DEF Release
    <3> QED BY <2>1, <2>3, <3>1 DEF ConvType, Release
  <2>4. CASE Resolve(v)
    <3>1. conv'[v] = [conv[v] EXCEPT !.status = "resolved", !.ai_paused = FALSE] /\ spoke' = spoke
      BY <2>4 DEF Resolve
    <3> QED BY <2>1, <2>4, <3>1 DEF ConvType, Resolve
  <2> QED BY <1>1, <2>2, <2>3, <2>4
<1>5. \A u \in Convs : conv[u].failed_turns \in Nat /\ streak[u] \in Nat BY DEF ConvType
<1>6. \A c : \A u \in Convs : u \in Active(c)' => u \in Active(c)
  BY <1>3, <1>4 DEF Active
<1>7. \A x \in Workers : Customer(x)' = Customer(x) /\ Msg(x)' = Msg(x) BY <1>2 DEF Customer, Msg
<1>8. Asked' /\ AnsweredOnce' BY <1>2, <1>7 DEF Rows, Asked, AnsweredOnce
<1>9. Fresh' BY <1>2, <1>3, <1>4 DEF Rows, Fresh
<1>10. Reading'
  <2> SUFFICES ASSUME NEW x \in Workers, Working(x) PROVE Sound(x)'
    BY <1>2 DEF Reading, Sound, Working
  <2>1. Sound(x) /\ (turn[x].pc = "thinking" => turn[x].ai_paused = FALSE)
    BY DEF Rows, Reading, Sound
  <2>2. ASSUME turn[x].conv = None PROVE OpensAlone(x)'
    <3>1. OpensAlone(x) BY <2>1, <2>2 DEF Sound
    <3> QED BY <1>2, <1>6, <1>7, <3>1 DEF OpensAlone
  <2>3. ASSUME turn[x].conv # None PROVE ReadsTruly(x)'
    <3> DEFINE u == turn[x].conv
    <3>1. ReadsTruly(x) BY <2>1, <2>3 DEF Sound
    <3>2. u \in Convs /\ turn[x].failed_turns \in Nat BY <2>3 DEF TurnType
    <3>3. CASE u # v BY <1>2, <1>3, <1>7, <3>1, <3>2, <3>3 DEF ReadsTruly
    <3>4. CASE u = v
      BY <1>2, <1>4, <1>5, <1>7, <3>1, <3>2, <3>4 DEF ReadsTruly
    <3> QED BY <3>3, <3>4
  <2> QED BY <1>2, <2>1, <2>2, <2>3 DEF Sound
<1>11. OneRow' BY <1>2, <1>6 DEF Rows, OneRow
<1>12. TakeoverSilencesModel' BY <1>2, <1>3, <1>4 DEF Rows, TakeoverSilencesModel
<1>13. StrikesAreReal' BY <1>2, <1>3, <1>4, <1>5 DEF Rows, StrikesAreReal
<1> QED BY <1>8, <1>9, <1>10, <1>11, <1>12, <1>13 DEF Rows

-----------------------------------------------------------------------------
(* The theorems *)

LEMMA InitIInv == Init => IInv
<1> SUFFICES ASSUME Init PROVE IInv OBVIOUS
<1>1. TypeOK BY InitType
<1>2. \A w \in Workers : turn[w].pc = "idle" BY DEF Init, NoTurn
<1>3. Known /\ Early /\ KeyHeld /\ LossSeen /\ Reading
  BY <1>2 DEF Known, Early, KeyHeld, LossSeen, Reading, Working, Inside
<1>4. Attempts BY InboundAssumption DEF Init, Attempts
<1>5. Asked /\ AnsweredOnce BY <1>2 DEF Init, Asked, AnsweredOnce
<1>6. Fresh /\ OneRow /\ TakeoverSilencesModel /\ StrikesAreReal
  BY DEF Init, Blank, Fresh, OneRow, Active, TakeoverSilencesModel, StrikesAreReal
<1> QED BY <1>1, <1>3, <1>4, <1>5, <1>6 DEF IInv, Rows

LEMMA NextIInv == IInv /\ [Next]_vars => IInv'
<1> SUFFICES ASSUME IInv, [Next]_vars PROVE IInv' OBVIOUS
<1> USE DEF IInv
<1>1. CASE Next
  <2>1. TypeOK' /\ Attempts' BY <1>1, Types
  <2>2. Known' /\ Early' BY <1>1, StepsKnown
  <2>3. KeyHeld' /\ LossSeen' BY <1>1, StepKeys
  <2>4. Rows'
    <3>1. CASE QueueNext BY <3>1, QueueRows
    <3>2. CASE LockNext BY <3>2, LockRows
    <3>3. CASE TurnNext
      <4>1. PICK w \in Workers :
              QuietTurn(w) \/ Load(w) \/ Control(w) \/ Save(w) \/ Answer(w) \/ FallBack(w)
        BY <3>3 DEF TurnNext, QuietTurn
      <4> QED BY <4>1, QuietTurnRows, LoadRows, ControlRows, SaveRows, AnswerRows, FallBackRows
    <3>4. CASE StaffNext BY <3>4, StaffRows
    <3> QED BY <1>1, <3>1, <3>2, <3>3, <3>4 DEF Next
  <2> QED BY <2>1, <2>2, <2>3, <2>4
<1>2. CASE UNCHANGED vars
  <2>1. TypeOK' /\ Known' /\ Early' /\ Attempts'
    BY <1>2 DEF vars, TypeOK, Known, Early, Attempts
  <2>2. \A x \in Workers : Keeps(x) /\ Quiet(x) BY <1>2 DEF vars, Keeps, Quiet, Inside
  <2>3. KeyHeld' /\ LossSeen' BY <1>2, <2>2, KeysKept DEF vars
  <2>4. Rows' BY <1>2, <2>2, QuietRows DEF vars, Tables
  <2> QED BY <2>1, <2>3, <2>4
<1> QED BY <1>1, <1>2

\* Invariance: what the lock keeps true of turns, keys and rows holds from every
\* start, through every step of the queue, the lock, the turns and the staff.
THEOREM Invariance == Spec => []IInv
BY InitIInv, NextIInv, PTL DEF Spec

\* Jobs, turns, keys and rows keep their types, for any number of each.
THEOREM TypeCorrect == Spec => []TypeOK
<1>1. IInv => TypeOK BY DEF IInv
<1> QED BY <1>1, Invariance, PTL

\* acquire_session: of two turns inside for one customer, one lost its key or is
\* on the advisory lock, whatever crashes, expiries and restarts there are.
THEOREM Serial == Spec => []TurnsAreSerial
<1>1. IInv => TurnsAreSerial
  <2> SUFFICES ASSUME IInv, NEW c \in Customers, NEW w \in InsideOf(c), NEW x \in InsideOf(c),
                      w # x, \A y \in {w, x} : ~ (turn[y].lost \/ turn[y].via = "advisory")
               PROVE  FALSE
    BY DEF TurnsAreSerial
  <2>1. w \in Workers /\ x \in Workers /\ Inside(w) /\ Inside(x) /\ Customer(w) = Customer(x)
    BY DEF InsideOf
  <2>2. \A y \in {w, x} : turn[y].via = "redis" /\ turn[y].lost = FALSE
    BY <2>1 DEF IInv, TypeOK, TurnType
  <2>3. lock[Customer(w)] = w /\ lock[Customer(x)] = x BY <2>1, <2>2 DEF IInv, KeyHeld
  <2> QED BY <2>1, <2>3
<1> QED BY <1>1, Invariance, PTL

\* handle_inbound: a message is answered once, however often it is delivered,
\* retried or run at the same time, lock or no lock.
THEOREM Once == Spec => []AnsweredOnce
<1>1. IInv => AnsweredOnce BY DEF IInv, Rows
<1> QED BY <1>1, Invariance, PTL

\* get_or_open_conversation: a customer whose lock kept turns apart has one
\* active conversation at most.
THEOREM Thread == Spec => []OneThread
<1>1. IInv => OneThread
  <2> SUFFICES ASSUME IInv, NEW c \in Customers, c \notin breached
               PROVE  Cardinality(Active(c)) <= 1
    BY DEF OneThread
  <2>1. CASE Active(c) = {} BY <2>1, FS_EmptySet
  <2>2. CASE Active(c) # {}
    <3>1. PICK v \in Active(c) : TRUE BY <2>2
    <3>2. Active(c) = {v} BY <3>1 DEF IInv, Rows, OneRow, Active
    <3>3. Cardinality({v}) = 1 BY FS_Singleton
    <3> QED BY <3>2, <3>3
  <2> QED BY <2>1, <2>2
<1> QED BY <1>1, Invariance, PTL

\* acquire_session: while a customer's lock holds, turns come one after another
\* and share a single thread.
THEOREM OneAfterAnother == Spec => []OneAtATime
BY Serial, Thread, PTL DEF OneAtATime

\* takeover: the model gets one more word in at most.
THEOREM Silence == Spec => []TakeoverSilencesModel
<1>1. IInv => TakeoverSilencesModel BY DEF IInv, Rows
<1> QED BY <1>1, Invariance, PTL

\* bump_failed_turn: the counter never runs ahead of the failures.
THEOREM Strikes == Spec => []StrikesAreReal
<1>1. IInv => StrikesAreReal BY DEF IInv, Rows
<1> QED BY <1>1, Invariance, PTL
=============================================================================
