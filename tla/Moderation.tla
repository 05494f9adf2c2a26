------------------------------ MODULE Moderation ------------------------------
(***************************************************************************)
(* What becomes of a customer whose messages the safety rules flag:        *)
(* ai/safety.py, the turn in channels/base.py and the staff's block and    *)
(* unblock in api/admin_console.py.                                        *)
(*                                                                         *)
(* A turn loads the customer's row, judges the message by it, and writes   *)
(* the new score when it commits; a request of staff loads the same row    *)
(* and writes it when it commits.  Either writes only the columns it gave  *)
(* another value than the one it read, and whatever they hold by then.     *)
(* Turns of one customer are serial unless their lock lapses, so two may   *)
(* be under way.                                                           *)
(***************************************************************************)
EXTENDS Integers

CONSTANTS
    Judges,       \* turns that can be under way
    Admins,       \* BOUND: requests of staff that can be under way
    ReviewAt,     \* ABUSE_SCORE_BLOCK_THRESHOLD (5)
    BlockAt,      \* ABUSE_SCORE_HARD_BLOCK (10)
    MaxFlags      \* BOUND: flagged messages

ASSUME ModerationAssumption ==
    /\ ReviewAt \in Nat \ {0} /\ BlockAt \in Nat /\ MaxFlags \in Nat
    /\ ReviewAt + 4 <= BlockAt    \* no single message leads past both

\* what the rules tell apart: a long message, abuse, an attempt to misuse
\* the assistant, a conversation that has used up its turns
Kinds == {"long", "abuse", "misuse", "exhausted"}

VARIABLES
    row,          \* abuse_score and blocked
    judge,        \* the turns under way, after they judged
    admin,        \* the requests under way: what was asked, and the row as read
    earned,       \* history: what flagged messages added since the score was reset
    reviewed,     \* history: staff were called since then
    crossed,      \* history: a turn judged before that reset committed after it
    unfair,       \* history: a turn blocked without a review, or too soon
    flags

modVars == <<row, judge, admin, earned, reviewed, crossed, unfair, flags>>

Row == [score : Nat, blocked : BOOLEAN]

Deltas == 0..4

Judgement == [stage : {"judged"}, score : Nat, delta : Deltas, blocks : BOOLEAN,
              calls : BOOLEAN, old : BOOLEAN]

Request == [stage : {"read"}, wish : {"block", "unblock"}, copy : Row]

Waiting == [stage |-> "waiting"]

ModInit ==
    /\ row = [score |-> 0, blocked |-> FALSE]
    /\ judge = [t \in Judges |-> Waiting]
    /\ admin = [a \in Admins |-> Waiting]
    /\ earned = 0
    /\ reviewed = FALSE /\ crossed = FALSE /\ unfair = FALSE
    /\ flags = 0

-----------------------------------------------------------------------------
(* evaluate_inbound: the first rule that applies.  A score past the limit  *)
(* ends the matter before the misuse is looked for.                        *)
Delta(kind) ==
    CASE kind = "long"   -> 1
      [] kind = "abuse"  -> 4
      [] kind = "misuse" /\ row.score < BlockAt -> 2
      [] OTHER -> 0

(* A conversation at its turn cap is handed to staff.                      *)
Hands(kind) == kind = "exhausted" /\ row.score < BlockAt

(* A blocked customer's message is refused before any of this.             *)
Flagged(t, kind) ==
    /\ judge[t] = Waiting
    /\ ~ row.blocked
    /\ flags < MaxFlags
    /\ flags' = flags + 1
    /\ LET score == row.score + Delta(kind)
       IN  judge' = [judge EXCEPT ![t] =
                [stage |-> "judged", score |-> score, delta |-> Delta(kind),
                 blocks |-> score >= BlockAt, calls |-> Hands(kind) \/ score >= ReviewAt,
                 old |-> FALSE]]
    /\ UNCHANGED <<row, admin, earned, reviewed, crossed, unfair>>

(* A score that the turn changed is written as computed, whatever the row  *)
(* holds by now; a block only when the turn decided one.                   *)
Scored(j) == [score   |-> IF j.delta = 0 THEN row.score ELSE j.score,
              blocked |-> j.blocks \/ row.blocked]

FlagCommits(t) ==
    LET j == judge[t]
    IN  /\ j # Waiting
        /\ judge' = [judge EXCEPT ![t] = Waiting]
        /\ row' = Scored(j)
        /\ earned' = earned + j.delta
        /\ reviewed' = (reviewed \/ j.calls)
        /\ crossed' = (crossed \/ j.old)
        /\ unfair' = (unfair \/ (j.blocks /\ ~(reviewed /\ earned' >= BlockAt)))
        /\ UNCHANGED <<admin, flags>>

FlagFails(t) ==
    /\ judge[t] # Waiting
    /\ judge' = [judge EXCEPT ![t] = Waiting]
    /\ UNCHANGED <<row, admin, earned, reviewed, crossed, unfair, flags>>

-----------------------------------------------------------------------------
(* Either request begins by reading the row.                               *)
AdminReads(a, wish) ==
    /\ admin[a] = Waiting
    /\ admin' = [admin EXCEPT ![a] = [stage |-> "read", wish |-> wish, copy |-> row]]
    /\ UNCHANGED <<row, judge, earned, reviewed, crossed, unfair, flags>>

Asks(a, wish) == admin[a] # Waiting /\ admin[a].wish = wish

(* block_customer *)
BlockCustomer(a) ==
    /\ Asks(a, "block")
    /\ row' = [row EXCEPT !.blocked = ~ admin[a].copy.blocked \/ @]
    /\ admin' = [admin EXCEPT ![a] = Waiting]
    /\ UNCHANGED <<judge, earned, reviewed, crossed, unfair, flags>>

\* The block is lifted and the score kept.
LiftedOnly(copy) == [row EXCEPT !.blocked = ~ copy.blocked /\ @]

(* A score of nought is not written again: what a turn has added since the *)
(* request read the row then stays.                                        *)
Lifted(copy) == [score   |-> IF copy.score # 0 THEN 0 ELSE row.score,
                 blocked |-> ~ copy.blocked /\ row.blocked]

(* unblock_customer *)
UnblockCustomer(a) ==
    /\ Asks(a, "unblock")
    /\ row' = Lifted(admin[a].copy)
    /\ admin' = [admin EXCEPT ![a] = Waiting]
    /\ IF admin[a].copy.score # 0
         THEN /\ judge' = [t \in Judges |-> IF judge[t] = Waiting THEN Waiting
                                           ELSE [judge[t] EXCEPT !.old = TRUE]]
              /\ earned' = 0
              /\ reviewed' = FALSE /\ crossed' = FALSE /\ unfair' = FALSE
         ELSE UNCHANGED <<judge, earned, reviewed, crossed, unfair>>
    /\ UNCHANGED flags

ModNext ==
    \/ \E t \in Judges :
          \/ \E kind \in Kinds : Flagged(t, kind)
          \/ FlagCommits(t) \/ FlagFails(t)
    \/ \E a \in Admins :
          \/ \E wish \in {"block", "unblock"} : AdminReads(a, wish)
          \/ BlockCustomer(a) \/ UnblockCustomer(a)

ModSpec == ModInit /\ [][ModNext]_modVars

-----------------------------------------------------------------------------
ModTypeOK ==
    /\ row \in Row
    /\ judge \in [Judges -> {Waiting} \cup Judgement]
    /\ admin \in [Admins -> {Waiting} \cup Request]
    /\ earned \in Nat
    /\ reviewed \in BOOLEAN /\ crossed \in BOOLEAN /\ unfair \in BOOLEAN
    /\ flags \in 0..MaxFlags

(* A customer is blocked by the score alone only after flags that add up   *)
(* to the limit since an unblock last reset it, and after staff had been   *)
(* called about an earlier one ("flag for review without blocking yet",    *)
(* base.py:1722).  An unblock that read a score of nought has nothing to   *)
(* reset, whatever was added while it ran.  A turn that judged before a    *)
(* reset and committed after it brings the old score back, and is the one  *)
(* exception.                                                              *)
BlocksAreEarned == unfair => crossed
===============================================================================
