------------------------------- MODULE Access -------------------------------
(***************************************************************************)
(* The console's accounts (api/admin_auth.py, api/deps.py, core/auth.py,   *)
(* services/admin_seed.py): who may sign in, which tokens are accepted,    *)
(* and how superadmins change each other's accounts.                       *)
(*                                                                         *)
(* A request reads the caller's row, reads the row it is about and writes  *)
(* it when it commits, in one transaction at READ COMMITTED: what others   *)
(* commit in between is overwritten column by column, for a column is      *)
(* written when its new value differs from the one read.  The caller's own *)
(* row is in the session already and is not read again.                    *)
(*                                                                         *)
(* A token stands for the pair a login issues.  It carries the account's   *)
(* token_version; refreshing it issues the same again, and expiry only     *)
(* makes it refused, so neither is an action.  Passwords are known to whom *)
(* they belong: a wrong one changes nothing.                               *)
(***************************************************************************)
EXTENDS Integers, FiniteSets

CONSTANTS
    Admins,      \* e-mail addresses an account may have
    Seeded,      \* the one of the environment's admin_seed_email
    Machine,     \* the caller who has the ADMIN_API_TOKEN
    Calls,       \* requests under way at a time
    MaxCalls     \* BOUND: requests that may change an account

ASSUME AccessAssumption ==
    /\ Seeded \in Admins
    /\ Machine \notin Admins
    /\ MaxCalls \in Nat

VARIABLES
    account,     \* the table admin_users
    tokens,      \* the tokens issued
    call,        \* per request under way, what it has read
    calls,       \* requests so far
    revoked,     \* history: tokens issued before a revocation committed
    raced,       \* history: accounts whose token_version was overwritten unread
    overlapped   \* history: what a deletion had counted or read changed
                 \* before it committed

accessVars == <<account, tokens, call, calls, revoked, raced, overlapped>>

Account   == [state : {"active", "inactive"}, super : BOOLEAN, tv : Nat]
NoAccount == [state |-> "absent", super |-> FALSE, tv |-> 0]
NewAccount(super) == [state |-> "active", super |-> super, tv |-> 0]

Tokens == [who : Admins, tv : Nat]

\* POST and PATCH /users, one field at a time; reset sets a new password.
Creations == {"create", "create_super"}
Patches   == {"promote", "demote", "activate", "deactivate", "reset"}

(* logout covers logout-all and a password change of one's own.            *)
Operations == [kind : Creations \cup Patches \cup {"delete", "logout", "login", "seed"},
               target : Admins]

Waiting == [stage : {"named", "counting", "ready"}, actor : Admins \cup {Machine},
            op : Operations, row : Account \cup {NoAccount}]
NoCall  == [stage |-> "none"]

AccessInit ==
    /\ account = [a \in Admins |-> NoAccount]
    /\ tokens = {}
    /\ call = [q \in Calls |-> NoCall]
    /\ calls = 0
    /\ revoked = {} /\ raced = {}
    /\ overlapped = FALSE

InCharge(a) == account[a].state = "active" /\ account[a].super

(* _principal_from_token, and refresh_token alike.                         *)
Accepts(token) ==
    account[token.who].state = "active" /\ token.tv = account[token.who].tv

SignedIn(a) == \E token \in tokens : token.who = a /\ Accepts(token)

Starts(q, actor, op, stage, row) ==
    /\ call[q] = NoCall
    /\ calls < MaxCalls /\ calls' = calls + 1
    /\ call' = [call EXCEPT ![q] =
                    [stage |-> stage, actor |-> actor, op |-> op, row |-> row]]
    /\ UNCHANGED <<account, tokens, revoked, raced, overlapped>>

-----------------------------------------------------------------------------
(* Signing in, and the first account.                                      *)

\* The process starts and finds no account at all.
SeedLoads(q) ==
    /\ \A a \in Admins : account[a] = NoAccount
    /\ Starts(q, Machine, [kind |-> "seed", target |-> Seeded], "ready", NoAccount)

LoginChecks(q, a) ==
    /\ account[a].state = "active"
    /\ Starts(q, a, [kind |-> "login", target |-> a], "ready", account[a])

(* The row is read again (db.refresh) before the tokens are issued.        *)
LoginIssues(q) ==
    /\ call[q].stage = "ready" /\ call[q].op.kind = "login"
    /\ LET who == call[q].actor
       IN  tokens' = tokens \cup {[who |-> who, tv |-> account[who].tv]}
    /\ call' = [call EXCEPT ![q] = NoCall]
    /\ UNCHANGED <<account, calls, revoked, raced, overlapped>>

-----------------------------------------------------------------------------
(* Requests on accounts.                                                   *)

LogoutArrives(q, a) ==
    /\ SignedIn(a)
    /\ Starts(q, a, [kind |-> "logout", target |-> a], "ready", account[a])

(* _superadmin_only; the row is that of the caller.                        *)
Arrives(q, actor, op) ==
    /\ op.kind \in Creations \cup Patches \cup {"delete"}
    /\ IF actor = Machine
       THEN Starts(q, actor, op, "named", NoAccount)
       ELSE /\ SignedIn(actor) /\ account[actor].super
            /\ Starts(q, actor, op, "named", account[actor])

Goes(q, stage, row) == call' = [call EXCEPT ![q].stage = stage, ![q].row = row]
Ends(q)             == call' = [call EXCEPT ![q] = NoCall]

Finds(q) ==
    LET op  == call[q].op
        row == IF op.target = call[q].actor THEN call[q].row ELSE account[op.target]
    IN  /\ call[q].stage = "named"
        /\ IF (op.kind \in Creations) # (row = NoAccount)
           THEN Ends(q)
           ELSE Goes(q, IF op.kind = "delete" /\ row.super THEN "counting" ELSE "ready", row)
        /\ UNCHANGED <<account, tokens, calls, revoked, raced, overlapped>>

Deleting == {q \in Calls : call[q].stage = "ready" /\ call[q].op.kind = "delete"}

\* The account to be deleted is counted too, or is not looked at.
CountsItself(q) == {a \in Admins : InCharge(a)}

Others(q) == {a \in Admins \ {call[q].op.target} : InCharge(a)}

(* The count of the other active superadmins.                              *)
Counts(q) ==
    /\ call[q].stage = "counting"
    /\ IF Others(q) = {} THEN Ends(q) ELSE Goes(q, "ready", call[q].row)
    /\ overlapped' = (overlapped \/ Deleting # {})
    /\ UNCHANGED <<account, tokens, calls, revoked, raced>>

Revocations == {"logout", "reset", "delete"}

\* A deleted account keeps the version of its tokens.
WrittenInPart(now, row, kind) ==
    CASE kind \in {"logout", "reset"} -> [now EXCEPT !.tv = row.tv + 1]
      [] kind = "delete" -> [now EXCEPT !.state = "inactive"]
      [] kind = "promote" -> [now EXCEPT !.super = TRUE]
      [] kind = "demote" -> [now EXCEPT !.super = FALSE]
      [] kind = "activate" -> [now EXCEPT !.state = "active"]
      [] kind = "deactivate" -> [now EXCEPT !.state = "inactive"]

(* now is the row in the table, row the one the request has read.          *)
Written(now, row, kind) ==
    LET state == CASE kind = "activate" -> "active"
                   [] kind \in {"deactivate", "delete"} -> "inactive"
                   [] OTHER -> row.state
        super == CASE kind = "promote" -> TRUE
                   [] kind = "demote" -> FALSE
                   [] OTHER -> row.super
    IN  [state |-> IF state = row.state THEN now.state ELSE state,
         super |-> IF super = row.super THEN now.super ELSE super,
         tv    |-> IF kind \in Revocations THEN row.tv + 1 ELSE now.tv]

Inserts(q) ==
    LET op == call[q].op
    IN  /\ call[q].stage = "ready" /\ op.kind \in Creations \cup {"seed"}
        /\ account' = IF account[op.target] # NoAccount THEN account  \* IntegrityError
                      ELSE [account EXCEPT ![op.target] = NewAccount(op.kind # "create")]
        /\ Ends(q)
        /\ UNCHANGED <<tokens, calls, revoked, raced, overlapped>>

Updates(q) ==
    LET kind   == call[q].op.kind
        target == call[q].op.target
        now    == account[target]
    IN  /\ call[q].stage = "ready" /\ kind \in Patches \cup {"delete", "logout"}
        /\ account' = [account EXCEPT ![target] = Written(now, call[q].row, kind)]
        /\ Ends(q)
        /\ IF kind \in Revocations
           THEN /\ revoked' = revoked \cup {token \in tokens : token.who = target}
                /\ raced' = IF call[q].row.tv = now.tv THEN raced ELSE raced \cup {target}
           ELSE UNCHANGED <<revoked, raced>>
        /\ overlapped' = (overlapped \/ (kind \in Patches /\ Deleting # {}))
        /\ UNCHANGED <<tokens, calls>>

AccessNext ==
    \E q \in Calls :
        \/ SeedLoads(q)
        \/ \E a \in Admins : LoginChecks(q, a) \/ LogoutArrives(q, a)
        \/ \E actor \in Admins \cup {Machine}, op \in Operations : Arrives(q, actor, op)
        \/ LoginIssues(q) \/ Finds(q) \/ Counts(q) \/ Inserts(q) \/ Updates(q)

AccessSpec == AccessInit /\ [][AccessNext]_accessVars

-----------------------------------------------------------------------------
AccessTypeOK ==
    /\ account \in [Admins -> Account \cup {NoAccount}]
    /\ tokens \subseteq Tokens /\ revoked \subseteq Tokens
    /\ call \in [Calls -> Waiting \cup {NoCall}]
    /\ calls \in 0..MaxCalls
    /\ raced \subseteq Admins
    /\ overlapped \in BOOLEAN

(* A token that was out when its account was logged out everywhere, given  *)
(* a new password or deleted is never accepted again, not even when the    *)
(* account is activated again or the token_version goes on, unless two     *)
(* revocations read the same version (admin_auth.py:247, "revoke other     *)
(* sessions").                                                             *)
RevokedStaysRevoked ==
    \A token \in revoked : Accepts(token) => token.who \in raced

(* The last active superadmin goes by a PATCH or not at all: deletions, in *)
(* whatever order, leave one, unless what one of them had counted changed  *)
(* before it committed (admin_auth.py:363).                                *)
SomeoneInCharge == \E a \in Admins : InCharge(a)

Patching == \E q \in Calls : /\ call[q].stage = "ready" /\ call'[q] = NoCall
                             /\ call[q].op.kind \in {"demote", "deactivate"}

SuperadminStays ==
    [][SomeoneInCharge => SomeoneInCharge' \/ Patching \/ overlapped]_accessVars
=============================================================================
