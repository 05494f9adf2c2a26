---------------------------- MODULE ConsoleProofs ----------------------------
(***************************************************************************)
(* What is proved of the console: the accounts and tokens of admins, the   *)
(* members of businesses, the desk where staff take over a thread, the     *)
(* profile of a business with its photos, and the knowledge base that the  *)
(* AI answers from. They share no state; MCConsole checks the same         *)
(* properties on a small instance.                                         *)
(*                                                                         *)
(* In each, a request reads a row in one step and commits what it made of  *)
(* it in another. The invariants say what a request in hand knows of the   *)
(* row, and which history variable excuses it when another request has     *)
(* been there since.                                                       *)
(***************************************************************************)
EXTENDS Access, Memberships, Desk, Profiles, Knowledge, FiniteSetTheorems,
        Functions, TLAPS

-----------------------------------------------------------------------------
(* Admin accounts and tokens.                                              *)

(* The account a is in the table, active or not.                           *)
Exists(a) == account[a].state # "absent"

(* A token bears a version its account has reached, and a revoked one a    *)
(* version the account has left behind.                                    *)
TokensFollow ==
    /\ \A token \in tokens : token.who \notin raced => token.tv <= account[token.who].tv
    /\ \A token \in revoked : token.who \notin raced => token.tv < account[token.who].tv

(* What a request that will write has read is the row of an account that   *)
(* is there.                                                               *)
RowFound(c) ==
    /\ c.stage = "named" /\ c.actor # Machine => c.row.super /\ Exists(c.actor)
    /\ c.stage = "counting" => c.row.super
    /\ c.stage \in {"counting", "ready"} /\ c.op.kind \in Patches \cup {"delete", "logout"} =>
          c.row \in Account /\ Exists(c.op.target)
    /\ c.stage # "none" /\ c.op.kind = "login" => c.actor \in Admins

(* A deletion about to commit: of a superadmin, one at a time and with     *)
(* another one left, or of an account that is no superadmin.               *)
IsDeleting(c) == c.stage = "ready" /\ c.op.kind = "delete"

(* An active superadmin other than the one the request c deletes.          *)
SomeoneElse(c) == \E a \in Admins \ {c.op.target} : InCharge(a)

(* What the deletion c takes leaves somebody in charge.                    *)
DeletionIsSafe(c) ==
    IF c.row.super THEN SomeoneElse(c) ELSE ~account[c.op.target].super

(* So does every deletion about to commit, for they wait for one another.  *)
DeletionsAreSafe ==
    /\ \A q \in Calls : IsDeleting(call[q]) => DeletionIsSafe(call[q])
    /\ \A p, q \in Calls :
          /\ IsDeleting(call[p]) /\ call[p].row.super
          /\ IsDeleting(call[q]) /\ call[q].row.super
          => p = q

(* The invariant of the admin accounts.                                    *)
AccessInv ==
    /\ AccessTypeOK
    /\ TokensFollow
    /\ \A q \in Calls : RowFound(call[q])
    /\ ~overlapped => DeletionsAreSafe

(* At the start there are accounts without tokens and no calls.            *)
LEMMA AccessStarts == AccessInit => AccessInv
  <1> SUFFICES ASSUME AccessInit PROVE AccessInv
    OBVIOUS
  <1>1. /\ account \in [Admins -> Account \cup {NoAccount}]
        /\ call \in [Calls -> Waiting \cup {NoCall}]
        /\ \A q \in Calls : call[q].stage = "none"
    BY DEF AccessInit, NoCall
  <1>2. tokens = {} /\ revoked = {} /\ raced = {} /\ calls \in 0..MaxCalls
    BY AccessAssumption DEF AccessInit
  <1>3. overlapped \in BOOLEAN
    BY DEF AccessInit
  <1> QED
    BY <1>1, <1>2, <1>3
       DEF AccessInv, AccessTypeOK, TokensFollow, RowFound, DeletionsAreSafe, IsDeleting

(* A step that leaves the accounts alone.                                  *)
LEMMA CallKeepsAccess ==
    ASSUME AccessInv, NEW q \in Calls, NEW c \in Waiting \cup {NoCall},
           call' = [call EXCEPT ![q] = c],
           UNCHANGED <<account, revoked, raced>>,
           calls' \in 0..MaxCalls,
           tokens' \subseteq Tokens,
           \A token \in tokens' : token \in tokens \/ token.tv <= account[token.who].tv,
           overlapped' \in BOOLEAN, overlapped => overlapped',
           RowFound(c),
           IsDeleting(c) /\ ~overlapped' =>
              DeletionIsSafe(c) /\ (c.row.super => Deleting = {})
    PROVE  AccessInv'
  <1>1. call'[q] = c /\ \A p \in Calls : p # q => call'[p] = call[p]
    BY DEF AccessInv, AccessTypeOK
  <1>2. AccessTypeOK'
    BY DEF AccessInv, AccessTypeOK
  <1>3. TokensFollow'
    BY DEF AccessInv, TokensFollow
  <1>4. \A p \in Calls : RowFound(call[p])'
    BY <1>1 DEF AccessInv, RowFound, Exists
  <1>5. ASSUME ~overlapped' PROVE DeletionsAreSafe'
    <2>1. \A p \in Calls : IsDeleting(call'[p]) => DeletionIsSafe(call'[p])
      BY <1>1, <1>5 DEF AccessInv, DeletionsAreSafe
    <2>2. \A p \in Calls : p # q /\ IsDeleting(c) /\ c.row.super => ~IsDeleting(call[p])
      BY <1>5 DEF Deleting, IsDeleting
    <2>3. \A p, r \in Calls :
          /\ IsDeleting(call'[p]) /\ call'[p].row.super
          /\ IsDeleting(call'[r]) /\ call'[r].row.super
          => p = r
      BY <1>1, <1>5, <2>2 DEF AccessInv, DeletionsAreSafe
    <2> QED
      BY <2>1, <2>3 DEF DeletionsAreSafe, IsDeleting, DeletionIsSafe, SomeoneElse, InCharge
  <1> QED
    BY <1>2, <1>3, <1>4, <1>5 DEF AccessInv

(* A call that starts, with the row it has read, keeps the invariant.      *)
LEMMA StartKeepsAccess ==
    ASSUME AccessInv, NEW q \in Calls, NEW actor \in Admins \cup {Machine}, NEW op \in Operations,
           NEW stage \in {"named", "ready"}, NEW row \in Account \cup {NoAccount},
           Starts(q, actor, op, stage, row),
           stage = "named" /\ actor # Machine => row.super /\ Exists(actor),
           stage = "ready" => /\ op.kind # "delete"
                              /\ op.kind \in Patches \cup {"logout"} =>
                                    row \in Account /\ Exists(op.target),
           op.kind = "login" => actor \in Admins
    PROVE  AccessInv'
  <1> DEFINE c == [stage |-> stage, actor |-> actor, op |-> op, row |-> row]
  <1>1. c \in Waiting /\ c.stage = stage /\ c.op = op /\ c.row = row /\ c.actor = actor
    BY DEF Waiting
  <1>2. call' = [call EXCEPT ![q] = c] /\ UNCHANGED <<account, tokens, revoked, raced, overlapped>>
        /\ calls' \in 0..MaxCalls
    BY AccessAssumption DEF Starts, AccessInv, AccessTypeOK
  <1> HIDE DEF c
  <1>3. RowFound(c)
    BY <1>1 DEF RowFound
  <1>4. ~IsDeleting(c)
    BY <1>1 DEF IsDeleting
  <1> QED
    BY <1>1, <1>2, <1>3, <1>4, CallKeepsAccess DEF AccessInv, AccessTypeOK

(* The row of an account is typed, and absent only where it is NoAccount.  *)
LEMMA AccountType ==
    ASSUME AccessTypeOK, NEW a \in Admins
    PROVE  /\ account[a] \in Account \cup {NoAccount}
           /\ account[a].state \in {"active", "inactive", "absent"}
           /\ account[a].tv \in Nat
           /\ account[a].super \in BOOLEAN
           /\ account[a] # NoAccount => account[a] \in Account /\ Exists(a)
           /\ Exists(a) => account[a] \in Account /\ account[a] # NoAccount
           /\ account[a].super => Exists(a)
  <1>1. account[a] \in Account \/ account[a] = NoAccount
    BY DEF AccessTypeOK
  <1>2. CASE account[a] \in Account
    BY <1>2 DEF Account, NoAccount, Exists
  <1>3. CASE account[a] = NoAccount
    BY <1>3 DEF Account, NoAccount, Exists
  <1> QED
    BY <1>1, <1>2, <1>3

(* The parts of a call under way are typed.                                *)
LEMMA CallType ==
    ASSUME AccessTypeOK, NEW q \in Calls, call[q].stage # "none"
    PROVE  /\ call[q] \in Waiting
           /\ call[q].op \in Operations /\ call[q].op.target \in Admins
           /\ call[q].actor \in Admins \cup {Machine}
           /\ call[q].row \in Account \cup {NoAccount}
  <1>1. call[q] \in Waiting
    BY DEF AccessTypeOK, NoCall
  <1> QED
    BY <1>1 DEF Waiting, Operations

(* So do the four ways in which a call arrives.                            *)
LEMMA LoadsKeepAccess ==
    ASSUME AccessInv, NEW q \in Calls,
           \/ SeedLoads(q)
           \/ \E a \in Admins : LoginChecks(q, a) \/ LogoutArrives(q, a)
           \/ \E actor \in Admins \cup {Machine}, op \in Operations : Arrives(q, actor, op)
    PROVE  AccessInv'
  <1>1. CASE SeedLoads(q)
    <2>1. [kind |-> "seed", target |-> Seeded] \in Operations
      BY AccessAssumption DEF Operations
    <2> QED
      BY <1>1, <2>1, StartKeepsAccess DEF SeedLoads, Patches
  <1>2. ASSUME NEW a \in Admins, LoginChecks(q, a) PROVE AccessInv'
    <2>1. [kind |-> "login", target |-> a] \in Operations
      BY DEF Operations
    <2>2. account[a] \in Account \cup {NoAccount}
      BY AccountType DEF AccessInv
    <2> QED
      BY <1>2, <2>1, <2>2, StartKeepsAccess DEF LoginChecks, Patches
  <1>3. ASSUME NEW a \in Admins, LogoutArrives(q, a) PROVE AccessInv'
    <2>1. [kind |-> "logout", target |-> a] \in Operations
      BY DEF Operations
    <2>2. account[a].state = "active"
      BY <1>3 DEF LogoutArrives, SignedIn, Accepts
    <2>3. account[a] \in Account /\ Exists(a)
      BY <2>2, AccountType DEF AccessInv, Exists
    <2> QED
      BY <1>3, <2>1, <2>3, StartKeepsAccess DEF LogoutArrives, Patches
  <1>4. ASSUME NEW actor \in Admins \cup {Machine}, NEW op \in Operations, Arrives(q, actor, op)
        PROVE  AccessInv'
    <2> op.kind # "login"
      BY <1>4 DEF Arrives, Creations, Patches
    <2>1. CASE actor = Machine
      BY <1>4, <2>1, StartKeepsAccess DEF Arrives
    <2>2. CASE actor # Machine
      <3>1. actor \in Admins /\ account[actor].super /\ Starts(q, actor, op, "named", account[actor])
        BY <1>4, <2>2 DEF Arrives
      <3>2. Exists(actor) /\ account[actor] \in Account \cup {NoAccount}
        BY <3>1, AccountType DEF AccessInv
      <3> QED
        BY <2>2, <3>1, <3>2, StartKeepsAccess
    <2> QED
      BY <2>1, <2>2
  <1> QED
    BY <1>1, <1>2, <1>3, <1>4

(* A call that ends holds nothing more.                                    *)
LEMMA EndedCall ==
    ASSUME NEW q, Ends(q)
    PROVE  call' = [call EXCEPT ![q] = NoCall] /\ RowFound(NoCall) /\ ~IsDeleting(NoCall)
  BY DEF Ends, NoCall, RowFound, IsDeleting

(* A login that issues its token uses the version the account has now.     *)
LEMMA IssueKeepsAccess ==
    ASSUME AccessInv, NEW q \in Calls, LoginIssues(q)
    PROVE  AccessInv'
  <1>1. PICK who : who = call[q].actor /\ tokens' = tokens \cup {[who |-> who, tv |-> account[who].tv]}
    BY DEF LoginIssues
  <1>2. call' = [call EXCEPT ![q] = NoCall] /\ UNCHANGED <<account, calls, revoked, raced, overlapped>>
    BY DEF LoginIssues
  <1>3. RowFound(NoCall) /\ ~IsDeleting(NoCall)
    BY DEF NoCall, RowFound, IsDeleting
  <1>4. who \in Admins /\ account[who].tv \in Nat
    BY <1>1, AccountType DEF LoginIssues, AccessInv, RowFound
  <1>5. [who |-> who, tv |-> account[who].tv] \in Tokens
    BY <1>4 DEF Tokens
  <1>6. tokens' \subseteq Tokens
        /\ \A token \in tokens' : token \in tokens \/ token.tv <= account[token.who].tv
    BY <1>1, <1>4, <1>5 DEF AccessInv, AccessTypeOK
  <1> QED
    BY <1>2, <1>3, <1>6, CallKeepsAccess DEF AccessInv, AccessTypeOK

(* A call that finds the row of its target has an account to write, or     *)
(* ends.                                                                   *)
LEMMA FindKeepsAccess ==
    ASSUME AccessInv, NEW q \in Calls, Finds(q)
    PROVE  AccessInv'
  <1> DEFINE op  == call[q].op
             row == IF op.target = call[q].actor THEN call[q].row ELSE account[op.target]
             stage == IF op.kind = "delete" /\ row.super THEN "counting" ELSE "ready"
             c == [call[q] EXCEPT !.stage = stage, !.row = row]
  <1>1. /\ call[q].stage = "named" /\ call[q] \in Waiting /\ op \in Operations
        /\ op.target \in Admins /\ row \in Account \cup {NoAccount}
    BY CallType, AccountType DEF Finds, AccessInv
  <1>2. UNCHANGED <<account, tokens, calls, revoked, raced, overlapped>>
    BY DEF Finds
  <1>3. CASE Ends(q)
    BY <1>2, <1>3, EndedCall, CallKeepsAccess DEF AccessInv, AccessTypeOK
  <1>4. CASE ~((op.kind \in Creations) # (row = NoAccount)) /\ Goes(q, stage, row)
    <2>1. call' = [call EXCEPT ![q] = c]
      BY <1>1, <1>4 DEF Goes, AccessInv, AccessTypeOK
    <2>2. c \in Waiting /\ c.stage = stage /\ c.op = op /\ c.row = row /\ c.actor = call[q].actor
      BY <1>1 DEF Waiting
    <2>3. op.kind \in Patches \cup {"delete", "logout"} => row \in Account /\ Exists(op.target)
      <3>1. SUFFICES ASSUME op.kind \in Patches \cup {"delete", "logout"}
                     PROVE  row \in Account /\ Exists(op.target)
        OBVIOUS
      <3>2. row # NoAccount
        BY <1>4, <3>1 DEF Creations, Patches
      <3>3. CASE op.target = call[q].actor
        BY <1>1, <3>2, <3>3, AccessAssumption DEF AccessInv, RowFound
      <3>4. CASE op.target # call[q].actor
        BY <1>1, <3>2, <3>4, AccountType DEF AccessInv
      <3> QED
        BY <3>3, <3>4
    <2>4. IsDeleting(c) => ~row.super /\ ~account[op.target].super
      <3>1. SUFFICES ASSUME IsDeleting(c) PROVE ~row.super /\ ~account[op.target].super
        OBVIOUS
      <3>2. ~row.super
        BY <2>2, <3>1 DEF IsDeleting
      <3>3. op.target # call[q].actor
        BY <1>1, <3>2, AccessAssumption DEF AccessInv, RowFound
      <3> QED
        BY <3>2, <3>3
    <2>5. c.stage = "counting" => c.row.super
      BY <2>2
    <2> HIDE DEF c
    <2>6. RowFound(c)
      BY <1>1, <2>2, <2>3, <2>5 DEF AccessInv, RowFound
    <2>7. IsDeleting(c) => DeletionIsSafe(c) /\ ~c.row.super
      BY <2>2, <2>4 DEF DeletionIsSafe
    <2> QED
      BY <1>2, <2>1, <2>2, <2>6, <2>7, CallKeepsAccess DEF AccessInv, AccessTypeOK
  <1> QED
    BY <1>3, <1>4 DEF Finds

(* A deletion of a superadmin goes on only with another one left.          *)
LEMMA CountKeepsAccess ==
    ASSUME AccessInv, NEW q \in Calls, Counts(q)
    PROVE  AccessInv'
  <1>1. call[q].stage = "counting" /\ call[q] \in Waiting /\ call[q].row.super
    BY CallType DEF Counts, AccessInv, RowFound
  <1>2. /\ UNCHANGED <<account, tokens, calls, revoked, raced>>
        /\ overlapped' = (overlapped \/ Deleting # {}) /\ overlapped' \in BOOLEAN
    BY DEF Counts
  <1>3. CASE Ends(q)
    BY <1>2, <1>3, EndedCall, CallKeepsAccess DEF AccessInv, AccessTypeOK
  <1>4. CASE Others(q) # {} /\ Goes(q, "ready", call[q].row)
    <2> DEFINE c == [call[q] EXCEPT !.stage = "ready", !.row = call[q].row]
    <2>1. call' = [call EXCEPT ![q] = c]
      BY <1>1, <1>4 DEF Goes, AccessInv, AccessTypeOK
    <2>2. c \in Waiting /\ c.stage = "ready" /\ c.op = call[q].op /\ c.row = call[q].row
        /\ c.actor = call[q].actor
      BY <1>1 DEF Waiting
    <2> HIDE DEF c
    <2>3. RowFound(c)
      BY <1>1, <2>2 DEF AccessInv, RowFound
    <2>4. DeletionIsSafe(c)
      BY <1>1, <1>4, <2>2 DEF Others, DeletionIsSafe, SomeoneElse
    <2> QED
      BY <1>2, <2>1, <2>2, <2>3, <2>4, CallKeepsAccess DEF AccessInv, AccessTypeOK
  <1> QED
    BY <1>3, <1>4 DEF Counts

(* A step that writes accounts: which ones are there, and what deletions   *)
(* have counted on, stays.                                                 *)
LEMMA WriteKeepsAccess ==
    ASSUME AccessInv, NEW q \in Calls,
           call' = [call EXCEPT ![q] = NoCall], UNCHANGED <<tokens, calls>>,
           account' \in [Admins -> Account \cup {NoAccount}],
           revoked' \subseteq Tokens, raced' \subseteq Admins,
           overlapped' \in BOOLEAN, overlapped => overlapped',
           TokensFollow',
           \A a \in Admins : Exists(a) => account'[a].state # "absent",
           ~overlapped' => \A p \in Calls : p # q /\ IsDeleting(call[p]) /\ DeletionIsSafe(call[p]) =>
                             IF call[p].row.super
                             THEN \E a \in Admins \ {call[p].op.target} :
                                     account'[a].state = "active" /\ account'[a].super
                             ELSE ~account'[call[p].op.target].super
    PROVE  AccessInv'
  <1>1. call'[q] = NoCall /\ \A p \in Calls : p # q => call'[p] = call[p]
    BY DEF AccessInv, AccessTypeOK
  <1>2. AccessTypeOK'
    BY DEF AccessInv, AccessTypeOK
  <1>3. RowFound(NoCall)' /\ ~IsDeleting(NoCall)
    BY DEF RowFound, NoCall, IsDeleting
  <1>4. ASSUME NEW p \in Calls, p # q PROVE RowFound(call[p])'
    <2>1. RowFound(call[p]) /\ call'[p] = call[p]
      BY <1>1, <1>4 DEF AccessInv
    <2>2. call[p].stage # "none" => call[p].actor \in Admins \cup {Machine} /\ call[p].op.target \in Admins
      BY CallType DEF AccessInv
    <2> QED
      BY <2>1, <2>2 DEF RowFound, Exists
  <1>5. ASSUME ~overlapped' PROVE DeletionsAreSafe'
    <2>1. DeletionsAreSafe
      BY <1>5 DEF AccessInv
    <2>2. \A p \in Calls : IsDeleting(call'[p]) => p # q /\ call'[p] = call[p] /\ IsDeleting(call[p])
      BY <1>1, <1>3
    <2>3. \A p \in Calls : IsDeleting(call'[p]) => DeletionIsSafe(call[p])'
      BY <1>1, <1>5, <2>1, <2>2 DEF DeletionsAreSafe, DeletionIsSafe, SomeoneElse, InCharge
    <2> QED
      BY <2>1, <2>2, <2>3 DEF DeletionsAreSafe, IsDeleting
  <1> QED
    BY <1>1, <1>2, <1>3, <1>4, <1>5 DEF AccessInv

(* An account is inserted only where none was, with the version that an    *)
(* absent one has.                                                         *)
LEMMA InsertKeepsAccess ==
    ASSUME AccessInv, NEW q \in Calls, Inserts(q)
    PROVE  AccessInv'
  <1> DEFINE target == call[q].op.target
             new == NewAccount(call[q].op.kind # "create")
  <1>1. target \in Admins
    BY CallType DEF Inserts, AccessInv
  <1>2. call' = [call EXCEPT ![q] = NoCall] /\ UNCHANGED <<tokens, calls, revoked, raced, overlapped>>
    BY DEF Inserts, Ends
  <1>3. new \in Account /\ new.tv = 0 /\ new.state = "active"
    BY DEF NewAccount, Account
  <1>4. CASE account' = account
    BY <1>2, <1>4, WriteKeepsAccess DEF AccessInv, AccessTypeOK, TokensFollow, Exists,
       DeletionIsSafe, SomeoneElse, InCharge
  <1>5. CASE account[target] = NoAccount /\ account' = [account EXCEPT ![target] = new]
    <2> HIDE DEF new, target
    <2>1. /\ account' \in [Admins -> Account \cup {NoAccount}]
          /\ account'[target] = new
          /\ \A a \in Admins : a # target => account'[a] = account[a]
      BY <1>1, <1>3, <1>5 DEF AccessInv, AccessTypeOK
    <2>2. ~Exists(target) /\ ~account[target].super /\ account[target].tv = 0
      BY <1>5 DEF NoAccount, Exists
    <2>3. TokensFollow'
      <3>1. \A a \in Admins : account'[a].tv = account[a].tv
        BY <1>3, <2>1, <2>2
      <3>2. \A token \in tokens \cup revoked : token.who \in Admins
        BY DEF AccessInv, AccessTypeOK, Tokens
      <3> QED
        BY <1>2, <3>1, <3>2 DEF AccessInv, TokensFollow
    <2>4. \A a \in Admins : Exists(a) => account'[a].state # "absent"
      BY <2>1, <2>2 DEF Exists
    <2>5. ASSUME NEW p \in Calls, IsDeleting(call[p]), DeletionIsSafe(call[p])
          PROVE  IF call[p].row.super
                 THEN \E a \in Admins \ {call[p].op.target} :
                         account'[a].state = "active" /\ account'[a].super
                 ELSE ~account'[call[p].op.target].super
      <3>1. Exists(call[p].op.target) /\ call[p].op.target \in Admins
        BY <2>5, CallType DEF AccessInv, RowFound, IsDeleting
      <3>2. account'[call[p].op.target] = account[call[p].op.target]
        BY <2>1, <2>2, <3>1
      <3>3. \A a \in Admins : InCharge(a) => account'[a] = account[a]
        BY <2>1, <2>2 DEF InCharge
      <3> QED
        BY <2>5, <3>2, <3>3 DEF DeletionIsSafe, SomeoneElse, InCharge
    <2> QED
      BY <1>2, <2>1, <2>3, <2>4, <2>5, WriteKeepsAccess DEF AccessInv, AccessTypeOK
  <1> QED
    BY <1>4, <1>5 DEF Inserts

(* What an update leaves of the row it writes.                             *)
LEMMA WrittenRow ==
    ASSUME NEW now \in Account, NEW row \in Account,
           NEW kind \in Patches \cup {"delete", "logout"}
    PROVE  /\ Written(now, row, kind) \in Account
           /\ kind \in Revocations => Written(now, row, kind).tv = row.tv + 1
           /\ kind \notin Revocations => Written(now, row, kind).tv = now.tv
           /\ kind \in {"delete", "logout"} => Written(now, row, kind).super = now.super
           /\ kind = "logout" => Written(now, row, kind).state = now.state
           /\ kind \notin {"demote", "deactivate", "delete"} /\ now.state = "active" /\ now.super =>
                 Written(now, row, kind).state = "active" /\ Written(now, row, kind).super
  <1>1. /\ now.state \in {"active", "inactive"} /\ row.state \in {"active", "inactive"}
        /\ now.super \in BOOLEAN /\ row.super \in BOOLEAN /\ now.tv \in Nat /\ row.tv \in Nat
    BY DEF Account
  <1> DEFINE w == Written(now, row, kind)
             state == CASE kind = "activate" -> "active"
                   [] kind \in {"deactivate", "delete"} -> "inactive"
                   [] OTHER -> row.state
             super == CASE kind = "promote" -> TRUE
                   [] kind = "demote" -> FALSE
                   [] OTHER -> row.super
  <1>2. w = [state |-> IF state = row.state THEN now.state ELSE state,
             super |-> IF super = row.super THEN now.super ELSE super,
             tv    |-> IF kind \in Revocations THEN row.tv + 1 ELSE now.tv]
    BY DEF Written
  <1>3. state \in {"active", "inactive"} /\ super \in BOOLEAN
    BY <1>1
  <1>4. /\ w.state = IF state = row.state THEN now.state ELSE state
        /\ w.super = IF super = row.super THEN now.super ELSE super
        /\ w.tv = IF kind \in Revocations THEN row.tv + 1 ELSE now.tv
    BY <1>2
  <1>5. w \in Account
    <2> HIDE DEF w, state, super
    <2>1. /\ (IF state = row.state THEN now.state ELSE state) \in {"active", "inactive"}
          /\ (IF super = row.super THEN now.super ELSE super) \in BOOLEAN
      BY <1>1, <1>3
    <2>2. (IF kind \in Revocations THEN row.tv + 1 ELSE now.tv) \in Nat
      BY <1>1
    <2> QED
      BY <1>2, <2>1, <2>2 DEF Account
  <1>6. kind \in {"delete", "logout"} => w.super = now.super
    BY <1>4
  <1>7. kind = "logout" => w.state = now.state
    BY <1>4
  <1>8. kind \notin {"demote", "deactivate", "delete"} /\ now.state = "active" /\ now.super =>
           w.state = "active" /\ w.super
    BY <1>1, <1>4
  <1> QED
    BY <1>4, <1>5, <1>6, <1>7, <1>8

(* A commit revokes the tokens there are by a new version, unless it races *)
(* with another, and a deletion leaves somebody in charge: the longest of  *)
(* the steps, one part for each conjunct.                                  *)
LEMMA UpdateKeepsAccess ==
    ASSUME AccessInv, NEW q \in Calls, Updates(q)
    PROVE  AccessInv'
  <1> DEFINE kind   == call[q].op.kind
             target == call[q].op.target
             row    == call[q].row
             now    == account[target]
             new    == Written(now, row, kind)
  <1>1. /\ target \in Admins /\ row \in Account /\ now \in Account
        /\ kind \in Patches \cup {"delete", "logout"} /\ call[q].stage = "ready"
    BY CallType, AccountType DEF Updates, AccessInv, RowFound
  <1>2. /\ call' = [call EXCEPT ![q] = NoCall] /\ UNCHANGED <<tokens, calls>>
        /\ account' = [account EXCEPT ![target] = new]
        /\ overlapped' = (overlapped \/ (kind \in Patches /\ Deleting # {}))
        /\ kind \in Revocations =>
              /\ revoked' = revoked \cup {token \in tokens : token.who = target}
              /\ raced' = IF row.tv = now.tv THEN raced ELSE raced \cup {target}
        /\ kind \notin Revocations => UNCHANGED <<revoked, raced>>
    BY DEF Updates, Ends
  <1>3. /\ new \in Account
        /\ kind \in Revocations => new.tv = row.tv + 1
        /\ kind \notin Revocations => new.tv = now.tv
        /\ kind \in {"delete", "logout"} => new.super = now.super
        /\ kind = "logout" => new.state = now.state
    <2>1. row \in Account /\ now \in Account /\ kind \in Patches \cup {"delete", "logout"}
      BY <1>1
    <2> HIDE DEF kind, row, now
    <2>2. Written(now, row, kind) \in Account
      BY <2>1, WrittenRow, Zenon
    <2>5. kind \in Revocations => Written(now, row, kind).tv = row.tv + 1
      BY <2>1, WrittenRow
    <2>6. kind \notin Revocations => Written(now, row, kind).tv = now.tv
      BY <2>1, WrittenRow
    <2>3. kind \in {"delete", "logout"} => Written(now, row, kind).super = now.super
      BY <2>1, WrittenRow
    <2>4. kind = "logout" => Written(now, row, kind).state = now.state
      BY <2>1, WrittenRow
    <2> QED
      BY <2>2, <2>3, <2>4, <2>5, <2>6
  <1>4. Deleting = {p \in Calls : IsDeleting(call[p])}
    BY DEF Deleting, IsDeleting
  <1>5. IsDeleting(call[q]) <=> kind = "delete"
    BY <1>1 DEF IsDeleting
  <1> HIDE DEF kind, target, row, now, new
  <1>6. /\ account' \in [Admins -> Account \cup {NoAccount}]
        /\ account'[target] = new /\ \A a \in Admins : a # target => account'[a] = account[a]
    BY <1>1, <1>2, <1>3 DEF AccessInv, AccessTypeOK
  <1>7. revoked' \subseteq Tokens /\ raced' \subseteq Admins /\ raced \subseteq raced'
    BY <1>1, <1>2 DEF AccessInv, AccessTypeOK
  <1>8. TokensFollow'
    <2>1. \A token \in tokens \cup revoked : token \in Tokens /\ token.who \in Admins /\ token.tv \in Nat
      BY DEF AccessInv, AccessTypeOK, Tokens
    <2>2. now.tv \in Nat /\ row.tv \in Nat /\ now = account[target]
      BY <1>1 DEF Account, now
    <2>3. CASE kind \notin Revocations
      <3>1. \A a \in Admins : account'[a].tv = account[a].tv
        BY <1>3, <1>6, <2>2, <2>3
      <3> QED
        BY <1>2, <2>1, <2>3, <3>1 DEF AccessInv, TokensFollow
    <2>4. CASE kind \in Revocations /\ row.tv # now.tv
      <3>1. target \in raced' /\ \A token \in revoked' : token.who # target => token \in revoked
        BY <1>2, <2>4
      <3> QED
        BY <1>2, <1>6, <1>7, <2>1, <3>1 DEF AccessInv, TokensFollow
    <2>5. CASE kind \in Revocations /\ row.tv = now.tv
      <3>1. account'[target].tv = account[target].tv + 1 /\ raced' = raced
        BY <1>2, <1>3, <1>6, <2>2, <2>5
      <3>2. ASSUME NEW token \in tokens, token.who \notin raced
            PROVE  token.tv <= account'[token.who].tv
                   /\ (token.who = target => token.tv < account'[token.who].tv)
        BY <1>6, <2>1, <2>2, <3>1, <3>2 DEF AccessInv, TokensFollow
      <3>3. ASSUME NEW token \in revoked, token.who \notin raced
            PROVE  token.tv < account'[token.who].tv
        BY <1>6, <2>1, <2>2, <3>1, <3>3 DEF AccessInv, TokensFollow
      <3> QED
        BY <1>2, <2>5, <3>1, <3>2, <3>3 DEF TokensFollow
    <2> QED
      BY <2>3, <2>4, <2>5
  <1>9. \A a \in Admins : Exists(a) => account'[a].state # "absent"
    BY <1>3, <1>6 DEF Exists, Account
  <1>10. ASSUME ~overlapped', NEW p \in Calls, p # q, IsDeleting(call[p]), DeletionIsSafe(call[p])
         PROVE  IF call[p].row.super
                THEN \E a \in Admins \ {call[p].op.target} :
                        account'[a].state = "active" /\ account'[a].super
                ELSE ~account'[call[p].op.target].super
    <2>1. ~overlapped /\ kind \in {"delete", "logout"}
      BY <1>1, <1>2, <1>4, <1>10
    <2>2. \A a \in Admins : account'[a].super = account[a].super
      BY <1>3, <1>6, <2>1 DEF now
    <2>3. call[p].op.target \in Admins
      BY <1>10, CallType DEF IsDeleting, AccessInv
    <2>4. CASE kind = "logout"
      <3>1. \A a \in Admins : account'[a].state = account[a].state
        BY <1>3, <1>6, <2>4 DEF now
      <3> QED
        BY <1>10, <2>2, <2>3, <3>1 DEF DeletionIsSafe, SomeoneElse, InCharge
    <2>5. CASE kind = "delete" /\ call[p].row.super
      <3>1. IsDeleting(call[q]) /\ ~row.super
        BY <1>5, <1>10, <2>1, <2>5 DEF AccessInv, DeletionsAreSafe, row
      <3>2. ~account[target].super
        BY <2>1, <3>1 DEF AccessInv, DeletionsAreSafe, DeletionIsSafe, row, target
      <3>3. \A a \in Admins : InCharge(a) => account'[a] = account[a]
        BY <1>6, <3>2 DEF InCharge
      <3> QED
        BY <1>10, <2>5, <3>3 DEF DeletionIsSafe, SomeoneElse, InCharge
    <2>6. CASE ~call[p].row.super
      BY <1>10, <2>2, <2>3, <2>6 DEF DeletionIsSafe
    <2> QED
      BY <2>1, <2>4, <2>5, <2>6
  <1>11. overlapped' \in BOOLEAN /\ (overlapped => overlapped')
    BY <1>2
  <1> QED
    BY <1>2, <1>6, <1>7, <1>8, <1>9, <1>10, <1>11, WriteKeepsAccess

(* Every reachable state of accounts, tokens and requests under way        *)
(* satisfies it.                                                           *)
THEOREM AccessInvariance == AccessSpec => []AccessInv
  <1>1. AccessInv /\ [AccessNext]_accessVars => AccessInv'
    <2> SUFFICES ASSUME AccessInv, [AccessNext]_accessVars PROVE AccessInv'
      OBVIOUS
    <2>1. CASE UNCHANGED accessVars
      BY <2>1 DEF accessVars, AccessInv, AccessTypeOK, TokensFollow, RowFound, Exists,
         DeletionsAreSafe, DeletionIsSafe, SomeoneElse, InCharge, IsDeleting
    <2>2. CASE AccessNext
      <3> PICK q \in Calls :
            \/ SeedLoads(q)
            \/ \E a \in Admins : LoginChecks(q, a) \/ LogoutArrives(q, a)
            \/ \E actor \in Admins \cup {Machine}, op \in Operations : Arrives(q, actor, op)
            \/ LoginIssues(q) \/ Finds(q) \/ Counts(q) \/ Inserts(q) \/ Updates(q)
        BY <2>2 DEF AccessNext
      <3> QED
        BY LoadsKeepAccess, IssueKeepsAccess, FindKeepsAccess, CountKeepsAccess,
           InsertKeepsAccess, UpdateKeepsAccess
    <2> QED
      BY <2>1, <2>2
  <1> QED
    BY <1>1, AccessStarts, PTL DEF AccessSpec

(* For any number of admins and requests: a token that was revoked is not  *)
(* accepted again, unless two revocations read the same version of its     *)
(* account.                                                                *)
THEOREM RevokedIsNeverAccepted == AccessSpec => []RevokedStaysRevoked
  <1>1. AccessInv => RevokedStaysRevoked
    <2> SUFFICES ASSUME AccessInv, NEW token \in revoked, Accepts(token)
                 PROVE  token.who \in raced
      BY DEF RevokedStaysRevoked
    <2>1. token.tv \in Nat /\ account[token.who].tv = token.tv
      BY DEF AccessInv, AccessTypeOK, Tokens, Accepts
    <2> QED
      BY <2>1 DEF AccessInv, TokensFollow
  <1> QED
    BY <1>1, AccessInvariance, PTL

(* Steps that leave the accounts alone, or write one that is in charge, by *)
(* a PATCH or a deletion that had counted.                                 *)
LEMMA StepKeepsSomeone ==
    ASSUME AccessInv, AccessNext, SomeoneInCharge
    PROVE  SomeoneInCharge' \/ Patching \/ overlapped
  <1> SUFFICES ASSUME ~overlapped, ~Patching PROVE SomeoneInCharge'
    OBVIOUS
  <1>1. PICK a \in Admins : InCharge(a)
    BY DEF SomeoneInCharge
  <1>2. CASE account' = account
    BY <1>1, <1>2 DEF SomeoneInCharge, InCharge
  <1>3. ASSUME NEW q \in Calls, Inserts(q) PROVE SomeoneInCharge'
    <2>1. account[a] # NoAccount
      BY <1>1 DEF InCharge, NoAccount
    <2>2. account'[a] = account[a]
      BY <1>1, <1>3, <2>1 DEF Inserts, AccessInv, AccessTypeOK
    <2> QED
      BY <1>1, <2>2 DEF SomeoneInCharge, InCharge
  <1>4. ASSUME NEW q \in Calls, Updates(q) PROVE SomeoneInCharge'
    <2> DEFINE kind   == call[q].op.kind
               target == call[q].op.target
               new    == Written(account[target], call[q].row, kind)
    <2>1. /\ target \in Admins /\ call[q].row \in Account /\ account[target] \in Account
          /\ kind \in Patches \cup {"delete", "logout"} /\ call[q].stage = "ready"
      BY <1>4, CallType, AccountType DEF Updates, AccessInv, RowFound
    <2>2. account' = [account EXCEPT ![target] = new] /\ call'[q] = NoCall
      BY <1>4 DEF Updates, Ends, AccessInv, AccessTypeOK
    <2>3. kind \notin {"demote", "deactivate"}
      BY <2>1, <2>2 DEF Patching
    <2>4. account'[target] = new /\ \A b \in Admins : b # target => account'[b] = account[b]
      BY <2>1, <2>2 DEF AccessInv, AccessTypeOK
    <2>5. CASE kind # "delete"
      <3>1. account[target].state = "active" /\ account[target].super => new.state = "active" /\ new.super
        BY <2>1, <2>3, <2>5, WrittenRow
      <3>2. account'[a].state = "active" /\ account'[a].super
        BY <1>1, <2>4, <3>1 DEF InCharge
      <3> QED
        BY <3>2 DEF SomeoneInCharge, InCharge
    <2>6. CASE kind = "delete"
      <3>1. DeletionIsSafe(call[q])
        BY <2>1, <2>6 DEF AccessInv, DeletionsAreSafe, IsDeleting
      <3>2. PICK b \in Admins : InCharge(b) /\ b # target
        BY <1>1, <3>1 DEF DeletionIsSafe, SomeoneElse, InCharge
      <3> QED
        BY <2>4, <3>2 DEF SomeoneInCharge, InCharge
    <2> QED
      BY <2>5, <2>6
  <1> QED
    BY <1>2, <1>3, <1>4 DEF AccessNext, SeedLoads, LoginChecks, LogoutArrives, Arrives, Starts,
       LoginIssues, Finds, Counts

(* No step takes the last active superadmin, for any number of admins and  *)
(* requests, except a PATCH, or a deletion that overlapped with another    *)
(* request.                                                                *)
THEOREM SuperadminIsKept == AccessSpec => SuperadminStays
  <1>1. AccessInv /\ [AccessNext]_accessVars
          => [SomeoneInCharge => SomeoneInCharge' \/ Patching \/ overlapped]_accessVars
    BY StepKeepsSomeone
  <1> QED
    BY <1>1, AccessInvariance, PTL DEF AccessSpec, SuperadminStays

-----------------------------------------------------------------------------
(* Members of businesses.                                                  *)

(* Memberships: the property is inductive as it stands, with the types.    *)
TeamInv == TeamTypeOK /\ AccessIsAudited

(* At the start there are no members, no calls and no streams.             *)
LEMMA TeamStarts == TeamInit => TeamInv
  <1> SUFFICES ASSUME TeamInit PROVE TeamInv
    OBVIOUS
  <1>1. /\ team \in [Tenants -> [People -> Member \cup {NoMember}]]
        /\ trail \in [Tenants -> [People -> Roles \cup {"none"}]]
        /\ teamCall \in [TeamCalls -> TeamCall \cup {NoTeamCall}]
        /\ \A t \in Tenants, p \in People : team[t][p] = NoMember /\ trail[t][p] = "none"
    BY DEF TeamInit
  <1>2. streams = {} /\ rowsCrossed = {} /\ teamActs \in 0..MaxTeamActs
    BY TeamAssumption DEF TeamInit
  <1>3. TeamTypeOK
    BY <1>1, <1>2 DEF TeamTypeOK
  <1> QED
    BY <1>1, <1>2, <1>3 DEF TeamInv, AccessIsAudited, Shows, NoMember

(* The number of a call is one of those allowed.                           *)
LEMMA TeamActs ==
    ASSUME TeamTypeOK, TeamAct
    PROVE  teamActs' \in 1..MaxTeamActs /\ teamActs' \in 0..MaxTeamActs
  BY TeamAssumption DEF TeamTypeOK, TeamAct

(* A step that leaves the rows, the audit trail and the streams alone.     *)
LEMMA CallsKeepTeam ==
    ASSUME TeamInv, UNCHANGED <<team, trail, streams, rowsCrossed>>,
           teamCall' \in [TeamCalls -> TeamCall \cup {NoTeamCall}],
           teamActs' \in 0..MaxTeamActs
    PROVE  TeamInv'
  BY DEF TeamInv, TeamTypeOK, AccessIsAudited, Shows

(* A call that enters has read no row yet.                                 *)
LEMMA EnterKeepsTeam ==
    ASSUME TeamInv, NEW q \in TeamCalls, NEW actor, NEW t \in Tenants, NEW p \in People,
           NEW change \in Changes, Enters(q, actor, t, p, change)
    PROVE  TeamInv'
  <1> DEFINE c == [stage |-> "entered", tenant |-> t, who |-> p, change |-> change,
                   row |-> NoMember, id |-> teamActs']
  <1>1. teamActs' \in 1..MaxTeamActs /\ teamActs' \in 0..MaxTeamActs
    BY TeamActs DEF Enters, TeamInv
  <1>2. c \in TeamCall
    BY <1>1 DEF TeamCall
  <1>3. teamCall' = [teamCall EXCEPT ![q] = c] /\ UNCHANGED <<team, trail, streams, rowsCrossed>>
    BY DEF Enters
  <1> HIDE DEF c
  <1>4. teamCall' \in [TeamCalls -> TeamCall \cup {NoTeamCall}]
    BY <1>2, <1>3 DEF TeamInv, TeamTypeOK
  <1> QED
    BY <1>1, <1>3, <1>4, CallsKeepTeam

(* The parts of a call about a member are typed.                           *)
LEMMA TeamCallType ==
    ASSUME TeamTypeOK, NEW q \in TeamCalls, teamCall[q].stage \in {"entered", "looked"}
    PROVE  /\ teamCall[q] \in TeamCall
           /\ teamCall[q].tenant \in Tenants /\ teamCall[q].who \in People
           /\ teamCall[q].change \in Changes /\ teamCall[q].id \in 1..MaxTeamActs
           /\ teamCall[q].row \in Member \cup {NoMember}
  BY DEF TeamTypeOK, TeamCall, NoTeamCall

(* A call about a member that ends leaves the others typed.                *)
LEMMA EndedCallType ==
    ASSUME TeamTypeOK, NEW q \in TeamCalls, TeamCallEnds(q)
    PROVE  teamCall' \in [TeamCalls -> TeamCall \cup {NoTeamCall}]
  BY DEF TeamTypeOK, TeamCallEnds

(* A call that looks at the row remembers what is there.                   *)
LEMMA LookKeepsTeam ==
    ASSUME TeamInv, NEW q \in TeamCalls, Looks(q)
    PROVE  TeamInv'
  <1> DEFINE row == team[teamCall[q].tenant][teamCall[q].who]
  <1>1. teamCall[q] \in TeamCall /\ row \in Member \cup {NoMember}
    BY TeamCallType DEF Looks, TeamInv, TeamTypeOK
  <1>2. CASE TeamCallEnds(q)
    BY <1>2, EndedCallType, CallsKeepTeam DEF Looks, TeamInv, TeamTypeOK
  <1>3. CASE teamCall' = [teamCall EXCEPT ![q].stage = "looked", ![q].row = row]
    <2>1. [teamCall[q] EXCEPT !.stage = "looked", !.row = row] \in TeamCall
      BY <1>1 DEF TeamCall
    <2>2. teamCall' \in [TeamCalls -> TeamCall \cup {NoTeamCall}]
      BY <1>3, <2>1 DEF TeamInv, TeamTypeOK
    <2> QED
      BY <2>2, CallsKeepTeam DEF Looks, TeamInv, TeamTypeOK
  <1> QED
    BY <1>2, <1>3 DEF Looks

(* The row a commit leaves, and, when it was as the request had found it,  *)
(* its role.                                                               *)
LEMMA ChangedRow ==
    ASSUME NEW c \in TeamCall, NEW now \in Member \cup {NoMember}, ~WriteFails(c, now)
    PROVE  /\ Changed(c, now) \in Member \cup {NoMember}
           /\ c.row = now => Changed(c, now).role = c.change.role
           /\ c.change.role \in Roles \cup {"none"}
           /\ c.change.role = "none" => c.change.kind = "remove"
  <1>1. c.change \in Changes /\ c.id \in 1..MaxTeamActs /\ c.row \in Member \cup {NoMember}
    BY DEF TeamCall
  <1>2. CASE c.change.kind = "remove"
    BY <1>1, <1>2 DEF Changed, Changes, NoMember, Member
  <1>3. CASE c.change.kind # "remove"
    <2>1. c.change.kind = "add" /\ c.change.role \in Roles /\ c.change.role # "none"
      BY <1>1, <1>3 DEF Changes, Roles
    <2>2. CASE c.row = NoMember
      BY <1>1, <2>1, <2>2 DEF Changed, NoMember, Member
    <2>3. CASE c.row # NoMember /\ c.row.role = c.change.role
      BY <1>1, <2>1, <2>3 DEF Changed
    <2>4. CASE c.row # NoMember /\ c.row.role # c.change.role
      <3>1. c.row \in Member /\ now.id = c.row.id /\ c.row.id # 0
        BY <1>1, <2>1, <2>4 DEF WriteFails, Member
      <3>2. now \in Member
        BY <3>1 DEF NoMember
      <3>3. Changed(c, now) = [now EXCEPT !.role = c.change.role]
        BY <2>1, <2>4 DEF Changed
      <3> QED
        BY <2>1, <3>2, <3>3 DEF Member
    <2> QED
      BY <2>2, <2>3, <2>4
  <1> QED
    BY <1>2, <1>3

(* A commit writes the row and its audit entry together.                   *)
LEMMA TeamCommitKeepsTeam ==
    ASSUME TeamInv, NEW q \in TeamCalls, TeamCommits(q)
    PROVE  TeamInv'
  <1> DEFINE c   == teamCall[q]
             now == team[c.tenant][c.who]
  <1>1. /\ c \in TeamCall /\ c.tenant \in Tenants /\ c.who \in People
        /\ now \in Member \cup {NoMember} /\ ~WriteFails(c, now)
    BY TeamCallType DEF TeamCommits, TeamInv, TeamTypeOK
  <1>2. /\ team' = [team EXCEPT ![c.tenant][c.who] = Changed(c, now)]
        /\ trail' = [trail EXCEPT ![c.tenant][c.who] = c.change.role]
        /\ rowsCrossed' = IF c.row = now THEN rowsCrossed ELSE rowsCrossed \cup {<<c.tenant, c.who>>}
        /\ streams' = {IF c.change.kind = "remove" /\ s.who = c.who
                       THEN [s EXCEPT !.gone = @ \cup {c.tenant}] ELSE s : s \in streams}
        /\ teamActs' = teamActs
    BY DEF TeamCommits
  <1>3. /\ Changed(c, now) \in Member \cup {NoMember}
        /\ c.row = now => Changed(c, now).role = c.change.role
        /\ c.change.role \in Roles \cup {"none"}
        /\ c.change.role = "none" => c.change.kind = "remove"
    BY <1>1, ChangedRow
  <1>4. teamCall' \in [TeamCalls -> TeamCall \cup {NoTeamCall}]
    BY EndedCallType DEF TeamCommits, TeamInv
  <1> HIDE DEF c, now
  <1>5. /\ team' \in [Tenants -> [People -> Member \cup {NoMember}]]
        /\ trail' \in [Tenants -> [People -> Roles \cup {"none"}]]
        /\ rowsCrossed' \subseteq Tenants \X People
    BY <1>1, <1>2, <1>3 DEF TeamInv, TeamTypeOK
  <1>6. ASSUME NEW s \in streams
        PROVE  LET n == IF c.change.kind = "remove" /\ s.who = c.who
                        THEN [s EXCEPT !.gone = @ \cup {c.tenant}] ELSE s
               IN  /\ n \in Stream /\ n.who = s.who /\ n.sees = s.sees
                   /\ s.gone \subseteq n.gone
                   /\ c.change.kind = "remove" /\ s.who = c.who => c.tenant \in n.gone
    <2>1. s \in Stream
      BY DEF TeamInv, TeamTypeOK
    <2> QED
      BY <1>1, <2>1 DEF Stream
  <1>7. streams' \subseteq Stream
    BY <1>2, <1>6
  <1>8. TeamTypeOK'
    BY <1>2, <1>4, <1>5, <1>7 DEF TeamInv, TeamTypeOK
  <1>9. ASSUME NEW t \in Tenants, NEW p \in People, <<t, p>> \notin rowsCrossed'
        PROVE  /\ team'[t][p].role = trail'[t][p]
               /\ \A s \in Shows(t)' : s.who = p => trail'[t][p] # "none" \/ t \in s.gone
    <2>1. <<t, p>> \notin rowsCrossed
      BY <1>2, <1>9
    <2>2. /\ team[t][p].role = trail[t][p]
          /\ \A s \in streams : t \in s.sees /\ s.who = p => trail[t][p] # "none" \/ t \in s.gone
      BY <2>1 DEF TeamInv, AccessIsAudited, Shows
    <2>3. CASE t = c.tenant /\ p = c.who
      <3>1. c.row = now
        BY <1>2, <1>9, <2>3
      <3>2. team'[t][p] = Changed(c, now) /\ trail'[t][p] = c.change.role
        BY <1>1, <1>2, <2>3 DEF TeamInv, TeamTypeOK
      <3>3. \A s \in streams' : s.who = p => trail'[t][p] # "none" \/ t \in s.gone
        BY <1>2, <1>3, <1>6, <2>3, <3>2
      <3> QED
        BY <1>3, <3>1, <3>2, <3>3 DEF Shows
    <2>4. CASE ~(t = c.tenant /\ p = c.who)
      <3>1. team'[t][p] = team[t][p] /\ trail'[t][p] = trail[t][p]
        BY <1>1, <1>2, <2>4 DEF TeamInv, TeamTypeOK
      <3>2. \A s \in streams' : t \in s.sees /\ s.who = p => trail'[t][p] # "none" \/ t \in s.gone
        <4> SUFFICES ASSUME NEW s \in streams', t \in s.sees, s.who = p
                     PROVE  trail'[t][p] # "none" \/ t \in s.gone
          OBVIOUS
        <4>1. PICK o \in streams : o.who = s.who /\ o.sees = s.sees /\ o.gone \subseteq s.gone
          BY <1>2, <1>6
        <4> QED
          BY <2>2, <3>1, <4>1
      <3> QED
        BY <2>2, <3>1, <3>2 DEF Shows
    <2> QED
      BY <2>3, <2>4
  <1> QED
    BY <1>8, <1>9 DEF TeamInv, AccessIsAudited

(* Streams that show no more than the team allows keep the invariant.      *)
LEMMA StreamsKeepTeam ==
    ASSUME TeamInv, UNCHANGED <<team, trail, teamCall, rowsCrossed>>, teamActs' \in 0..MaxTeamActs,
           \A s \in streams' :
              s \in streams \/ (s \in Stream /\ \A t \in s.sees : team[t][s.who] # NoMember)
    PROVE  TeamInv'
  <1>1. TeamTypeOK'
    BY DEF TeamInv, TeamTypeOK
  <1>2. ASSUME NEW t \in Tenants, NEW p \in People, <<t, p>> \notin rowsCrossed', NEW s \in streams',
               t \in s.sees, s.who = p
        PROVE  trail'[t][p] # "none" \/ t \in s.gone
    <2>1. CASE s \in streams
      BY <1>2, <2>1 DEF TeamInv, AccessIsAudited, Shows
    <2>2. CASE team[t][s.who] # NoMember
      <3>1. team[t][p] \in Member /\ team[t][p].role # "none"
        <4>1. team[t][p] \in Member
          BY <1>2, <2>2 DEF TeamInv, TeamTypeOK
        <4> QED
          BY <4>1 DEF Member, Roles
      <3> QED
        BY <1>2, <3>1 DEF TeamInv, AccessIsAudited
    <2> QED
      BY <1>2, <2>1, <2>2
  <1> QED
    BY <1>1, <1>2 DEF TeamInv, AccessIsAudited, Shows

(* A stream that opens shows the businesses its owner is a member of.      *)
LEMMA ConnectKeepsTeam ==
    ASSUME TeamInv, NEW p \in People, Connects(p)
    PROVE  TeamInv'
  <1>1. teamActs' \in 1..MaxTeamActs /\ teamActs' \in 0..MaxTeamActs
    BY TeamActs DEF Connects, TeamInv
  <1>2. PICK sees \in Allowed(p) :
           streams' = streams \cup {[who |-> p, sees |-> sees, gone |-> {}, id |-> teamActs']}
    BY DEF Connects
  <1>3. sees \subseteq Tenants /\ \A t \in sees : team[t][p] # NoMember
    BY <1>2 DEF Allowed, TenantsOf
  <1>4. [who |-> p, sees |-> sees, gone |-> {}, id |-> teamActs'] \in Stream
    BY <1>1, <1>3 DEF Stream
  <1>5. \A s \in streams' :
              s \in streams \/ (s \in Stream /\ \A t \in s.sees : team[t][s.who] # NoMember)
    BY <1>2, <1>3, <1>4
  <1> QED
    BY <1>1, <1>5, StreamsKeepTeam DEF Connects

(* Every reachable state of memberships, audit trail and open streams      *)
(* satisfies it.                                                           *)
THEOREM TeamInvariance == TeamSpec => []TeamInv
  <1>1. TeamInv /\ [TeamNext]_teamVars => TeamInv'
    <2> SUFFICES ASSUME TeamInv, [TeamNext]_teamVars PROVE TeamInv'
      OBVIOUS
    <2>1. CASE UNCHANGED teamVars
      BY <2>1 DEF teamVars, TeamInv, TeamTypeOK, AccessIsAudited, Shows
    <2>2. ASSUME NEW q \in TeamCalls, TeamWriteFails(q) PROVE TeamInv'
      BY <2>2, EndedCallType, CallsKeepTeam DEF TeamWriteFails, TeamInv, TeamTypeOK
    <2>3. ASSUME Disconnects PROVE TeamInv'
      <3>1. \A s \in streams' : s \in streams
        BY <2>3 DEF Disconnects
      <3> QED
        BY <2>3, <3>1, StreamsKeepTeam DEF Disconnects, TeamInv, TeamTypeOK
    <2> QED
      BY <2>1, <2>2, <2>3, EnterKeepsTeam, LookKeepsTeam, TeamCommitKeepsTeam, ConnectKeepsTeam
         DEF TeamNext
  <1> QED
    BY <1>1, TeamStarts, PTL DEF TeamSpec

(* For any number of businesses and people: the role of a member is the    *)
(* one the audit trail tells, and whom it calls removed or never added is  *)
(* shown nothing, apart from rows whose requests crossed and streams that  *)
(* were open before the removal.                                           *)
THEOREM AccessStaysAudited == TeamSpec => []AccessIsAudited
  BY TeamInvariance, PTL DEF TeamInv

-----------------------------------------------------------------------------
(* The desk.                                                               *)

(* Desk: while no request was based on columns that had changed, the row,  *)
(* and the row as every request in hand wants it, has an owner exactly     *)
(* when the AI is paused.                                                  *)
Coupled(row) == row.paused = (row.owner # Nobody)

(* The invariant of the desk.                                              *)
DeskInv ==
    /\ DeskTypeOK
    /\ ~crossed =>
          /\ Coupled(thread)
          /\ \A s \in Hands : desk[s] # NoRequest => Coupled(desk[s].next)

(* The rows of a request about a thread are typed.                         *)
LEMMA RequestType ==
    ASSUME DeskTypeOK, NEW s \in Hands, desk[s] # NoRequest
    PROVE  /\ desk[s] \in Request
           /\ desk[s].read \in Thread /\ desk[s].next \in Thread
  BY DEF DeskTypeOK, Request

(* At the start the thread has no owner and the AI speaks.                 *)
LEMMA DeskStarts == DeskInit => DeskInv
  <1> SUFFICES ASSUME DeskInit PROVE DeskInv
    OBVIOUS
  <1>1. desk \in [Hands -> Request \cup {NoRequest}] /\ \A s \in Hands : desk[s] = NoRequest
    BY DEF DeskInit
  <1>2. thread \in Thread /\ deskActs \in 0..MaxDeskActs /\ deskFaults \in 0..MaxDeskFaults
    BY DeskAssumption DEF DeskInit, Thread
  <1>3. thread.paused = FALSE /\ thread.owner = Nobody
    BY DEF DeskInit
  <1>4. Coupled(thread)
    BY <1>3 DEF Coupled
  <1>5. crossed \in BOOLEAN
    BY DEF DeskInit
  <1> QED
    BY <1>1, <1>2, <1>4, <1>5 DEF DeskInv, DeskTypeOK

(* What staff want of a thread keeps owner and pause together.             *)
LEMMA WantedIsCoupled ==
    ASSUME NEW s \in Staff, NEW verb \in Verbs, verb # "turn", NEW row \in Thread
    PROVE  /\ Wanted(verb, row, s) \in Thread
           /\ Coupled(row) => Coupled(Wanted(verb, row, s))
  BY DeskAssumption DEF Wanted, TakenOver, Released, Verbs, Thread, Coupled

(* A request that starts from a coupled thread wants a coupled one.        *)
LEMMA BeginKeepsDesk ==
    ASSUME DeskInv, NEW s \in Hands, NEW verb \in Verbs, NEW wanted \in Thread,
           Coupled(thread) => Coupled(wanted), Begins(s, verb, wanted)
    PROVE  DeskInv'
  <1> DEFINE r == [verb |-> verb, stage |-> "read", read |-> thread, next |-> wanted]
  <1>1. r \in Request /\ r.next = wanted
    BY DEF DeskInv, DeskTypeOK, Request
  <1>2. desk' = [desk EXCEPT ![s] = r] /\ UNCHANGED <<thread, crossed, deskFaults>>
        /\ deskActs' \in 0..MaxDeskActs
    BY DeskAssumption DEF Begins, DeskInv, DeskTypeOK
  <1> HIDE DEF r
  <1>3. DeskTypeOK'
    BY <1>1, <1>2 DEF DeskInv, DeskTypeOK
  <1>4. ASSUME ~crossed', NEW u \in Hands, desk'[u] # NoRequest PROVE Coupled(desk'[u].next)
    <2>1. u # s => desk'[u] = desk[u]
      BY <1>2 DEF DeskInv, DeskTypeOK
    <2>2. desk'[s] = r
      BY <1>2 DEF DeskInv, DeskTypeOK
    <2> QED
      BY <1>1, <1>2, <1>4, <2>1, <2>2 DEF DeskInv
  <1>5. ~crossed' => Coupled(thread)'
    BY <1>2 DEF DeskInv, Coupled
  <1> QED
    BY <1>3, <1>4, <1>5 DEF DeskInv, Coupled

(* So the requests of staff begin well.                                    *)
LEMMA StaffLoadKeepsDesk ==
    ASSUME DeskInv, NEW s \in Staff, NEW verb \in Verbs, StaffLoads(s, verb)
    PROVE  DeskInv'
  BY WantedIsCoupled, BeginKeepsDesk DEF StaffLoads, DeskInv, DeskTypeOK, Hands

(* And so do turns: an escalation changes neither owner nor pause.         *)
LEMMA TurnLoadKeepsDesk ==
    ASSUME DeskInv, NEW escalates \in BOOLEAN, TurnLoads(escalates)
    PROVE  DeskInv'
  <1> DEFINE wanted == IF escalates /\ ~thread.paused
             THEN [thread EXCEPT !.status = "human_escalated"] ELSE thread
  <1>1. wanted \in Thread /\ (Coupled(thread) => Coupled(wanted))
    BY DEF DeskInv, DeskTypeOK, Thread, Coupled
  <1>2. Begins(Customer, "turn", wanted) /\ Customer \in Hands /\ "turn" \in Verbs
    BY DEF TurnLoads, Hands, Verbs
  <1> QED
    BY <1>1, <1>2, BeginKeepsDesk

(* A request that goes on wants what it wanted.                            *)
LEMMA StageKeepsDesk ==
    ASSUME DeskInv, NEW s \in Hands, desk[s] # NoRequest, NEW stage \in {"held", "sent"},
           desk' = [desk EXCEPT ![s].stage = stage],
           UNCHANGED <<thread, crossed, deskActs, deskFaults>>
    PROVE  DeskInv'
  <1>1. desk[s] \in Request
    BY RequestType DEF DeskInv
  <1>2. desk'[s] = [desk[s] EXCEPT !.stage = stage] /\ \A u \in Hands : u # s => desk'[u] = desk[u]
    BY DEF DeskInv, DeskTypeOK
  <1>3. [desk[s] EXCEPT !.stage = stage] \in Request /\ desk'[s].next = desk[s].next
    BY <1>1, <1>2 DEF Request
  <1>4. DeskTypeOK'
    BY <1>2, <1>3 DEF DeskInv, DeskTypeOK
  <1> QED
    BY <1>2, <1>3, <1>4 DEF DeskInv, Coupled

(* A request that ends and leaves a coupled thread keeps the invariant.    *)
LEMMA EndKeepsDesk ==
    ASSUME DeskInv, NEW s \in Hands, desk' = [desk EXCEPT ![s] = NoRequest],
           thread' \in Thread, crossed' \in BOOLEAN, crossed => crossed',
           ~crossed' => Coupled(thread)',
           deskActs' = deskActs, deskFaults' \in 0..MaxDeskFaults
    PROVE  DeskInv'
  <1>1. desk' \in [Hands -> Request \cup {NoRequest}] /\ desk'[s] = NoRequest
        /\ \A u \in Hands : u # s => desk'[u] = desk[u]
    BY DEF DeskInv, DeskTypeOK
  <1>2. DeskTypeOK'
    BY <1>1 DEF DeskInv, DeskTypeOK
  <1> QED
    BY <1>1, <1>2 DEF DeskInv, Coupled

(* A commit writes what was wanted of the thread that was read; if that is *)
(* no longer the thread, the requests have crossed.                        *)
LEMMA CommitKeepsDesk ==
    ASSUME DeskInv, NEW s \in Hands, Commits(s)
    PROVE  DeskInv'
  <1> DEFINE read == desk[s].read
             next == desk[s].next
  <1>1. read \in Thread /\ next \in Thread /\ thread \in Thread
    BY RequestType DEF Commits, DeskInv, DeskTypeOK
  <1>2. thread' = Merged(thread, read, next) /\ desk' = [desk EXCEPT ![s] = NoRequest]
        /\ UNCHANGED <<deskActs, deskFaults>>
    BY DEF Commits
  <1>3. crossed' = (crossed \/ <<read.paused, read.owner>> # <<thread.paused, thread.owner>>)
    BY DEF Commits
  <1> HIDE DEF read, next
  <1>4. thread' = [status |-> IF next.status = read.status THEN thread.status ELSE next.status,
                   paused |-> IF next.paused = read.paused THEN thread.paused ELSE next.paused,
                   owner  |-> IF next.owner = read.owner THEN thread.owner ELSE next.owner]
    BY <1>1, <1>2 DEF Merged, Thread
  <1>5. thread' \in Thread
    BY <1>1, <1>4 DEF Thread
  <1>6. ASSUME ~crossed' PROVE Coupled(thread)'
    <2>1. ~crossed /\ read.paused = thread.paused /\ read.owner = thread.owner
      BY <1>3, <1>6
    <2>2. Coupled(next)
      BY <2>1 DEF next, DeskInv, Commits
    <2> QED
      BY <1>1, <1>4, <2>1, <2>2 DEF Coupled, Thread
  <1> QED
    BY <1>2, <1>3, <1>5, <1>6, EndKeepsDesk DEF DeskInv, DeskTypeOK

(* A rollback leaves the thread as it is.                                  *)
LEMMA RollbackKeepsDesk ==
    ASSUME DeskInv, NEW s \in Hands, RollsBack(s)
    PROVE  DeskInv'
  <1>1. desk' = [desk EXCEPT ![s] = NoRequest] /\ UNCHANGED <<thread, crossed, deskActs>>
        /\ deskFaults' \in 0..MaxDeskFaults
    BY DeskAssumption DEF RollsBack, DeskInv, DeskTypeOK
  <1>2. thread' \in Thread /\ crossed' \in BOOLEAN /\ (~crossed' => Coupled(thread)')
    BY <1>1 DEF DeskInv, DeskTypeOK, Coupled
  <1> QED
    BY <1>1, <1>2, EndKeepsDesk

(* Every reachable state of a thread and of the requests that have read it *)
(* satisfies it.                                                           *)
THEOREM DeskInvariance == DeskSpec => []DeskInv
  <1>1. DeskInv /\ [DeskNext]_deskVars => DeskInv'
    <2> SUFFICES ASSUME DeskInv, [DeskNext]_deskVars PROVE DeskInv'
      OBVIOUS
    <2>1. CASE UNCHANGED deskVars
      BY <2>1 DEF deskVars, DeskInv, DeskTypeOK, Coupled
    <2>2. ASSUME NEW s \in Hands, Holds(s) \/ Dispatches(s) PROVE DeskInv'
      BY <2>2, StageKeepsDesk DEF Holds, Dispatches
    <2> QED
      BY <2>1, <2>2, StaffLoadKeepsDesk, TurnLoadKeepsDesk, CommitKeepsDesk, RollbackKeepsDesk
         DEF DeskNext
  <1> QED
    BY <1>1, DeskStarts, PTL DEF DeskSpec

(* Only requests that overlap part the pause of the AI from the owner.     *)
THEOREM OwnedStaysPaused == DeskSpec => []OwnedIsPaused
  <1>1. DeskInv => OwnedIsPaused
    BY DEF DeskInv, DeskTypeOK, OwnedIsPaused, Coupled
  <1> QED
    BY <1>1, DeskInvariance, PTL

-----------------------------------------------------------------------------
(* Profiles and photos.                                                    *)

(* What kinds of edits there are.                                          *)
LEMMA EditType ==
    ASSUME NEW edit \in Edits
    PROVE  /\ edit.verb \in {"register", "upload", "replace", "voice", "repair"}
           /\ edit.verb \in {"register", "upload"} => edit.key \in Keys
  BY DEF Edits

(* What an edit leaves of the photos of the row it was made from.          *)
LEMMA EditedRow ==
    ASSUME NEW edit \in Edits, NEW read \in Shop
    PROVE  /\ EditedShop(edit, read) \in Shop
           /\ \A k \in Keys :
                 /\ read.photos[k] = "staff"
                 /\ edit.verb # "replace"
                 /\ edit.verb = "repair" => k \notin Canonical
                 => EditedShop(edit, read).photos[k] = "staff"
  <1> DEFINE next == EditedShop(edit, read)
  <1>1. read.photos \in Photos /\ read.voice \in {"code", "staff"}
    BY DEF Shop
  <1>2. CASE edit.verb \in {"register", "upload"}
    <2>1. next = [read EXCEPT !.photos[edit.key] = "staff"] /\ edit.key \in Keys
      BY <1>2, EditType DEF EditedShop
    <2>2. next \in Shop /\ next.photos = [read.photos EXCEPT ![edit.key] = "staff"]
      BY <1>1, <2>1 DEF Shop, Photos
    <2> QED
      BY <1>1, <2>1, <2>2 DEF Photos
  <1>3. CASE edit.verb = "replace"
    <2>1. next = [read EXCEPT !.photos = [k \in Keys |-> IF k \in edit.keys THEN "staff" ELSE "none"]]
      BY <1>3 DEF EditedShop
    <2> QED
      BY <1>1, <1>3, <2>1 DEF Shop, Photos
  <1>4. CASE edit.verb = "voice"
    <2>1. next = [read EXCEPT !.voice = "staff"]
      BY <1>4 DEF EditedShop
    <2> QED
      BY <1>1, <2>1 DEF Shop
  <1>5. CASE edit.verb = "repair"
    <2>1. next = [photos |-> [k \in Keys |-> IF k \in Canonical THEN "code" ELSE read.photos[k]],
                  voice  |-> "code"]
      BY <1>5 DEF EditedShop
    <2>2. next \in Shop
      BY <1>1, <2>1 DEF Shop, Photos
    <2>3. \A k \in Keys : k \notin Canonical => next.photos[k] = read.photos[k]
      BY <2>1
    <2> QED
      BY <1>5, <2>2, <2>3
  <1> QED
    BY <1>2, <1>3, <1>4, <1>5, EditType

(* The edit and the row of a task under way are typed.                     *)
LEMMA TaskType ==
    ASSUME ProfilesTypeOK, NEW h \in Owners \cup Messengers, hand[h].stage # "idle"
    PROVE  /\ hand[h] \in Task /\ hand[h] # Idle
           /\ hand[h].edit \in Edits /\ hand[h].read \in Shop
  BY DEF ProfilesTypeOK, Task, Idle

(* What a task saves are the photos there are, or those it made of the     *)
(* ones it read.                                                           *)
LEMMA SavedRow ==
    ASSUME ProfilesTypeOK, NEW task \in Task
    PROVE  /\ Saved(task) \in Shop
           /\ \/ Saved(task).photos = shop.photos
              \/ Saved(task).photos = EditedShop(task.edit, task.read).photos
  <1> DEFINE next == EditedShop(task.edit, task.read)
  <1>1. next \in Shop /\ shop \in Shop /\ task.read \in Shop
    BY EditedRow DEF ProfilesTypeOK, Task
  <1>2. Saved(task) = [column \in DOMAIN shop |->
            IF next[column] = task.read[column] THEN shop[column] ELSE next[column]]
    BY DEF Saved
  <1> HIDE DEF next
  <1>3. Saved(task) = [photos |-> IF next.photos = task.read.photos THEN shop.photos ELSE next.photos,
                       voice |-> IF next.voice = task.read.voice THEN shop.voice ELSE next.voice]
    BY <1>1, <1>2 DEF Shop
  <1> QED
    BY <1>1, <1>3 DEF Shop, next

(* At the start the profile is typed and everybody idle.                   *)
LEMMA ProfilesStart == ProfilesInit => ProfilesTypeOK
  BY ProfilesAssumption DEF ProfilesInit, ProfilesTypeOK, Shop, Photos, Keys

(* A task that ends, saving or not, leaves the types alone.                *)
LEMMA SavesKeepProfiles ==
    ASSUME ProfilesTypeOK, NEW h \in Owners \cup Messengers, hand[h].stage # "idle",
           shop' = shop \/ shop' = Saved(hand[h]),
           hand' = [hand EXCEPT ![h] = Idle], profileActs' = profileActs
    PROVE  ProfilesTypeOK'
  <1>1. shop' \in Shop
    BY TaskType, SavedRow DEF ProfilesTypeOK
  <1> QED
    BY <1>1 DEF ProfilesTypeOK

(* So does one that moves on.                                              *)
LEMMA TaskKeepsProfiles ==
    ASSUME ProfilesTypeOK, NEW h \in Owners \cup Messengers, NEW task \in Task,
           hand' = [hand EXCEPT ![h] = task], shop' = shop, profileActs' \in 0..MaxProfileActs
    PROVE  ProfilesTypeOK'
  BY DEF ProfilesTypeOK

(* A task in its next stage is a task.                                     *)
LEMMA StagedTask ==
    ASSUME NEW task \in Task, NEW stage \in {"uploading", "ready", "held"}
    PROVE  [task EXCEPT !.stage = stage] \in Task
  BY DEF Task

(* A task that starts has read the row there is.                           *)
LEMMA ReadKeepsProfiles ==
    ASSUME ProfilesTypeOK, NEW h \in Owners \cup Messengers, NEW edit \in Edits, Reads(h, edit)
    PROVE  ProfilesTypeOK'
  <1> DEFINE task == [edit |-> edit, read |-> shop,
                      stage |-> IF edit.verb = "upload" THEN "uploading" ELSE "ready"]
  <1>1. task \in Task
    BY DEF Task, ProfilesTypeOK
  <1>2. hand' = [hand EXCEPT ![h] = task] /\ shop' = shop /\ profileActs' \in 0..MaxProfileActs
    BY ProfilesAssumption DEF Reads, ProfilesTypeOK
  <1> QED
    BY <1>1, <1>2, TaskKeepsProfiles

(* Every step leaves the types alone.                                      *)
LEMMA StepKeepsProfiles ==
    ASSUME ProfilesTypeOK, ProfilesNext
    PROVE  ProfilesTypeOK'
  <1>1. ASSUME NEW h \in Owners, NEW edit \in Edits, OwnerReads(h, edit) PROVE ProfilesTypeOK'
    BY <1>1, ReadKeepsProfiles DEF OwnerReads
  <1>2. ASSUME NEW h \in Messengers, TurnReads(h) PROVE ProfilesTypeOK'
    <2>1. [verb |-> "repair"] \in Edits
      BY DEF Edits
    <2> QED
      BY <1>2, <2>1, ReadKeepsProfiles DEF TurnReads
  <1>3. ASSUME NEW h \in Owners, UploadEnds(h) PROVE ProfilesTypeOK'
    <2>1. hand[h] \in Task
      BY <1>3, TaskType DEF UploadEnds
    <2>2. CASE hand' = [hand EXCEPT ![h] = [hand[h] EXCEPT !.stage = "ready"]]
      BY <1>3, <2>1, <2>2, StagedTask, TaskKeepsProfiles DEF UploadEnds, ProfilesTypeOK
    <2>3. CASE hand' = [hand EXCEPT ![h] = Idle]
      BY <1>3, <2>3, SavesKeepProfiles DEF UploadEnds
    <2>4. hand' = [hand EXCEPT ![h] = [hand[h] EXCEPT !.stage = "ready"]] \/ hand' = [hand EXCEPT ![h] = Idle]
      BY <1>3 DEF UploadEnds, ProfilesTypeOK
    <2> QED
      BY <2>2, <2>3, <2>4
  <1>4. ASSUME NEW h \in Messengers, TurnFlushes(h) PROVE ProfilesTypeOK'
    <2>1. hand[h] \in Task
      BY <1>4, TaskType DEF TurnFlushes
    <2>2. hand' = [hand EXCEPT ![h] = [hand[h] EXCEPT !.stage = "held"]] \/ hand' = [hand EXCEPT ![h] = Idle]
      BY <1>4 DEF TurnFlushes, ProfilesTypeOK
    <2>3. CASE hand' = [hand EXCEPT ![h] = [hand[h] EXCEPT !.stage = "held"]]
      BY <1>4, <2>1, <2>3, StagedTask, TaskKeepsProfiles DEF TurnFlushes, ProfilesTypeOK
    <2>4. CASE hand' = [hand EXCEPT ![h] = Idle]
      BY <1>4, <2>4, SavesKeepProfiles DEF TurnFlushes
    <2> QED
      BY <2>2, <2>3, <2>4
  <1>5. ASSUME NEW h \in Owners, OwnerSaves(h) PROVE ProfilesTypeOK'
    BY <1>5, SavesKeepProfiles DEF OwnerSaves
  <1>6. ASSUME NEW h \in Messengers, TurnSaves(h) \/ TurnGivesUp(h) PROVE ProfilesTypeOK'
    BY <1>6, SavesKeepProfiles DEF TurnSaves, TurnGivesUp
  <1> QED
    BY <1>1, <1>2, <1>3, <1>4, <1>5, <1>6 DEF ProfilesNext

(* Every reachable state of a profile and of the requests that have read   *)
(* it is one of the types.                                                 *)
THEOREM ProfilesInvariance == ProfilesSpec => []ProfilesTypeOK
  <1>1. ProfilesTypeOK /\ [ProfilesNext]_profileVars => ProfilesTypeOK'
    <2>1. CASE UNCHANGED profileVars
      BY <2>1 DEF profileVars, ProfilesTypeOK
    <2> QED
      BY <2>1, StepKeepsProfiles
  <1> QED
    BY <1>1, ProfilesStart, PTL DEF ProfilesSpec

(* A step that loses a photo saves a task that replaced it, or one that    *)
(* overlapped another: the only steps that change the row are saves.       *)
LEMMA StepKeepsPhotos ==
    ASSUME ProfilesTypeOK, ProfilesNext, NEW k \in Keys, Lost(k)
    PROVE  \E h \in Owners \cup Messengers : Excused(h, k)
  <1>1. shop' # shop
    BY DEF Lost
  <1>2. PICK h \in Owners \cup Messengers :
           hand[h].stage # "idle" /\ shop' = Saved(hand[h]) /\ hand' = [hand EXCEPT ![h] = Idle]
    BY <1>1 DEF ProfilesNext, OwnerReads, TurnReads, Reads, UploadEnds, OwnerSaves, TurnFlushes,
       TurnSaves, TurnGivesUp
  <1>3. hand[h] \in Task /\ hand[h] # Idle /\ hand[h].edit \in Edits /\ hand[h].read \in Shop
    BY <1>2, TaskType
  <1>4. shop'.photos = EditedShop(hand[h].edit, hand[h].read).photos
    BY <1>2, <1>3, SavedRow DEF Lost
  <1>5. CASE hand[h].read.photos = shop.photos
    <2>1. hand[h].read.photos[k] = "staff" /\ shop'.photos[k] # "staff"
      BY <1>5 DEF Lost
    <2>2. hand[h].edit.verb = "replace" \/ (hand[h].edit.verb = "repair" /\ k \in Canonical)
      BY <1>3, <1>4, <2>1, EditedRow
    <2> QED
      BY <1>2, <1>3, <2>2 DEF Excused, ProfilesTypeOK
  <1> QED
    BY <1>2, <1>3, <1>5 DEF Excused, ProfilesTypeOK

(* No photo goes unless an owner replaces it.                              *)
THEOREM PhotosAreKept == ProfilesSpec => PhotosStay
  <1>1. ProfilesTypeOK /\ [ProfilesNext]_profileVars
          => [\A k \in Keys : Lost(k) => \E h \in Owners \cup Messengers : Excused(h, k)]_profileVars
    BY StepKeepsPhotos
  <1> QED
    BY <1>1, ProfilesInvariance, PTL DEF ProfilesSpec, PhotosStay

-----------------------------------------------------------------------------
(* The knowledge base.                                                     *)

(* What the code has inserted, and what it inserts at most.                *)
Ours  == {i \in Present : kb[i].by = "code"}
NRows == NCatalog + NPolicies

(* The turn t is about to replace the table.                               *)
Repairs(t) == kbTask[t].stage \in {"clearing", "filling", "filled"}

(* The rows two of them have changed and not committed are not the same,   *)
(* and those that a re-embedding holds are in the table.                   *)
HeldApart ==
    /\ \A t, u \in KbTasks : t # u => HeldBy(t) \cap HeldBy(u) = {}
    /\ \A t \in KbTasks : kbTask[t].stage = "flushed" => kbTask[t].ids \subseteq Present

(* A row is answered with what it was found by, but for those edited while *)
(* a re-embedding was under way.                                           *)
Embedded == \A i \in Present : kb[i].vec # kb[i].text => i \in mixed

(* What the code inserted is in the table once, and a turn that repairs    *)
(* the table alone has seen all of it.                                     *)
RepairedAlone ==
    ~doubled => /\ Cardinality(Ours) <= NRows
                /\ \A t, u \in KbTasks : Repairs(t) /\ Repairs(u) => t = u
                /\ \A t \in KbTasks : Repairs(t) => Ours \subseteq kbTask[t].ids

(* The invariant of the knowledge base.                                    *)
KbInv == KbTypeOK /\ HeldApart /\ Embedded /\ RepairedAlone

(* A row is no empty place, and a new one is answered with its own text.   *)
LEMMA RowsAreRows ==
    /\ \A row \in KbRow : row # NoKbRow
    /\ \A source \in Sources, text \in Texts, by \in {"code", "staff"} :
          /\ NewRow(source, text, by) \in KbRow /\ NewRow(source, text, by).by = by
          /\ NewRow(source, text, by).vec = NewRow(source, text, by).text
  BY DEF KbRow, NoKbRow, NewRow

(* The rows the code inserted are finitely many, and can be counted.       *)
LEMMA OursIsFinite ==
    /\ IsFiniteSet(Ours) /\ Ours \subseteq Ids /\ Present \subseteq Ids
    /\ Cardinality(Ours) \in Nat
    /\ \A S \in SUBSET Ours : Cardinality(S) \in Nat /\ Cardinality(S) <= Cardinality(Ours)
  <1>1. IsFiniteSet(Ids)
    BY FS_Interval, KnowledgeAssumption DEF Ids
  <1>2. Ours \subseteq Ids /\ Present \subseteq Ids
    BY DEF Ours, Present
  <1>3. IsFiniteSet(Ours)
    BY <1>1, <1>2, FS_Subset
  <1>4. Cardinality(Ours) \in Nat
    BY <1>3, FS_CardinalityType
  <1>5. \A S \in SUBSET Ours : Cardinality(S) \in Nat /\ Cardinality(S) <= Cardinality(Ours)
    BY <1>3, FS_Subset, FS_CardinalityType
  <1> QED
    BY <1>2, <1>3, <1>4, <1>5

(* What the code inserts at a time is a number.                            *)
LEMMA NRowsIsNat ==
    /\ NRows \in Nat /\ NCatalog \in Nat /\ NCatalog <= NRows
    /\ \A made : LET first == IF "catalog" \in made THEN NCatalog ELSE 0
                     count == first + (IF "policies" \in made THEN NPolicies ELSE 0)
                 IN  first \in Nat /\ count \in Nat /\ count <= NRows
  <1>1. NCatalog \in Nat /\ NPolicies \in Nat
    BY KnowledgeAssumption DEF NCatalog
  <1> QED
    BY <1>1 DEF NRows

(* The first n places of a room, counted from below, are at most n.        *)
LEMMA FewFromBelow ==
    ASSUME NEW room \in SUBSET Ids, NEW n \in Nat, NEW few,
           few = {i \in room : Cardinality({j \in room : j <= i}) <= n}
    PROVE  IsFiniteSet(few) /\ Cardinality(few) \in Nat /\ Cardinality(few) <= n
  <1> DEFINE upTo(i) == {j \in room : j <= i}
             rank == [i \in few |-> Cardinality(upTo(i))]
  <1>1. IsFiniteSet(room) /\ few \subseteq room /\ room \subseteq Int
    <2>1. IsFiniteSet(Ids) /\ Ids \subseteq Int
      BY FS_Interval, KnowledgeAssumption DEF Ids
    <2>2. IsFiniteSet(room)
      BY <2>1, FS_Subset
    <2> QED
      BY <2>1, <2>2
  <1>2. \A i \in few : i \in room /\ Cardinality(upTo(i)) <= n
    OBVIOUS
  <1>3. \A i \in room : upTo(i) \in SUBSET room /\ i \in upTo(i)
    BY <1>1
  <1>4. \A i \in room : IsFiniteSet(upTo(i)) /\ Cardinality(upTo(i)) \in Nat
    BY <1>1, <1>3, FS_Subset, FS_CardinalityType
  <1>5. ASSUME NEW i \in room, NEW j \in room, i < j
        PROVE  Cardinality(upTo(i)) # Cardinality(upTo(j))
    <2>1. upTo(i) \in SUBSET upTo(j)
      <3>1. \A k \in room : k <= i => k <= j
        BY <1>1, <1>5
      <3> QED
        BY <3>1
    <2>2. j \in upTo(j) /\ j \notin upTo(i)
      BY <1>1, <1>5
    <2> HIDE DEF upTo
    <2> QED
      BY <1>4, <2>1, <2>2, FS_Subset
  <1>6. \A i \in few : Cardinality(upTo(i)) \in 1..n
    <2> SUFFICES ASSUME NEW i \in few PROVE Cardinality(upTo(i)) \in 1..n
      OBVIOUS
    <2>1. i \in room /\ Cardinality(upTo(i)) <= n /\ Cardinality(upTo(i)) \in Nat
      BY <1>2, <1>4
    <2>2. Cardinality(upTo(i)) # 0
      BY <1>3, <1>4, <2>1, FS_EmptySet
    <2> HIDE DEF upTo
    <2> QED
      BY <2>1, <2>2
  <1>7. \A i, j \in few : i # j => Cardinality(upTo(i)) # Cardinality(upTo(j))
    BY <1>1, <1>2, <1>5
  <1> HIDE DEF upTo
  <1>8. rank \in Injection(few, 1..n)
    BY <1>6, <1>7 DEF Injection, IsInjective
  <1> HIDE DEF rank
  <1>9. IsFiniteSet(1..n) /\ Cardinality(1..n) = n
    BY FS_Interval
  <1>10. IsFiniteSet(few) /\ Cardinality(few) <= n
    BY <1>8, <1>9, FS_Injection
  <1> QED
    BY <1>10, FS_CardinalityType

(* Rows inserted take empty places only, are embedded, and are no more     *)
(* than the code has.                                                      *)
LEMMA InsertedRows ==
    ASSUME NEW made, NEW from \in [Ids -> KbRow \cup {NoKbRow}], NEW new, new = Inserted(made, from)
    PROVE  /\ new \in [Ids -> KbRow \cup {NoKbRow}]
           /\ \A i \in Ids : \/ new[i] = from[i]
                             \/ new[i] \in KbRow /\ new[i].vec = new[i].text
           /\ \E few : /\ IsFiniteSet(few) /\ Cardinality(few) <= NRows
                       /\ \A i \in Ids : new[i] # from[i] /\ new[i].by = "code" => i \in few
  <1> DEFINE room  == {i \in Ids : from[i] = NoKbRow}
             first == IF "catalog" \in made THEN NCatalog ELSE 0
             count == first + (IF "policies" \in made THEN NPolicies ELSE 0)
             rank(i) == Cardinality({j \in room : j <= i})
             few   == {i \in room : Cardinality({j \in room : j <= i}) <= count}
             policy == NewRow("policies", "policy", "code")
             plain == NewRow("catalog", "plain", "code")
             treasure == NewRow("catalog", "treasure", "code")
  <1>1. first \in Nat /\ count \in Nat /\ count <= NRows
    BY NRowsIsNat
  <1>2. new = [i \in Ids |->
            CASE i \notin room \/ rank(i) > count -> from[i]
              [] i \in room /\ rank(i) <= count /\ rank(i) > first -> policy
              [] i \in room /\ rank(i) <= count /\ rank(i) <= first ->
                    NewRow("catalog", IF rank(i) <= NPlain THEN "plain" ELSE "treasure", "code")]
    BY DEF Inserted
  <1>3. room \in SUBSET Ids
    OBVIOUS
  <1>4. \A i \in room : rank(i) \in Nat
    <2>1. IsFiniteSet(room)
      BY <1>3, FS_Interval, FS_Subset, KnowledgeAssumption DEF Ids
    <2>2. \A i \in room : IsFiniteSet({j \in room : j <= i})
      BY <2>1, FS_Subset
    <2> QED
      BY <2>2, FS_CardinalityType
  <1>5. \A i \in Ids : i \in few <=> i \in room /\ rank(i) <= count
    OBVIOUS
  <1>6. IsFiniteSet(few) /\ Cardinality(few) \in Nat /\ Cardinality(few) <= count
    BY <1>1, <1>3, FewFromBelow
  <1> HIDE DEF room, first, count, few, rank
  <1>7. ASSUME NEW i \in Ids
        PROVE  \/ new[i] = from[i]
               \/ i \in few /\ new[i] \in {policy, plain, treasure}
    <2> HIDE DEF policy
    <2>1. CASE i \notin room \/ rank(i) > count
      <3>1. ~(i \in room /\ rank(i) <= count)
        BY <1>1, <1>4, <2>1
      <3> QED
        BY <1>2, <2>1, <3>1
    <2>2. CASE i \in room /\ rank(i) <= count /\ rank(i) > first
      <3>1. ~(rank(i) > count)
        BY <1>1, <1>4, <2>2
      <3> QED
        BY <1>2, <1>5, <2>2, <3>1
    <2>3. CASE i \in room /\ rank(i) <= count /\ rank(i) <= first
      <3>1. ~(rank(i) > count) /\ ~(rank(i) > first)
        BY <1>1, <1>4, <2>3
      <3>2. new[i] = NewRow("catalog", IF rank(i) <= NPlain THEN "plain" ELSE "treasure", "code")
        BY <1>2, <2>3, <3>1
      <3> QED
        BY <1>5, <2>3, <3>2
    <2> QED
      BY <1>1, <1>4, <2>1, <2>2, <2>3
  <1>8. \A row \in {policy, plain, treasure} : row \in KbRow /\ row.vec = row.text
    BY RowsAreRows DEF Sources, Texts, OwnTexts
  <1> HIDE DEF policy, plain, treasure
  <1>9. \A i \in Ids : \/ new[i] = from[i]
                       \/ new[i] \in KbRow /\ new[i].vec = new[i].text
    BY <1>7, <1>8
  <1>10. new \in [Ids -> KbRow \cup {NoKbRow}]
    BY <1>2, <1>9
  <1>11. \A i \in Ids : new[i] # from[i] /\ new[i].by = "code" => i \in few
    BY <1>7
  <1>12. Cardinality(few) <= NRows
    BY <1>1, <1>6, NRowsIsNat
  <1> QED
    BY <1>6, <1>9, <1>10, <1>11, <1>12

(* A task that starts is typed.                                            *)
LEMMA DoingIsTyped ==
    ASSUME NEW stage \in {"clearing", "filling", "filled", "editing", "embedding", "flushed"},
           NEW ids \in SUBSET Ids
    PROVE  /\ Doing(stage, ids) \in Busy /\ Doing(stage, ids).stage = stage
           /\ Doing(stage, ids).ids = ids
  BY DEF Doing, Busy, Texts, OwnTexts

(* At the start the table is empty or has every row once, and nobody       *)
(* works on it.                                                            *)
LEMMA KbStarts == KbInit => KbInv
  <1> SUFFICES ASSUME KbInit PROVE KbInv
    OBVIOUS
  <1>1. /\ kbTask = [t \in KbTasks |-> Rest] /\ mixed = {} /\ doubled = FALSE
        /\ kbActs = 0 /\ kbFaults = 0
    BY DEF KbInit
  <1>2. EmptyTable \in [Ids -> KbRow \cup {NoKbRow}] /\ \A i \in Ids : EmptyTable[i] = NoKbRow
    BY DEF EmptyTable
  <1>3. /\ kb \in [Ids -> KbRow \cup {NoKbRow}]
        /\ \A i \in Ids : kb[i] = NoKbRow \/ (kb[i] \in KbRow /\ kb[i].vec = kb[i].text)
        /\ \E few : /\ IsFiniteSet(few) /\ Cardinality(few) <= NRows
                    /\ \A i \in Ids : kb[i] # NoKbRow /\ kb[i].by = "code" => i \in few
    <2>1. CASE kb = EmptyTable
      <3>1. IsFiniteSet({}) /\ Cardinality({}) <= NRows
        BY FS_EmptySet, NRowsIsNat
      <3> QED
        BY <1>2, <2>1, <3>1
    <2>2. CASE kb = Inserted({"catalog", "policies"}, EmptyTable)
      <3>1. PICK few : /\ IsFiniteSet(few) /\ Cardinality(few) <= NRows
                       /\ \A i \in Ids : kb[i] # EmptyTable[i] /\ kb[i].by = "code" => i \in few
        BY <1>2, <2>2, InsertedRows
      <3> QED
        BY <1>2, <2>2, <3>1, InsertedRows
    <2> QED
      BY <2>1, <2>2 DEF KbInit
  <1>4. PICK few : /\ IsFiniteSet(few) /\ Cardinality(few) <= NRows
                   /\ \A i \in Ids : kb[i] # NoKbRow /\ kb[i].by = "code" => i \in few
    BY <1>3
  <1>5. Ours \in SUBSET few
    BY <1>4 DEF Ours, Present
  <1>6. Cardinality(Ours) <= NRows
    <2>1. Cardinality(Ours) <= Cardinality(few)
      BY <1>4, <1>5, FS_Subset
    <2> QED
      BY <1>4, <2>1, OursIsFinite, FS_CardinalityType, NRowsIsNat
  <1>7. \A t \in KbTasks : kbTask[t] = Rest /\ kbTask[t].stage = "rest"
    BY <1>1 DEF Rest
  <1>8. KbTypeOK
    <2>1. 0 \in 0..MaxKbActs /\ 0 \in 0..MaxKbFaults
      BY KnowledgeAssumption
    <2>2. kbActs \in 0..MaxKbActs /\ kbFaults \in 0..MaxKbFaults
      BY <1>1, <2>1
    <2>3. kbTask \in [KbTasks -> Busy \cup {Rest}]
      BY <1>1
    <2>4. mixed \subseteq Ids /\ doubled \in BOOLEAN
      BY <1>1
    <2> QED
      BY <1>3, <2>2, <2>3, <2>4 DEF KbTypeOK
  <1>9. HeldApart
    BY <1>7 DEF HeldApart, HeldBy
  <1>10. Embedded
    BY <1>3 DEF Embedded, Present
  <1>11. RepairedAlone
    BY <1>6, <1>7 DEF RepairedAlone, Repairs
  <1> QED
    BY <1>8, <1>9, <1>10, <1>11 DEF KbInv

(* A step of t alone, which leaves the table as it is.                     *)
LEMMA TaskMoves ==
    ASSUME KbInv, NEW t \in KbTasks, NEW value \in Busy \cup {Rest}, Becomes(t, value),
           UNCHANGED <<kb, mixed>>, doubled' \in BOOLEAN, doubled => doubled',
           kbActs' \in 0..MaxKbActs, kbFaults' \in 0..MaxKbFaults,
           HeldBy(t)' = {} \/ \A u \in KbTasks \ {t} : HeldBy(u) \cap HeldBy(t)' = {},
           value.stage = "flushed" => value.ids \subseteq Present,
           ~doubled' /\ value.stage \in {"clearing", "filling", "filled"} =>
               /\ Ours \subseteq value.ids
               /\ \A u \in KbTasks \ {t} : ~Repairs(u)
    PROVE  KbInv'
  <1>1. kbTask' = [kbTask EXCEPT ![t] = value] /\ kbTask \in [KbTasks -> Busy \cup {Rest}]
    BY DEF Becomes, KbInv, KbTypeOK
  <1>2. kbTask'[t] = value /\ \A u \in KbTasks \ {t} : kbTask'[u] = kbTask[u]
    BY <1>1
  <1>3. Present' = Present /\ Ours' = Ours
    BY DEF Present, Ours
  <1>4. KbTypeOK'
    BY <1>1 DEF KbInv, KbTypeOK
  <1>5. \A u \in KbTasks \ {t} : HeldBy(u)' = HeldBy(u)
    BY <1>2 DEF HeldBy
  <1>6. HeldApart'
    <2>1. ASSUME NEW a \in KbTasks, NEW b \in KbTasks, a # b
          PROVE  HeldBy(a)' \cap HeldBy(b)' = {}
      BY <1>5, <2>1 DEF KbInv, HeldApart
    <2>2. ASSUME NEW u \in KbTasks, kbTask'[u].stage = "flushed"
          PROVE  kbTask'[u].ids \subseteq Present
      BY <1>2, <2>2 DEF KbInv, HeldApart
    <2> QED
      BY <1>3, <2>1, <2>2 DEF HeldApart
  <1>7. Embedded'
    BY <1>3 DEF KbInv, Embedded
  <1>8. RepairedAlone'
    <2> SUFFICES ASSUME ~doubled'
                 PROVE  /\ Cardinality(Ours') <= NRows
                        /\ \A a, b \in KbTasks : Repairs(a)' /\ Repairs(b)' => a = b
                        /\ \A a \in KbTasks : Repairs(a)' => Ours' \subseteq kbTask'[a].ids
      BY DEF RepairedAlone
    <2>1. /\ Cardinality(Ours) <= NRows
          /\ \A a, b \in KbTasks : Repairs(a) /\ Repairs(b) => a = b
          /\ \A a \in KbTasks : Repairs(a) => Ours \subseteq kbTask[a].ids
      BY DEF KbInv, RepairedAlone
    <2>2. \A u \in KbTasks \ {t} : Repairs(u)' = Repairs(u)
      BY <1>2 DEF Repairs
    <2>3. Repairs(t)' => /\ Ours \subseteq kbTask'[t].ids
                         /\ \A u \in KbTasks \ {t} : ~Repairs(u)
      BY <1>2 DEF Repairs
    <2> QED
      BY <1>2, <1>3, <2>1, <2>2, <2>3
  <1> QED
    BY <1>4, <1>6, <1>7, <1>8 DEF KbInv
(* A task that is under way is typed.                                      *)
LEMMA TaskIsBusy ==
    ASSUME KbInv, NEW t \in KbTasks, kbTask[t].stage # "rest"
    PROVE  /\ kbTask[t] \in Busy /\ kbTask[t].ids \in SUBSET Ids
           /\ kbTask[t].texts \in [Ids -> Texts] /\ kbTask[t].text \in StaffTexts \cup {"kept"}
           /\ kbTask[t].source \in StaffSources \cup {"kept"}
  <1>1. kbTask[t] \in Busy
    BY DEF KbInv, KbTypeOK, Rest
  <1> QED
    BY <1>1 DEF Busy

(* What staff do and what fails is counted.                                *)
LEMMA KbCounts ==
    ASSUME KbInv
    PROVE  /\ KbAct => kbActs' \in 0..MaxKbActs
           /\ KbFault => kbFaults' \in 0..MaxKbFaults
           /\ UNCHANGED kbActs => kbActs' \in 0..MaxKbActs
           /\ UNCHANGED kbFaults => kbFaults' \in 0..MaxKbFaults
           /\ doubled \in BOOLEAN
  BY KnowledgeAssumption DEF KbInv, KbTypeOK, KbAct, KbFault

(* A task that ends without a change of the table.                         *)
LEMMA TaskEnds ==
    ASSUME KbInv, NEW t \in KbTasks, Becomes(t, Rest), UNCHANGED <<kb, mixed, doubled>>,
           kbActs' \in 0..MaxKbActs, kbFaults' \in 0..MaxKbFaults
    PROVE  KbInv'
  <1>1. Rest.stage = "rest"
    BY DEF Rest
  <1>2. HeldBy(t)' = {}
    BY <1>1 DEF HeldBy, Becomes, KbInv, KbTypeOK
  <1> DEFINE value == Rest
  <1>3. value \in Busy \cup {Rest} /\ Becomes(t, value) /\ value.stage = "rest"
    BY <1>1
  <1>4. doubled' \in BOOLEAN /\ (doubled => doubled')
    BY KbCounts
  <1> HIDE DEF value
  <1> QED
    BY <1>2, <1>3, <1>4, TaskMoves

(* A turn that finds the catalog stale has seen every row; if another one  *)
(* repairs it already, that is remembered.                                 *)
LEMMA ChecksKeepKb ==
    ASSUME KbInv, NEW t \in KbTasks, TurnChecks(t)
    PROVE  KbInv'
  <1> DEFINE value == Doing("clearing", Present)
  <1>1. value \in Busy /\ value.stage = "clearing" /\ value.ids = Present
    BY DoingIsTyped, OursIsFinite
  <1>2. Becomes(t, value)
    BY DEF TurnChecks
  <1> HIDE DEF value
  <1>3. HeldBy(t)' = {}
    BY <1>1, <1>2 DEF HeldBy, Becomes, KbInv, KbTypeOK
  <1>4. Ours \subseteq value.ids
    BY <1>1 DEF Ours
  <1>5. ~doubled' => \A u \in KbTasks \ {t} : ~Repairs(u)
    BY DEF TurnChecks, Repairs
  <1>6. doubled' \in BOOLEAN /\ (doubled => doubled')
    BY KbCounts DEF TurnChecks
  <1>7. UNCHANGED <<kb, mixed>> /\ kbActs' \in 0..MaxKbActs /\ kbFaults' \in 0..MaxKbFaults
    BY KbCounts DEF TurnChecks
  <1> QED
    BY <1>1, <1>2, <1>3, <1>4, <1>5, <1>6, <1>7, TaskMoves

(* What is known of a repair under way.                                    *)
LEMMA RepairKnows ==
    ASSUME KbInv, NEW t \in KbTasks, Repairs(t), ~doubled
    PROVE  Ours \subseteq kbTask[t].ids /\ \A u \in KbTasks \ {t} : ~Repairs(u)
  BY DEF KbInv, RepairedAlone

(* A turn that takes away the rows it has seen holds no others.            *)
LEMMA ClearsKeepKb ==
    ASSUME KbInv, NEW t \in KbTasks, TurnClears(t)
    PROVE  KbInv'
  <1> DEFINE value == Doing("filling", kbTask[t].ids \cap Present)
  <1>1. kbTask[t].stage = "clearing" /\ Repairs(t)
    BY DEF TurnClears, Repairs
  <1>2. kbTask[t].ids \in SUBSET Ids
    BY <1>1, TaskIsBusy
  <1>3. /\ value \in Busy /\ value.stage = "filling" /\ value.ids = kbTask[t].ids \cap Present
    <2>1. kbTask[t].ids \cap Present \in SUBSET Ids
      BY <1>2
    <2> QED
      BY <2>1, DoingIsTyped
  <1>4. Becomes(t, value)
    BY DEF TurnClears
  <1> HIDE DEF value
  <1>5. HeldBy(t)' = value.ids
    BY <1>3, <1>4 DEF HeldBy, Becomes, KbInv, KbTypeOK
  <1>6. \A u \in KbTasks \ {t} : HeldBy(u) \cap HeldBy(t)' = {}
    BY <1>3, <1>5 DEF TurnClears, Free
  <1>7. ~doubled => Ours \subseteq value.ids /\ \A u \in KbTasks \ {t} : ~Repairs(u)
    BY <1>1, <1>3, RepairKnows DEF Ours
  <1>8. doubled' = doubled /\ doubled' \in BOOLEAN
    BY KbCounts DEF TurnClears
  <1>9. UNCHANGED <<kb, mixed>> /\ kbActs' \in 0..MaxKbActs /\ kbFaults' \in 0..MaxKbFaults
    BY KbCounts DEF TurnClears
  <1> QED
    BY <1>3, <1>4, <1>6, <1>7, <1>8, <1>9, TaskMoves

(* A turn that inserts its rows, all of them or a part, has not changed    *)
(* the table yet.                                                          *)
LEMMA FillsKeepKb ==
    ASSUME KbInv, NEW t \in KbTasks, TurnFills(t) \/ TurnFillsInPart(t)
    PROVE  KbInv'
  <1>1. kbTask[t].stage = "filling" /\ Repairs(t)
    BY DEF TurnFills, TurnFillsInPart, Repairs
  <1>2. PICK made \in SUBSET Sources : Becomes(t, Filled(t, made))
    <2>1. {"catalog", "policies"} \in SUBSET Sources /\ {} \in SUBSET Sources /\ {"catalog"} \in SUBSET Sources
      BY DEF Sources
    <2> QED
      BY <2>1 DEF TurnFills, TurnFillsInPart
  <1> DEFINE value == Filled(t, made)
  <1>3. /\ value \in Busy /\ value.stage = "filled" /\ value.ids = kbTask[t].ids
    BY <1>1, TaskIsBusy DEF Filled, Busy
  <1>4. Becomes(t, value)
    BY <1>2
  <1> HIDE DEF value
  <1>5. HeldBy(t)' = HeldBy(t)
    BY <1>1, <1>3, <1>4 DEF HeldBy, Becomes, KbInv, KbTypeOK
  <1>6. \A u \in KbTasks \ {t} : HeldBy(u) \cap HeldBy(t)' = {}
    BY <1>5 DEF KbInv, HeldApart
  <1>7. ~doubled => Ours \subseteq value.ids /\ \A u \in KbTasks \ {t} : ~Repairs(u)
    BY <1>1, <1>3, RepairKnows
  <1>8. doubled' = doubled /\ doubled' \in BOOLEAN
    BY KbCounts DEF TurnFills, TurnFillsInPart
  <1>9. UNCHANGED <<kb, mixed>> /\ kbActs' \in 0..MaxKbActs /\ kbFaults' \in 0..MaxKbFaults
    BY KbCounts DEF TurnFills, TurnFillsInPart
  <1> QED
    BY <1>3, <1>4, <1>6, <1>7, <1>8, <1>9, TaskMoves

(* A task that gives up leaves the table as it is.                         *)
LEMMA EndsKeepKb ==
    ASSUME KbInv, NEW t \in KbTasks, TurnRollsBack(t) \/ EmbeddingFails(t)
    PROVE  KbInv'
  BY KbCounts, TaskEnds DEF TurnRollsBack, EmbeddingFails

(* A task that only reads holds no rows.                                   *)
LEMMA LoadsKeepKb ==
    ASSUME KbInv, NEW t \in KbTasks, NEW value \in Busy, Becomes(t, value),
           value.stage \in {"editing", "embedding"},
           KbAct, UNCHANGED <<kb, mixed, doubled, kbFaults>>
    PROVE  KbInv'
  <1>1. HeldBy(t)' = {}
    BY DEF HeldBy, Becomes, KbInv, KbTypeOK
  <1>2. doubled' = doubled /\ doubled' \in BOOLEAN
    BY KbCounts
  <1>3. kbActs' \in 0..MaxKbActs /\ kbFaults' \in 0..MaxKbFaults
    BY KbCounts
  <1> QED
    BY <1>1, <1>2, <1>3, TaskMoves

(* So an edit that reads its row keeps the invariant,                      *)
LEMMA EditLoadsKeepsKb ==
    ASSUME KbInv, NEW t \in KbTasks, NEW i \in Ids, NEW text \in StaffTexts \cup {"kept"},
           NEW source \in StaffSources \cup {"kept"}, EditLoads(t, i, text, source)
    PROVE  KbInv'
  <1> DEFINE value == [Doing("editing", {i}) EXCEPT !.text = text, !.source = source]
  <1>1. Doing("editing", {i}) \in Busy /\ Doing("editing", {i}).stage = "editing"
    BY DoingIsTyped
  <1>2. value \in Busy /\ value.stage = "editing"
    BY <1>1 DEF Busy
  <1> QED
    BY <1>2, LoadsKeepKb DEF EditLoads

(* and a re-embedding that reads the table.                                *)
LEMMA ReembedLoadsKeepsKb ==
    ASSUME KbInv, NEW t \in KbTasks, ReembedLoads(t)
    PROVE  KbInv'
  <1> DEFINE texts == [i \in Ids |-> IF i \in Present THEN kb[i].text ELSE "plain"]
             value == [Doing("embedding", Present) EXCEPT !.texts = texts]
  <1>1. Doing("embedding", Present) \in Busy /\ Doing("embedding", Present).stage = "embedding"
    BY DoingIsTyped, OursIsFinite
  <1>2. \A i \in Present : kb[i] \in KbRow
    BY DEF KbInv, KbTypeOK, Present
  <1>3. texts \in [Ids -> Texts]
    BY <1>2 DEF KbRow, Texts, OwnTexts
  <1>4. Becomes(t, value)
    BY DEF ReembedLoads
  <1> HIDE DEF texts
  <1>5. value \in Busy /\ value.stage = "embedding"
    BY <1>1, <1>3 DEF Busy
  <1> HIDE DEF value
  <1> QED
    BY <1>4, <1>5, LoadsKeepKb DEF ReembedLoads

(* A re-embedding that flushes holds the rows it has read, which nobody    *)
(* else does, and they are still there.                                    *)
LEMMA FlushesKeepKb ==
    ASSUME KbInv, NEW t \in KbTasks, ReembedFlushes(t)
    PROVE  KbInv'
  <1>1. kbActs' \in 0..MaxKbActs /\ kbFaults' \in 0..MaxKbFaults /\ doubled' = doubled /\ doubled' \in BOOLEAN
    BY KbCounts DEF ReembedFlushes
  <1>2. CASE ~(kbTask[t].ids \subseteq Present)
    BY <1>1, <1>2, TaskEnds DEF ReembedFlushes
  <1>3. CASE kbTask[t].ids \subseteq Present
    <2> DEFINE value == [kbTask[t] EXCEPT !.stage = "flushed"]
    <2>1. value \in Busy /\ value.stage = "flushed" /\ value.ids = kbTask[t].ids
      BY TaskIsBusy DEF ReembedFlushes, Busy
    <2>2. Becomes(t, value) /\ UNCHANGED <<kb, mixed>>
      BY <1>3 DEF ReembedFlushes
    <2> HIDE DEF value
    <2>3. HeldBy(t)' = kbTask[t].ids
      BY <2>1, <2>2 DEF HeldBy, Becomes, KbInv, KbTypeOK
    <2>4. \A u \in KbTasks \ {t} : HeldBy(u) \cap HeldBy(t)' = {}
      BY <2>3 DEF ReembedFlushes, Free
    <2> QED
      BY <1>1, <1>3, <2>1, <2>2, <2>4, TaskMoves
  <1> QED
    BY <1>2, <1>3

(* A step that changes the table, of a task that ends with it or of nobody.*)
LEMMA TableMoves ==
    ASSUME KbInv, kbTask' \in [KbTasks -> Busy \cup {Rest}],
           \A u \in KbTasks : kbTask'[u] = kbTask[u] \/ kbTask'[u] = Rest,
           kb' \in [Ids -> KbRow \cup {NoKbRow}], mixed' \subseteq Ids,
           UNCHANGED doubled, kbActs' \in 0..MaxKbActs, kbFaults' \in 0..MaxKbFaults,
           \A u \in KbTasks : kbTask'[u].stage = "flushed" => kbTask'[u].ids \subseteq Present',
           \A i \in Ids : kb'[i] # NoKbRow /\ kb'[i].vec # kb'[i].text => i \in mixed',
           ~doubled => /\ Cardinality(Ours') <= NRows
                       /\ \A u \in KbTasks : Repairs(u)' => Ours' \subseteq kbTask'[u].ids
    PROVE  KbInv'
  <1>1. Rest.stage = "rest"
    BY DEF Rest
  <1>2. KbTypeOK'
    BY DEF KbInv, KbTypeOK
  <1>3. \A u \in KbTasks : HeldBy(u)' = HeldBy(u) \/ HeldBy(u)' = {}
    BY <1>1 DEF HeldBy
  <1>4. HeldApart'
    <2>1. ASSUME NEW a \in KbTasks, NEW b \in KbTasks, a # b
          PROVE  HeldBy(a)' \cap HeldBy(b)' = {}
      BY <1>3, <2>1 DEF KbInv, HeldApart
    <2> QED
      BY <2>1 DEF HeldApart
  <1>5. Embedded'
    BY DEF Embedded, Present
  <1>6. RepairedAlone'
    <2> SUFFICES ASSUME ~doubled
                 PROVE  /\ Cardinality(Ours') <= NRows
                        /\ \A a, b \in KbTasks : Repairs(a)' /\ Repairs(b)' => a = b
                        /\ \A a \in KbTasks : Repairs(a)' => Ours' \subseteq kbTask'[a].ids
      BY DEF RepairedAlone
    <2>1. \A a \in KbTasks : Repairs(a)' => Repairs(a)
      BY <1>1 DEF Repairs
    <2> QED
      BY <2>1 DEF KbInv, RepairedAlone
  <1> QED
    BY <1>2, <1>4, <1>5, <1>6 DEF KbInv

(* A step that adds no row of the code, and removes none a re-embedding    *)
(* holds.                                                                  *)
LEMMA TableShrinks ==
    ASSUME KbInv, kbTask' \in [KbTasks -> Busy \cup {Rest}],
           \A u \in KbTasks : kbTask'[u] = kbTask[u] \/ kbTask'[u] = Rest,
           kb' \in [Ids -> KbRow \cup {NoKbRow}], mixed' \subseteq Ids,
           UNCHANGED doubled, kbActs' \in 0..MaxKbActs, kbFaults' \in 0..MaxKbFaults,
           \A u \in KbTasks, i \in Ids : kbTask'[u].stage = "flushed" /\ i \in kbTask[u].ids /\ kb[i] # NoKbRow
               => kb'[i] # NoKbRow,
           \A i \in Ids : kb'[i] # NoKbRow /\ kb'[i].vec # kb'[i].text => i \in mixed',
           \A i \in Ids : kb'[i] # NoKbRow /\ kb'[i].by = "code" =>
               kb[i] # NoKbRow /\ kb[i].by = "code"
    PROVE  KbInv'
  <1>1. Rest.stage = "rest"
    BY DEF Rest
  <1>2. Ours' \in SUBSET Ours
    BY DEF Ours, Present
  <1>3. Cardinality(Ours') <= Cardinality(Ours) /\ Cardinality(Ours') \in Nat
    BY <1>2, OursIsFinite
  <1>4. ~doubled => Cardinality(Ours') <= NRows
    <2>1. ~doubled => Cardinality(Ours) <= NRows
      BY DEF KbInv, RepairedAlone
    <2> QED
      BY <1>3, <2>1, OursIsFinite, NRowsIsNat
  <1>5. ASSUME ~doubled, NEW u \in KbTasks, Repairs(u)'
        PROVE  Ours' \subseteq kbTask'[u].ids
    <2>1. kbTask'[u] = kbTask[u] /\ Repairs(u)
      BY <1>1, <1>5 DEF Repairs
    <2> QED
      BY <1>2, <1>5, <2>1, RepairKnows
  <1>6. ASSUME NEW u \in KbTasks, kbTask'[u].stage = "flushed"
        PROVE  kbTask'[u].ids \subseteq Present'
    <2>1. kbTask'[u] = kbTask[u]
      BY <1>1, <1>6
    <2>2. kbTask[u].ids \subseteq Present
      BY <1>6, <2>1 DEF KbInv, HeldApart
    <2> QED
      BY <1>6, <2>1, <2>2 DEF Present
  <1> QED
    BY <1>4, <1>5, <1>6, TableMoves

(* The task of a step that ends it.                                        *)
LEMMA EndedTask ==
    ASSUME KbInv, NEW t \in KbTasks, Becomes(t, Rest)
    PROVE  /\ kbTask' \in [KbTasks -> Busy \cup {Rest}] /\ kbTask'[t] = Rest
           /\ \A u \in KbTasks \ {t} : kbTask'[u] = kbTask[u]
  BY DEF KbInv, KbTypeOK, Becomes

(* What the rows are that are in the table.                                *)
LEMMA RowsInTable ==
    ASSUME KbInv, NEW i \in Ids
    PROVE  /\ kb[i] \in KbRow \cup {NoKbRow} /\ (i \in Present <=> kb[i] # NoKbRow)
           /\ kb[i] # NoKbRow /\ kb[i].vec # kb[i].text => i \in mixed
  BY DEF KbInv, KbTypeOK, Present, Embedded

(* A repair that commits leaves the code's rows once: it took away all      *)
(* there was of it, unless two of them overlapped.                         *)
LEMMA CommitsKeepKb ==
    ASSUME KbInv, NEW t \in KbTasks, TurnCommits(t)
    PROVE  KbInv'
  <1> DEFINE left == [i \in Ids |-> IF i \in kbTask[t].ids THEN NoKbRow ELSE kb[i]]
  <1>1. kbTask[t].stage = "filled" /\ Repairs(t)
    BY DEF TurnCommits, Repairs
  <1>2. left \in [Ids -> KbRow \cup {NoKbRow}]
    BY RowsInTable
  <1>3. PICK made : made = kbTask[t].made
    OBVIOUS
  <1>4. kb' = Inserted(made, left) /\ mixed' = mixed \ kbTask[t].ids
    BY <1>3 DEF TurnCommits
  <1>5. \A i \in Ids : left[i] = NoKbRow \/ (i \notin kbTask[t].ids /\ left[i] = kb[i])
    OBVIOUS
  <1>6. \A i \in Ids \ kbTask[t].ids : left[i] = kb[i]
    OBVIOUS
  <1> HIDE DEF left
  <1>7. /\ kb' \in [Ids -> KbRow \cup {NoKbRow}]
        /\ \A i \in Ids : kb'[i] = left[i] \/ (kb'[i] \in KbRow /\ kb'[i].vec = kb'[i].text)
    BY <1>2, <1>4, InsertedRows
  <1>8. PICK few : /\ IsFiniteSet(few) /\ Cardinality(few) <= NRows
                   /\ \A i \in Ids : kb'[i] # left[i] /\ kb'[i].by = "code" => i \in few
    BY <1>2, <1>4, InsertedRows
  <1>9. /\ kbTask' \in [KbTasks -> Busy \cup {Rest}] /\ kbTask'[t] = Rest
        /\ \A u \in KbTasks \ {t} : kbTask'[u] = kbTask[u]
    BY EndedTask DEF TurnCommits
  <1>10. Rest.stage = "rest" /\ HeldBy(t) = kbTask[t].ids
    BY <1>1 DEF Rest, HeldBy
  <1>11. ASSUME NEW u \in KbTasks, kbTask'[u].stage = "flushed"
         PROVE  kbTask'[u].ids \subseteq Present'
    <2>1. u # t /\ kbTask'[u] = kbTask[u]
      BY <1>9, <1>10, <1>11
    <2>2. HeldBy(u) = kbTask[u].ids /\ kbTask[u].ids \subseteq Present
      BY <1>11, <2>1 DEF HeldBy, KbInv, HeldApart
    <2>3. HeldBy(u) \cap HeldBy(t) = {}
      BY <2>1 DEF KbInv, HeldApart
    <2>4. ASSUME NEW i \in kbTask[u].ids
          PROVE  i \in Ids /\ kb'[i] # NoKbRow
      BY <1>6, <1>7, <1>10, <2>2, <2>3, RowsInTable, RowsAreRows DEF Present
    <2> QED
      BY <2>1, <2>4 DEF Present
  <1>12. \A i \in Ids : kb'[i] # NoKbRow /\ kb'[i].vec # kb'[i].text => i \in mixed'
    BY <1>4, <1>5, <1>7, RowsInTable
  <1>13. ASSUME ~doubled
         PROVE  /\ Cardinality(Ours') <= NRows
                /\ \A u \in KbTasks : Repairs(u)' => Ours' \subseteq kbTask'[u].ids
    <2>1. Ours \subseteq kbTask[t].ids /\ \A u \in KbTasks \ {t} : ~Repairs(u)
      BY <1>1, <1>13, RepairKnows
    <2>2. \A u \in KbTasks : ~Repairs(u)'
      BY <1>9, <1>10, <2>1 DEF Repairs
    <2>3. ASSUME NEW i \in Ours'
          PROVE  i \in few
      <3>1. i \in Ids /\ kb'[i] # NoKbRow /\ kb'[i].by = "code"
        BY DEF Ours, Present
      <3>2. kb'[i] # left[i]
        <4>1. SUFFICES ASSUME kb'[i] = left[i] PROVE FALSE
          OBVIOUS
        <4>2. i \notin kbTask[t].ids /\ kb[i] = kb'[i]
          BY <1>5, <3>1, <4>1
        <4>3. i \in Ours
          BY <3>1, <4>2 DEF Ours, Present
        <4> QED
          BY <2>1, <4>2, <4>3
      <3> QED
        BY <1>8, <3>1, <3>2
    <2>4. Ours' \in SUBSET few
      BY <2>3
    <2>5. /\ Cardinality(Ours') <= Cardinality(few) /\ Cardinality(few) \in Nat
          /\ Cardinality(Ours') \in Nat
      BY <1>8, <2>4, FS_Subset, FS_CardinalityType
    <2>6. Cardinality(Ours') <= NRows
      BY <1>8, <2>5, NRowsIsNat
    <2> QED
      BY <2>2, <2>6
  <1>14. mixed' \subseteq Ids
    BY <1>4 DEF KbInv, KbTypeOK
  <1>15. UNCHANGED doubled /\ kbActs' \in 0..MaxKbActs /\ kbFaults' \in 0..MaxKbFaults
    BY KbCounts DEF TurnCommits
  <1>16. \A u \in KbTasks : kbTask'[u] = kbTask[u] \/ kbTask'[u] = Rest
    BY <1>9
  <1> QED
    BY <1>7, <1>9, <1>11, <1>12, <1>13, <1>14, <1>15, <1>16, TableMoves

(* A row that staff rewrite or relabel is a row, of whoever inserted it,   *)
(* and answered with what it was found by if its text is new.              *)
LEMMA EditedRows ==
    ASSUME NEW row \in KbRow, NEW text \in StaffTexts \cup {"kept"},
           NEW source \in StaffSources \cup {"kept"}
    PROVE  LET new == Labelled(Edited(row, text), source)
           IN  /\ new \in KbRow /\ new.by = row.by
               /\ text # "kept" => new.vec = new.text
               /\ text = "kept" => new.vec = row.vec /\ new.text = row.text
  <1> DEFINE mid == Edited(row, text)
  <1>1. text # "kept" => text \in Texts
    BY DEF Texts
  <1>2. source # "kept" => source \in Sources
    BY DEF Sources, StaffSources
  <1>3. /\ mid \in KbRow /\ mid.by = row.by
        /\ text # "kept" => mid.vec = mid.text
        /\ text = "kept" => mid.vec = row.vec /\ mid.text = row.text
    <2>1. CASE text = "kept"
      BY <2>1 DEF Edited
    <2>2. CASE text # "kept"
      BY <1>1, <2>2 DEF Edited, KbRow
    <2> QED
      BY <2>1, <2>2
  <1> HIDE DEF mid
  <1>4. /\ Labelled(mid, source) \in KbRow /\ Labelled(mid, source).by = mid.by
        /\ Labelled(mid, source).vec = mid.vec /\ Labelled(mid, source).text = mid.text
    <2>1. CASE source = "kept"
      BY <1>3, <2>1 DEF Labelled
    <2>2. CASE source # "kept"
      BY <1>2, <1>3, <2>2 DEF Labelled, KbRow
    <2> QED
      BY <2>1, <2>2
  <1> QED
    BY <1>3, <1>4 DEF mid

(* An edit writes text and vector of its row together, or neither.         *)
LEMMA EditKeepsKb ==
    ASSUME KbInv, NEW t \in KbTasks, EditCommits(t)
    PROVE  KbInv'
  <1> DEFINE task == kbTask[t]
             Renewed(row) == Labelled(Edited(row, task.text), task.source)
  <1>1. /\ task.ids \in SUBSET Ids
        /\ task.text \in StaffTexts \cup {"kept"} /\ task.source \in StaffSources \cup {"kept"}
    BY TaskIsBusy DEF EditCommits
  <1>2. \A row \in KbRow : /\ Renewed(row) \in KbRow /\ Renewed(row).by = row.by
                           /\ task.text # "kept" => Renewed(row).vec = Renewed(row).text
                           /\ task.text = "kept" => /\ Renewed(row).vec = row.vec
                                                    /\ Renewed(row).text = row.text
    BY <1>1, EditedRows
  <1>3. kb' = [i \in Ids |-> IF i \in task.ids \cap Present THEN Renewed(kb[i]) ELSE kb[i]]
    BY DEF EditCommits
  <1>4. mixed' = IF task.text = "kept" THEN mixed ELSE mixed \ task.ids
    BY DEF EditCommits
  <1>5. /\ kbTask' \in [KbTasks -> Busy \cup {Rest}]
        /\ \A u \in KbTasks : kbTask'[u] = kbTask[u] \/ kbTask'[u] = Rest
    BY EndedTask DEF EditCommits
  <1> HIDE DEF task, Renewed
  <1>6. ASSUME NEW i \in Ids
        PROVE  \/ i \in task.ids /\ kb[i] \in KbRow /\ kb'[i] = Renewed(kb[i])
               \/ (i \notin task.ids \/ kb[i] = NoKbRow) /\ kb'[i] = kb[i]
    BY <1>3, RowsInTable
  <1>7. \A i \in Ids : kb'[i] \in KbRow \cup {NoKbRow} /\ (kb[i] # NoKbRow => kb'[i] # NoKbRow)
    BY <1>2, <1>6, RowsInTable, RowsAreRows
  <1>8. kb' \in [Ids -> KbRow \cup {NoKbRow}]
    BY <1>3, <1>7
  <1>9. ASSUME NEW i \in Ids, kb'[i] # NoKbRow, kb'[i].vec # kb'[i].text
        PROVE  i \in mixed'
    <2>1. CASE task.text = "kept"
      <3>1. kb[i] # NoKbRow /\ kb[i].vec # kb[i].text
        BY <1>2, <1>6, <1>9, <2>1, RowsAreRows
      <3> QED
        BY <1>4, <2>1, <3>1, RowsInTable
    <2>2. CASE task.text # "kept"
      <3>1. i \notin task.ids /\ kb'[i] = kb[i]
        BY <1>2, <1>6, <1>9, <2>2
      <3> QED
        BY <1>4, <1>9, <2>2, <3>1, RowsInTable
    <2> QED
      BY <2>1, <2>2
  <1>10. \A i \in Ids : kb'[i] # NoKbRow /\ kb'[i].by = "code" =>
                            kb[i] # NoKbRow /\ kb[i].by = "code"
    BY <1>2, <1>6, RowsAreRows
  <1>11. mixed' \subseteq Ids
    BY <1>4 DEF KbInv, KbTypeOK
  <1>12. UNCHANGED doubled /\ kbActs' \in 0..MaxKbActs /\ kbFaults' \in 0..MaxKbFaults
    BY KbCounts DEF EditCommits
  <1> QED
    BY <1>5, <1>7, <1>8, <1>9, <1>10, <1>11, <1>12, TableShrinks

(* A re-embedding writes vectors of the texts it read, which differ from   *)
(* those there are only for rows edited since.                             *)
LEMMA ReembedKeepsKb ==
    ASSUME KbInv, NEW t \in KbTasks, ReembedCommits(t)
    PROVE  KbInv'
  <1> DEFINE job == kbTask[t]
             With(row, vec) == [row EXCEPT !.vec = vec]
  <1>1. job.ids \in SUBSET Ids /\ job.texts \in [Ids -> Texts]
    BY TaskIsBusy DEF ReembedCommits
  <1>2. \A row \in KbRow, vec \in Texts : /\ With(row, vec) \in KbRow /\ With(row, vec).vec = vec
                                          /\ With(row, vec).text = row.text
                                          /\ With(row, vec).by = row.by
    BY DEF KbRow
  <1>3. kb' = [i \in Ids |-> IF i \in job.ids THEN With(kb[i], job.texts[i]) ELSE kb[i]]
    BY DEF ReembedCommits
  <1>4. mixed' = (mixed \ job.ids) \cup {i \in job.ids : kb[i].text # job.texts[i]}
    BY DEF ReembedCommits
  <1>5. /\ kbTask' \in [KbTasks -> Busy \cup {Rest}]
        /\ \A u \in KbTasks : kbTask'[u] = kbTask[u] \/ kbTask'[u] = Rest
    BY EndedTask DEF ReembedCommits
  <1>6. job.ids \subseteq Present
    BY DEF ReembedCommits, KbInv, HeldApart
  <1> HIDE DEF job, With
  <1>7. ASSUME NEW i \in Ids
        PROVE  \/ i \in job.ids /\ kb[i] \in KbRow /\ kb'[i] = With(kb[i], job.texts[i])
               \/ i \notin job.ids /\ kb'[i] = kb[i]
    BY <1>3, <1>6, RowsInTable
  <1>8. \A i \in Ids : kb'[i] \in KbRow \cup {NoKbRow} /\ (kb[i] # NoKbRow => kb'[i] # NoKbRow)
    BY <1>1, <1>2, <1>7, RowsInTable, RowsAreRows
  <1>9. kb' \in [Ids -> KbRow \cup {NoKbRow}]
    BY <1>3, <1>8
  <1>10. \A i \in Ids : kb'[i] # NoKbRow /\ kb'[i].vec # kb'[i].text => i \in mixed'
    BY <1>1, <1>2, <1>4, <1>7, RowsInTable
  <1>11. \A i \in Ids : kb'[i] # NoKbRow /\ kb'[i].by = "code" =>
                            kb[i] # NoKbRow /\ kb[i].by = "code"
    BY <1>1, <1>2, <1>7, RowsAreRows
  <1>12. mixed' \subseteq Ids
    BY <1>1, <1>4 DEF KbInv, KbTypeOK
  <1>13. UNCHANGED doubled /\ kbActs' \in 0..MaxKbActs /\ kbFaults' \in 0..MaxKbFaults
    BY KbCounts DEF ReembedCommits
  <1> QED
    BY <1>5, <1>8, <1>9, <1>10, <1>11, <1>12, <1>13, TableShrinks

(* A request of staff that changes the table at once.                      *)
LEMMA StaffKeepKb ==
    ASSUME KbInv, kb' \in [Ids -> KbRow \cup {NoKbRow}], mixed' \subseteq Ids,
           UNCHANGED <<kbTask, doubled, kbFaults>>, KbAct,
           \A u \in KbTasks, i \in Ids : i \in HeldBy(u) /\ kb[i] # NoKbRow => kb'[i] # NoKbRow,
           \A i \in Ids : kb'[i] # NoKbRow /\ kb'[i].vec # kb'[i].text => i \in mixed',
           \A i \in Ids : kb'[i] # NoKbRow /\ kb'[i].by = "code" =>
               kb[i] # NoKbRow /\ kb[i].by = "code"
    PROVE  KbInv'
  <1>1. kbTask' \in [KbTasks -> Busy \cup {Rest}]
    BY DEF KbInv, KbTypeOK
  <1>2. \A u \in KbTasks : kbTask'[u] = kbTask[u] \/ kbTask'[u] = Rest
    OBVIOUS
  <1>3. kbActs' \in 0..MaxKbActs /\ kbFaults' \in 0..MaxKbFaults
    BY KbCounts
  <1>4. \A u \in KbTasks, i \in Ids : kbTask'[u].stage = "flushed" /\ i \in kbTask[u].ids /\ kb[i] # NoKbRow
            => kb'[i] # NoKbRow
    BY DEF HeldBy
  <1> QED
    BY <1>1, <1>2, <1>3, <1>4, TableShrinks

(* An item that staff add is embedded, and theirs under whatever source.   *)
LEMMA AddKeepsKb ==
    ASSUME KbInv, NEW source \in StaffSources, NEW text \in StaffTexts, AddItem(source, text)
    PROVE  KbInv'
  <1>1. PICK n \in Ids : n \notin Present /\ kb' = [kb EXCEPT ![n] = NewRow(source, text, "staff")]
    BY DEF AddItem
  <1>2. PICK new : new = NewRow(source, text, "staff")
    OBVIOUS
  <1>3. new \in KbRow /\ new.by = "staff" /\ new.vec = new.text /\ new # NoKbRow
    BY <1>2, RowsAreRows DEF Sources, StaffSources, Texts
  <1>4. kb \in [Ids -> KbRow \cup {NoKbRow}] /\ kb' = [kb EXCEPT ![n] = new]
    BY <1>1, <1>2 DEF KbInv, KbTypeOK
  <1>5. kb' \in [Ids -> KbRow \cup {NoKbRow}] /\ \A i \in Ids : kb'[i] = kb[i] \/ kb'[i] = new
    BY <1>3, <1>4
  <1>6. mixed' = mixed /\ mixed' \subseteq Ids
    BY DEF AddItem, KbInv, KbTypeOK
  <1>7. UNCHANGED <<kbTask, doubled, kbFaults>> /\ KbAct
    BY DEF AddItem
  <1>8. \A i \in Ids : kb'[i] # NoKbRow /\ kb'[i].vec # kb'[i].text => i \in mixed'
    BY <1>3, <1>5, <1>6, RowsInTable
  <1>9. \A i \in Ids : kb'[i] # NoKbRow /\ kb'[i].by = "code" =>
                           kb[i] # NoKbRow /\ kb[i].by = "code"
    BY <1>3, <1>5
  <1>10. \A i \in Ids : kb[i] # NoKbRow => kb'[i] # NoKbRow
    BY <1>3, <1>5
  <1> QED
    BY <1>5, <1>6, <1>7, <1>8, <1>9, <1>10, StaffKeepKb

(* Rows that are removed are in nobody's hands.                            *)
LEMMA RemovalKeepsKb ==
    ASSUME KbInv, NEW ids, Removes(ids)
    PROVE  KbInv'
  <1>1. kb' = [i \in Ids |-> IF i \in ids THEN NoKbRow ELSE kb[i]]
    BY DEF Removes
  <1>2. kb' \in [Ids -> KbRow \cup {NoKbRow}]
    BY <1>1, RowsInTable
  <1>3. mixed' = mixed \ ids /\ mixed' \subseteq Ids
    BY DEF Removes, KbInv, KbTypeOK
  <1>4. UNCHANGED <<kbTask, doubled, kbFaults>> /\ KbAct /\ \A t \in KbTasks : HeldBy(t) \cap ids = {}
    BY DEF Removes
  <1>5. \A i \in Ids : (i \in ids /\ kb'[i] = NoKbRow) \/ (i \notin ids /\ kb'[i] = kb[i])
    BY <1>1
  <1>6. \A u \in KbTasks, i \in Ids : i \in HeldBy(u) /\ kb[i] # NoKbRow => kb'[i] # NoKbRow
    BY <1>4, <1>5
  <1>7. \A i \in Ids : kb'[i] # NoKbRow /\ kb'[i].vec # kb'[i].text => i \in mixed'
    BY <1>3, <1>5, RowsInTable
  <1>8. \A i \in Ids : kb'[i] # NoKbRow /\ kb'[i].by = "code" =>
                           kb[i] # NoKbRow /\ kb[i].by = "code"
    BY <1>5
  <1> QED
    BY <1>2, <1>3, <1>4, <1>6, <1>7, <1>8, StaffKeepKb

(* Whatever turns and staff do, the rows two of them hold are apart, every *)
(* row is found by what it says but for those mixed, and a turn that       *)
(* repairs alone has seen all that the code inserted.                      *)
THEOREM KbInvariance == KbSpec => []KbInv
  <1>1. ASSUME KbInv, [KbNext]_kbVars
        PROVE  KbInv'
    <2>1. CASE \E t \in KbTasks :
                   \/ TurnChecks(t) \/ TurnClears(t) \/ TurnFills(t) \/ TurnFillsInPart(t)
                   \/ TurnCommits(t) \/ TurnRollsBack(t)
                   \/ \E i \in Ids, text \in StaffTexts \cup {"kept"}, source \in StaffSources \cup {"kept"} :
                         EditLoads(t, i, text, source)
                   \/ EditCommits(t) \/ EmbeddingFails(t)
                   \/ ReembedLoads(t) \/ ReembedFlushes(t) \/ ReembedCommits(t)
      BY <1>1, <2>1, ChecksKeepKb, ClearsKeepKb, FillsKeepKb, CommitsKeepKb, EndsKeepKb,
         EditLoadsKeepsKb, EditKeepsKb, ReembedLoadsKeepsKb, FlushesKeepKb, ReembedKeepsKb
    <2>2. CASE \/ \E source \in StaffSources, text \in StaffTexts : AddItem(source, text)
               \/ Wipe \/ \E i \in Ids : DeleteItem(i)
      BY <1>1, <2>2, AddKeepsKb, RemovalKeepsKb DEF Wipe, DeleteItem
    <2>3. CASE UNCHANGED kbVars
      BY <1>1, <2>3 DEF kbVars, KbInv, KbTypeOK, HeldApart, HeldBy, Embedded, RepairedAlone,
         Repairs, Present, Ours
    <2> QED
      BY <1>1, <2>1, <2>2, <2>3 DEF KbNext
  <1> QED
    BY <1>1, KbStarts, PTL DEF KbSpec

(* Retrieval finds a row by what it says, unless it was edited while a     *)
(* re-embedding was under way, and what the code inserted is in the table  *)
(* once, under whatever source and beside whatever staff wrote, unless two *)
(* turns repaired it side by side (hazina_kb.py).                          *)
THEOREM KbStaysSound == KbSpec => []KbIsSound
  <1>1. ASSUME KbInv
        PROVE  KbIsSound
    <2>1. ~doubled => Cardinality(Ours) <= NRows
      BY <1>1 DEF KbInv, RepairedAlone
    <2>2. Cardinality(Ours) > NRows => doubled
      BY <2>1, OursIsFinite, NRowsIsNat
    <2> QED
      BY <1>1, <2>2 DEF KbInv, Embedded, KbIsSound, Ours, NRows
  <1> QED
    BY <1>1, KbInvariance, PTL
=============================================================================
