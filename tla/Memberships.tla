---------------------------- MODULE Memberships -----------------------------
(***************************************************************************)
(* The teams of the tenants (api/admin_auth.py, api/deps.py) and the live  *)
(* event stream of the console (api/admin_console.py), that shows a member *)
(* the events of the tenants the member belongs to.                        *)
(*                                                                         *)
(* A request reads the caller's role, then the member's row, and writes    *)
(* the row and the audit entry when it commits.  A row that was found with *)
(* the role asked for is not written; a row that is gone, or was made anew *)
(* meanwhile, fails the request with all it wrote, but for a removal,      *)
(* which does not mind.                                                    *)
(***************************************************************************)
EXTENDS Integers, FiniteSets

CONSTANTS
    People,        \* administrators that are no superadmins
    Root,          \* a superadmin, or the machine token: every check passes
    Tenants,       \* businesses
    TeamCalls,     \* requests under way at a time
    MaxTeamActs    \* BOUND: requests and streams

ASSUME TeamAssumption == Root \notin People /\ MaxTeamActs \in Nat

VARIABLES
    team,        \* the table tenant_memberships
    trail,       \* per tenant and person, what the newest audit entry tells
    teamCall,    \* per request under way, what it has read
    streams,     \* the streams that are open
    rowsCrossed,     \* history: the rows changed under a request before it wrote
    teamActs

teamVars == <<team, trail, teamCall, streams, rowsCrossed, teamActs>>

Roles  == {"viewer", "staff", "owner"}
Member == [role : Roles, id : 1..MaxTeamActs]
NoMember == [role |-> "none", id |-> 0]

(* add_member sets the role of a member there is, too.                     *)
Changes == [kind : {"add"}, role : Roles] \cup {[kind |-> "remove", role |-> "none"]}

NoTeamCall == [stage |-> "none"]
TeamCall   == [stage : {"entered", "looked"}, tenant : Tenants, who : People,
               change : Changes, row : Member \cup {NoMember}, id : 1..MaxTeamActs]

\* gone, a history: tenants of sees that who was taken from since
Stream == [who : People, sees : SUBSET Tenants, gone : SUBSET Tenants, id : 1..MaxTeamActs]

TeamInit ==
    /\ team = [t \in Tenants |-> [p \in People |-> NoMember]]
    /\ trail = [t \in Tenants |-> [p \in People |-> "none"]]
    /\ teamCall = [q \in TeamCalls |-> NoTeamCall]
    /\ streams = {}
    /\ rowsCrossed = {}
    /\ teamActs = 0

TeamAct == teamActs < MaxTeamActs /\ teamActs' = teamActs + 1

-----------------------------------------------------------------------------
(* The team.                                                               *)

(* require_tenant_access(owner).                                           *)
MayManage(actor, t) == IF actor = Root THEN TRUE ELSE team[t][actor].role = "owner"

Enters(q, actor, t, p, change) ==
    /\ teamCall[q] = NoTeamCall /\ TeamAct
    /\ MayManage(actor, t)
    /\ teamCall' = [teamCall EXCEPT ![q] =
          [stage |-> "entered", tenant |-> t, who |-> p, change |-> change, row |-> NoMember,
           id |-> teamActs']]
    /\ UNCHANGED <<team, trail, streams, rowsCrossed>>

TeamCallEnds(q) == teamCall' = [teamCall EXCEPT ![q] = NoTeamCall]

Looks(q) ==
    LET c   == teamCall[q]
        row == team[c.tenant][c.who]
    IN  /\ c.stage = "entered"
        /\ IF c.change.kind = "remove" /\ row = NoMember
           THEN TeamCallEnds(q)
           ELSE teamCall' = [teamCall EXCEPT ![q].stage = "looked", ![q].row = row]
        /\ UNCHANGED <<team, trail, streams, rowsCrossed, teamActs>>

(* uq_membership_biz_user for a new row; an UPDATE that matches no row.    *)
WriteFails(c, now) ==
    /\ c.change.kind = "add"
    /\ IF c.row = NoMember THEN now # NoMember
                           ELSE c.row.role # c.change.role /\ now.id # c.row.id

\* The role of a member there is stays as it is.
ChangedIfNew(c, now) ==
    IF c.change.kind = "remove" THEN IF now.id = c.row.id THEN NoMember ELSE now
    ELSE IF c.row = NoMember THEN [role |-> c.change.role, id |-> c.id]
    ELSE now

Changed(c, now) ==
    IF c.change.kind = "remove" THEN IF now.id = c.row.id THEN NoMember ELSE now
    ELSE IF c.row = NoMember THEN [role |-> c.change.role, id |-> c.id]
    ELSE IF c.row.role = c.change.role THEN now
    ELSE [now EXCEPT !.role = c.change.role]

TeamCommits(q) ==
    LET c   == teamCall[q]
        now == team[c.tenant][c.who]
    IN  /\ c.stage = "looked" /\ ~WriteFails(c, now)
        /\ team' = [team EXCEPT ![c.tenant][c.who] = Changed(c, now)]
        /\ trail' = [trail EXCEPT ![c.tenant][c.who] = c.change.role]
        /\ rowsCrossed' = IF c.row = now THEN rowsCrossed ELSE rowsCrossed \cup {<<c.tenant, c.who>>}
        /\ streams' = {IF c.change.kind = "remove" /\ s.who = c.who
                       THEN [s EXCEPT !.gone = @ \cup {c.tenant}] ELSE s : s \in streams}
        /\ TeamCallEnds(q)
        /\ UNCHANGED teamActs

TeamWriteFails(q) ==
    LET c == teamCall[q]
    IN  /\ c.stage = "looked" /\ WriteFails(c, team[c.tenant][c.who])
        /\ TeamCallEnds(q)
        /\ UNCHANGED <<team, trail, streams, rowsCrossed, teamActs>>

-----------------------------------------------------------------------------
(* The stream: what it may show is settled when it is opened.              *)

TenantsOf(p) == {t \in Tenants : team[t][p] # NoMember}

(* All of the caller's tenants, or the one that was named.                 *)
Allowed(p) == {TenantsOf(p)} \cup {{t} : t \in TenantsOf(p)}

Connects(p) ==
    /\ TeamAct
    /\ \E sees \in Allowed(p) :
          streams' = streams \cup {[who |-> p, sees |-> sees, gone |-> {}, id |-> teamActs']}
    /\ UNCHANGED <<team, trail, teamCall, rowsCrossed>>

Disconnects ==
    /\ \E s \in streams : streams' = streams \ {s}
    /\ UNCHANGED <<team, trail, teamCall, rowsCrossed, teamActs>>

(* An event of tenant t is shown by these.                                 *)
Shows(t) == {s \in streams : t \in s.sees}

TeamNext ==
    \/ \E q \in TeamCalls :
          \/ \E actor \in People \cup {Root}, t \in Tenants, p \in People, change \in Changes :
                Enters(q, actor, t, p, change)
          \/ Looks(q) \/ TeamCommits(q) \/ TeamWriteFails(q)
    \/ \E p \in People : Connects(p)
    \/ Disconnects

TeamSpec == TeamInit /\ [][TeamNext]_teamVars

-----------------------------------------------------------------------------
TeamTypeOK ==
    /\ team \in [Tenants -> [People -> Member \cup {NoMember}]]
    /\ trail \in [Tenants -> [People -> Roles \cup {"none"}]]
    /\ teamCall \in [TeamCalls -> TeamCall \cup {NoTeamCall}]
    /\ streams \subseteq Stream
    /\ rowsCrossed \subseteq Tenants \X People
    /\ teamActs \in 0..MaxTeamActs

(* The audit trail tells who has what role in a tenant, and who is shown   *)
(* its events: whoever it calls removed, or never added, has no access and *)
(* sees nothing, unless requests crossed on that row, or on a stream that  *)
(* was open before the removal (admin_auth.py:407, admin_console.py:1655). *)
AccessIsAudited ==
    \A t \in Tenants, p \in People : <<t, p>> \notin rowsCrossed =>
        /\ team[t][p].role = trail[t][p]
        /\ \A s \in Shows(t) : s.who = p => trail[t][p] # "none" \/ t \in s.gone
=============================================================================
