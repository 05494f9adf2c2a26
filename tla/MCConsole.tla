----------------------------- MODULE MCConsole ------------------------------
(* Six components that share no state, checked side by side: a behaviour   *)
(* is one of the component that part names, and the others rest.           *)
EXTENDS Outbox, Knowledge, Access, Memberships, Desk, Profiles, TLC

CONSTANTS steady, flaky, w1, w2

(* One receiver always accepts, one may fail.                              *)
MCEndpoints == {steady, flaky}
MCWorkers   == {w1, w2}
MCAnswers   == (steady :> {"ok"}) @@ (flaky :> {"ok", "error"})

VARIABLE part

consoles == <<part, vars, kbVars, accessVars, teamVars, deskVars, profileVars>>

ConsoleInit ==
    /\ part \in {"outbox", "knowledge", "access", "teams", "desk", "profiles"}
    /\ Init
    /\ KbInit /\ (part # "knowledge" => ~NeedsSync)
    /\ AccessInit /\ TeamInit /\ DeskInit /\ ProfilesInit

ConsoleNext ==
    /\ UNCHANGED part
    /\ \/ /\ part = "outbox" /\ Next
          /\ UNCHANGED <<kbVars, accessVars, teamVars, deskVars, profileVars>>
       \/ /\ part = "knowledge" /\ KbNext
          /\ UNCHANGED <<vars, accessVars, teamVars, deskVars, profileVars>>
       \/ /\ part = "access" /\ AccessNext
          /\ UNCHANGED <<vars, kbVars, teamVars, deskVars, profileVars>>
       \/ /\ part = "teams" /\ TeamNext
          /\ UNCHANGED <<vars, kbVars, accessVars, deskVars, profileVars>>
       \/ /\ part = "desk" /\ DeskNext
          /\ UNCHANGED <<vars, kbVars, accessVars, teamVars, profileVars>>
       \/ /\ part = "profiles" /\ ProfilesNext
          /\ UNCHANGED <<vars, kbVars, accessVars, teamVars, deskVars>>

(* What a turn or an upload has begun it goes on with.                     *)
KbStep(t) ==
    \/ TurnChecks(t) \/ TurnClears(t) \/ TurnFills(t) \/ TurnFillsInPart(t)
    \/ TurnCommits(t) \/ EditCommits(t) \/ ReembedFlushes(t) \/ ReembedCommits(t)

(* Customers keep writing; the runners of the outbox keep running and      *)
(* claims run out with the clock.                                          *)
ConsoleFairness ==
    /\ \A t \in KbTasks : WF_kbVars(part = "knowledge" /\ KbStep(t))
    /\ \A w \in Workers : WF_vars(part = "outbox" /\ RunnerStep(w))
    /\ \A r \in 1..MaxRows :
           WF_vars(part = "outbox" /\ r \in DOMAIN rows /\ LockExpires(r))

ConsoleSpec == ConsoleInit /\ [][ConsoleNext]_consoles /\ ConsoleFairness

ConsoleTypeOK ==
    TypeOK /\ KbTypeOK /\ AccessTypeOK /\ TeamTypeOK /\ DeskTypeOK /\ ProfilesTypeOK
=============================================================================
