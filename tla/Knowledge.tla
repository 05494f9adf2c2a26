----------------------------- MODULE Knowledge -----------------------------
(***************************************************************************)
(* The knowledge base of the tenant whose catalog is in the code: the      *)
(* table knowledge_base as turns repair it (services/hazina_kb.py, called  *)
(* by services/business_service.py) and as staff edit it in the console    *)
(* (api/admin_console.py, api/admin.py), with ai/rag.py's ingest_text.     *)
(*                                                                         *)
(* Every inbound message of the tenant counts the rows that begin with     *)
(* "TREASURE:", whatever their source, and the rows of source "catalog",   *)
(* whatever they say; the code's catalog has seven rows without that       *)
(* prefix.  When either count is short, it deletes all rows and embeds the *)
(* catalog and then the policies again, in the transaction of the turn.    *)
(* Staff may write any text under any source.  The count kept in the       *)
(* profile to skip all this never reaches the row: the dict that gets it   *)
(* is the one the ORM compares it with.  When embedding fails              *)
(* the exception is logged and the turn goes on, and commits.  Statements  *)
(* are those of PostgreSQL at READ COMMITTED: a statement sees what was    *)
(* committed when it began, and waits for a row another transaction has    *)
(* changed.  One batch of kb_reembed holds the whole tenant.               *)
(***************************************************************************)
EXTENDS Integers, FiniteSets

CONSTANTS
    KbTasks,      \* turns and console requests under way
    NTreasures,   \* rows of the code's catalog that begin with "TREASURE:"
    NPlain,       \* the other rows of the code's catalog
    NPolicies,    \* rows of the code's policies
    MaxKbRows,    \* BOUND: rows of the table at a time
    MaxKbActs,    \* BOUND: what staff do
    MaxKbFaults   \* BOUND: failed embeddings and turns

ASSUME KnowledgeAssumption ==
    /\ NTreasures \in Nat \ {0} /\ NPlain \in Nat /\ NPolicies \in Nat \ {0}
    /\ MaxKbRows \in Nat /\ MaxKbActs \in Nat /\ MaxKbFaults \in Nat

VARIABLES
    kb,           \* the committed rows
    kbTask,       \* what each turn or request has read and changed
    mixed,        \* history: rows edited between a re-embedding's read and write
    doubled,      \* history: two turns repaired the table at the same time
    kbActs, kbFaults

kbVars == <<kb, kbTask, mixed, doubled, kbActs, kbFaults>>

NCatalog == NTreasures + NPlain

Ids     == 1..MaxKbRows
Sources == {"catalog", "policies", "manual"}

\* content: the code's own of three kinds, or what staff wrote, beginning with
\* "TREASURE:" or not.  vec is the content that was embedded.  History: by, who
\* inserted the row.
OwnTexts   == {"treasure", "plain", "policy"}
StaffTexts == {"listed", "loose"}
StaffSources == {"catalog", "manual"}   \* "manual" for any other
Texts      == OwnTexts \cup StaffTexts

KbRow   == [source : Sources, text : Texts, vec : Texts, by : {"code", "staff"}]
NoKbRow == [source |-> "none"]

NewRow(source, text, by) == [source |-> source, text |-> text, vec |-> text, by |-> by]

Present      == {i \in Ids : kb[i] # NoKbRow}
Of(source)   == {i \in Present : kb[i].source = source}
Treasures    == {i \in Present : kb[i].text \in {"treasure", "listed"}}

Busy == [stage : {"clearing", "filling", "filled", "editing", "embedding", "flushed"},
         ids : SUBSET Ids, made : SUBSET Sources,
         text : StaffTexts \cup {"kept"}, source : StaffSources \cup {"kept"},
         texts : [Ids -> Texts]]
Rest == [stage |-> "rest"]

Doing(stage, ids) == [stage |-> stage, ids |-> ids, made |-> {},
                   text |-> "kept", source |-> "kept",
                   texts |-> [i \in Ids |-> "plain"]]

\* The rows t has changed and not committed.
HeldBy(t) ==
    IF kbTask[t].stage \in {"filling", "filled", "flushed"} THEN kbTask[t].ids ELSE {}

Free(t, ids) == \A u \in KbTasks \ {t} : HeldBy(u) \cap ids = {}

\* The free places are filled from below: the catalog first.
Inserted(made, from) ==
    LET room    == {i \in Ids : from[i] = NoKbRow}
        rank(i) == Cardinality({j \in room : j <= i})
        first   == IF "catalog" \in made THEN NCatalog ELSE 0
        count   == first + (IF "policies" \in made THEN NPolicies ELSE 0)
    IN  [i \in Ids |->
            CASE i \notin room \/ rank(i) > count -> from[i]
              [] i \in room /\ rank(i) <= count /\ rank(i) > first ->
                    NewRow("policies", "policy", "code")
              [] i \in room /\ rank(i) <= count /\ rank(i) <= first ->
                    NewRow("catalog", IF rank(i) <= NPlain THEN "plain" ELSE "treasure", "code")]

EmptyTable == [i \in Ids |-> NoKbRow]

(* A new database, or one that has been synced.                            *)
KbInit ==
    /\ kb \in {EmptyTable, Inserted({"catalog", "policies"}, EmptyTable)}
    /\ kbTask = [t \in KbTasks |-> Rest]
    /\ mixed = {} /\ doubled = FALSE
    /\ kbActs = 0 /\ kbFaults = 0

KbFault == kbFaults < MaxKbFaults /\ kbFaults' = kbFaults + 1
KbAct   == kbActs < MaxKbActs /\ kbActs' = kbActs + 1

Becomes(t, value) == kbTask' = [kbTask EXCEPT ![t] = value]

-----------------------------------------------------------------------------
(* A turn of the tenant (sync_hazina_knowledge_base).                      *)

\* An empty table is the only one that needs repair.
EmptyNeedsSync == Of("catalog") = {}

(* hazina_kb_needs_sync: the treasures by their prefix, the catalog by its *)
(* source, and not the policies.                                           *)
NeedsSync == Cardinality(Treasures) < NTreasures \/ Cardinality(Of("catalog")) < NCatalog

TurnChecks(t) ==
    /\ kbTask[t] = Rest
    /\ NeedsSync
    /\ Becomes(t, Doing("clearing", Present))
    /\ doubled' = (doubled \/ \E u \in KbTasks :
                      kbTask[u].stage \in {"clearing", "filling", "filled"})
    /\ UNCHANGED <<kb, mixed, kbActs, kbFaults>>

(* The DELETE of the rows that were there when it began.                   *)
TurnClears(t) ==
    /\ kbTask[t].stage = "clearing"
    /\ Free(t, kbTask[t].ids)
    /\ Becomes(t, Doing("filling", kbTask[t].ids \cap Present))
    /\ UNCHANGED <<kb, mixed, doubled, kbActs, kbFaults>>

Filled(t, made) == [kbTask[t] EXCEPT !.stage = "filled", !.made = made]

TurnFills(t) ==
    /\ kbTask[t].stage = "filling"
    /\ Becomes(t, Filled(t, {"catalog", "policies"}))
    /\ UNCHANGED <<kb, mixed, doubled, kbActs, kbFaults>>

(* The embedder fails, at once or after the catalog: ensure_hazina_business*)
(* logs it.                                                                *)
TurnFillsInPart(t) ==
    /\ kbTask[t].stage = "filling"
    /\ KbFault
    /\ \E made \in {{}, {"catalog"}} : Becomes(t, Filled(t, made))
    /\ UNCHANGED <<kb, mixed, doubled, kbActs>>

TurnCommits(t) ==
    /\ kbTask[t].stage = "filled"
    /\ LET left == [i \in Ids |-> IF i \in kbTask[t].ids THEN NoKbRow ELSE kb[i]]
       IN  kb' = Inserted(kbTask[t].made, left)
    /\ mixed' = mixed \ kbTask[t].ids
    /\ Becomes(t, Rest)
    /\ UNCHANGED <<doubled, kbActs, kbFaults>>

(* Something later in the turn raises.                                     *)
TurnRollsBack(t) ==
    /\ kbTask[t].stage \in {"clearing", "filling", "filled"}
    /\ KbFault
    /\ Becomes(t, Rest)
    /\ UNCHANGED <<kb, mixed, doubled, kbActs>>

-----------------------------------------------------------------------------
(* The console.                                                            *)

(* kb_item_edit: another content, another source, or both.                 *)
EditLoads(t, i, text, source) ==
    /\ kbTask[t] = Rest
    /\ i \in Present /\ text # kb[i].text /\ source # kb[i].source
    /\ text # "kept" \/ source # "kept"
    /\ KbAct
    /\ Becomes(t, [Doing("editing", {i}) EXCEPT !.text = text, !.source = source])
    /\ UNCHANGED <<kb, mixed, doubled, kbFaults>>

\* The content is written and not embedded again.
EditedOnly(row, text) == IF text = "kept" THEN row ELSE [row EXCEPT !.text = text]

Edited(row, text) == IF text = "kept" THEN row ELSE [row EXCEPT !.text = text, !.vec = text]

Labelled(row, source) == IF source = "kept" THEN row ELSE [row EXCEPT !.source = source]

(* A row that is gone by now makes the UPDATE fail.                        *)
EditCommits(t) ==
    LET job == kbTask[t] IN
    /\ job.stage = "editing"
    /\ Free(t, job.ids)
    /\ kb' = [i \in Ids |-> IF i \in job.ids \cap Present
                            THEN Labelled(Edited(kb[i], job.text), job.source) ELSE kb[i]]
    /\ mixed' = IF job.text = "kept" THEN mixed ELSE mixed \ job.ids
    /\ Becomes(t, Rest)
    /\ UNCHANGED <<doubled, kbActs, kbFaults>>

EmbeddingFails(t) ==
    /\ kbTask[t].stage \in {"editing", "embedding"}
    /\ KbFault
    /\ Becomes(t, Rest)
    /\ UNCHANGED <<kb, mixed, doubled, kbActs>>

ReembedLoads(t) ==
    /\ kbTask[t] = Rest
    /\ Present # {}
    /\ KbAct
    /\ Becomes(t, [Doing("embedding", Present) EXCEPT !.texts =
                      [i \in Ids |-> IF i \in Present THEN kb[i].text ELSE "plain"]])
    /\ UNCHANGED <<kb, mixed, doubled, kbFaults>>

ReembedFlushes(t) ==
    /\ kbTask[t].stage = "embedding"
    /\ Free(t, kbTask[t].ids)
    /\ IF kbTask[t].ids \subseteq Present
       THEN Becomes(t, [kbTask[t] EXCEPT !.stage = "flushed"])
       ELSE Becomes(t, Rest)
    /\ UNCHANGED <<kb, mixed, doubled, kbActs, kbFaults>>

(* Only the embedding is dirty, and only the embedding is written.         *)
ReembedCommits(t) ==
    /\ kbTask[t].stage = "flushed"
    /\ LET job == kbTask[t]
       IN  /\ kb' = [i \in Ids |-> IF i \in job.ids
                        THEN [kb[i] EXCEPT !.vec = job.texts[i]] ELSE kb[i]]
           /\ mixed' = (mixed \ job.ids)
                          \cup {i \in job.ids : kb[i].text # job.texts[i]}
    /\ Becomes(t, Rest)
    /\ UNCHANGED <<doubled, kbActs, kbFaults>>

(* kb_add_items: any source.                                               *)
AddItem(source, text) ==
    /\ KbAct
    /\ \E i \in Ids \ Present :
          /\ 1..(i - 1) \subseteq Present
          /\ kb' = [kb EXCEPT ![i] = NewRow(source, text, "staff")]
    /\ UNCHANGED <<kbTask, mixed, doubled, kbFaults>>

Removes(ids) ==
    /\ ids # {}
    /\ \A t \in KbTasks : HeldBy(t) \cap ids = {}
    /\ KbAct
    /\ kb' = [i \in Ids |-> IF i \in ids THEN NoKbRow ELSE kb[i]]
    /\ mixed' = mixed \ ids
    /\ UNCHANGED <<kbTask, doubled, kbFaults>>

DeleteItem(i) == i \in Present /\ Removes({i})
Wipe          == Removes(Present)

-----------------------------------------------------------------------------
KbNext ==
    \/ \E t \in KbTasks :
          \/ TurnChecks(t) \/ TurnClears(t) \/ TurnFills(t) \/ TurnFillsInPart(t)
          \/ TurnCommits(t) \/ TurnRollsBack(t)
          \/ \E i \in Ids, text \in StaffTexts \cup {"kept"}, source \in StaffSources \cup {"kept"} :
                EditLoads(t, i, text, source)
          \/ EditCommits(t) \/ EmbeddingFails(t)
          \/ ReembedLoads(t) \/ ReembedFlushes(t) \/ ReembedCommits(t)
    \/ \E source \in StaffSources, text \in StaffTexts : AddItem(source, text)
    \/ Wipe
    \/ \E i \in Ids : DeleteItem(i)

(* Customers keep writing, and what has begun goes on.                     *)
KbFairness ==
    \A t \in KbTasks :
        /\ WF_kbVars(TurnChecks(t))
        /\ WF_kbVars(TurnClears(t))
        /\ WF_kbVars(TurnFills(t) \/ TurnFillsInPart(t))
        /\ WF_kbVars(TurnCommits(t))
        /\ WF_kbVars(EditCommits(t))
        /\ WF_kbVars(ReembedFlushes(t))
        /\ WF_kbVars(ReembedCommits(t))

KbSpec == KbInit /\ [][KbNext]_kbVars /\ KbFairness

-----------------------------------------------------------------------------
KbTypeOK ==
    /\ kb \in [Ids -> KbRow \cup {NoKbRow}]
    /\ kbTask \in [KbTasks -> Busy \cup {Rest}]
    /\ mixed \subseteq Ids
    /\ doubled \in BOOLEAN
    /\ kbActs \in 0..MaxKbActs /\ kbFaults \in 0..MaxKbFaults

(* Retrieval ranks rows by their embedding and answers with their content: *)
(* the two belong together, through edits, re-embedding and repair, unless *)
(* a row was edited while a re-embedding that had read it was under way    *)
(* (kb_item_edit, kb_reembed).  And the repair does not pile up: what the  *)
(* code inserted is in the table once, under whatever source and beside    *)
(* whatever staff added, unless two turns repaired it side by side, for    *)
(* each deletes what it saw (sync_hazina_knowledge_base).                  *)
KbIsSound ==
    /\ \A i \in Present : kb[i].vec # kb[i].text => i \in mixed
    /\ Cardinality({i \in Present : kb[i].by = "code"}) > NCatalog + NPolicies => doubled

(* Whatever staff delete, rewrite or relabel and whichever repair fails    *)
(* half way, in the end there are as many treasures and as many catalog    *)
(* rows again as the code has, as long as customers write ("when the KB is *)
(* missing or stale", hazina_kb.py:62).  A row of staff counts like one of *)
(* the code's: that is all that is looked at.                              *)
CatalogReturns ==
    []<>(/\ Cardinality({i \in Present : kb[i].text \in {"treasure", "listed"}}) >= NTreasures
         /\ Cardinality({i \in Present : kb[i].source = "catalog"}) >= NTreasures + NPlain)
=============================================================================
