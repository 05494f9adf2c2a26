------------------------------- MODULE Routing ------------------------------
(***************************************************************************)
(* Which business a customer's message is for: the resolution at the head  *)
(* of a turn (channels/base.py), the lookups of services/business_service, *)
(* the customer's threads (services/conversation_service.py), the /biz,    *)
(* /reset and /help commands, and the businesses as operators change them  *)
(* (api/admin.py, api/admin_console.py).                                   *)
(*                                                                         *)
(* One customer, whose turns follow each other: a turn is a step, and what *)
(* it writes it writes at its end.  A message comes over WhatsApp, which   *)
(* knows the number it was sent to and has looked its business up before   *)
(* the turn, over the portal, which names a business, or over a channel    *)
(* that says nothing (Twilio, voice).  One number is configured.           *)
(***************************************************************************)
EXTENDS Integers, Sequences, FiniteSets, SequencesExt

CONSTANTS
    Businesses,       \* slugs, Hazina's among them
    Hazina,           \* the tenant whose catalog is in the code
    HazinaClaims,     \* settings: hazina_claims_meta_phone
    DefaultSlug,      \* settings: default_business_slug, or Nowhere
    Nowhere,          \* no business
    MaxMessages,      \* BOUND: messages of the customer
    MaxChanges        \* BOUND: what operators and staff do

ASSUME RoutingAssumption ==
    /\ IsFiniteSet(Businesses) /\ Hazina \in Businesses /\ Nowhere \notin Businesses
    /\ HazinaClaims \in BOOLEAN
    /\ DefaultSlug \in Businesses \cup {Nowhere}
    /\ MaxMessages \in Nat /\ MaxChanges \in Nat

VARIABLES
    company,    \* the businesses that exist, oldest first
    active,     \* those whose row says active
    number,     \* the one that has the configured number, or Nowhere
    threads,    \* the customer's active threads, the last used at the end
    heard,      \* history: the text of the last message and its business
    switched,   \* history: the business the customer has switched to
    messages, changes

routeVars == <<company, active, number, threads, heard, switched, messages, changes>>

Channels == {"whatsapp", "portal", "plain"}

\* A chat may mention what only Hazina sells (looks_like_hazina_tenant_hint).
Chats == [text : {"chat", "hint", "reset", "help"}] \cup
            [text : {"biz"}, to : Businesses \cup {Nowhere}]

RouteInit ==
    /\ company \in {<<>>, SetToSeq(Businesses)}
    /\ active = ToSet(company)
    /\ number \in ToSet(company) \cup {Nowhere}
    /\ threads = <<>>
    /\ heard = [text |-> "none", to |-> Nowhere]
    /\ switched = Nowhere
    /\ messages = 0 /\ changes = 0

Exists(b) == b \in ToSet(company)

-----------------------------------------------------------------------------
(* Lookups.  [to, repairs]: what was found, and whether the lookup has run *)
(* ensure_hazina_business.                                                 *)

Found(b)  == [to |-> b, repairs |-> FALSE]
Repaired  == [to |-> Hazina, repairs |-> TRUE]

BySlug(b)  == Found(IF Exists(b) /\ b \in active THEN b ELSE Nowhere)

OldestActive ==
    LET on == {n \in DOMAIN company : company[n] \in active}
    IN  IF on = {} THEN Nowhere ELSE company[Min(on)]

(* get_default_business.                                                   *)
Default ==
    IF DefaultSlug # Nowhere /\ Exists(DefaultSlug) /\ DefaultSlug \in active
      THEN Found(DefaultSlug)
    ELSE IF DefaultSlug = Hazina THEN Repaired
    ELSE Found(OldestActive)

(* get_business_by_wa_phone_id, then the default.                          *)
ByNumber ==
    IF HazinaClaims \/ DefaultSlug = Hazina THEN Repaired
    ELSE IF number # Nowhere /\ number \in active THEN Found(number)
    ELSE Default

-----------------------------------------------------------------------------
(* The customer's threads.                                                 *)

\* A thread without a business counts too.
LastThread == IF threads = <<>> THEN Nowhere ELSE Last(threads)

(* get_active_business_id.                                                 *)
ActiveBusiness ==
    LET known == {n \in DOMAIN threads : threads[n] # Nowhere}
    IN  IF known = {} THEN Nowhere ELSE threads[Max(known)]

(* The other threads; each business has one active thread at most.         *)
Others(b) ==
    IF b \in ToSet(threads)
    THEN RemoveAt(threads, CHOOSE n \in DOMAIN threads : threads[n] = b)
    ELSE threads

(* get_or_open_conversation and append_message.                            *)
Used(b) == Append(Others(b), b)

(* close_active_conversations of all businesses but b (SQL's <>, so that a *)
(* thread without a business stays), and b's is used.                      *)
SwitchedTo(b) == IF Nowhere \in ToSet(threads) THEN <<Nowhere, b>> ELSE <<b>>

-----------------------------------------------------------------------------
(* The turn.                                                               *)

(* What the channel says; a slug that names nothing ends the turn.         *)
Told(channel, slug) ==
    CASE channel = "whatsapp" -> ByNumber
      [] channel = "portal"   -> IF slug = Hazina THEN Repaired ELSE BySlug(slug)
      [] channel = "plain"    -> Found(Nowhere)

(* A turn that names its business skips both what Hazina's words and what  *)
(* a Hazina thread would override: over WhatsApp the caller always names   *)
(* it, when it has found one.                                              *)
Named(channel, told) == channel = "portal" \/ (channel = "whatsapp" /\ told.to # Nowhere)

(* The command that switches to Hazina mentions it as well.                *)
Mentions(message) ==
    \/ message.text = "hint"
    \/ message.text = "biz" /\ message.to = Hazina

Resolved(channel, slug, message) ==
    LET told  == Told(channel, slug)
        hint  == Mentions(message) /\ ~Named(channel, told)
        late  == IF told.to = Nowhere /\ ~hint /\ ActiveBusiness = Nowhere
                 THEN Default ELSE Found(Nowhere)
    IN  [to |-> IF hint THEN Hazina
                ELSE IF told.to # Nowhere THEN told.to
                ELSE IF ActiveBusiness # Nowhere THEN ActiveBusiness
                ELSE late.to,
         repairs |-> told.repairs \/ hint \/ late.repairs]

(* ensure_hazina_business: the tenant is there, active and has the number. *)
Repairs(resolved) ==
    IF resolved.repairs
    THEN /\ company' = IF Exists(Hazina) THEN company ELSE Append(company, Hazina)
         /\ active' = active \cup {Hazina}
         /\ number' = Hazina
    ELSE UNCHANGED <<company, active, number>>

Hears(message, b) ==
    /\ messages < MaxMessages /\ messages' = messages + 1
    /\ heard' = [text |-> message.text, to |-> b]
    /\ UNCHANGED changes

UnknownSlug(slug) ==
    /\ Told("portal", slug).to = Nowhere
    /\ Hears([text |-> "refused"], Nowhere)
    /\ UNCHANGED <<company, active, number, threads, switched>>

Turn(channel, slug, message) ==
    LET resolved == Resolved(channel, slug, message)
        after    == active \cup (IF resolved.repairs THEN {Hazina} ELSE {})
        to       == resolved.to
    IN  /\ channel = "portal" => Told(channel, slug).to # Nowhere
        /\ Hears(message, to)
        /\ Repairs(resolved)
        /\ \/ /\ message.text \in {"chat", "hint"}
              /\ threads' = Used(to)
              /\ switched' = IF channel = "plain" /\ message.text = "chat"
                             THEN switched ELSE Nowhere
           \/ /\ message.text = "help"
              /\ threads' = Used(Nowhere)
              /\ UNCHANGED switched
           \/ /\ message.text = "reset"
              /\ threads' = <<Nowhere>>
              /\ switched' = Nowhere
           \/ /\ message.text = "biz" /\ message.to \in after
              /\ threads' = SwitchedTo(message.to)
              /\ switched' = message.to
           \/ /\ message.text = "biz" /\ message.to \notin after
              /\ threads' = Used(Nowhere)
              /\ UNCHANGED switched

-----------------------------------------------------------------------------
(* Operators and staff.                                                    *)

Changes == changes < MaxChanges /\ changes' = changes + 1

(* POST /businesses of either API; the number must be free.                *)
CreateBusiness(b, on, claims) ==
    /\ ~Exists(b)
    /\ claims => number = Nowhere
    /\ Changes
    /\ company' = Append(company, b)
    /\ active' = IF on THEN active \cup {b} ELSE active
    /\ number' = IF claims THEN b ELSE number
    /\ UNCHANGED <<threads, heard, switched, messages>>

SetActive(b, on) ==
    /\ Exists(b) /\ on # (b \in active)
    /\ Changes
    /\ active' = IF on THEN active \cup {b} ELSE active \ {b}
    /\ UNCHANGED <<company, number, threads, heard, switched, messages>>

SetNumber(b, claims) ==
    /\ Exists(b) /\ claims # (number = b)
    /\ claims => number = Nowhere
    /\ Changes
    /\ number' = IF claims THEN b ELSE Nowhere
    /\ UNCHANGED <<company, active, threads, heard, switched, messages>>

(* A thread that is escalated or resolved is not found again.              *)
CloseThread(b) ==
    /\ b \in ToSet(threads)
    /\ Changes
    /\ threads' = Others(b)
    /\ switched' = IF switched = b THEN Nowhere ELSE switched
    /\ UNCHANGED <<company, active, number, heard, messages>>

RouteNext ==
    \/ \E channel \in Channels, slug \in Businesses, message \in Chats :
          Turn(channel, slug, message)
    \/ \E slug \in Businesses : UnknownSlug(slug)
    \/ \E b \in Businesses, on \in BOOLEAN :
          \/ SetActive(b, on) \/ SetNumber(b, on)
          \/ \E claims \in BOOLEAN : CreateBusiness(b, on, claims)
    \/ \E b \in Businesses \cup {Nowhere} : CloseThread(b)

RouteSpec == RouteInit /\ [][RouteNext]_routeVars

-----------------------------------------------------------------------------
RouteTypeOK ==
    /\ ToSet(company) \subseteq Businesses /\ IsInjective(company)
    /\ active \subseteq ToSet(company)
    /\ number \in ToSet(company) \cup {Nowhere}
    /\ ToSet(threads) \subseteq Businesses \cup {Nowhere} /\ IsInjective(threads)
    /\ switched \in Businesses \cup {Nowhere}
    /\ messages \in 0..MaxMessages /\ changes \in 0..MaxChanges

(* A customer who has switched with /biz keeps talking to that business,   *)
(* through deactivations, new businesses and numbers that move, until he   *)
(* resets, switches again, writes over a channel with a business of its    *)
(* own or mentions Hazina (slash_commands.py:4, "for the rest of this      *)
(* conversation"; over WhatsApp itself the number decides).                *)
SwitchSticks ==
    switched # Nowhere /\ heard.text = "chat" => heard.to = switched
=============================================================================
