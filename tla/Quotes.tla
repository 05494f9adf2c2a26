------------------------------- MODULE Quotes -------------------------------
(***************************************************************************)
(* The prices customers are quoted: the menu rows of the knowledge base    *)
(* behind two caches of each API process (ai/rag.py), the replies built    *)
(* from them without a model (ai/quick_replies.py) and the check of the    *)
(* prices a model names (ai/safety.py, channels/base.py).                  *)
(*                                                                         *)
(* Both caches hold what a query returned for 60 seconds, counted from     *)
(* before the query; a query waits, and so several turns read and store    *)
(* the same entry.  The menu's cache drops its oldest entry when full.     *)
(***************************************************************************)
EXTENDS Integers, Sequences, FiniteSets, SequencesExt

CONSTANTS
    Shops,         \* businesses
    Dishes,        \* the rows a menu may list, in the order of 1, 2, ...
    Category,      \* of each item
    Prices,
    OpeningMenu,   \* the menus at first; 0: not listed
    QuoteTurns,    \* turns under way in one process
    Questions,     \* BOUND: what customers ask, of which shop
    Drafts,        \* BOUND: [shop, says, named]: prices a model names, and customers do
    DemoPrice,     \* the 10 shillings a demo espresso is quoted at
    QuoteTtl,      \* the 60 seconds
    QueryTime,     \* EXTERNAL: the longest a query takes
    MenuKeep,      \* entries of the menu's cache (128)
    MaxQuoteTime,  \* BOUND: the clock
    Repricings,    \* BOUND: <<shop, item, price>>: the edits of staff considered
    MaxPriceEdits, \* BOUND: edits of the menus
    MaxQuestions   \* BOUND: messages of customers

(* What a question hits in the text of the rows: for a price, the rows it  *)
(* resembles, the most alike first; for a recommendation, those that share *)
(* a word with it.                                                         *)
ASSUME QuotesAssumption ==
    /\ Dishes \subseteq Nat \ {0} /\ DemoPrice \in Nat \ {0}
    /\ Prices \subseteq Nat \ {0}
    /\ OpeningMenu \in [Shops -> [Dishes -> Prices \cup {0}]]
    /\ \A ask \in Questions :
          /\ ask.shop \in Shops
          /\ ask.kind \in {"price", "demo", "available", "full", "category", "recommend"}
          /\ ask.kind = "price" => ask.resembles \in Seq(Dishes)
    /\ \A draft \in Drafts : draft.shop \in Shops /\ draft.says \subseteq Prices
    /\ Repricings \subseteq Shops \X Dishes \X (Prices \cup {0})
    /\ QuoteTtl \in Nat \ {0} /\ QueryTime \in 0..(QuoteTtl - 1)
    /\ MenuKeep \in Nat \ {0}
    /\ MaxQuoteTime \in Nat /\ MaxPriceEdits \in Nat /\ MaxQuestions \in Nat

VARIABLES
    menu,        \* the knowledge base: the price of each item
    gone,        \* history: when a price was last taken off an item
    since,       \* history: when an item got its price
    menuCache,   \* the least recently used entry first
    priceCache,  \* per shop
    quoting,     \* per turn, what it waits for
    said,        \* the reply that has just gone out
    quoteClock, priceEdits, questions

quoteVars == <<menu, gone, since, menuCache, priceCache, quoting, said,
               quoteClock, priceEdits, questions>>

Never   == -1 - QuoteTtl
Silence == [by |-> "nobody"]
NoTurn  == [stage |-> "idle"]
Uncached == [until |-> Never, prices |-> {}]

QuoteInit ==
    /\ menu = OpeningMenu
    /\ gone = [s \in Shops |-> [i \in Dishes |-> [p \in Prices |-> Never]]]
    /\ since = [s \in Shops |-> [i \in Dishes |-> Never]]
    /\ menuCache = <<>>
    /\ priceCache = [s \in Shops |-> Uncached]
    /\ quoting = [t \in QuoteTurns |-> NoTurn]
    /\ said = Silence
    /\ quoteClock = 0 /\ priceEdits = 0 /\ questions = 0

-----------------------------------------------------------------------------
(* Replies without a model (maybe_build_quick_reply): what is asked, and   *)
(* the items of the rows that the reply names with their price.            *)

Listed(rows)    == {i \in Dishes : rows[i] # 0}
InCategory(c, rows)     == {i \in Listed(rows) : Category[i] = c}

\* Of two rows at the same price, the one listed first.
Cheaper(j, i, rows) == rows[j] < rows[i] \/ (rows[j] = rows[i] /\ j < i)

(* The first n, those that share a word before the others.                 *)
Foremost(n, items, words, rows) ==
    {i \in items :
        Cardinality({j \in items : \/ j \in words /\ i \notin words
                                   \/ (j \in words <=> i \in words) /\ Cheaper(j, i, rows)}) < n}

Cheapest(n, items, rows) == Foremost(n, items, {}, rows)

Fits(i, rows, budget) == budget = 0 \/ rows[i] <= budget

(* What is over the budget goes, unless nothing is within.                 *)
Fitting(items, rows, budget) ==
    IF \E i \in items : Fits(i, rows, budget)
    THEN {i \in items : Fits(i, rows, budget)} ELSE items

(* recommendation_reply_from_chunks.  A category that is listed narrows    *)
(* the choice; out of budget altogether, only it still gives three.  A     *)
(* single pick is joined by others when a category was asked for.          *)
Recommended(ask, rows) ==
    LET hinted == InCategory(ask.category, rows)
        among  == IF hinted # {} THEN hinted ELSE Listed(rows)
        room   == IF hinted = {} /\ \A i \in among : ~Fits(i, rows, ask.budget)
                  THEN 1 ELSE 3
        chosen == Foremost(room, Fitting(among, rows, ask.budget), ask.words, rows)
        others == Fitting(Listed(rows), rows, ask.budget) \ chosen
    IN  IF ask.category # "any" /\ Cardinality(chosen) < 2
        THEN chosen \cup Cheapest(3 - Cardinality(chosen), others, rows)
        ELSE chosen

(* price_reply_from_chunks: the row most like the question, of those that  *)
(* are listed.  The reply gives its price after the customer's own words.  *)
MostAlike(ask, rows) ==
    {ask.resembles[n] : n \in {n \in DOMAIN ask.resembles :
        /\ ask.resembles[n] \in Listed(rows)
        /\ \A m \in DOMAIN ask.resembles : m < n => ask.resembles[m] \notin Listed(rows)}}

(* A category that is not listed gives a list of categories, or the only   *)
(* one there is; several categories are listed without prices.             *)
CategoryShown(ask, rows) ==
    IF InCategory(ask.category, rows) # {} THEN InCategory(ask.category, rows)
    ELSE IF Cardinality({Category[i] : i \in Listed(rows)}) = 1 THEN Listed(rows)
    ELSE {}

(* price_reply_, availability_reply_, full_menu_reply_, category_menu_     *)
(* reply_from_chunks.                                                      *)
ItemsNamed(ask, rows) ==
    CASE ask.kind = "price"     -> MostAlike(ask, rows)
      [] ask.kind = "demo"      -> {}
      [] ask.kind = "available" -> Cheapest(3, InCategory(ask.category, rows), rows)
      [] ask.kind = "full"      -> Listed(rows)
      [] ask.kind = "category"  -> CategoryShown(ask, rows)
      [] ask.kind = "recommend" -> Recommended(ask, rows)

\* A row and its price; 0 is no row.
Quoted(ask, rows) ==
    {<<i, rows[i]>> : i \in ItemsNamed(ask, rows)}
        \cup (IF ask.kind = "demo" THEN {<<0, DemoPrice>>} ELSE {})

(* There is something to reply: a list of categories needs no price.       *)
HasReply(ask, rows) ==
    IF ask.kind = "category" THEN Listed(rows) # {} ELSE Quoted(ask, rows) # {}

RepliesWith(ask, rows) ==
    said' = [by |-> "menu", ask |-> ask, rows |-> rows,
             quotes |-> Quoted(ask, rows)]

-----------------------------------------------------------------------------
(* The menu (fetch_menu_chunks).                                           *)

\* The number of rows asked for is part of the key.
KeyOf(ask) == <<ask.shop, IF ask.kind \in {"full", "category"} THEN 8 ELSE 10>>

CachedAt(key)  == {n \in DOMAIN menuCache : menuCache[n].key = key}
\* One entry at most has the key.
At(key)        == CHOOSE n \in CachedAt(key) : TRUE
Entry(key)     == menuCache[At(key)]
Without(key)   == IF CachedAt(key) = {} THEN menuCache ELSE RemoveAt(menuCache, At(key))
InTime(key)    == CachedAt(key) # {} /\ Entry(key).until > quoteClock

Kept(cache)    == SubSeq(cache, IF Len(cache) > MenuKeep THEN Len(cache) - MenuKeep + 1
                                ELSE 1, Len(cache))

Waits(t, stage, ask, rows) ==
    quoting' = [quoting EXCEPT ![t] = [stage |-> stage, ask |-> ask,
                                       began |-> quoteClock, rows |-> rows]]

NewQuestion == questions < MaxQuestions /\ questions' = questions + 1

NoRows == [i \in Dishes |-> 0]

(* A hit is answered at once when it gives a reply; otherwise the search   *)
(* by embedding is asked (retrieve), which is not cached.                  *)
AskFromCache(t, ask) ==
    LET key == KeyOf(ask)
        hit == Entry(key)
    IN  /\ NewQuestion /\ quoting[t] = NoTurn
        /\ InTime(key)
        /\ menuCache' = Append(Without(key), hit)
        /\ IF HasReply(ask, hit.rows)
           THEN RepliesWith(ask, hit.rows) /\ UNCHANGED quoting
           ELSE Waits(t, "search", ask, NoRows) /\ said' = Silence
        /\ UNCHANGED <<menu, gone, since, priceCache, quoteClock, priceEdits>>

AskAfresh(t, ask) ==
    LET key == KeyOf(ask)
    IN  /\ NewQuestion /\ quoting[t] = NoTurn
        /\ ~InTime(key)
        /\ menuCache' = Without(key)
        /\ Waits(t, "menu", ask, NoRows)
        /\ said' = Silence
        /\ UNCHANGED <<menu, gone, since, priceCache, quoteClock, priceEdits>>

(* The statement reads the rows, or fails: then there are none.            *)
QueryReads(t) ==
    /\ quoting[t].stage \in {"menu", "search"}
    /\ quoting' = [quoting EXCEPT
                      ![t].stage = IF quoting[t].stage = "menu" THEN "menuRead" ELSE "searched",
                      ![t].rows = menu[quoting[t].ask.shop]]
    /\ said' = Silence
    /\ UNCHANGED <<menu, gone, since, menuCache, priceCache, quoteClock, priceEdits, questions>>

QueryFails(t) ==
    LET w == quoting[t]
    IN  /\ w.stage \in {"menu", "search"}
        /\ IF w.stage = "menu" /\ ~HasReply(w.ask, NoRows)
           THEN quoting' = [quoting EXCEPT ![t].stage = "search"] /\ said' = Silence
           ELSE /\ quoting' = [quoting EXCEPT ![t] = NoTurn]
                /\ IF w.stage = "menu" THEN RepliesWith(w.ask, NoRows) ELSE said' = Silence
        /\ UNCHANGED <<menu, gone, since, menuCache, priceCache, quoteClock, priceEdits, questions>>

\* Counted from the answer.
UntilFromNow(t) == quoteClock + QuoteTtl

(* Counted from before the query.                                          *)
Until(t) == quoting[t].began + QuoteTtl

MenuStores(t) ==
    LET w   == quoting[t]
        key == KeyOf(w.ask)
    IN  /\ w.stage = "menuRead"
        /\ menuCache' = Kept(Append(Without(key),
                                    [key |-> key, until |-> Until(t), rows |-> w.rows]))
        /\ IF HasReply(w.ask, w.rows)
           THEN RepliesWith(w.ask, w.rows) /\ quoting' = [quoting EXCEPT ![t] = NoTurn]
           ELSE Waits(t, "search", w.ask, NoRows) /\ said' = Silence
        /\ UNCHANGED <<menu, gone, since, priceCache, quoteClock, priceEdits, questions>>

(* What the search finds is listed whole when a menu was asked for.        *)
Searched(ask) == IF ask.kind = "category" THEN [shop |-> ask.shop, kind |-> "full"] ELSE ask

SearchReplies(t) ==
    /\ quoting[t].stage = "searched"
    /\ RepliesWith(Searched(quoting[t].ask), quoting[t].rows)
    /\ quoting' = [quoting EXCEPT ![t] = NoTurn]
    /\ UNCHANGED <<menu, gone, since, menuCache, priceCache, quoteClock, priceEdits, questions>>

-----------------------------------------------------------------------------
(* A model's reply (kb_known_prices and evaluate_outbound).                *)

KnownPrices(rows) == {rows[i] : i \in Listed(rows)}

(* A price the knowledge base does not have and the customer has not named *)
(* is replaced.                                                            *)
Passed(draft, allowed) == {p \in draft.says : p \in allowed \cup draft.named}

ModelSays(draft, passed, checked) ==
    said' = [by |-> "model", ask |-> draft, passed |-> passed, checked |-> checked]

KnownFromCache(shop) == priceCache[shop].until > quoteClock

DraftFromCache(t, draft) ==
    /\ NewQuestion /\ quoting[t] = NoTurn
    /\ KnownFromCache(draft.shop)
    /\ ModelSays(draft, Passed(draft, priceCache[draft.shop].prices), TRUE)
    /\ UNCHANGED <<menu, gone, since, menuCache, priceCache, quoting, quoteClock, priceEdits>>

DraftAfresh(t, draft) ==
    /\ NewQuestion /\ quoting[t] = NoTurn
    /\ ~KnownFromCache(draft.shop)
    /\ Waits(t, "prices", draft, NoRows)
    /\ said' = Silence
    /\ UNCHANGED <<menu, gone, since, menuCache, priceCache, quoteClock, priceEdits>>

PricesRead(t) ==
    /\ quoting[t].stage = "prices"
    /\ quoting' = [quoting EXCEPT ![t].stage = "pricesRead", ![t].rows = menu[quoting[t].ask.shop]]
    /\ said' = Silence
    /\ UNCHANGED <<menu, gone, since, menuCache, priceCache, quoteClock, priceEdits, questions>>

PricesStored(t) ==
    LET w == quoting[t]
    IN  /\ w.stage = "pricesRead"
        /\ priceCache' = [priceCache EXCEPT ![w.ask.shop] =
                             [until |-> Until(t), prices |-> KnownPrices(w.rows)]]
        /\ ModelSays(w.ask, Passed(w.ask, KnownPrices(w.rows)), TRUE)
        /\ quoting' = [quoting EXCEPT ![t] = NoTurn]
        /\ UNCHANGED <<menu, gone, since, menuCache, quoteClock, priceEdits, questions>>

(* The exception is swallowed, and nothing is replaced.                    *)
PricesUnknown(t) ==
    LET w == quoting[t]
    IN  /\ w.stage = "prices"
        /\ ModelSays(w.ask, w.ask.says, FALSE)
        /\ quoting' = [quoting EXCEPT ![t] = NoTurn]
        /\ UNCHANGED <<menu, gone, since, menuCache, priceCache, quoteClock, priceEdits, questions>>

-----------------------------------------------------------------------------
(* Staff and time.                                                         *)

EditPrice(shop, i, price) ==
    /\ priceEdits < MaxPriceEdits /\ priceEdits' = priceEdits + 1
    /\ price # menu[shop][i]
    /\ menu' = [menu EXCEPT ![shop][i] = price]
    /\ gone' = IF menu[shop][i] = 0 THEN gone
               ELSE [gone EXCEPT ![shop][i][menu[shop][i]] = quoteClock]
    /\ since' = [since EXCEPT ![shop][i] = quoteClock]
    /\ said' = Silence
    /\ UNCHANGED <<menuCache, priceCache, quoting, quoteClock, questions>>

Second ==
    /\ quoteClock < MaxQuoteTime /\ quoteClock' = quoteClock + 1
    /\ \A t \in QuoteTurns :
          quoting[t] # NoTurn => quoteClock < quoting[t].began + QueryTime
    /\ said' = Silence
    /\ UNCHANGED <<menu, gone, since, menuCache, priceCache, quoting, priceEdits, questions>>

QuoteNext ==
    \/ \E t \in QuoteTurns, ask \in Questions : AskFromCache(t, ask) \/ AskAfresh(t, ask)
    \/ \E t \in QuoteTurns, draft \in Drafts : DraftFromCache(t, draft) \/ DraftAfresh(t, draft)
    \/ \E t \in QuoteTurns :
          \/ QueryReads(t) \/ QueryFails(t) \/ MenuStores(t) \/ SearchReplies(t)
          \/ PricesRead(t) \/ PricesStored(t) \/ PricesUnknown(t)
    \/ \E edit \in Repricings : EditPrice(edit[1], edit[2], edit[3])
    \/ Second

QuoteSpec == QuoteInit /\ [][QuoteNext]_quoteVars

-----------------------------------------------------------------------------
QuoteTypeOK ==
    /\ menu \in [Shops -> [Dishes -> Prices \cup {0}]]
    /\ Len(menuCache) <= MenuKeep
    /\ \A s \in Shops : priceCache[s].until \in Never..(MaxQuoteTime + QuoteTtl)
    /\ \A t \in QuoteTurns : quoting[t] = NoTurn \/ quoting[t].began \in 0..quoteClock
    /\ quoteClock \in 0..MaxQuoteTime /\ priceEdits \in 0..MaxPriceEdits
    /\ questions \in 0..MaxQuestions

(* A price a customer is quoted was lately, within the last QuoteTtl, the  *)
(* business's own for the row that it is taken from, whichever turn's      *)
(* query filled the cache and in whatever order the answers came (rag.py,  *)
(* "Cached for 60s per tenant").  That row is the one that resembles the   *)
(* question most: the customer's words before the price may name another,  *)
(* and a demo espresso is at DemoPrice whatever the menu says.  A price a  *)
(* model names was on the menu as lately, or the customer named it, unless *)
(* the knowledge base could not be read.  A price that has stood on the    *)
(* menu for that long is never taken out of a model's reply.               *)
Lately(shop, i, p) ==
    menu[shop][i] = p \/ quoteClock - gone[shop][i][p] < QuoteTtl

QuotesAreCurrent ==
    /\ said.by = "menu" =>
          \A quote \in said.quotes :
              IF quote[1] = 0 THEN said.ask.kind = "demo"
                              ELSE Lately(said.ask.shop, quote[1], quote[2])
    /\ said.by = "model" /\ said.checked =>
          \A p \in said.passed \ said.ask.named : \E i \in Dishes : Lately(said.ask.shop, i, p)
    /\ said.by = "model" =>
          \A p \in said.ask.says \ said.passed, i \in Dishes :
              menu[said.ask.shop][i] = p => quoteClock - since[said.ask.shop][i] < QuoteTtl

(* Recommendations keep to the budget whenever something of what was asked *)
(* for does (quick_replies.py, "Good picks under KES ...").                *)
PicksFitBudget ==
    said.by = "menu" /\ said.ask.kind = "recommend" =>
        LET asked == IF InCategory(said.ask.category, said.rows) # {}
                     THEN InCategory(said.ask.category, said.rows) ELSE Listed(said.rows)
            Fit(i) == Fits(i, said.rows, said.ask.budget)
        IN  (\E i \in asked : Fit(i)) => \A quote \in said.quotes : Fit(quote[1])

(* What a customer is told of prices is right.                             *)
PricesAreRight == QuotesAreCurrent /\ PicksFitBudget
=============================================================================
