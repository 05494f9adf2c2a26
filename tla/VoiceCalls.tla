----------------------------- MODULE VoiceCalls -----------------------------
(***************************************************************************)
(* Live voice calls: the WebSocket handler of api/voice.py, the registry   *)
(* of the sessions a process owns (channels/voice_registry.py) and the     *)
(* presence marker that makes text channels wait while a customer is on    *)
(* the phone (services/session_manager.py).                                *)
(*                                                                         *)
(* A session is registered under its stream and, once a turn has told to   *)
(* which conversation the caller belongs, under that conversation too.     *)
(* The marker of a customer holds the name of the channel, so that two     *)
(* calls of one customer write, and compare, the same value; it lives for  *)
(* ninety seconds, three of the periods in which a live call refreshes it. *)
(* The command that closes a stream is left out: nothing publishes it.     *)
(***************************************************************************)
EXTENDS Integers, FiniteSets

CONSTANTS
    Hosts,             \* API processes that accept calls
    Calls,             \* Twilio streams; also their keys in the registry
    Conversations,     \* conversation ids, the other keys
    Customers,
    Caller,            \* the customer who makes a call
    MaxRedisFailures   \* BOUND: Redis commands that fail

ASSUME VoiceAssumption ==
    /\ Caller \in [Calls -> Customers]
    /\ Calls \cap Conversations = {}
    /\ MaxRedisFailures \in Nat

Keys == Calls \cup Conversations

VARIABLES
    call,       \* how far each stream's handler is
    host,       \* the process that accepted the stream
    sessions,   \* per process, the registry: a set of [key, call] entries
    presence,   \* periods left to each customer's marker, 0 when there is none
    tried,      \* calls that marked, or failed to, in this period
    missed,     \* history: per call, refreshes that failed since the last good one
    exposed,    \* history: calls whose marker was not set, or was taken, since then
    dark,       \* history: per call, periods begun without a marker
    redisFailures

markerVars == <<presence, tried, missed, exposed, dark>>

voiceVars == <<call, host, sessions, markerVars, redisFailures>>

Phases == {"ringing", "starting", "live", "leaving", "over"}

(* PRESENCE_TTL_SEC, in periods of thirty seconds.                         *)
PresenceTtl == 3

VoiceInit ==
    /\ call = [c \in Calls |-> "ringing"]
    /\ host \in [Calls -> Hosts]
    /\ sessions = [w \in Hosts |-> {}]
    /\ presence = [m \in Customers |-> 0]
    /\ tried = {}
    /\ missed = [c \in Calls |-> 0]
    /\ exposed = {}
    /\ dark = [c \in Calls |-> 0]
    /\ redisFailures = 0

RedisFails ==
    /\ redisFailures < MaxRedisFailures
    /\ redisFailures' = redisFailures + 1

Move(c, from, to) ==
    /\ call[c] = from
    /\ call' = [call EXCEPT ![c] = to]

(* The calls a customer has between start and stop.                        *)
OnThePhone(m) == {c \in Calls : Caller[c] = m /\ call[c] \in {"starting", "live"}}

Marked(m) == presence[m] > 0

-----------------------------------------------------------------------------
(* The marker.                                                             *)

\* A marker that is there is not renewed.
MarkOnce(m) == [presence EXCEPT ![m] = IF @ > 0 THEN @ ELSE PresenceTtl]

(* SET with an expiry, whoever set it before.                              *)
Mark(m) == [presence EXCEPT ![m] = PresenceTtl]

(* mark_channel_active.  It swallows a failure, so that its caller takes   *)
(* the marker for refreshed and comes back a period later.                 *)
MarkChannelActive(c) ==
    /\ tried' = tried \cup {c}
    /\ \/ /\ presence' = Mark(Caller[c])
          /\ missed' = [missed EXCEPT ![c] = 0]
          /\ exposed' = {d \in exposed : Caller[d] # Caller[c]}
          /\ dark' = [d \in Calls |-> IF Caller[d] = Caller[c] THEN 0 ELSE dark[d]]
          /\ UNCHANGED redisFailures
       \/ /\ RedisFails
          /\ missed' = [missed EXCEPT ![c] = @ + 1]
          /\ exposed' = exposed \cup {d \in {c} : call[d] = "ringing"}
          /\ UNCHANGED <<presence, dark>>

(* "start": claim the marker; the call goes on without it.                 *)
MarkActive(c) ==
    /\ Move(c, "ringing", "starting")
    /\ MarkChannelActive(c)
    /\ UNCHANGED <<host, sessions>>

(* Once in every thirty seconds of audio the handler refreshes the marker. *)
RefreshPresence(c) ==
    /\ call[c] = "live"
    /\ c \notin tried
    /\ MarkChannelActive(c)
    /\ UNCHANGED <<call, host, sessions>>

(* clear_channel at "stop", or on a lost connection, at any time: delete   *)
(* the marker if it reads this channel's name.                             *)
ClearChannel(c) ==
    /\ Move(c, "live", "leaving")
    /\ tried' = tried \ {c}
    /\ missed' = [missed EXCEPT ![c] = 0]
    /\ dark' = [dark EXCEPT ![c] = 0]
    /\ \/ /\ presence' = [presence EXCEPT ![Caller[c]] = 0]
          /\ exposed' = (exposed \cup OnThePhone(Caller[c])) \ {c}
          /\ UNCHANGED redisFailures
       \/ /\ RedisFails
          /\ exposed' = exposed \ {c}
          /\ UNCHANGED presence
    /\ UNCHANGED <<host, sessions>>

(* Thirty seconds pass, in which every live call has tried; a marker that  *)
(* was not renewed in three of them expires, call or no call.              *)
PeriodPasses ==
    LET left(m) == IF Marked(m) THEN presence[m] - 1 ELSE 0 IN
    /\ \A m \in Customers : OnThePhone(m) \subseteq tried
    /\ presence' = [m \in Customers |-> left(m)]
    /\ tried' = {}
    /\ dark' = [c \in Calls |-> IF c \in OnThePhone(Caller[c]) /\ left(Caller[c]) = 0
                                 THEN dark[c] + 1 ELSE 0]
    /\ UNCHANGED <<call, host, sessions, missed, exposed, redisFailures>>

-----------------------------------------------------------------------------
(* The registry.                                                           *)

Lookup(w, key) == {s \in sessions[w] : s.key = key}

Put(w, key, c) ==
    [sessions EXCEPT ![w] = (@ \ Lookup(w, key)) \cup {[key |-> key, call |-> c]}]

(* unregister: the key, and every other key of the session it named.       *)
Unregistered(w, key) ==
    {s \in sessions[w] : \A t \in Lookup(w, key) : s.call # t.call}

Register(c) ==
    /\ Move(c, "starting", "live")
    /\ sessions' = Put(host[c], c, c)
    /\ UNCHANGED <<host, markerVars, redisFailures>>

(* A turn of the call has answered: its conversation becomes an alias.     *)
(* The turn is a task of its own and may end after the call.               *)
Alias(c, conv) ==
    /\ Lookup(host[c], c) # {}
    /\ sessions' = Put(host[c], conv, c)
    /\ UNCHANGED <<call, host, markerVars, redisFailures>>

Unregister(c) ==
    /\ Move(c, "leaving", "over")
    /\ sessions' = [sessions EXCEPT ![host[c]] = Unregistered(host[c], c)]
    /\ UNCHANGED <<host, markerVars, redisFailures>>

(* A process dies with its streams and its registry; the marker stays.     *)
HostCrash(w) ==
    /\ call' = [c \in Calls |-> IF host[c] = w /\ call[c] # "ringing"
                                 THEN "over" ELSE call[c]]
    /\ sessions' = [sessions EXCEPT ![w] = {}]
    /\ exposed' = {c \in exposed : host[c] # w}
    /\ tried' = {c \in tried : host[c] # w}
    /\ missed' = [c \in Calls |-> IF host[c] = w THEN 0 ELSE missed[c]]
    /\ dark' = [c \in Calls |-> IF host[c] = w THEN 0 ELSE dark[c]]
    /\ UNCHANGED <<host, presence, redisFailures>>

VoiceNext ==
    \/ \E c \in Calls :
          \/ MarkActive(c) \/ Register(c) \/ RefreshPresence(c)
          \/ ClearChannel(c) \/ Unregister(c)
          \/ \E conv \in Conversations : Alias(c, conv)
    \/ PeriodPasses
    \/ \E w \in Hosts : HostCrash(w)

VoiceSpec == VoiceInit /\ [][VoiceNext]_voiceVars

-----------------------------------------------------------------------------
VoiceTypeOK ==
    /\ call \in [Calls -> Phases]
    /\ host \in [Calls -> Hosts]
    /\ sessions \in [Hosts -> SUBSET [key : Keys, call : Calls]]
    /\ presence \in [Customers -> 0 .. PresenceTtl]
    /\ tried \subseteq Calls
    /\ missed \in [Calls -> Nat]
    /\ exposed \subseteq Calls
    /\ dark \in [Calls -> Nat]
    /\ redisFailures \in 0..MaxRedisFailures

(* A text message waits for a customer who is on the phone.  She is marked *)
(* as such unless the call never got its marker, the end of another call   *)
(* of hers took it, or two refreshes in a row have failed; and she is      *)
(* marked again within a period, not counting the refreshes that fail.     *)
MarkedWhileOnThePhone ==
    \A m \in Customers : \A c \in OnThePhone(m) :
        \/ Marked(m)
        \/ (c \in exposed \/ missed[c] >= 2) /\ dark[c] <= missed[c] + 1

(* The registry names a session under its stream for exactly as long as    *)
(* its handler runs, under whichever keys other calls of the process come  *)
(* and go, and under a conversation only beside it: what is said to a      *)
(* conversation is never spoken into a stream that has ended.              *)
RegistryFollowsCalls ==
    \A w \in Hosts :
        /\ \A s \in sessions[w] : [key |-> s.call, call |-> s.call] \in sessions[w]
        /\ \A c \in Calls : host[c] = w =>
              (Lookup(w, c) # {} <=> call[c] \in {"live", "leaving"})
        /\ \A s, t \in sessions[w] : s.key = t.key => s = t

(* The two places that know who is on the phone, the marker in Redis and   *)
(* the registry in memory, both follow the calls.                          *)
CallsAreTracked == MarkedWhileOnThePhone /\ RegistryFollowsCalls
=============================================================================
