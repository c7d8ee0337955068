------------------------------ MODULE ReadCache ------------------------------
(***************************************************************************)
(* The distributed read cache (cache.py) and what invalidates it: every    *)
(* API instance listens to the incident events (event_listener.py), steps  *)
(* the version in Redis and then tells its WebSocket clients, which read   *)
(* the map again.                                                          *)
(*                                                                         *)
(* One set of query parameters stands for all; that neighbours share a     *)
(* key, because as_key rounds coordinates to 110 m, is left out.           *)
(* The result of a query is the set of changes it shows; a key is the      *)
(* version it embeds.  Time is abstracted to what the TTL does.            *)
(***************************************************************************)
EXTENDS Naturals, FiniteSets

CONSTANTS
    Changes,       \* committed changes of incidents, each with its event
    Instances,     \* API instances, each with one listener
    Readers,       \* requests in progress on any instance
    Nothing,       \* no event being handled
    MaxVersion,    \* bound: INCRs of a behaviour
    MaxFaults      \* bound: failed Redis calls, lost brokers, lost versions

ASSUME CacheAssumption ==
    /\ MaxVersion \in Nat /\ MaxFaults \in Nat
    /\ Nothing \notin Changes

VARIABLES
    committed,   \* changes in PostgreSQL
    published,   \* changes whose event the outbox has published
    listening,   \* instances bound to the event exchange
    inbox,       \* inbox[i]: events in the exclusive queue of instance i
    handling,    \* handling[i]: the event between invalidate and publish
    told,        \* changes some hub has told its clients about
    version,     \* urbaneye:incidents:version
    stored,      \* versions with an entry
    entries,     \* entries[v]: what was stored under version v
    pc,          \* pc[r]: where reader r is in get_or_load
    seen,        \* seen[r]: the version r's key embeds
    value,       \* value[r]: what r loaded, or returns
    floor,       \* floor[r]: changes r's client knew about when it asked
    missed,      \* changes whose INCR failed
    versionLost, \* whether Redis ever lost the version
    faults

listenerVars == <<listening, inbox, handling, told>>
readerVars == <<pc, seen, value, floor>>
redisVars == <<version, stored, entries, versionLost>>
vars == <<committed, published, listenerVars, redisVars, readerVars, missed, faults>>

Versions == 0..MaxVersion

TypeOK ==
    /\ committed \in SUBSET Changes
    /\ published \in SUBSET committed
    /\ listening \in SUBSET Instances
    /\ inbox \in [Instances -> SUBSET committed]
    /\ handling \in [Instances -> committed \cup {Nothing}]
    /\ told \in SUBSET committed
    /\ version \in Versions
    /\ stored \in SUBSET Versions
    /\ entries \in [Versions -> SUBSET committed]
    /\ pc \in [Readers -> {"idle", "lookup", "load", "bypass", "store", "answered"}]
    /\ seen \in [Readers -> Versions]
    /\ value \in [Readers -> SUBSET committed]
    /\ floor \in [Readers -> SUBSET committed]
    /\ missed \in SUBSET committed
    /\ versionLost \in BOOLEAN
    /\ faults \in 0..MaxFaults

Init ==
    /\ committed = {} /\ published = {}
    /\ listening = {}
    /\ inbox = [i \in Instances |-> {}]
    /\ handling = [i \in Instances |-> Nothing]
    /\ told = {}
    /\ version = 0
    /\ stored = {}
    /\ entries = [v \in Versions |-> {}]
    /\ pc = [r \in Readers |-> "idle"]
    /\ seen = [r \in Readers |-> 0]
    /\ value = [r \in Readers |-> {}]
    /\ floor = [r \in Readers |-> {}]
    /\ missed = {}
    /\ versionLost = FALSE
    /\ faults = 0

Fault == faults < MaxFaults /\ faults' = faults + 1

-----------------------------------------------------------------------------
(* A change, its event, and the listeners.                                 *)

Commit(c) ==
    /\ c \notin committed
    /\ committed' = committed \cup {c}
    /\ UNCHANGED <<published, listenerVars, redisVars, readerVars, missed, faults>>

\* A bug: the event leaves before its transaction commits.
Publish_BeforeCommit(c) ==
    /\ published' = published \cup {c}
    /\ inbox' = [i \in Instances |-> IF i \in listening THEN inbox[i] \cup {c} ELSE inbox[i]]
    /\ UNCHANGED <<committed, listening, handling, told, redisVars, readerVars, missed, faults>>

\* The outbox publishes c: each bound instance gets a copy.  A lost confirm
\* or a retry of the worker broadcasts it again.
Publish(c) ==
    /\ c \in committed
    /\ IF c \in published THEN Fault ELSE UNCHANGED faults
    /\ published' = published \cup {c}
    /\ inbox' = [i \in Instances |-> IF i \in listening THEN inbox[i] \cup {c} ELSE inbox[i]]
    /\ UNCHANGED <<committed, listening, handling, told, redisVars, readerVars, missed>>

Listen(i) ==
    /\ i \notin listening
    /\ listening' = listening \cup {i}
    /\ UNCHANGED <<committed, published, inbox, handling, told, redisVars, readerVars, missed, faults>>

\* The connection drops and the exclusive queue is deleted with its events.
\* An event being handled still is, unless the instance itself stopped.
Disconnect(i, stopped) ==
    /\ i \in listening
    /\ Fault
    /\ listening' = listening \ {i}
    /\ inbox' = [inbox EXCEPT ![i] = {}]
    /\ handling' = IF stopped THEN [handling EXCEPT ![i] = Nothing] ELSE handling
    /\ UNCHANGED <<committed, published, told, redisVars, readerVars, missed>>

\* handle(): take the next event and INCR the version.
Invalidate(i, c) ==
    /\ handling[i] = Nothing
    /\ c \in inbox[i]
    /\ version < MaxVersion
    /\ version' = version + 1
    /\ inbox' = [inbox EXCEPT ![i] = @ \ {c}]
    /\ handling' = [handling EXCEPT ![i] = c]
    /\ UNCHANGED <<committed, published, listening, told, stored, entries, versionLost, readerVars,
                   missed, faults>>

\* Redis does not answer, having counted or not: the failure is logged and
\* handle() goes on.
InvalidateFails(i, c) ==
    /\ handling[i] = Nothing
    /\ c \in inbox[i]
    /\ Fault
    /\ \/ UNCHANGED version
       \/ version < MaxVersion /\ version' = version + 1
    /\ inbox' = [inbox EXCEPT ![i] = @ \ {c}]
    /\ handling' = [handling EXCEPT ![i] = c]
    /\ missed' = missed \cup {c}
    /\ UNCHANGED <<committed, published, listening, told, stored, entries, versionLost, readerVars>>

\* hub.publish: the clients hear of the change, and read again.
Tell(i) ==
    /\ handling[i] # Nothing
    /\ told' = told \cup {handling[i]}
    /\ handling' = [handling EXCEPT ![i] = Nothing]
    /\ UNCHANGED <<committed, published, listening, inbox, redisVars, readerVars, missed, faults>>

-----------------------------------------------------------------------------
(* get_or_load.                                                            *)

Goto(r, l) == pc' = [pc EXCEPT ![r] = l]

ReadVersion(r) ==
    /\ pc[r] = "idle"
    /\ seen' = [seen EXCEPT ![r] = version]
    /\ floor' = [floor EXCEPT ![r] = told]
    /\ value' = [value EXCEPT ![r] = {}]
    /\ Goto(r, "lookup")
    /\ UNCHANGED <<committed, published, listenerVars, redisVars, missed, faults>>

Lookup(r) ==
    /\ pc[r] = "lookup"
    /\ IF seen[r] \in stored
       THEN Goto(r, "answered") /\ value' = [value EXCEPT ![r] = entries[seen[r]]]
       ELSE Goto(r, "load") /\ UNCHANGED value
    /\ UNCHANGED <<committed, published, listenerVars, redisVars, seen, floor, missed, faults>>

\* Either Redis call fails: read from the database and do not store.
LookupFails(r) ==
    /\ pc[r] = "lookup"
    /\ Fault
    /\ Goto(r, "bypass")
    /\ UNCHANGED <<committed, published, listenerVars, redisVars, seen, value, floor, missed>>

Bypass(r) ==
    /\ pc[r] = "bypass"
    /\ value' = [value EXCEPT ![r] = committed]
    /\ Goto(r, "answered")
    /\ UNCHANGED <<committed, published, listenerVars, redisVars, seen, floor, missed, faults>>

Load(r) ==
    /\ pc[r] = "load"
    /\ value' = [value EXCEPT ![r] = committed]
    /\ Goto(r, "store")
    /\ UNCHANGED <<committed, published, listenerVars, redisVars, seen, floor, missed, faults>>

\* A bug: the key is computed again for the SET, from the version of now.
StoreKey_Current(r) == version

StoreKey(r) == seen[r]

SetEntry(r) ==
    /\ stored' = stored \cup {StoreKey(r)}
    /\ entries' = [entries EXCEPT ![StoreKey(r)] = value[r]]

Store(r) ==
    /\ pc[r] = "store"
    /\ SetEntry(r)
    /\ Goto(r, "answered")
    /\ UNCHANGED <<committed, published, listenerVars, version, versionLost, seen, value, floor,
                   missed, faults>>

\* The SET is not answered, having stored or not.
StoreFails(r) ==
    /\ pc[r] = "store"
    /\ Fault
    /\ SetEntry(r) \/ UNCHANGED <<stored, entries>>
    /\ Goto(r, "answered")
    /\ UNCHANGED <<committed, published, listenerVars, version, versionLost, seen, value, floor,
                   missed>>

Return(r) ==
    /\ pc[r] = "answered"
    /\ Goto(r, "idle")
    /\ UNCHANGED <<committed, published, listenerVars, redisVars, seen, value, floor, missed, faults>>

-----------------------------------------------------------------------------
(* Redis.                                                                  *)

\* A bug: entries are stored without a TTL.
Expire_Never(v) == v \in stored /\ UNCHANGED vars

\* The TTL elapses, or allkeys-lru evicts the entry before.
Expire(v) ==
    /\ v \in stored
    /\ stored' = stored \ {v}
    /\ entries' = [entries EXCEPT ![v] = {}]
    /\ UNCHANGED <<committed, published, listenerVars, version, versionLost, readerVars, missed,
                   faults>>

\* allkeys-lru evicts the version itself, or Redis restarts: it keeps nothing
\* on disk.  The version counts from 0 again.
LoseVersion(restarted) ==
    /\ Fault
    /\ version' = 0
    /\ stored' = IF restarted THEN {} ELSE stored
    /\ entries' = IF restarted THEN [v \in Versions |-> {}] ELSE entries
    /\ versionLost' = TRUE
    /\ UNCHANGED <<committed, published, listenerVars, readerVars, missed>>

-----------------------------------------------------------------------------
ListenerStep(i) == Listen(i) \/ Tell(i) \/ \E c \in Changes : Invalidate(i, c)

ReaderStep(r) ==
    ReadVersion(r) \/ Lookup(r) \/ Bypass(r) \/ Load(r) \/ Store(r) \/ Return(r)

Next ==
    \/ \E c \in Changes : Commit(c) \/ Publish(c)
    \/ \E i \in Instances : ListenerStep(i)
    \/ \E i \in Instances, stopped \in BOOLEAN : Disconnect(i, stopped)
    \/ \E i \in Instances, c \in Changes : InvalidateFails(i, c)
    \/ \E r \in Readers : ReaderStep(r) \/ LookupFails(r) \/ StoreFails(r)
    \/ \E v \in Versions : Expire(v)
    \/ \E restarted \in BOOLEAN : LoseVersion(restarted)

\* Requests are answered and asked again, and every TTL elapses.  Nothing is
\* assumed of the listeners: events may be lost for good.
Fairness ==
    /\ \A r \in Readers : WF_vars(ReaderStep(r))
    /\ \A v \in Versions : WF_vars(Expire(v))

Spec == Init /\ [][Next]_vars /\ Fairness

-----------------------------------------------------------------------------
(* Properties.                                                             *)

\* The promise of the realtime cycle: a client that was told of a change and
\* reads the map again sees it, from the cache or not, on any instance; unless
\* the INCR for it failed or Redis lost the version.
ToldIsSeen ==
    \A r \in Readers :
        pc[r] = "answered" /\ ~versionLost => floor[r] \subseteq value[r] \cup missed

\* Eventual consistency: whatever was lost of events, INCRs and versions, once
\* changes cease every read comes to show all of them, and goes on to.
EventuallyFresh ==
    committed = Changes ~> [](\A r \in Readers : pc[r] = "answered" => value[r] = Changes)
=============================================================================
