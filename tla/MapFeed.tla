------------------------------- MODULE MapFeed -------------------------------
(***************************************************************************)
(* The map of the app follows the incidents around a point: a snapshot,    *)
(* then deltas past a cursor (updated_at, id), fetched whenever the        *)
(* WebSocket says something happened and, in any case, on a timer          *)
(* (http_incident_remote_data_source.dart).  This module puts that client  *)
(* together with what it depends on: the transactions that change          *)
(* incidents, the query and its read cache, the event listener and the hub *)
(* that passes events to the subscribers of their GeoHash cell.            *)
(*                                                                         *)
(* The clock stands still or advances with each transaction, whose NOW()   *)
(* is its start.  Of an incident is kept its last committed version; of    *)
(* an event, which incident it is about; several messages, triggers or     *)
(* polls of one kind that wait together count as one.  Of the entries the  *)
(* cache has of a query the last is kept.  The race of a load with the     *)
(* invalidation, and reads that Redis fails, are the subject of ReadCache  *)
(* and left out here; so is time: the interval of the timer, 15 s or 5     *)
(* min.  The client is watch() alone: the map page merges the reports      *)
(* stored on the device under what it shows.                               *)
(***************************************************************************)
EXTENDS GeoHash

CONSTANTS
    Incidents,   \* ids, in their order
    Existing,    \* those that exist from the start
    Scene,       \* where things are: home, span and place[i]; legacy: without geohash
    Writers,     \* how many transactions change incidents concurrently
    LIMIT,       \* rows of a page
    MaxTime,     \* bound on the clock
    MaxChanges   \* bound on the versions of all incidents together

ASSUME FeedAssumption ==
    /\ Incidents \in SUBSET (Nat \ {0}) /\ Incidents # {} /\ IsFiniteSet(Incidents) /\ Existing \subseteq Incidents
    /\ Writers \in Nat /\ LIMIT \in Nat \ {0} /\ MaxTime \in Nat /\ MaxChanges \in Nat

VARIABLES
    now,         \* the clock of PostgreSQL
    row,         \* row[i]: updated_at, workflow_status and version of an incident
    txs,         \* the transactions that have begun
    events,      \* incidents with an event on its way to the listener
    cached,      \* cached[k]: the table when the last entry of query k was stored
    valid,       \* the queries whose entry is under the version of now
    listening,   \* the listener of the API instance is bound to the broker
    link,        \* the WebSocket: what the client has, and whether the hub agrees
    message,     \* a message that triggers a fetch is on its way to the client
    triggered,   \* the stream of triggers is not empty
    opened,      \* the snapshot was shown
    feed,        \* where the loop of watch() is
    page,        \* the rows the last query returned
    cursor,      \* updated_at and id of the last row merged
    shown,       \* shown[i]: what the client has of incident i
    high,        \* history: the highest cursor any committed row had
    overtaken,   \* history: incidents committed behind it
    due,         \* history: what the client was to be told of each incident
    fresh        \* history: the last fetch succeeded, with less than a full page

serverVars == <<now, row, txs, high, overtaken>>
realtimeVars == <<events, listening, link, message>>
clientVars == <<opened, feed, page, cursor, shown, fresh>>
cacheVars == <<cached, valid>>
vars == <<serverVars, realtimeVars, clientVars, cacheVars, triggered, due>>

Row == [at : 0 .. MaxTime, active : BOOLEAN, version : Nat]
Absent == [at |-> 0, active |-> FALSE, version |-> 0]
Table == [Incidents -> Row]

Changes == {"create", "open", "close", "photo"}
Transaction == [change : Changes, incident : Incidents, at : 0 .. MaxTime]
NoCursor == <<0, 0>>
Cursors == (0 .. MaxTime) \X (Incidents \union {0})
Queries == {"snapshot", "all"}
NoEntry == [i \in {} |-> Absent]

TypeOK ==
    /\ now \in 0 .. MaxTime
    /\ row \in Table
    /\ txs \subseteq Transaction /\ Cardinality(txs) <= Writers
    /\ events \subseteq Incidents /\ overtaken \subseteq Incidents
    /\ cached \in [Queries -> Table \union {NoEntry}]
    /\ valid \subseteq {k \in Queries : cached[k] # NoEntry}
    /\ listening \in BOOLEAN /\ message \in BOOLEAN /\ triggered \in BOOLEAN
    /\ opened \in BOOLEAN /\ fresh \in BOOLEAN
    /\ link \in {"down", "asking", "subscribed", "broken"}
    /\ feed \in {"waiting", "fetching", "merging", "closed"}
    /\ DOMAIN page \subseteq Incidents
    /\ \A i \in DOMAIN page : page[i] \in Row /\ page[i].version > 0
    /\ Cardinality(DOMAIN page) <= LIMIT
    /\ cursor \in Cursors /\ high \in Cursors
    /\ shown \in Table /\ due \in Table
    /\ \A i \in Incidents : shown[i].version <= row[i].version

-----------------------------------------------------------------------------
(* Where things are *)

\* ST_DWithin: the circle as its box, around the earth.
Near(i) ==
    LET place == Scene.place[i]
        east == Wrap(place.lon - Scene.home.lon)
    IN  /\ place.lat \in Scene.home.lat - Scene.span.lat .. Scene.home.lat + Scene.span.lat
        /\ east <= Scene.span.lon \/ 2^LonBits - east <= Scene.span.lon

Nearby == {i \in Incidents : Near(i)}

\* Points are on the earth, and the circle is not so large, nor so close to a
\* pole, that the cells around it are too many even at the coarser precision.
SceneOnEarth ==
    /\ Scene.home \in Points /\ Scene.span \in [lat : Nat, lon : Nat]
    /\ Fits(Scene.home, Scene.span, MIN_PREFIX)
    /\ \A i \in Incidents : Scene.place[i] \in Points

Cells == CellsAround(Scene.home, Scene.span)

\* The incidents whose events RealtimeHub.targets sends to the client, once it
\* has subscribed to its cells; one without geohash goes to everybody.
Heard ==
    {i \in Incidents : i \in Scene.legacy \/ Matches(Encode(Scene.place[i], STORAGE_PRECISION), Cells)}

-----------------------------------------------------------------------------
(* Changes of incidents *)

Before(a, b) == a[1] < b[1] \/ (a[1] = b[1] /\ a[2] < b[2])
Key(table, i) == <<table[i].at, i>>

ChangesSoFar == Cardinality(txs) + FoldSet(LAMBDA i, sum : sum + row[i].version, 0, Incidents)

Init ==
    /\ now = 0 /\ txs = {}
    /\ row = [i \in Incidents |-> IF i \in Existing THEN [at |-> 0, active |-> TRUE, version |-> 1] ELSE Absent]
    /\ events = {} /\ overtaken = {}
    /\ cached = [k \in Queries |-> NoEntry] /\ valid = {}
    /\ listening = TRUE /\ link = "down" /\ message = FALSE /\ triggered = FALSE
    /\ opened = FALSE /\ feed = "fetching" /\ page = NoEntry
    /\ cursor = NoCursor /\ fresh = FALSE
    /\ shown = [i \in Incidents |-> Absent] /\ due = shown
    /\ high = IF Existing = {} THEN NoCursor
              ELSE <<0, CHOOSE i \in Existing : \A j \in Existing : j <= i>>

\* A transaction begins: NOW() is fixed from here on.
Begin(t) ==
    /\ t \notin txs /\ Cardinality(txs) < Writers /\ ChangesSoFar < MaxChanges
    /\ t.change = "create" <=> row[t.incident].version = 0
    /\ t.change = "create" => \A u \in txs : u.incident # t.incident
    /\ t.at \in {now, now + 1}
    /\ now' = t.at /\ txs' = txs \union {t}
    /\ UNCHANGED <<row, high, overtaken, realtimeVars, clientVars, cacheVars, triggered, due>>

\* It takes the row, writes it with updated_at = NOW(), and commits; all but a
\* photo put an event in the outbox.
Commit(t) ==
    LET i == t.incident
        inOrder == Before(high, <<t.at, i>>)
    IN
    /\ t \in txs /\ txs' = txs \ {t}
    /\ row' = [row EXCEPT ![i] =
                 [at |-> t.at, version |-> @.version + 1,
                  active |-> IF t.change = "photo" THEN @.active ELSE t.change # "close"]]
    /\ events' = IF t.change = "photo" THEN events ELSE events \union {i}
    /\ high' = IF inOrder THEN <<t.at, i>> ELSE high
    /\ overtaken' = IF inOrder THEN overtaken \ {i} ELSE overtaken \union {i}
    /\ due' = IF inOrder THEN due ELSE [due EXCEPT ![i] = Absent]
    /\ UNCHANGED <<now, listening, link, message, clientVars, cacheVars, triggered>>

-----------------------------------------------------------------------------
(* The API instance: the listener, the hub, the WebSocket *)

\* The table a query of the client is answered from: deltas come from the
\* database; the snapshot, and a delta of a client that has no cursor yet, pass
\* the cache.
Answers(k) == IF cursor = NoCursor /\ k \in valid THEN cached[k] ELSE row

\* What the client is to know now about the incidents of S around it: what it
\* would be answered, but for changes committed behind a later one.
Owe(table, S) ==
    due' = [i \in Incidents |-> IF i \in (S \intersect Nearby) \ overtaken THEN table[i] ELSE due[i]]

\* RealtimeEventListener.handle: invalidate the cache, then hub.publish; a
\* subscriber whose send fails is discarded.  Redis counts the version, so that no
\* entry is read again; or it fails, which is logged, and the hub tells the
\* client all the same.
Publish(i, counted, sent) ==
    /\ listening /\ i \in events
    /\ events' = events \ {i}
    /\ valid' = IF counted THEN {} ELSE valid
    /\ IF link = "subscribed" THEN Owe(IF counted THEN row ELSE Answers("all"), {i})
                              ELSE UNCHANGED due
    /\ IF link = "subscribed" /\ i \in Heard
       THEN IF sent THEN message' = TRUE /\ UNCHANGED link
                    ELSE link' = "broken" /\ UNCHANGED message
       ELSE sent /\ UNCHANGED <<link, message>>
    /\ UNCHANGED <<serverVars, listening, clientVars, cached, triggered>>

\* The broker is away: the exclusive queue is gone, and the events of the gap
\* with it.  Open WebSockets stay open.
LoseBroker ==
    /\ listening /\ listening' = FALSE
    /\ UNCHANGED <<serverVars, events, link, message, clientVars, cacheVars, triggered, due>>

MissEvent(i) ==
    /\ ~listening /\ i \in events
    /\ events' = events \ {i}
    /\ UNCHANGED <<serverVars, listening, link, message, clientVars, cacheVars, triggered, due>>

FindBroker ==
    /\ ~listening /\ listening' = TRUE
    /\ UNCHANGED <<serverVars, events, link, message, clientVars, cacheVars, triggered, due>>

\* Another client runs the query, or the entry reaches its TTL.  Entries that
\* this client will not read again are left out.
Warm(k) ==
    /\ cursor = NoCursor /\ (k = "snapshot" => ~opened)
    /\ k \notin valid
    /\ cached' = [cached EXCEPT ![k] = row] /\ valid' = valid \union {k}
    /\ UNCHANGED <<serverVars, realtimeVars, clientVars, triggered, due>>

ExpireEntry(k) ==
    /\ cached[k] # NoEntry
    /\ cached' = [cached EXCEPT ![k] = NoEntry] /\ valid' = valid \ {k}
    /\ UNCHANGED <<serverVars, realtimeVars, clientVars, triggered, due>>

\* Redis evicts the version, the count starts again, and comes to the number an
\* entry from before is stored under.  What that entry lacks the client is no
\* longer to know.
LoseVersion(k) ==
    /\ k \notin valid /\ cached[k] # NoEntry
    /\ valid' = valid \union {k}
    /\ due' = [i \in Incidents |->
                 IF k = "all" /\ due[i].version > cached[k][i].version THEN Absent ELSE due[i]]
    /\ UNCHANGED <<serverVars, realtimeVars, clientVars, cached, triggered>>

\* The client connects and asks for its cells: the handshake is refused without
\* a listener.
Connect ==
    /\ opened /\ feed # "closed" /\ link = "down" /\ listening
    /\ link' = "asking"
    /\ UNCHANGED <<serverVars, events, listening, message, clientVars, cacheVars, triggered, due>>

\* The subscribe message arrives: the prefixes are added and confirmed.  (Of
\* others only an error is sent, which the client ignores.)
Subscribe ==
    /\ link = "asking"
    /\ Acceptable(Cells)
    /\ link' = "subscribed" /\ message' = TRUE
    /\ Owe(Answers("all"), Incidents)
    /\ UNCHANGED <<serverVars, events, listening, clientVars, cacheVars, triggered>>

\* The server loses the connection before the client notices.
Break ==
    /\ link \in {"asking", "subscribed"}
    /\ link' = "broken"
    /\ UNCHANGED <<serverVars, events, listening, message, clientVars, cacheVars, triggered, due>>

\* The client loses it, with the messages it has not read.
Notice ==
    /\ link # "down"
    /\ link' = "down" /\ message' = FALSE
    /\ UNCHANGED <<serverVars, events, listening, clientVars, cacheVars, triggered, due>>

-----------------------------------------------------------------------------
(* The client: watch() *)

Receive_WhenIdle ==
    /\ message
    /\ message' = FALSE /\ triggered' = (triggered \/ feed = "waiting")
    /\ UNCHANGED <<serverVars, events, listening, link, clientVars, cacheVars, due>>

\* "subscribed" and "event" both trigger a fetch, also while one is under way.
Receive ==
    /\ message
    /\ message' = FALSE /\ triggered' = TRUE
    /\ UNCHANGED <<serverVars, events, listening, link, clientVars, cacheVars, due>>

\* The interval has passed since the last fetch began.
Tick ==
    /\ opened /\ feed # "closed" /\ ~triggered
    /\ triggered' = TRUE
    /\ UNCHANGED <<serverVars, realtimeVars, clientVars, cacheVars, due>>

Fetch ==
    /\ feed = "waiting" /\ triggered
    /\ feed' = "fetching" /\ triggered' = FALSE
    /\ UNCHANGED <<serverVars, realtimeVars, opened, page, cursor, shown, fresh, cacheVars, due>>

Page_Unlimited(table, S) == [i \in S |-> table[i]]

\* The first rows of S in the order of the cursor.
Page(table, S) ==
    [i \in {j \in S : Cardinality({k \in S : Before(Key(table, k), Key(table, j))}) < LIMIT} |-> table[i]]

Around(table) == {i \in Nearby : table[i].version > 0}

Deltas_ActiveOnly(table) ==
    {i \in Around(table) : Before(cursor, Key(table, i)) /\ table[i].active}

Deltas(table) == {i \in Around(table) : Before(cursor, Key(table, i))}

\* The API answers: the snapshot holds what is active, a delta what changed.
Query ==
    LET key == IF opened THEN "all" ELSE "snapshot"
        table == Answers(key)
        rows == IF cursor # NoCursor THEN Deltas(table)
                ELSE {i \in Around(table) : opened \/ table[i].active}
    IN
    /\ feed = "fetching"
    /\ feed' = "merging" /\ page' = Page(table, rows)
    /\ IF cursor = NoCursor
       THEN cached' = [cached EXCEPT ![key] = table] /\ valid' = valid \union {key}
       ELSE UNCHANGED cacheVars
    /\ UNCHANGED <<serverVars, realtimeVars, opened, cursor, shown, fresh, triggered, due>>

LastKey(rows) ==
    LET last == CHOOSE i \in DOMAIN rows :
                  \A j \in DOMAIN rows \ {i} : Before(Key(rows, j), Key(rows, i))
    IN  Key(rows, last)

\* The rows are merged by id and the cursor moves to the last of them.
Merge ==
    /\ feed = "merging"
    /\ shown' = [i \in Incidents |-> IF i \in DOMAIN page THEN page[i] ELSE shown[i]]
    /\ cursor' = IF DOMAIN page = {} THEN cursor ELSE LastKey(page)
    /\ fresh' = (opened /\ Cardinality(DOMAIN page) < LIMIT)
    /\ feed' = "waiting" /\ opened' = TRUE /\ page' = NoEntry
    /\ cached' = [k \in Queries |-> IF k = "snapshot" \/ cursor' # NoCursor THEN NoEntry ELSE cached[k]]
    /\ valid' = {k \in valid : cached'[k] # NoEntry}
    /\ UNCHANGED <<serverVars, realtimeVars, triggered, due>>

Close ==
    /\ feed' = "closed" /\ link' = "down" /\ message' = FALSE /\ triggered' = FALSE
    /\ page' = NoEntry /\ fresh' = FALSE
    /\ UNCHANGED <<serverVars, events, listening, opened, cursor, shown, cacheVars, due>>

\* The request fails or its answer is lost: the loop goes on; without a
\* snapshot yet the stream ends with the error.
FetchFails ==
    /\ feed \in {"fetching", "merging"}
    /\ IF opened
       THEN /\ feed' = "waiting" /\ page' = NoEntry /\ fresh' = FALSE
            /\ UNCHANGED <<serverVars, realtimeVars, opened, cursor, shown, cacheVars, triggered, due>>
       ELSE Close

\* The session has expired (401), or the map looks elsewhere: the stream ends.
Leave == feed # "closed" /\ Close

\* A closed feed ends the behaviour.
Next ==
  /\ feed # "closed"
  /\ \/ \E t \in Transaction : Begin(t)
     \/ \E t \in txs : Commit(t)
     \/ \E i \in Incidents : MissEvent(i) \/ \E counted, sent \in BOOLEAN : Publish(i, counted, sent)
     \/ LoseBroker \/ FindBroker
     \/ \E k \in Queries : Warm(k) \/ ExpireEntry(k) \/ LoseVersion(k)
     \/ Connect \/ Subscribe \/ Break \/ Notice
     \/ Receive \/ Tick \/ Fetch \/ Query \/ Merge \/ FetchFails \/ Leave

\* The timer ticks, the loop runs, entries reach their TTL; and an API that is
\* asked again and again answers in the end.
Fairness ==
    /\ WF_vars(Tick) /\ WF_vars(Fetch) /\ SF_vars(Query) /\ SF_vars(Merge)
    /\ \A k \in Queries : WF_vars(ExpireEntry(k))

Spec == Init /\ [][Next]_vars /\ Fairness

-----------------------------------------------------------------------------
(* Properties *)

\* The map shows incident i as the row has it; of a closed one it shows nothing.
Shows(i, wanted) ==
    shown[i].version >= wanted.version \/ (~wanted.active /\ ~shown[i].active)

\* Nothing is on its way to the client, nothing left for it to do, and the hub
\* has its subscription.
Quiet == feed = "waiting" /\ ~triggered /\ ~message /\ link = "subscribed" /\ fresh

\* Told is seen, end to end: a quiet client shows every change around it that
\* the API could answer when it subscribed, or that the hub has handled since,
\* in whatever order messages and fetches come and fail, with any snapshot it
\* began from and any cells it subscribed to.  Three things excuse it: a change
\* committed behind a later one, which the cursor may have passed; and, for a
\* client that has no cursor yet and so reads through the cache, a change whose
\* INCR failed, and one missing from an entry that a lost version brought back.
\* Those it is owed only as far as the entry has them.
QuietIsCurrent ==
    Quiet => \A i \in Nearby : Shows(i, due[i])

\* Polling alone suffices: whatever becomes of events and connections, a change
\* around the client that was not overtaken is shown in the end, unless the feed
\* is closed.
EventuallyShown ==
    \A i \in Incidents :
        (i \in Nearby) ~> (feed = "closed" \/ i \in overtaken \/ Shows(i, row[i]))
=============================================================================
