# UrbanEye in TLA+

Models, model-checking runs and proofs for the UrbanEye backend and its mobile app. Every definition is translated from the source under `src/`; comments in the
modules name the function they stand for, and `PROJECT.json` gives the lines.
Below, `B` is `src/backend/api/src` and `M` is `src/apps/mobile/lib`.

## 1. The system

Citizens report environmental incidents with a mobile app that works offline; a FastAPI
service stores them in PostgreSQL/PostGIS, and other citizens nearby are alerted.

| Part | State it keeps | Operations | Talks to |
|---|---|---|---|
| Incident creation, `B/producer.py` | incidents, contributions, outbox rows | one transaction that writes all three | outbox table |
| Outbox publisher, `B/outbox_service.py` | claims (`processing_token`, `locked_until`) on outbox rows | claim a batch, publish, delete or reschedule | PostgreSQL, RabbitMQ |
| Broker topology, `B/messaging.py` | incident queue, retry queue (TTL 5 s, dead-letters back), dead-letter queue | confirms and returns | publishers and workers |
| Notification worker, `B/worker.py` | one unacknowledged message; notifications, processed_events | check, select, persist, push, record, ack | RabbitMQ, PostgreSQL, FCM |
| Dead-letter replay, `B/replay_dead_letters.py` | one unacknowledged dead letter | get, publish, ack | RabbitMQ |
| Recipient selection, `B/geolocation_repository.py` | none | one query with cooldown, radius, quiet hours | worker |
| Area-entry alerts, `B/alerts/` | notifications with reason `geofence_entry` | on a new position | shares `notifications` with the worker |
| Votes, `B/community_validation.py`, `community_scoring.py` | votes, counts, confidence, status of an incident | one transaction per vote | outbox table |
| Reviews and photos, `B/incidents/infrastructure/` | reviews, trust adjustments, photos | one transaction each | outbox table, users |
| Read cache, `B/shared/infrastructure/cache.py` | a version and entries in Redis | get_or_load, invalidate | API requests, listener |
| Realtime listener and hub, `B/realtime/` | one exclusive queue and the WebSocket subscriptions of an instance | invalidate the cache, then tell the clients | RabbitMQ, Redis, apps |
| Embedded workers, `B/shared/infrastructure/embedded_workers.py` | restart delay | restart a loop that stopped | outbox, worker |
| Accounts, `B/identity/`, `B/auth.py` | users, revoked tokens | register, login, revoke, anonymize, positions | everything that reads users |
| Pure domain: GeoHash, risk, impact, categories, routes | none | functions | producer, hub, map |
| Mobile queue, feed, proximity monitor, session, `M/features/` | Hive boxes, cursor, zone states, token | upload, fetch, check a position, log in | the API |

What is hard here: nothing is transactional across PostgreSQL, RabbitMQ, Redis and FCM,
so correctness rests on claims with deadlines, at-least-once delivery with idempotent
consumers, versions in cache keys and row locks. Processes crash and restart between any
two awaits, confirms get lost, messages are duplicated and reordered, results are used
after an await that let the state change. `PROJECT.json` lists these hazards at their
lines, with the properties that cover them.

What makes each part correct:

- outbox: a recorded event is never without a row or a message; two pollers do not both
  settle a row; every row goes away at last;
- worker: no alert disappears between queue, worker and dead letters; a push has a row;
  once an event is processed no retry has left anybody out, and that is final;
- cache: who was told of a change sees it when reading again; staleness ends;
- moderation: counts match votes, verdicts are founded, trust is adjusted once;
- accounts: an ended session stays ended; a removed account receives and keeps nothing;
- feed: what a client was told of it shows, and without being told it polls;
- mobile: no report is lost or stored twice; one notice per entry.

## 2. Modules

| Module | What it is |
|---|---|
| `EventHandoff` | what the outbox promises: record, hand off, settle |
| `Outbox` | producers and pollers over the outbox table; implements `EventHandoff` |
| `Delivery` | broker queues, workers, replay, and the API calls that write the same rows |
| `EventPipeline` | `Outbox` and `Delivery` joined: from the transaction of an incident to its alerts; implements `Delivery` |
| `ReadCache` | requests, listeners and Redis |
| `Moderation` | votes, reviews and photos as transactions with row locks |
| `Accounts` | requests that register, log in, log out, delete, update, each a sequence of transactions |
| `GeoHash` | cells as operators on bits: encode, bounds, neighbours, prefixes, the cover of a circle |
| `MapFeed` | the map of the app with what it hangs on: transactions, query and cache, listener, hub, WebSocket |
| `MobileSync` | the offline queue of the app, its two isolates and the API calls that empty it |
| `OutboxProofs`, `DeliveryProofs`, `EventPipelineProofs`, `ReadCacheProofs`, `ModerationProofs`, `MobileSyncProofs`, `AccountsProofs`, `MapFeedProofs` | theorems |
| `MCOutbox`, `MCDelivery`, `MCEventPipeline`, `MCReadCache`, `MCModeration`, `MCMobileSync`, `MCAccounts`, `MCMapFeed` | instances for TLC |

Definitions whose name has an underscore (`Claimable_LockIgnored`) are variants with a
plausible bug. No specification uses them: they show that a property can fail.

### Outbox

`pc` is the place of a poller in `run_loop`: `idle` before `claim_batch`, `batch` between
two rows, `confirmed` after `publish_envelope` returned and before `mark_published`,
`failed` in the `except` clause. Time is kept as two sets, the rows whose `available_at`
has come (`due`) and the claims whose `locked_until` has passed (`lapsed`): that is all a
`WHERE` compares. `Claim` takes the oldest due rows, may pass over rows another poller's
transaction has locked (`SKIP LOCKED`), and writes fresh tokens. `DeleteIfHeld` and
`RescheduleIfHeld` compare the token as the `WHERE` clauses do. A failure inside the
`except` clause (`RescheduleFails`) ends the loop and leaves the claims behind.
Only `incident.created.v1` is durable: other events are confirmed without a queue.

### Delivery

A message is its event and its x-death count for the incident queue, which is what
`retry_count` reads. Each database or FCM access of `process_event` is an action, because
each is its own transaction with an await before and after. Failures branch as the two
`except` clauses do: a `ValueError` or invalid payload goes straight to the dead-letter
queue, anything else to the retry queue until `MAX_RETRIES`. A write that fails may have
been committed; a push that raises may have handed over some. A crash requeues. The replay
keeps the x-death count, as the code keeps the headers.

A push has two outcomes per user: `pushed` is who was handed to FCM, `reached` whom FCM
accepted. `send_each_for_multicast` raises neither for a token FCM refuses nor for an error
FCM answers with; it counts them, `worker.py` logs the count, and the event is recorded.
So `Push` (`HandOver`) goes on to `Record` with any part of the users reached, also none,
and only what raises (the 15 s timeout, a batch that cannot be sent, a `ValueError`) is
`PushFails`. No property promises that somebody is reached: `SkippedOnlyByCooldown` says
whom the retries leave out, and `ProcessedIsFinal` that nothing is made up for afterwards
(see section 6). Threads of a timed-out batch that go on to send while the event is already
on its retry are left out.

The SQL of the selection is abstracted to the constant relations `Nearby` and `Zone`,
except for the two conditions that other actions change: the cooldown and `deleted_at`.
FCM is enabled; a user without a token is one FCM does not reach. A user's own position does not change. A user
may walk into the area of an incident whose event has not arrived yet: the incident is
there from its transaction, which is in `Outbox`.

### EventPipeline

Extends `Outbox` by the variables of `Delivery` and instantiates `Delivery` as `D` for the
durable events: the incident queue is bound to no other. The two sides share what the
broker has routed. A step of the outbox that routes a copy makes one message ready in the
same step, also where the publisher takes the publication for failed (`Enqueued`); every
other step belongs to one side alone. `EnterZone` is confined to committed incidents,
because its query reads their table. `D` allows each event `1 + MaxFaults` copies, and
`OutboxStep` does not look at that bound: that the outbox keeps it is proved.

### ReadCache

The result of a query is the set of committed changes it shows. A key is the version it
embeds. `handle` is two steps, `Invalidate` (the INCR) and `Tell` (the hub). `LoseVersion`
covers the eviction of the version key (`allkeys-lru`) and a restart of Redis, which
`docker-compose.yml` runs without persistence. One set of query parameters stands for
all. Left out: `IncidentFilters.as_key` rounds coordinates to three decimals, so neighbours
within about 110 m share an entry, and one is answered with the circle of the other.

### Moderation

A request begins a transaction (and so fixes its `NOW()`), locks the row of its incident,
reads, and commits; a review of a final decision also locks the rows of the voters it
adjusts, one after the other in the order the database returns them. `draft` is what the
request has read and computed but not committed. Scores are integers in hundredths; ties
of `round` are left aside. A vote counts as the code counts it: complements have no
weight. Left out: contribution points, comments, notes, `verification_count`, priority
and event payloads.

The code lets a vote after a review replace the moderator's verdict with that of the
votes (`community_validation.py` sets `workflow_status` unconditionally). No document
says whether that is wanted, so no property forbids it.

### MobileSync

`synchronize()` runs in two Dart isolates: `app`, after a report is created, and
`background`, the Workmanager task. `sync[i]` is its place, with the queue it took
(`pending()` is called once per run), the report at hand and whether the phone was on
mobile data. Every await is a place where the other isolate, the user or the server may
act. `box` is the file and the app's copy of it: Hive reads the file once, when the box is
opened, and writes whole records through. The task opens it anew for each run and reads it
only once, so its copy is not kept. Likewise each isolate has its `session`, read from
`storedSession` when it starts. Tokens are numbered by login.

`Post` is `upload` after the wait for the environmental context: accepted or duplicate go
on to the photo; a refused call (`CallRefused`: no session, or 401, which clears the
session and the storage) leads to `BreakOff`; any other failure, with or without effect on
the server, to `MarkFailed`. `SendPhoto` has every answer of `uploadPhoto`. What
`checkConnectivity` returns is an input of `Begin`. All reports of the device rank equal,
so the sort leaves any order. Only a failed record waits for a next attempt (`Record`), which
is what the type invariant adds to the shape of the state.

The two isolates write the same Hive file; the model assumes that each of these writes
lands whole and the last one of a key wins, as Hive appends records. Left out: a
compaction of the file by one isolate while the other has it open, the
two keys of the secure storage (token and user are one), the time logout waits for the
API, account deletion, and a second form whose synchronize() overlaps the first.

### Accounts

`req[q]` is a request in progress and `at` its next transaction: `checking` and `looking`
are the two queries of `authenticate`, then come those of the handler. The signature and
the expiry of a token are checked in memory when the request begins (`Start`); `revoke`
decodes it again, so a deletion whose token has expired meanwhile is answered with an
error after it has erased the account (`Erase`). Logout asks for a valid token and nothing
else. `Fail` may end a request at any place: a database call that raised, before or after
its commit, or a client that went away. Histories: `late` records what had ended, and was
answered, when a request began; `alone`, which accounts were removed while no other
request of theirs was being served.

Two properties are weaker than a reader may expect, because the code is. A logged-out
token is admitted if it expires between the check of its signature and the look-up while
somebody else's logout purges expired rows of `revoked_tokens`. And the erasure of an
account lasts only if no request of it was past `get_current_user` at that moment:
`update_location` looks at the id and not at `deleted_at`, so such a request writes a
position and a push token into the removed row (against `seguranca.md`, section 5), and
`create_for_nearby_incidents` may insert a notification.

API and database are taken to share one clock. Left out: wrong passwords and the constant
cost of checking them, rate limits, the formatting of e-mails, tokens without a jti, and
the WebSocket, which authenticates alike but stays open after a logout. Also visible in
the model and forbidden by nobody: a logout does not release `fcm_token`, whose index is
unique, so the position of the next account on the device cannot be stored.

### GeoHash and MapFeed

A hash is the sequence of its bits, five to a character, and a coordinate is an integer in
cells of precision 7, where bisection is exact. `Encode` and `Bounds` are those of
`geohash.py` (their results were compared with the Python functions), `CellsAround` that of
`geohash.dart`: the loop counts in steps of a cell from the south-west corner of the box
around home and clips the last step to the far edge. Longitude 180 is taken for -180.

`MapFeed` puts one client together with what it depends on. Changes are transactions whose
`at` is fixed when they begin (`Begin`) and whose row appears when they commit; all but a
photo put an event on the way. `Publish` is `handle` of the listener with `publish` of the
hub; `link` is the WebSocket as the client and the hub see it (`asking`: accepted, not yet
subscribed; `broken`: the server has dropped it, the client has not noticed). `feed` is the
place of `watch()`: the query is answered in `Query` and merged in `Merge`, with anything
in between. `Query` goes through the cache as long as the client has no cursor, which after
an empty snapshot is also the case for deltas. `cached[k]` is the last entry of a query and
`valid` says whether it is under the version of now, that is, may be read: an INCR that
Redis fails is logged and swallowed (`Publish` with `counted` false: the entries stay
readable and the client is told all the same), and an eviction of the version key may bring
an old entry back (`LoseVersion`). Histories: `high` and `overtaken` say which changes were
committed behind a later one, `due` what the client was to be told.

The feed has three gaps, and `due` leaves out exactly these. One is that of `photo_hidden`
(section 6): a transaction that began before another and commits after it puts its row
behind cursors that have passed it. The other two concern a client without a cursor, whose
deltas pass the cache: told of a change whose INCR failed it fetches the entry from before,
and is quiet without the change until the TTL of 5 minutes or the next poll after it; the
same after a lost version. It is owed what that entry holds, no more. A client with a
cursor reads the database and is owed the row. `EventuallyShown` excepts the first gap
alone. Messages in any order, triggers during a fetch, equal timestamps, pages cut off, lost
answers, old snapshots, half-open connections, incidents at the far edge of the circle and
past the antimeridian are all covered.
A client subscribed while the broker goes away keeps its WebSocket, is told nothing of the
gap and sees it at the next poll only, then 5 minutes apart: `EventuallyShown` relies on
the poll alone.

Left out: time (15 s or 5 min), the race of a load with the invalidation and reads that
Redis fails (both are in `ReadCache`), deletion of rows, which no code does, and
`unsubscribe`, `replace` and `ping`, which the app never sends. Left out too is the rounding
of coordinates in cache keys, with a gap of its own: an incident in the outermost 110 m of
the circle may be missing from a snapshot borrowed from a neighbour, and the cursor taken
from that snapshot passes it for good. The client is `watch()` alone: `map_page.dart` merges
the reports stored on the device under the feed, so the author of a closed report may still
see it there. A
circle is the box the app computes: on the spheroid the true circle reaches up to 0.7 %
further north and south near the equator, so an incident in the outermost 350 m of 50 km
may be in a cell the app did not subscribe to. Beyond 88 degrees, where the box has too many
cells of either precision, the app subscribes to the one cell of home.

## 3. Runs

| Run | Shows |
|---|---|
| `outbox` | no event lost, at most one extra copy per failure, live claims exclusive, every row settled, `EventHandoff` implemented with its liveness |
| `delivery` | no alert lost, push has row, no retry leaves anybody out, processed is final |
| `pipeline` | no incident is forgotten between its transaction and its alerts, no alert is of an incident that is not there, `Delivery` is implemented, and every incident is at last processed or parked as a dead letter |
| `read_cache` | told is seen; reads become fresh whatever was lost |
| `moderation` | counts, verdicts, trust; every request answered in spite of deadlocks |
| `mobile_sync` | what is marked synced was delivered with its photo; no report lost; delivered in the end where Wi-Fi comes back |
| `accounts` | ended sessions are refused; erased data stays erased |
| `feed` | a quiet map shows what it was told, as far as the cache lets it; polling alone shows every change in the end |
| `push_lost`, `deleted_alerted`, `photo_hidden`, `mobile_starves` | four documented promises the code does not keep (section 6) |

Bounds. `outbox`: two pollers, a durable and an advisory event claimed in one batch,
three tokens (two can be in use for a row, one is fresh), three faults: a claim can be
overrun, its successor fail and a confirm get lost in one behaviour. `delivery`: one event in two
copies, two workers, one retry, one crash: two workers on one event, a redelivery and a
retry in the same behaviour, and dead letters replayed any number of times. One user
suffices because the steps treat users alike and separately. With one event nobody has the
row of another, so in this run `SkippedOnlyByCooldown` excuses nobody: it shows that a retry
or a second copy does not leave out a user for its own earlier attempt; the proof covers
several events, whose cooldowns do excuse. `MAX_RETRIES` is 1 where the
code has 5. `pipeline`: one incident, two pollers, one worker, one fault of the outbox (a
lost confirm, a crash or an overrun claim, so a second copy comes at any time of the first)
and none of the worker but failed calls: finitely many crashes only bring back states this
run has anyway. Nobody walks into the impact area (`MCZone` is empty; `delivery` has that). Payloads that do not parse occur in the proofs only: a second event that
goes to the dead letters beside the first is beyond the time of a run. `read_cache`: two changes, two INCRs, two faults, one instance and one
request at a time: stale loads, swallowed INCRs and lost versions all occur; the proof
covers several instances and requests. `moderation`: two requests in flight out of every
possible vote, review and photo on two incidents whose votes were cast before;
`MIN_DECISIVE_VOTES` and the 8 of `confidence_score` are 2, so that two voters reach what
five and eight do in the code. `MaxTime` 2 is the number of transactions. `mobile_sync`: one report (reports
share nothing but the session, and the queue takes them one by one), two logins by two
accounts and one fault: both isolates work on the report at once, with stale sessions, a
lost reply answered 409 on the retry, or a run stopped midway; the safety proof covers any
number of each. `mobile_starves`: one login, no fault, so that nothing but the mobile-data
rule can hold the report back. `accounts`: two accounts that
may use one e-mail and one device, two tokens, two requests at a time: a deletion or logout
against any other request, two sessions of one account, an e-mail that is registered again,
a purge by the logout of the other token; the proofs cover any number. `feed`: two incidents, one of them at the very
edge of the circle and past the antimeridian, no incident at first and two changes in all,
two transactions at a time, two values of the clock, pages of one row (500 in the code): an
empty snapshot, a client without a cursor that is told of changes behind a failed INCR or a
lost version, a closed incident, overtaking, equal timestamps and a page cut off all occur
(without either excuse of the cache `QuietIsCurrent` fails in this run). More changes, and a
client that begins with a cursor, are left to the proof,
and one client suffices because clients share only the cache, which `Warm` stands for.
`MCMapFeed` also states three assumptions TLC evaluates: its scene is one the proof asks for
(`SceneIsOnEarth`); cells hold their points and neighbours
are what lies next to them, over a grid with the poles and the antimeridian, for every
precision; and the cover of four circles contains their edges and is accepted by the hub.

Deadlock checking is off only where the system may rest (queues empty, or all
transactions of the bound used).

Fairness. A running loop takes its next step and a stopped one is restarted (the
supervisor, or the container). Clocks advance: back-offs, claim deadlines, TTLs. A ready
message reaches a worker (strong fairness: the queue is first in, first out and the
workers come back to it), which `EventPipeline` states together with the fairness of the
outbox. A worker's database or FCM call returns *or fails*, with no
assumption which. In `read_cache` nothing is assumed of listeners: only the TTL and the
requests go on. In `moderation` a transaction that does not wait goes on, and PostgreSQL
detects deadlocks. In `mobile_sync` code that runs goes on, Workmanager runs a registered
task, back-offs end, and the task again and again begins on Wi-Fi (strong fairness of that
one step; in `mobile_starves`, on any network); nobody has to open the app or log in, and
calls fail finitely often. In `feed` the timer ticks, the loop of `watch()` goes on, an API that
is asked again and again answers (strong fairness of the query and of its answer: both may
fail any number of times in between), and cache entries reach their TTL; nothing is assumed
of events, broker and WebSocket. No fairness is assumed of crashes, faults, users or producers.

## 4. Proofs

All for every value of the constants, from the named assumptions of each module (sets are
disjoint from their null values, bounds are naturals, a batch is not empty, users are
finite).

- `OutboxProofs`: `TypeCorrect`; `NothingLost`, which needs that a poller past the
  confirm of a durable event has made a copy; `ClaimsExclusive`, from the invariant that
  a token is held by one poller for a row; `CopiesPaidFor`, from `CopiesInv`;
  `ImplementsHandoffSafety`: `Init` and every step map to `EventHandoff`. The bound on copies
  alone is not inductive: what matters is who may still publish. `CopiesInv` gives each event
  a budget of `1 + faults`, spent on the copies the broker has, on the pollers that hold a
  claim and still owe the publication, and on the claim that may yet be taken without a
  failure (`Credit`); a step that moves an event from one to another spends nothing, and
  one that adds to them is a failure.
- `DeliveryProofs`: `TypeCorrect`; `NoEventDropped`, from `Accounted`: every event is
  processed or has a message where no later step drops it (in a queue, with a worker not
  about to acknowledge, or with a replay that has not published yet). `NoAlertLost` itself
  is not inductive, since a message about to be acknowledged still counts as held.
  `PushesHaveRows` and `EveryoneServed` from `ServeInv`, which says what a worker at each
  `wpc` has already done for the users it selected: at *record* every one of them has the row
  and was handed over. `EveryoneServed` states `SkippedOnlyByCooldown`, in which a user is
  excused by the row of another incident as severe, not by a cooldown still running, since
  the cooldown may end between selection and record. `ProcessedStaysFinal` freezes both
  `pushed` and `reached` of an event at rest. `OriginNext`
  says where alerts come from: only an arrival brings an event into the queues, and what
  is written or pushed is of an event somebody holds.
- `EventPipelineProofs`: `NothingForgotten`, `NoPhantoms`, `DeliveryImplemented`,
  `PipelineServes` (`PushHasRow` and `SkippedOnlyByCooldown` behind the outbox). Each step of the pipeline is a step of `Outbox` or leaves it alone, and
  one of `Delivery` or leaves that alone (`StepOfBoth`), so the invariants of the two sides
  carry over by their own lemmas; that an outbox step is an `Arrive` within the bound is
  what `CopiesInv` is for. `Grounded` adds that whatever is held, written or pushed is of
  a committed incident.
- `ReadCacheProofs`: `TypeCorrect`; `ClientsSeeWhatTheyWereTold`, from `FreshInv`: as
  long as the version was not lost, nothing is stored or about to be stored under the
  version of now that misses a change some instance invalidated for, nothing at all is
  stored under a later one, and what a request may find under the version it read shows
  all its client knew.
- `ModerationProofs`: `TypeCorrect`; `CountsKept` and `VerdictsJustified`, from `Settled`:
  requests that hold the row of an incident exclude each other, so a draft still agrees
  with the votes its commit will leave, and its status is founded. `TrustKept`, from
  `Trusted`: as long as a review in progress has a user still to adjust, nothing of its
  incident is recorded for that user, and the trust of a user is the start value plus the
  recorded gains less the losses, cut off only where the sums leave 0 to 100. It rests on
  lemmas about sums over finite sets (`MapThenSumSet`), proved by a least counterexample,
  because the induction theorems of the library cannot be instantiated here.
- `MobileSyncProofs`: `TypeCorrect`; `SyncedIsDelivered` and `NothingLost`, from
  `QueueInv`: every report a run knows of, in its queue or at hand, was created, so it is not
  created again; a run past the POST has it stored, and one about to mark it synced has it
  delivered. The promises alone are not inductive: what `MarkSynced` writes over the
  record, whatever the other isolate made of it, is justified only by what the run did.
- `AccountsProofs`: `TypeCorrect`; `EndedRefused`, from `SessionInv`: the token of a
  request that begins too late is dead for every check still to come (its account is
  removed, or it is revoked, or expired), and removed rows and answered logouts stay so;
  `ErasureIsFinal`, from `ErasureInv`: of an account removed alone no request is admitted
  any more, so no later write reaches its row.
- `MapFeedProofs`: `TypeCorrect`; `QuietClientIsCurrent`, from `FeedInv`. Of each incident
  around the client, what the client has is the row, or the row is ahead of the cursor, or
  was overtaken (`Current`), now and after the page at hand is merged; a cached table,
  readable or not, is an
  earlier state of the rows, and what has changed since is ahead of all of it (`Earlier`);
  hence what was to be told is known or ahead (`Told`), and while it is not known there is a
  reason to look (`Attended`). While the client has no cursor what it is owed never exceeds
  what it would be answered (`AnswersEarlier`, `LoseVersionKept`), which a swallowed INCR and
  a lost version both respect by the definition of `due`. It rests on lemmas about the order of keys and about pages
  (the rows of a page come before those left out, a page that is not full holds all). The
  client must also hear of what is around it, which is `NearbyIsHeard`: the cells of
  `geohashCellsAround` leave no hole. Of two points in a cell the hashes start alike
  (`SameBits`: a bit is a quotient by a power of two, and quotients nest); the loop takes a
  value from every cell between its ends, the last one thanks to the step past the end
  (`SampleInCell`); cutting off at the poles and wrapping at the antimeridian keep the cell
  (`ClampKeepsCell`, `WrapKeepsCell`). It asks of the scene that the cover at precision 3 fits
  the 50 subscriptions (`SceneOnEarth`); else the app subscribes to the cell of home alone
  and a hole is left. `SmallCirclesFit` shows when it does: for the 50 km of the map, up to
  88 degrees of latitude.

Only model-checked: all liveness (`EveryRowSettled`, `EveryIncidentSettled`,
`EventuallyFresh`, `EveryRequestAnswered`, `EventuallySettled`, `EventuallyShown`, the
liveness half of `ImplementsHandoff`), which is outside the proof system; and `Bounds` and
`Neighbors` of `GeoHash`, sums over sets of bits, which TLC evaluates at the corners of the
grid (`CellsHoldTheirPoints`).

## 5. Not modelled, and the plan

Not modelled: the text of messages, HTTP and JSON, the user interface, weather, camera,
platform runners, CI and backups; monitoring, operations and migrations are stateless I/O;
risk, impact, categories and the assessment of routes are tables and weighted sums of
floating-point numbers that unit tests reach; geometry beyond the box above is PostGIS's.
Still to be done, in order of weight:

1. `ProximityMonitor`: hysteresis and notice cooldown of `evaluateProximity`, overlapping
   checks.
2. Abstract specifications for `MobileSync` (a report is delivered once) and `ReadCache`,
   with their refinements.

## 6. Where code and documents disagree

Four disagreements have a run of their own:

- `push_lost`: the cooldown ignores rows of the same incident, but another row of the
  same severity written between the failed push and the retry still excludes the user, so
  the push is lost (`geolocation_repository.py`, `requisitos-aps.md`).
- `deleted_alerted`: a worker that selected a user before `anonymize` writes the row
  after it, and nothing removes it (`worker.py`, `seguranca.md`).
- `photo_hidden`: `updated_at` is the start of the transaction, so a photo committed
  after a later-started vote puts it back and the incremental feed passes it over
  (`postgres_incident_repository.py`).
- `mobile_starves`: `synchronize` tries pending reports when there is a connection
  (`README-POSTGRES.md`), urgent ones first on mobile data; but reports of the device all
  have the default severity and priority, so on mobile data none is ever sent
  (`sync_incidents_service.dart`, `create_incident_use_case.dart`).

One more is part of the model and has none. `robustez-operacao.md`, line 53, says of FCM
calls that a failure or timeout produces no ACK and is retried by RabbitMQ, at last parked
in the dead-letter queue. That holds of the timeout and of calls that raise. Failures FCM
reports per message are returned as `failure_count`, which `worker.py` logs at line 84
before it records and acknowledges the event (lines 108 to 115): `Push` may leave `reached`
empty and `Record` follow, and by `ProcessedIsFinal` nobody is pushed again after that.
