------------------------------ MODULE Delivery ------------------------------
(***************************************************************************)
(* From the broker to the citizens: the incident queue with its retry and  *)
(* dead-letter queues (messaging.py), the notification workers that        *)
(* consume it (worker.py), the replay of dead letters                      *)
(* (replay_dead_letters.py), and the two API calls that write the same     *)
(* rows: entering an impact area and deleting an account.                  *)
(*                                                                         *)
(* A message is its event and its x-death count, a queue the number of its *)
(* messages of each kind: two workers take from it in any order anyway,    *)
(* and a crash requeues.  Every database access of process_event is a      *)
(* transaction of its own, so each is a step of its own.  Distances,       *)
(* categories, severity thresholds, quiet hours and the exclusion of the   *)
(* reporter are abstracted to the constant relations Nearby and Zone.  FCM *)
(* is enabled; whoever has no push token is one FCM does not reach.        *)
(***************************************************************************)
EXTENDS Naturals, FiniteSets

CONSTANTS
    Events,        \* incidents, each with its incident.created.v1 event
    Malformed,     \* events whose payload fails validation
    Users,
    Nearby,        \* Nearby[e]: users whose alert radius or route e is in
    Zone,          \* Zone[e]: users whose way leads into the impact area of e
    Severity,      \* Severity[e]: the cooldown compares only equal ones
    Workers,       \* notification workers: processes or embedded tasks
    NoMessage,
    MAX_RETRIES,   \* WORKER_MAX_RETRIES
    MaxCopies,     \* bound: times the outbox hands over one event
    MaxCrashes     \* bound: crashes of a behaviour

Message == [event : Events, deaths : 0..MAX_RETRIES]

ASSUME DeliveryAssumption ==
    /\ Malformed \subseteq Events
    /\ Nearby \in [Events -> SUBSET Users]
    /\ Zone \in [Events -> SUBSET Users]
    /\ Severity \in [Events -> Nat]
    /\ MAX_RETRIES \in Nat /\ MaxCopies \in Nat /\ MaxCrashes \in Nat
    /\ NoMessage \notin Message

VARIABLES
    copies,     \* copies[e]: messages of e the outbox has handed over
    ready,      \* ready[m]: messages m ready in the incident queue
    retry,      \* ... waiting in the retry queue
    dead,       \* ... parked in the dead-letter queue
    wpc,        \* wpc[w]: where worker w is in consume_loop
    msg,        \* msg[w]: the unacknowledged message of w (prefetch 1)
    users,      \* users[w]: result of find_users_within_radius
    replaying,  \* the dead letter replay() holds, not yet acknowledged
    copied,     \* ... and has published again
    processed,  \* processed_events of the notification worker
    notified,   \* rows <<user, event>> of notifications
    recent,     \* those younger than the user's cooldown
    entered,    \* those with reason 'geofence_entry'
    pushed,     \* pairs a worker handed to FCM
    reached,    \* those FCM accepted
    deleted,    \* users with deleted_at set
    crashes

brokerVars == <<ready, retry, dead>>
workerVars == <<wpc, msg, users>>
replayVars == <<replaying, copied>>
rowVars == <<notified, recent, entered>>
tableVars == <<processed, rowVars, deleted>>
fcmVars == <<pushed, reached>>
vars == <<copies, brokerVars, workerVars, replayVars, tableVars, fcmVars, crashes>>

WorkerStates ==
    {"idle", "check", "select", "persist", "push", "record", "ack", "bury"}

BrokerOK ==
    /\ copies \in [Events -> 0..MaxCopies]
    /\ ready \in [Message -> Nat]
    /\ retry \in [Message -> Nat]
    /\ dead \in [Message -> Nat]
    /\ replaying \in Message \cup {NoMessage}
    /\ copied \in BOOLEAN
    /\ crashes \in 0..MaxCrashes

WorkersOK ==
    /\ wpc \in [Workers -> WorkerStates]
    /\ msg \in [Workers -> Message \cup {NoMessage}]
    /\ users \in [Workers -> SUBSET Users]
    /\ \A w \in Workers : wpc[w] = "idle" <=> msg[w] = NoMessage

TablesOK ==
    /\ processed \in SUBSET Events
    /\ notified \in SUBSET (Users \X Events)
    /\ recent \in SUBSET notified
    /\ entered \in SUBSET notified
    /\ pushed \in SUBSET (Users \X Events)
    /\ reached \in SUBSET pushed
    /\ deleted \in SUBSET Users

TypeOK == BrokerOK /\ WorkersOK /\ TablesOK

Init ==
    /\ copies = [e \in Events |-> 0]
    /\ ready = [m \in Message |-> 0]
    /\ retry = [m \in Message |-> 0]
    /\ dead = [m \in Message |-> 0]
    /\ wpc = [w \in Workers |-> "idle"]
    /\ msg = [w \in Workers |-> NoMessage]
    /\ users = [w \in Workers |-> {}]
    /\ replaying = NoMessage /\ copied = FALSE
    /\ processed = {} /\ notified = {} /\ recent = {} /\ entered = {}
    /\ pushed = {} /\ reached = {}
    /\ deleted = {}
    /\ crashes = 0

CrashHere == crashes < MaxCrashes /\ crashes' = crashes + 1

-----------------------------------------------------------------------------
(* The broker.                                                             *)

Fresh(e) == [event |-> e, deaths |-> 0]
Died(m) == [m EXCEPT !.deaths = @ + 1]

Plus(queue, m) == [queue EXCEPT ![m] = @ + 1]
Minus(queue, m) == [queue EXCEPT ![m] = @ - 1]

\* The outbox hands over a copy of e (publish_envelope, confirmed or not).
Arrive(e) ==
    /\ copies[e] < MaxCopies
    /\ copies' = [copies EXCEPT ![e] = @ + 1]
    /\ ready' = Plus(ready, Fresh(e))
    /\ UNCHANGED <<retry, dead, workerVars, replayVars, tableVars, fcmVars, crashes>>

\* x-message-ttl: the retry queue dead-letters back to the incident queue.
RetryElapses(m) ==
    /\ retry[m] > 0
    /\ retry' = Minus(retry, m)
    /\ ready' = Plus(ready, m)
    /\ UNCHANGED <<copies, dead, workerVars, replayVars, tableVars, fcmVars, crashes>>

-----------------------------------------------------------------------------
(* process_event, one step per database or FCM access.                     *)

Goto(w, l) == wpc' = [wpc EXCEPT ![w] = l]
EventOf(w) == msg[w].event

Take(w, m) ==
    /\ wpc[w] = "idle"
    /\ ready[m] > 0
    /\ ready' = Minus(ready, m)
    /\ msg' = [msg EXCEPT ![w] = m]
    /\ Goto(w, "check")
    /\ UNCHANGED <<copies, retry, dead, users, replayVars, tableVars, fcmVars, crashes>>

\* model_validate, then the look-up in processed_events.
CheckNext_Unchecked(w) == IF EventOf(w) \in Malformed THEN "bury" ELSE "select"

CheckNext(w) ==
    IF EventOf(w) \in Malformed THEN "bury"
    ELSE IF EventOf(w) \in processed THEN "ack" ELSE "select"

Check(w) ==
    /\ wpc[w] = "check"
    /\ Goto(w, CheckNext(w))
    /\ UNCHANGED <<copies, brokerVars, msg, users, replayVars, tableVars, fcmVars, crashes>>

\* A bug: the cooldown counts the notification the last attempt has written.
CoolingDown_Own(u, e) ==
    \E f \in Events : Severity[f] = Severity[e] /\ <<u, f>> \in recent

\* The cooldown, which ignores notifications of the incident itself.
CoolingDown(u, e) ==
    \E f \in Events \ {e} : Severity[f] = Severity[e] /\ <<u, f>> \in recent

Recipients(e) == {u \in Nearby[e] \ deleted : ~CoolingDown(u, e)}

Select(w) ==
    /\ wpc[w] = "select"
    /\ users' = [users EXCEPT ![w] = Recipients(EventOf(w))]
    /\ Goto(w, "persist")
    /\ UNCHANGED <<copies, brokerVars, msg, replayVars, tableVars, fcmVars, crashes>>

\* INSERT ... ON CONFLICT DO NOTHING for every user selected before.
InsertRows(rows) ==
    /\ notified' = notified \cup rows
    /\ recent' = recent \cup (rows \ notified)

Alerts(w) == users[w] \X {EventOf(w)}

Persist(w) ==
    /\ wpc[w] = "persist"
    /\ InsertRows(Alerts(w))
    /\ Goto(w, "push")
    /\ UNCHANGED <<copies, brokerVars, msg, users, replayVars, processed, entered, deleted,
                   fcmVars, crashes>>

\* FCM accepts some of what it is handed.
HandOver(w, handed) ==
    /\ pushed' = pushed \cup (handed \X {EventOf(w)})
    /\ \E accepted \in SUBSET handed : reached' = reached \cup (accepted \X {EventOf(w)})

\* send_each_for_multicast raises for no token FCM refuses and for no error
\* FCM answers with: it counts them, the count is logged, and the event goes on.
Push(w) ==
    /\ wpc[w] = "push"
    /\ HandOver(w, users[w])
    /\ Goto(w, "record")
    /\ UNCHANGED <<copies, brokerVars, msg, users, replayVars, tableVars, crashes>>

Record(w) ==
    /\ wpc[w] = "record"
    /\ processed' = processed \cup {EventOf(w)}
    /\ Goto(w, "ack")
    /\ UNCHANGED <<copies, brokerVars, msg, users, replayVars, rowVars, deleted, fcmVars, crashes>>

Release(w) ==
    /\ msg' = [msg EXCEPT ![w] = NoMessage]
    /\ users' = [users EXCEPT ![w] = {}]
    /\ Goto(w, "idle")

Ack(w) ==
    /\ wpc[w] = "ack"
    /\ Release(w)
    /\ UNCHANGED <<copies, brokerVars, replayVars, tableVars, fcmVars, crashes>>

-----------------------------------------------------------------------------
(* What goes wrong in process_event, and what consume_loop does about it.  *)

Exhausted(m) == m.deaths >= MAX_RETRIES

\* A bug: reject(requeue=True) leaves no x-death entry.
Retry_Requeued(w) ==
    /\ ready' = Plus(ready, msg[w])
    /\ Release(w)
    /\ UNCHANGED <<retry, dead>>

\* except Exception: reject into the retry queue until MAX_RETRIES.
Retry(w) ==
    IF Exhausted(msg[w])
    THEN /\ Goto(w, "bury")
         /\ UNCHANGED <<brokerVars, msg, users>>
    ELSE /\ retry' = Plus(retry, Died(msg[w]))
         /\ Release(w)
         /\ UNCHANGED <<ready, dead>>

\* A query fails: nothing was written.
QueryFails(w) ==
    /\ wpc[w] \in {"check", "select"}
    /\ Retry(w)
    /\ UNCHANGED <<copies, replayVars, tableVars, fcmVars, crashes>>

\* A bug: a failed insert is only logged.
PersistFails_Swallowed(w) ==
    /\ wpc[w] = "persist" /\ users[w] # {}
    /\ Goto(w, "push")
    /\ UNCHANGED <<copies, brokerVars, msg, users, replayVars, tableVars, fcmVars, crashes>>

\* A write fails, or only its confirmation is lost.  Without recipients there
\* is none.
PersistFails(w) ==
    /\ wpc[w] = "persist" /\ users[w] # {}
    /\ InsertRows(Alerts(w)) \/ UNCHANGED <<notified, recent>>
    /\ Retry(w)
    /\ UNCHANGED <<copies, replayVars, processed, entered, deleted, fcmVars, crashes>>

RecordFails(w) ==
    /\ wpc[w] = "record"
    /\ processed' \in {processed, processed \cup {EventOf(w)}}
    /\ Retry(w)
    /\ UNCHANGED <<copies, replayVars, rowVars, deleted, fcmVars, crashes>>

\* A batch cannot be sent or the timeout strikes: FCM batches go out in parallel
\* threads, so some were handed over.
PartlyPushed(w) == \E handed \in SUBSET users[w] : HandOver(w, handed)

\* A ValueError (credentials that do not parse, a Firebase app two threads
\* initialise at once) is taken for an invalid event and never retried.
PushFails(w) ==
    /\ wpc[w] = "push" /\ users[w] # {}
    /\ PartlyPushed(w)
    /\ \/ Retry(w)
       \/ Goto(w, "bury") /\ UNCHANGED <<brokerVars, msg, users>>
    /\ UNCHANGED <<copies, replayVars, tableVars, crashes>>

\* A bug: the ack after it is forgotten.
SendToDeadLetter_Unacked(w) ==
    /\ wpc[w] = "bury"
    /\ dead' = Plus(dead, msg[w])
    /\ Goto(w, "idle")
    /\ UNCHANGED <<copies, ready, retry, msg, users, replayVars, tableVars, fcmVars, crashes>>

\* _send_to_dead_letter publishes a copy with all headers; the ack follows.
SendToDeadLetter(w) ==
    /\ wpc[w] = "bury"
    /\ dead' = Plus(dead, msg[w])
    /\ Goto(w, "ack")
    /\ UNCHANGED <<copies, ready, retry, msg, users, replayVars, tableVars, fcmVars, crashes>>

\* The worker or its connection dies: the broker requeues what it held.
WorkerCrash(w) ==
    /\ wpc[w] # "idle"
    /\ CrashHere
    /\ ready' = Plus(ready, msg[w])
    /\ IF wpc[w] = "push" THEN PartlyPushed(w) ELSE UNCHANGED fcmVars
    /\ Release(w)
    /\ UNCHANGED <<copies, retry, dead, replayVars, tableVars>>

-----------------------------------------------------------------------------
(* replay(): get, publish to the event exchange, acknowledge.              *)

ReplayGet(m) ==
    /\ replaying = NoMessage
    /\ dead[m] > 0
    /\ dead' = Minus(dead, m)
    /\ replaying' = m
    /\ copied' = FALSE
    /\ UNCHANGED <<copies, ready, retry, workerVars, tableVars, fcmVars, crashes>>

\* Only x-error-reason is dropped: the x-death count comes along.
ReplayPublish ==
    /\ replaying # NoMessage /\ ~copied
    /\ ready' = Plus(ready, replaying)
    /\ copied' = TRUE
    /\ UNCHANGED <<copies, retry, dead, workerVars, replaying, tableVars, fcmVars, crashes>>

\* A bug: the dead letter is acknowledged before its copy is published.
ReplayAck_Early ==
    /\ replaying # NoMessage
    /\ replaying' = NoMessage
    /\ copied' = FALSE
    /\ UNCHANGED <<copies, brokerVars, workerVars, tableVars, fcmVars, crashes>>

ReplayAck ==
    /\ replaying # NoMessage /\ copied
    /\ replaying' = NoMessage
    /\ copied' = FALSE
    /\ UNCHANGED <<copies, brokerVars, workerVars, tableVars, fcmVars, crashes>>

ReplayCrash ==
    /\ replaying # NoMessage
    /\ CrashHere
    /\ dead' = Plus(dead, replaying)
    /\ replaying' = NoMessage
    /\ copied' = FALSE
    /\ UNCHANGED <<copies, ready, retry, workerVars, tableVars, fcmVars>>

-----------------------------------------------------------------------------
(* The API calls that touch the same rows.                                 *)

\* create_for_nearby_incidents: a position inside the impact area of e.  No
\* cooldown applies, and the incident is there before its event arrives.
EnterZone(u, e) ==
    /\ u \in Zone[e] \ deleted
    /\ <<u, e>> \notin notified
    /\ InsertRows({<<u, e>>})
    /\ entered' = entered \cup {<<u, e>>}
    /\ UNCHANGED <<copies, brokerVars, workerVars, replayVars, processed, deleted, fcmVars, crashes>>

CooldownElapses(u) ==
    /\ \E e \in Events : <<u, e>> \in recent
    /\ recent' = {r \in recent : r[1] # u}
    /\ UNCHANGED <<copies, brokerVars, workerVars, replayVars, processed, notified, entered,
                   deleted, fcmVars, crashes>>

\* anonymize: one transaction clears the user and deletes its notifications.
Anonymize(u) ==
    /\ u \notin deleted
    /\ deleted' = deleted \cup {u}
    /\ notified' = {r \in notified : r[1] # u}
    /\ recent' = {r \in recent : r[1] # u}
    /\ entered' = {r \in entered : r[1] # u}
    /\ UNCHANGED <<copies, brokerVars, workerVars, replayVars, processed, fcmVars, crashes>>

-----------------------------------------------------------------------------
WorkerStep(w) ==
    \/ Check(w) \/ Select(w) \/ Persist(w) \/ Push(w) \/ Record(w) \/ Ack(w)
    \/ SendToDeadLetter(w)

WorkerFails(w) ==
    QueryFails(w) \/ PersistFails(w) \/ PushFails(w) \/ RecordFails(w)

Replay == (\E m \in Message : ReplayGet(m)) \/ ReplayPublish \/ ReplayAck \/ ReplayCrash

UserStep(u) ==
    CooldownElapses(u) \/ Anonymize(u) \/ \E e \in Events : EnterZone(u, e)

\* Everything but the arrival of events.
InternalNext ==
    \/ \E m \in Message : RetryElapses(m) \/ \E w \in Workers : Take(w, m)
    \/ \E w \in Workers : WorkerStep(w) \/ WorkerFails(w) \/ WorkerCrash(w)
    \/ Replay
    \/ \E u \in Users : UserStep(u)

Next == (\E e \in Events : Arrive(e)) \/ InternalNext

Spec == Init /\ [][Next]_vars

-----------------------------------------------------------------------------
(* Properties.                                                             *)

Carry(e) == {m \in Message : m.event = e}

Held(m) ==
    \/ ready[m] + retry[m] + dead[m] > 0 \/ replaying = m
    \/ \E w \in Workers : msg[w] = m

\* An event the broker has accepted is processed or still in one of its
\* queues, through crashes between any two steps, rejections, dead-lettering
\* and replay.
NoAlertLost == \A e \in Events : copies[e] > 0 => e \in processed \/ \E m \in Carry(e) : Held(m)

\* Nobody is pushed an alert the app cannot then list: the row comes first.
\* Only a deleted account has lost its rows.
PushHasRow ==
    \A u \in Users, e \in Events :
        <<u, e>> \in pushed => <<u, e>> \in notified \/ u \in deleted

\* A row of another incident as severe: what the cooldown goes by.
Excused(u, e) ==
    \E f \in Events \ {e} : Severity[f] = Severity[e] /\ <<u, f>> \in notified

\* However often an event was retried or duplicated, once it is processed
\* everyone near it has its row and was handed to FCM, except those who have the
\* row of another incident: no retry leaves out a user for its own earlier
\* attempt.  Whether FCM accepted the push is not part of it.
SkippedOnlyByCooldown ==
    \A e \in processed : \A u \in Nearby[e] \ deleted :
        <<u, e>> \in notified \cap pushed \/ Excused(u, e)

\* processed_events stops every copy: once an event is processed and no worker
\* is past the look-up with it, no late copy, retry or replayed dead letter of
\* it selects, writes or pushes anything again.  So whom FCM has not accepted by
\* then, though no error was raised, never gets the push.
AtRest(e) ==
    /\ e \in processed
    /\ \A w \in Workers :
         msg[w] \in Carry(e) => wpc[w] \in {"check", "ack", "bury"}

Sent(e) == <<pushed \cap (Users \X {e}), reached \cap (Users \X {e})>>

ProcessedIsFinal ==
    [][\A e \in Events : AtRest(e) => AtRest(e)' /\ UNCHANGED Sent(e)]_vars

\* docs/requisitos-aps.md: a push that failed after the row was written is
\* not lost on the retry.  Whoever a worker has written a row for is pushed by
\* the time the event counts as processed.
PushSurvivesRetry ==
    \A e \in processed, u \in Users \ deleted :
        <<u, e>> \in notified \ entered => <<u, e>> \in pushed

\* docs/seguranca.md: deleting an account deletes its notifications, and a
\* deleted account receives no more alerts.
DeletedHasNoAlerts == \A r \in notified : r[1] \notin deleted
=============================================================================
