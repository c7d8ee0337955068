---------------------------- MODULE EventPipeline ----------------------------
(***************************************************************************)
(* From the report of an incident to its alert: the outbox and its pollers *)
(* (Outbox) joined with the incident queue, the workers and the replay     *)
(* (Delivery).  They meet in two places.  What the broker has routed of a  *)
(* durable event is a message of the incident queue, confirmed or not; and *)
(* the impact areas a user walks into are those of incidents the database  *)
(* has.  The processes are otherwise independent, so a step is one of      *)
(* either side.                                                            *)
(***************************************************************************)
EXTENDS Outbox

CONSTANTS Malformed, Users, Nearby, Zone, Severity, Workers, NoMessage, MAX_RETRIES, MaxCrashes

VARIABLES
    ready, retry, dead, wpc, msg, users, replaying, copied,
    processed, notified, recent, entered, pushed, reached, deleted, crashes

\* The queue is bound to the durable types only, and the outbox hands an event
\* over at most once more than it fails.
D == INSTANCE Delivery WITH
    Events <- DurableEvents,
    copies <- [e \in DurableEvents |-> copies[e]],
    MaxCopies <- 1 + MaxFaults

ASSUME QueueAssumption ==
    /\ Malformed \subseteq DurableEvents
    /\ Nearby \in [DurableEvents -> SUBSET Users]
    /\ Zone \in [DurableEvents -> SUBSET Users]
    /\ Severity \in [DurableEvents -> Nat]
    /\ MAX_RETRIES \in Nat /\ MaxCrashes \in Nat
    /\ NoMessage \notin D!Message

\* What a step of the outbox leaves alone.
restVars ==
    <<retry, dead, wpc, msg, users, replaying, copied, processed, notified, recent, entered,
      pushed, reached, deleted, crashes>>
allVars == <<vars, ready, restVars>>

PipelineInit == Init /\ D!Init

-----------------------------------------------------------------------------
\* What the broker routed in this step is ready, with no x-death entry.
Enqueued ==
    [m \in D!Message |->
        ready[m] + IF m.deaths = 0 THEN copies'[m.event] - copies[m.event] ELSE 0]

OutboxStep == Next /\ ready' = Enqueued /\ UNCHANGED restVars

Beside(Action) == UNCHANGED vars /\ Action

\* create_for_nearby_incidents reads incidents that are committed.
DeliveryStep == Beside(D!InternalNext /\ entered' \subseteq Users \X committed)

PipelineNext == OutboxStep \/ DeliveryStep

\* The fairness of the outbox.  The incident queue is first in, first out, so
\* a ready message reaches an idle worker; a worker goes on with its message,
\* whether the database and FCM answer or, for ever, do not; the retry queue
\* has a TTL; a replay that was started goes on.
PipelineFairness ==
    /\ Fairness
    /\ \A m \in D!Message :
         /\ SF_allVars(Beside(\E w \in Workers : D!Take(w, m)))
         /\ WF_allVars(Beside(D!RetryElapses(m)))
    /\ \A w \in Workers : WF_allVars(Beside(D!WorkerStep(w) \/ D!WorkerFails(w)))
    /\ WF_allVars(Beside(D!ReplayPublish \/ D!ReplayAck))

Pipeline == PipelineInit /\ [][PipelineNext]_allVars /\ PipelineFairness

-----------------------------------------------------------------------------
(* Properties.                                                             *)

\* An incident the API accepted is never silently without its alert, at any
\* point of the way: its event has a row in the outbox, a message somewhere
\* behind the broker, or is done.
NoIncidentForgotten ==
    \A e \in committed \cap DurableEvents :
        e \in outbox \/ e \in processed \/ \E m \in D!Carry(e) : D!Held(m)

\* Nobody hears of an incident that is not there: rows, pushes and processed
\* events are of committed transactions.
NoPhantomAlerts ==
    /\ processed \subseteq committed
    /\ notified \cup pushed \subseteq Users \X committed

\* Whatever pollers, lost confirms and overrun claims do, the queue sees a
\* behaviour of Delivery: one message at a time, and of each event no more
\* than the copies that module allows for.
ImplementsDelivery == D!Init /\ [][D!Next]_(D!vars)

\* Every accepted incident is at last processed or parked in the dead-letter
\* queue.  Processed is what SkippedOnlyByCooldown of Delivery says it is: FCM
\* may have refused the pushes.
EveryIncidentSettled ==
    \A e \in DurableEvents :
        e \in committed ~> e \in processed \/ \E m \in D!Carry(e) : dead[m] > 0
=============================================================================
