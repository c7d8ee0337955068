------------------------- MODULE EventPipelineProofs -------------------------
(* Theorems about the way of an incident from its transaction to its       *)
(* alerts, for every set of events, pollers, workers and users and any     *)
(* number of faults.  They combine the invariants of the two sides.        *)
EXTENDS EventPipeline, OutboxProofs

\* The theorems about Delivery, for its instance D.
DP == INSTANCE DeliveryProofs WITH
    Events <- DurableEvents,
    copies <- [e \in DurableEvents |-> copies[e]],
    MaxCopies <- 1 + MaxFaults

LEMMA QueueConstants == DP!DeliveryAssumption
  BY QueueAssumption, FaultAssumption DEF DP!DeliveryAssumption, D!Message, DP!Message

-----------------------------------------------------------------------------
(* DP speaks of the definitions of D.                                      *)

LEMMA SameVars == UNCHANGED D!vars <=> UNCHANGED DP!vars
  BY DEF D!vars, DP!vars, D!fcmVars, DP!fcmVars, D!brokerVars, DP!brokerVars,
     D!workerVars, DP!workerVars,
     D!replayVars, DP!replayVars, D!tableVars, DP!tableVars, D!rowVars, DP!rowVars

LEMMA SameInit == D!Init <=> DP!Init
  BY DEF D!Init, DP!Init, D!Message, DP!Message

LEMMA SameInternalNext == D!InternalNext <=> DP!InternalNext
  BY DEF D!Message, DP!Message, D!Plus, DP!Plus, D!Minus, DP!Minus, D!Died, DP!Died, D!Fresh,
     DP!Fresh, D!brokerVars, DP!brokerVars, D!workerVars, DP!workerVars, D!replayVars,
     DP!replayVars, D!rowVars, DP!rowVars, D!tableVars, DP!tableVars, D!Goto, DP!Goto,
     D!EventOf, DP!EventOf, D!CheckNext, DP!CheckNext, D!CoolingDown, DP!CoolingDown,
     D!Recipients, DP!Recipients, D!InsertRows, DP!InsertRows, D!Alerts, DP!Alerts,
     D!Release, DP!Release, D!Exhausted, DP!Exhausted, D!Retry, DP!Retry, D!fcmVars,
     DP!fcmVars, D!HandOver, DP!HandOver, D!PartlyPushed, DP!PartlyPushed,
     D!CrashHere, DP!CrashHere, D!RetryElapses, DP!RetryElapses, D!Take,
     DP!Take, D!Check, DP!Check, D!Select, DP!Select, D!Persist, DP!Persist, D!Push, DP!Push,
     D!Record, DP!Record, D!Ack, DP!Ack, D!SendToDeadLetter, DP!SendToDeadLetter,
     D!QueryFails, DP!QueryFails, D!PersistFails, DP!PersistFails, D!PushFails, DP!PushFails,
     D!RecordFails, DP!RecordFails, D!WorkerCrash, DP!WorkerCrash, D!ReplayGet, DP!ReplayGet,
     D!ReplayPublish, DP!ReplayPublish, D!ReplayAck, DP!ReplayAck, D!ReplayCrash,
     DP!ReplayCrash, D!EnterZone, DP!EnterZone, D!CooldownElapses, DP!CooldownElapses,
     D!Anonymize, DP!Anonymize, D!WorkerStep, DP!WorkerStep, D!WorkerFails, DP!WorkerFails,
     D!Replay, DP!Replay, D!UserStep, DP!UserStep, D!InternalNext, DP!InternalNext

LEMMA SameArrive == ASSUME NEW e \in DurableEvents PROVE D!Arrive(e) <=> DP!Arrive(e)
  BY DEF D!Arrive, DP!Arrive, D!Plus, DP!Plus, D!Fresh, DP!Fresh, D!Message, DP!Message,
     D!workerVars, DP!workerVars, D!replayVars, DP!replayVars, D!tableVars, DP!tableVars,
     D!rowVars, DP!rowVars, D!fcmVars, DP!fcmVars

LEMMA SameNext == D!Next <=> DP!Next
  BY SameInternalNext, SameArrive DEF D!Next, DP!Next

LEMMA SameHeld ==
    ASSUME NEW e \in DurableEvents
    PROVE  /\ D!Carry(e) = DP!Carry(e)
           /\ \A m \in D!Carry(e) : D!Held(m) <=> DP!Held(m)
  BY DEF D!Carry, DP!Carry, D!Held, DP!Held, D!Message, DP!Message

-----------------------------------------------------------------------------
(* The outbox feeds the queue.                                             *)

\* A step of the outbox puts at most one message into the queue, of an event
\* that is recorded.
LEMMA OutboxCopies ==
    ASSUME TypeOK, Next
    PROVE  /\ committed \subseteq committed'
           /\ \/ copies' = copies
              \/ \E e \in committed : copies' = [copies EXCEPT ![e] = @ + 1]
<1>1. ASSUME NEW e \in Events, Commit(e) \/ ClockStep(e) \/ SlowClaimLapses(e)
      PROVE  committed \subseteq committed' /\ copies' = copies
  BY <1>1 DEF Commit, ClockStep, SlowClaimLapses, BackoffElapses, AbandonedClaimLapses, Lapse
<1>2. ASSUME NEW p \in Pollers, PollerStep(p) \/ PollerFault(p)
      PROVE  committed' = committed
  BY <1>2 DEF PollerStep, PollerFault, Claim, EmptyPoll, PublishConfirmed, MarkPublished,
     RescheduleFailed, Restart, PublishFails, MarkFails, RescheduleFails, Crash, vars, tableVars
<1>3. ASSUME NEW p \in Pollers, PublishConfirmed(p) \/ PublishFails(p)
      PROVE  \/ copies' = copies
             \/ \E e \in committed : copies' = [copies EXCEPT ![e] = @ + 1]
  <2>1. PICK e \in Claimed(p) : copies' \in Routings(e) \cup {copies}
    BY <1>3 DEF PublishConfirmed, PublishFails
  <2>2. e \in committed
    BY <2>1 DEF Claimed, TypeOK
  <2>3. QED
    BY <2>1, <2>2 DEF Routings
<1>4. ASSUME NEW p \in Pollers, PollerStep(p) \/ PollerFault(p),
             ~(PublishConfirmed(p) \/ PublishFails(p))
      PROVE  copies' = copies
  BY <1>4 DEF PollerStep, PollerFault, Claim, EmptyPoll, MarkPublished, RescheduleFailed,
     Restart, MarkFails, RescheduleFails, Crash, vars
<1>5. QED
  BY <1>1, <1>2, <1>3, <1>4 DEF Next

LEMMA QueuesTyped == DP!TypeOK => ready \in [D!Message -> Nat]
  BY DEF DP!TypeOK, DP!BrokerOK, DP!Message, D!Message

\* For the queue, a step of the outbox is the arrival of an event or nothing:
\* the bound on copies, paid for by faults, never turns an arrival away.
LEMMA OutboxFeeds ==
    ASSUME CopiesInv, DP!TypeOK, OutboxStep
    PROVE  \/ UNCHANGED D!vars
           \/ \E e \in committed \cap DurableEvents : D!Arrive(e)
<1>1. /\ TypeOK /\ TypeOK' /\ ready \in [D!Message -> Nat]
      /\ DurableEvents \subseteq Events /\ committed \subseteq Events
  BY EventsAssumption, TypeNext, QueuesTyped DEF CopiesInv, OutboxStep, TypeOK
<1>2. ready' = Enqueued /\ UNCHANGED restVars
  BY DEF OutboxStep
<1>3. CASE copies' = copies
  <2>1. ready' = ready
    <3>1. \A m \in D!Message : m.event \in DurableEvents /\ copies[m.event] \in Nat
      BY <1>1 DEF D!Message, TypeOK
    <3>2. QED
      BY <1>1, <1>2, <1>3, <3>1 DEF Enqueued
  <2>2. QED
    BY <1>2, <1>3, <2>1
       DEF restVars, D!vars, D!brokerVars, D!workerVars, D!replayVars, D!tableVars, D!rowVars,
           D!fcmVars
<1>4. ASSUME NEW e \in committed, copies' = [copies EXCEPT ![e] = @ + 1], e \notin DurableEvents
      PROVE  UNCHANGED D!vars
  <2>1. \A f \in DurableEvents : copies'[f] = copies[f] /\ copies[f] \in Nat
    BY <1>1, <1>4 DEF TypeOK
  <2>2. ready' = ready
    <3>1. \A m \in D!Message : m.event \in DurableEvents
      BY DEF D!Message
    <3>2. QED
      BY <1>1, <1>2, <2>1, <3>1 DEF Enqueued
  <2>3. QED
    BY <1>2, <2>1, <2>2
       DEF restVars, D!vars, D!brokerVars, D!workerVars, D!replayVars, D!tableVars, D!rowVars,
           D!fcmVars
<1>5. ASSUME NEW e \in committed, copies' = [copies EXCEPT ![e] = @ + 1], e \in DurableEvents
      PROVE  D!Arrive(e)
  <2>1. copies[e] \in Nat /\ copies'[e] = copies[e] + 1
    BY <1>1, <1>5 DEF TypeOK
  <2>2. copies[e] < 1 + MaxFaults
    <3>1. copies'[e] <= 1 + faults'
      <4>1. CopiesInv'
        BY CopiesNext DEF OutboxStep
      <4>2. AtMostOneCopyPerFault'
        BY <4>1, CopiesBound, PTL
      <4>3. QED
        BY <1>1, <4>2 DEF AtMostOneCopyPerFault
    <3>2. faults' <= MaxFaults /\ faults' \in Nat /\ MaxFaults \in Nat
      BY <1>1, FaultAssumption DEF TypeOK
    <3>3. QED
      BY <2>1, <3>1, <3>2
  <2>3. ready' = D!Plus(ready, D!Fresh(e))
    <3>1. D!Fresh(e) \in D!Message
      BY <1>5, QueueAssumption DEF D!Fresh, D!Message
    <3>2. ASSUME NEW m \in D!Message
          PROVE  ready'[m] = IF m = D!Fresh(e) THEN ready[m] + 1 ELSE ready[m]
      <4>1. m.event \in DurableEvents /\ (m = D!Fresh(e) <=> m.event = e /\ m.deaths = 0)
        BY DEF D!Message, D!Fresh
      <4>2. copies'[m.event] = IF m.event = e THEN copies[m.event] + 1 ELSE copies[m.event]
        BY <1>1, <1>5, <4>1 DEF TypeOK
      <4>3. copies[m.event] \in Nat
        BY <1>1, <4>1 DEF TypeOK
      <4>4. ready[m] \in Nat
        BY <1>1
      <4>5. QED
        BY <1>2, <4>1, <4>2, <4>3, <4>4 DEF Enqueued
    <3>3. ready' = [m \in D!Message |-> ready'[m]]
      BY <1>2 DEF Enqueued
    <3>4. QED
      BY <1>1, <3>1, <3>2, <3>3 DEF D!Plus
  <2>4. [f \in DurableEvents |-> copies'[f]] =
          [[f \in DurableEvents |-> copies[f]] EXCEPT ![e] = @ + 1]
    BY <1>1, <1>5 DEF TypeOK
  <2>5. QED
    BY <1>2, <1>5, <2>2, <2>3, <2>4
       DEF restVars, D!Arrive, D!workerVars, D!replayVars, D!tableVars, D!rowVars,
           D!fcmVars
<1>6. QED
  BY <1>1, <1>3, <1>4, <1>5, OutboxCopies DEF OutboxStep

\* Each step is one of the outbox or leaves it alone, and one of Delivery or
\* leaves that alone.
LEMMA StepOfBoth ==
    ASSUME CopiesInv, DP!TypeOK, [PipelineNext]_allVars
    PROVE  [Next]_vars /\ [D!Next]_(D!vars)
<1>1. CASE OutboxStep
  <2>1. Next
    BY <1>1 DEF OutboxStep
  <2>2. QED
    BY <1>1, <2>1, OutboxFeeds DEF D!Next
<1>2. CASE DeliveryStep
  BY <1>2 DEF DeliveryStep, Beside, D!Next
<1>3. CASE UNCHANGED allVars
  BY <1>3 DEF allVars, vars, tableVars, pollerVars, restVars, D!vars, D!brokerVars,
     D!workerVars, D!replayVars, D!tableVars, D!rowVars, D!fcmVars
<1>4. QED
  BY <1>1, <1>2, <1>3 DEF PipelineNext

-----------------------------------------------------------------------------
(* The invariants of both sides hold together.                             *)

\* What is in a queue or in somebody's hands, written or pushed is of an
\* incident that was committed.
Grounded ==
    /\ DP!HeldEvents \subseteq committed
    /\ entered \subseteq Users \X committed
    /\ NoPhantomAlerts

\* Outbox and queue each need the other only for Grounded and, through
\* StepOfBoth, for the number of copies.
PipelineInv == CopiesInv /\ LossInv /\ DP!LossInv /\ DP!ServeInv /\ Grounded

LEMMA PipelineInitInv == PipelineInit => PipelineInv
<1> SUFFICES ASSUME PipelineInit PROVE PipelineInv
  OBVIOUS
<1>1. Init /\ DP!Init
  BY SameInit DEF PipelineInit
<1>2. CopiesInv /\ LossInv
  BY <1>1, CopiesInit, LossInit
<1>3. DP!LossInv /\ DP!ServeInv
  BY <1>1, QueueConstants, DP!LossInit, DP!ServeInit
<1>4. Grounded
  <2>1. ASSUME NEW m \in DP!Message PROVE ~DP!Held(m)
    <3>1. ready[m] = 0 /\ retry[m] = 0 /\ dead[m] = 0
      BY <1>1 DEF DP!Init
    <3>2. m # NoMessage
      BY QueueAssumption DEF D!Message, DP!Message
    <3>3. QED
      BY <1>1, <3>1, <3>2 DEF DP!Init, DP!Held
  <2>2. DP!HeldEvents = {}
    BY <2>1 DEF DP!HeldEvents, DP!Carry
  <2>3. QED
    BY <1>1, <2>2 DEF DP!Init, Grounded, NoPhantomAlerts
<1>5. QED
  BY <1>2, <1>3, <1>4 DEF PipelineInv

LEMMA GroundedNext ==
    ASSUME PipelineInv, [PipelineNext]_allVars
    PROVE  Grounded'
<1>1. CopiesInv /\ TypeOK /\ DP!TypeOK
  BY DEF PipelineInv, CopiesInv, DP!LossInv
<1>2. ASSUME UNCHANGED D!vars, committed \subseteq committed' PROVE Grounded'
  <2>1. DP!HeldEvents' = DP!HeldEvents
    BY <1>2 DEF D!vars, D!brokerVars, D!workerVars, D!replayVars, DP!HeldEvents, DP!Carry,
       DP!Held, DP!Message
  <2>2. QED
    BY <1>2, <2>1 DEF D!vars, D!tableVars, D!rowVars, D!fcmVars, PipelineInv, Grounded,
           NoPhantomAlerts
<1>3. CASE OutboxStep
  <2>1. committed \subseteq committed'
    BY <1>1, <1>3, OutboxCopies DEF OutboxStep
  <2>2. ASSUME NEW e \in committed \cap DurableEvents, D!Arrive(e) PROVE Grounded'
    <3>1. /\ DP!HeldEvents' \subseteq DP!HeldEvents \cup {e}
          /\ UNCHANGED <<processed, notified, entered, pushed>>
      BY <1>1, <2>2, SameArrive, QueueConstants, DP!OriginArrive
    <3>2. QED
      BY <2>1, <3>1 DEF PipelineInv, Grounded, NoPhantomAlerts
  <2>3. QED
    BY <1>1, <1>2, <1>3, <2>1, <2>2, OutboxFeeds
<1>4. CASE DeliveryStep
  <2>1. DP!InternalNext /\ committed' = committed /\ entered' \subseteq Users \X committed
    BY <1>4, SameInternalNext DEF DeliveryStep, Beside, vars, tableVars
  <2>2. /\ DP!HeldEvents' \subseteq DP!HeldEvents
        /\ processed' \subseteq processed \cup DP!HeldEvents
        /\ notified' \subseteq notified \cup entered' \cup (Users \X DP!HeldEvents)
        /\ pushed' \subseteq pushed \cup (Users \X DP!HeldEvents)
    BY <1>1, <2>1, QueueConstants, DP!OriginNext
  <2>3. Users \X DP!HeldEvents \subseteq Users \X committed
    BY DEF PipelineInv, Grounded
  <2>4. QED
    BY <2>1, <2>2, <2>3 DEF PipelineInv, Grounded, NoPhantomAlerts
<1>5. CASE UNCHANGED allVars
  BY <1>2, <1>5 DEF allVars, vars, tableVars, restVars, D!vars, D!brokerVars, D!workerVars,
     D!replayVars, D!tableVars, D!rowVars, D!fcmVars
<1>6. QED
  BY <1>3, <1>4, <1>5 DEF PipelineNext

LEMMA PipelineNextInv == PipelineInv /\ [PipelineNext]_allVars => PipelineInv'
<1> SUFFICES ASSUME PipelineInv, [PipelineNext]_allVars PROVE PipelineInv'
  OBVIOUS
<1>1. [Next]_vars /\ [D!Next]_(D!vars)
  BY StepOfBoth DEF PipelineInv, DP!LossInv
<1>2. CopiesInv' /\ LossInv'
  BY <1>1, CopiesNext, LossNext DEF PipelineInv
<1>3. DP!LossInv' /\ DP!ServeInv'
  <2>1. [DP!Next]_(DP!vars)
    BY <1>1, SameNext, SameVars
  <2>2. QED
    BY <2>1, QueueConstants, DP!LossNext, DP!ServeNext DEF PipelineInv
<1>4. Grounded'
  BY GroundedNext
<1>5. QED
  BY <1>2, <1>3, <1>4 DEF PipelineInv

LEMMA PipelineInvariant == Pipeline => []PipelineInv
  BY PipelineInitInv, PipelineNextInv, PTL DEF Pipeline

\* From the transaction that records it to the last of its alerts, an incident
\* has a row in the outbox, a message in a queue or in somebody's hands, or is
\* processed: no crash, lost confirm, overrun claim, rejection, dead letter or
\* replay leaves it without.
THEOREM NothingForgotten == Pipeline => []NoIncidentForgotten
<1>1. PipelineInv => NoIncidentForgotten
  <2> SUFFICES ASSUME PipelineInv, NEW e \in committed \cap DurableEvents,
                      e \notin outbox, e \notin processed
               PROVE  \E m \in D!Carry(e) : D!Held(m)
    BY DEF NoIncidentForgotten
  <2>1. copies[e] > 0
    BY DEF PipelineInv, LossInv, NoEventLost
  <2>2. DP!NoAlertLost
    BY QueueConstants, DP!AccountedIsHeld DEF PipelineInv
  <2>3. \E m \in DP!Carry(e) : DP!Held(m)
    BY <2>1, <2>2 DEF DP!NoAlertLost
  <2>4. QED
    BY <2>3, SameHeld
<1>2. QED
  BY <1>1, PipelineInvariant, PTL

\* No row, push or processed event is of an incident whose transaction did not
\* commit.
THEOREM NoPhantoms == Pipeline => []NoPhantomAlerts
<1>1. PipelineInv => NoPhantomAlerts
  BY DEF PipelineInv, Grounded
<1>2. QED
  BY <1>1, PipelineInvariant, PTL

\* Joined to the outbox, Delivery behaves as its own specification says, with
\* one copy of an event more than there may be faults.
THEOREM DeliveryImplemented == Pipeline => ImplementsDelivery
<1>1. PipelineInit => D!Init
  BY DEF PipelineInit
<1>2. PipelineInv /\ [PipelineNext]_allVars => [D!Next]_(D!vars)
  BY StepOfBoth DEF PipelineInv, DP!LossInv
<1>3. QED
  BY <1>1, <1>2, PipelineInvariant, PTL DEF Pipeline, ImplementsDelivery

\* So the promises of Delivery hold behind the outbox: who is pushed has the
\* row, and of a processed incident nobody was left out but for the row of
\* another one, though two pollers may have published it twice.
THEOREM PipelineServes == Pipeline => [](D!PushHasRow /\ D!SkippedOnlyByCooldown)
<1>1. PipelineInv => D!PushHasRow /\ D!SkippedOnlyByCooldown
  <2>1. D!PushHasRow <=> DP!PushHasRow
    BY DEF D!PushHasRow, DP!PushHasRow
  <2>2. D!SkippedOnlyByCooldown <=> DP!SkippedOnlyByCooldown
    BY DEF D!SkippedOnlyByCooldown, DP!SkippedOnlyByCooldown, D!Excused, DP!Excused
  <2>3. QED
    BY <2>1, <2>2 DEF PipelineInv, DP!ServeInv
<1>2. QED
  BY <1>1, PipelineInvariant, PTL
=============================================================================
