--------------------------- MODULE DeliveryProofs ---------------------------
(* Theorems about Delivery, for every set of events, users and workers,    *)
(* every number of retries, of copies and of crashes.                      *)
EXTENDS Delivery, TLAPS

-----------------------------------------------------------------------------
(* Messages and queues.                                                    *)

LEMMA FreshMessage ==
    ASSUME NEW e \in Events PROVE Fresh(e) \in Message /\ Fresh(e).event = e
  BY DeliveryAssumption DEF Fresh, Message

LEMMA DiedMessage ==
    ASSUME NEW m \in Message, ~Exhausted(m)
    PROVE  Died(m) \in Message /\ Died(m).event = m.event
  BY DeliveryAssumption DEF Died, Message, Exhausted

LEMMA MessageEvent ==
    ASSUME NEW m \in Message PROVE m.event \in Events
  BY DEF Message

LEMMA PlusCount ==
    ASSUME NEW queue \in [Message -> Nat], NEW m \in Message
    PROVE  /\ Plus(queue, m) \in [Message -> Nat]
           /\ Plus(queue, m)[m] > 0
           /\ \A n \in Message : queue[n] > 0 => Plus(queue, m)[n] > 0
  BY DEF Plus

LEMMA MinusCount ==
    ASSUME NEW queue \in [Message -> Nat], NEW m \in Message, queue[m] > 0
    PROVE  /\ Minus(queue, m) \in [Message -> Nat]
           /\ \A n \in Message \ {m} : Minus(queue, m)[n] = queue[n]
  BY DEF Minus

-----------------------------------------------------------------------------
(* Type correctness.                                                       *)

LEMMA NoMessageNotMessage == NoMessage \notin Message
  BY DeliveryAssumption

\* The message a worker is busy with.
LEMMA BusyWorker ==
    ASSUME TypeOK, NEW w \in Workers, wpc[w] # "idle"
    PROVE  /\ msg[w] \in Message
           /\ EventOf(w) \in Events
           /\ Alerts(w) \in SUBSET (Users \X Events)
<1>1. msg[w] \in Message
  BY DEF TypeOK, WorkersOK
<1>2. EventOf(w) \in Events
  BY <1>1, MessageEvent DEF EventOf
<1>3. users[w] \in SUBSET Users
  BY DEF TypeOK, WorkersOK
<1>4. QED
  BY <1>1, <1>2, <1>3 DEF Alerts

LEMMA TypeInit == Init => TypeOK
<1> SUFFICES ASSUME Init PROVE TypeOK
  OBVIOUS
<1>1. BrokerOK
  <2>1. copies \in [Events -> 0..MaxCopies] /\ crashes \in 0..MaxCrashes
    BY DeliveryAssumption DEF Init
  <2>2. /\ ready \in [Message -> Nat] /\ retry \in [Message -> Nat] /\ dead \in [Message -> Nat]
        /\ replaying \in Message \cup {NoMessage}
    BY DEF Init
  <2>3. copied \in BOOLEAN
    BY DEF Init
  <2>4. QED
    BY <2>1, <2>2, <2>3 DEF BrokerOK
<1>2. WorkersOK
  BY DEF Init, WorkersOK, WorkerStates
<1>3. TablesOK
  BY DEF Init, TablesOK
<1>4. QED
  BY <1>1, <1>2, <1>3 DEF TypeOK

LEMMA TypeArrive ==
    ASSUME NEW e \in Events, TypeOK, Arrive(e) PROVE TypeOK'
<1>1. Fresh(e) \in Message
  BY FreshMessage
<1>2. ready' \in [Message -> Nat] /\ retry' = retry /\ dead' = dead
  BY <1>1, PlusCount DEF Arrive, TypeOK, BrokerOK
<1>3. copies' \in [Events -> 0..MaxCopies]
  BY DeliveryAssumption DEF Arrive, TypeOK, BrokerOK
<1>4. BrokerOK'
  BY <1>2, <1>3 DEF Arrive, TypeOK, BrokerOK, replayVars
<1>5. QED
  BY <1>4 DEF Arrive, TypeOK, WorkersOK, workerVars, TablesOK, tableVars, rowVars, fcmVars

LEMMA TypeRetryElapses ==
    ASSUME NEW m \in Message, TypeOK, RetryElapses(m) PROVE TypeOK'
<1>1. ready' \in [Message -> Nat] /\ retry' \in [Message -> Nat] /\ dead' = dead
  BY PlusCount, MinusCount DEF RetryElapses, TypeOK, BrokerOK
<1>2. BrokerOK'
  BY <1>1 DEF RetryElapses, TypeOK, BrokerOK, replayVars
<1>3. QED
  BY <1>2 DEF RetryElapses, TypeOK, WorkersOK, workerVars, TablesOK, tableVars, rowVars, fcmVars

LEMMA TypeTake ==
    ASSUME NEW w \in Workers, NEW m \in Message, TypeOK, Take(w, m) PROVE TypeOK'
<1>1. ready' \in [Message -> Nat]
  BY MinusCount DEF Take, TypeOK, BrokerOK
<1>2. BrokerOK'
  BY <1>1 DEF Take, TypeOK, BrokerOK, replayVars
<1>3. WorkersOK'
  BY NoMessageNotMessage DEF Take, Goto, TypeOK, WorkersOK, WorkerStates
<1>4. QED
  BY <1>2, <1>3 DEF Take, TypeOK, TablesOK, tableVars, rowVars, fcmVars

\* A step that only moves its worker on.
LEMMA TypeGoto ==
    ASSUME NEW w \in Workers, NEW l \in WorkerStates \ {"idle"}, TypeOK,
           wpc[w] # "idle", Goto(w, l), UNCHANGED <<msg, users>>
    PROVE  WorkersOK'
  BY DEF Goto, TypeOK, WorkersOK, WorkerStates

LEMMA TypeRelease ==
    ASSUME NEW w \in Workers, TypeOK, Release(w) PROVE WorkersOK'
  BY NoMessageNotMessage DEF Release, Goto, TypeOK, WorkersOK, WorkerStates

LEMMA TypeRetry ==
    ASSUME NEW w \in Workers, TypeOK, wpc[w] # "idle", Retry(w)
    PROVE  /\ WorkersOK'
           /\ ready' \in [Message -> Nat]
           /\ retry' \in [Message -> Nat]
           /\ dead' \in [Message -> Nat]
<1>1. msg[w] \in Message
  BY BusyWorker
<1>2. CASE Exhausted(msg[w])
  <2>1. Goto(w, "bury") /\ UNCHANGED <<brokerVars, msg, users>>
    BY <1>2 DEF Retry
  <2>2. WorkersOK'
    BY <2>1, TypeGoto DEF WorkerStates
  <2>3. QED
    BY <2>1, <2>2 DEF TypeOK, BrokerOK, brokerVars
<1>3. CASE ~Exhausted(msg[w])
  <2>1. retry' = Plus(retry, Died(msg[w])) /\ Release(w) /\ UNCHANGED <<ready, dead>>
    BY <1>3 DEF Retry
  <2>2. Died(msg[w]) \in Message
    BY <1>1, <1>3, DiedMessage
  <2>3. retry' \in [Message -> Nat]
    BY <2>1, <2>2, PlusCount DEF TypeOK, BrokerOK
  <2>4. QED
    BY <2>1, <2>3, TypeRelease DEF TypeOK, BrokerOK
<1>4. QED
  BY <1>2, <1>3

LEMMA TypeInsertRows ==
    ASSUME TypeOK, NEW rows \in SUBSET (Users \X Events), InsertRows(rows)
    PROVE  /\ notified' \in SUBSET (Users \X Events)
           /\ notified \in SUBSET notified'
           /\ recent' \in SUBSET notified'
  BY DEF InsertRows, TypeOK, TablesOK

LEMMA TypeHandOver ==
    ASSUME TypeOK, NEW w \in Workers, wpc[w] # "idle", NEW handed \in SUBSET users[w],
           HandOver(w, handed)
    PROVE  pushed' \in SUBSET (Users \X Events) /\ reached' \in SUBSET pushed'
<1>1. EventOf(w) \in Events /\ users[w] \in SUBSET Users
  BY BusyWorker DEF TypeOK, WorkersOK
<1>2. PICK accepted \in SUBSET handed :
        /\ pushed' = pushed \cup (handed \X {EventOf(w)})
        /\ reached' = reached \cup (accepted \X {EventOf(w)})
  BY DEF HandOver
<1>3. QED
  BY <1>1, <1>2 DEF TypeOK, TablesOK

LEMMA TypeWorkerStep ==
    ASSUME NEW w \in Workers, TypeOK, WorkerStep(w) PROVE TypeOK'
<1>1. wpc[w] # "idle" /\ UNCHANGED <<copies, replayVars, deleted, crashes>>
  BY DEF WorkerStep, Check, Select, Persist, Push, Record, Ack, SendToDeadLetter, tableVars
<1>2. EventOf(w) \in Events /\ Alerts(w) \in SUBSET (Users \X Events) /\ msg[w] \in Message
  BY <1>1, BusyWorker
<1>3. BrokerOK'
  <2>1. CASE SendToDeadLetter(w)
    <3>1. dead' \in [Message -> Nat] /\ ready' = ready /\ retry' = retry
      BY <1>2, <2>1, PlusCount DEF SendToDeadLetter, TypeOK, BrokerOK
    <3>2. QED
      BY <1>1, <3>1 DEF TypeOK, BrokerOK, replayVars
  <2>2. CASE ~SendToDeadLetter(w)
    <3>1. UNCHANGED brokerVars
      BY <2>2 DEF WorkerStep, Check, Select, Persist, Push, Record, Ack
    <3>2. QED
      BY <1>1, <3>1 DEF TypeOK, BrokerOK, replayVars, brokerVars
  <2>3. QED
    BY <2>1, <2>2
<1>4. WorkersOK'
  <2>1. CASE Check(w)
    <3>1. CheckNext(w) \in WorkerStates \ {"idle"}
      BY DEF CheckNext, WorkerStates
    <3>2. QED
      BY <1>1, <2>1, <3>1, TypeGoto DEF Check
  <2>2. CASE Select(w)
    <3>1. Recipients(EventOf(w)) \in SUBSET Users
      BY <1>2, DeliveryAssumption DEF Recipients
    <3>2. QED
      BY <2>2, <3>1 DEF Select, Goto, TypeOK, WorkersOK, WorkerStates
  <2>3. CASE Persist(w)
    BY <1>1, <2>3, TypeGoto DEF Persist, WorkerStates
  <2>4. CASE Push(w)
    BY <1>1, <2>4, TypeGoto DEF Push, WorkerStates
  <2>5. CASE Record(w)
    BY <1>1, <2>5, TypeGoto DEF Record, WorkerStates
  <2>6. CASE Ack(w)
    BY <2>6, TypeRelease DEF Ack
  <2>7. CASE SendToDeadLetter(w)
    BY <1>1, <2>7, TypeGoto DEF SendToDeadLetter, WorkerStates
  <2>8. QED
    BY <2>1, <2>2, <2>3, <2>4, <2>5, <2>6, <2>7 DEF WorkerStep
<1>5. TablesOK'
  <2>1. CASE Persist(w)
    <3>1. InsertRows(Alerts(w)) /\ UNCHANGED <<processed, entered, deleted, fcmVars>>
      BY <2>1 DEF Persist
    <3>2. QED
      BY <1>2, <3>1, TypeInsertRows DEF TypeOK, TablesOK, fcmVars
  <2>2. CASE Push(w)
    <3>1. HandOver(w, users[w]) /\ users[w] \in SUBSET users[w] /\ UNCHANGED tableVars
      BY <2>2 DEF Push
    <3>2. pushed' \in SUBSET (Users \X Events) /\ reached' \in SUBSET pushed'
      BY <1>1, <3>1, TypeHandOver
    <3>3. QED
      BY <3>1, <3>2 DEF TypeOK, TablesOK, tableVars, rowVars
  <2>3. CASE Record(w)
    BY <1>2, <2>3 DEF Record, TypeOK, TablesOK, rowVars, fcmVars
  <2>4. CASE ~Persist(w) /\ ~Push(w) /\ ~Record(w)
    <3>1. UNCHANGED <<tableVars, fcmVars>>
      BY <2>4 DEF WorkerStep, Check, Select, Ack, SendToDeadLetter
    <3>2. QED
      BY <3>1 DEF TypeOK, TablesOK, tableVars, rowVars, fcmVars
  <2>5. QED
    BY <2>1, <2>2, <2>3, <2>4
<1>6. QED
  BY <1>3, <1>4, <1>5 DEF TypeOK

LEMMA TypeWorkerFails ==
    ASSUME NEW w \in Workers, TypeOK, WorkerFails(w) PROVE TypeOK'
<1>1. wpc[w] # "idle" /\ UNCHANGED <<copies, replayVars, deleted, crashes, entered>>
  BY DEF WorkerFails, QueryFails, PersistFails, PushFails, RecordFails, tableVars, rowVars
<1>2. EventOf(w) \in Events /\ Alerts(w) \in SUBSET (Users \X Events)
  BY <1>1, BusyWorker
<1>3. /\ WorkersOK'
      /\ ready' \in [Message -> Nat] /\ retry' \in [Message -> Nat] /\ dead' \in [Message -> Nat]
  <2>1. CASE Retry(w)
    BY <1>1, <2>1, TypeRetry
  <2>2. CASE ~Retry(w)
    <3>1. Goto(w, "bury") /\ UNCHANGED <<brokerVars, msg, users>>
      BY <2>2 DEF WorkerFails, QueryFails, PersistFails, PushFails, RecordFails
    <3>2. WorkersOK'
      BY <1>1, <3>1, TypeGoto DEF WorkerStates
    <3>3. QED
      BY <3>1, <3>2 DEF TypeOK, BrokerOK, brokerVars
  <2>3. QED
    BY <2>1, <2>2
<1>4. BrokerOK'
  BY <1>1, <1>3 DEF TypeOK, BrokerOK, replayVars
<1>5. TablesOK'
  <2>1. CASE QueryFails(w)
    BY <2>1 DEF QueryFails, TypeOK, TablesOK, tableVars, rowVars, fcmVars
  <2>2. CASE PersistFails(w)
    <3>1. /\ UNCHANGED <<processed, fcmVars>>
          /\ InsertRows(Alerts(w)) \/ UNCHANGED <<notified, recent>>
      BY <2>2 DEF PersistFails
    <3>2. CASE InsertRows(Alerts(w))
      BY <1>1, <1>2, <3>1, <3>2, TypeInsertRows DEF TypeOK, TablesOK, fcmVars
    <3>3. CASE UNCHANGED <<notified, recent>>
      BY <1>1, <3>1, <3>3 DEF TypeOK, TablesOK, fcmVars
    <3>4. QED
      BY <3>1, <3>2, <3>3
  <2>3. CASE PushFails(w)
    <3>1. PartlyPushed(w) /\ UNCHANGED tableVars
      BY <2>3 DEF PushFails
    <3>2. pushed' \in SUBSET (Users \X Events) /\ reached' \in SUBSET pushed'
      BY <1>1, <3>1, TypeHandOver DEF PartlyPushed
    <3>3. QED
      BY <3>1, <3>2 DEF TypeOK, TablesOK, tableVars, rowVars
  <2>4. CASE RecordFails(w)
    BY <1>2, <2>4 DEF RecordFails, TypeOK, TablesOK, rowVars, fcmVars
  <2>5. QED
    BY <2>1, <2>2, <2>3, <2>4 DEF WorkerFails
<1>6. QED
  BY <1>3, <1>4, <1>5 DEF TypeOK

LEMMA TypeWorkerCrash ==
    ASSUME NEW w \in Workers, TypeOK, WorkerCrash(w) PROVE TypeOK'
<1>1. wpc[w] # "idle" /\ crashes' \in 0..MaxCrashes
  BY DeliveryAssumption DEF WorkerCrash, CrashHere, TypeOK, BrokerOK
<1>2. msg[w] \in Message
  BY <1>1, BusyWorker
<1>3. ready' \in [Message -> Nat]
  BY <1>2, PlusCount DEF WorkerCrash, TypeOK, BrokerOK
<1>4. BrokerOK'
  BY <1>1, <1>3 DEF WorkerCrash, TypeOK, BrokerOK, replayVars
<1>5. WorkersOK'
  BY TypeRelease DEF WorkerCrash
<1>6. TablesOK'
  <2>1. pushed' \in SUBSET (Users \X Events) /\ reached' \in SUBSET pushed'
    <3>1. PartlyPushed(w) \/ UNCHANGED fcmVars
      BY DEF WorkerCrash
    <3>2. QED
      BY <1>1, <3>1, TypeHandOver DEF PartlyPushed, TypeOK, TablesOK, fcmVars
  <2>2. UNCHANGED tableVars
    BY DEF WorkerCrash
  <2>3. QED
    BY <2>1, <2>2 DEF TypeOK, TablesOK, tableVars, rowVars
<1>7. QED
  BY <1>4, <1>5, <1>6 DEF TypeOK

LEMMA TypeReplay == ASSUME TypeOK, Replay PROVE TypeOK'
<1>1. UNCHANGED <<copies, retry, workerVars, tableVars, fcmVars>>
  BY DEF Replay, ReplayGet, ReplayPublish, ReplayAck, ReplayCrash, brokerVars
<1>2. WorkersOK' /\ TablesOK'
  BY <1>1 DEF TypeOK, WorkersOK, workerVars, TablesOK, tableVars, rowVars, fcmVars
<1>3. BrokerOK'
  <2>1. ASSUME NEW m \in Message, ReplayGet(m) PROVE BrokerOK'
    <3>1. dead' \in [Message -> Nat]
      BY <2>1, MinusCount DEF ReplayGet, TypeOK, BrokerOK
    <3>2. QED
      BY <1>1, <2>1, <3>1 DEF ReplayGet, TypeOK, BrokerOK
  <2>2. CASE ReplayPublish
    <3>1. ready' \in [Message -> Nat]
      BY <2>2, PlusCount DEF ReplayPublish, TypeOK, BrokerOK
    <3>2. QED
      BY <1>1, <2>2, <3>1 DEF ReplayPublish, TypeOK, BrokerOK
  <2>3. CASE ReplayAck
    BY <1>1, <2>3 DEF ReplayAck, TypeOK, BrokerOK, brokerVars
  <2>4. CASE ReplayCrash
    <3>1. dead' \in [Message -> Nat]
      BY <2>4, PlusCount DEF ReplayCrash, TypeOK, BrokerOK
    <3>2. crashes' \in 0..MaxCrashes
      BY <2>4, DeliveryAssumption DEF ReplayCrash, CrashHere, TypeOK, BrokerOK
    <3>3. QED
      BY <1>1, <2>4, <3>1, <3>2 DEF ReplayCrash, TypeOK, BrokerOK
  <2>5. QED
    BY <2>1, <2>2, <2>3, <2>4 DEF Replay
<1>4. QED
  BY <1>2, <1>3 DEF TypeOK

LEMMA TypeUserStep ==
    ASSUME NEW u \in Users, TypeOK, UserStep(u) PROVE TypeOK'
<1>1. UNCHANGED <<copies, brokerVars, workerVars, replayVars, processed, fcmVars, crashes>>
  BY DEF UserStep, CooldownElapses, Anonymize, EnterZone
<1>2. BrokerOK' /\ WorkersOK'
  BY <1>1 DEF TypeOK, BrokerOK, brokerVars, replayVars, WorkersOK, workerVars
<1>3. TablesOK'
  <2>1. ASSUME NEW e \in Events, EnterZone(u, e) PROVE TablesOK'
    <3>1. {<<u, e>>} \in SUBSET (Users \X Events)
      OBVIOUS
    <3>2. InsertRows({<<u, e>>}) /\ entered' = entered \cup {<<u, e>>} /\ deleted' = deleted
      BY <2>1 DEF EnterZone
    <3>3. <<u, e>> \in notified'
      BY <3>2 DEF InsertRows
    <3>4. QED
      BY <1>1, <3>1, <3>2, <3>3, TypeInsertRows DEF TypeOK, TablesOK, fcmVars
  <2>2. CASE CooldownElapses(u)
    BY <1>1, <2>2 DEF CooldownElapses, TypeOK, TablesOK, fcmVars
  <2>3. CASE Anonymize(u)
    BY <1>1, <2>3 DEF Anonymize, TypeOK, TablesOK, fcmVars
  <2>4. QED
    BY <2>1, <2>2, <2>3 DEF UserStep
<1>4. QED
  BY <1>2, <1>3 DEF TypeOK

LEMMA TypeNext == TypeOK /\ [Next]_vars => TypeOK'
<1> SUFFICES ASSUME TypeOK, [Next]_vars PROVE TypeOK'
  OBVIOUS
<1>1. CASE UNCHANGED vars
  BY <1>1 DEF vars, TypeOK, BrokerOK, brokerVars, replayVars, WorkersOK, workerVars,
              TablesOK, tableVars, rowVars, fcmVars
<1>2. CASE Next
  BY <1>2, TypeArrive, TypeRetryElapses, TypeTake, TypeWorkerStep, TypeWorkerFails,
     TypeWorkerCrash, TypeReplay, TypeUserStep DEF Next, InternalNext
<1>3. QED
  BY <1>1, <1>2

\* Every state has the shape TypeOK: a worker is idle exactly when it holds no
\* message, recent and area-entry rows are rows.
THEOREM TypeCorrect == Spec => []TypeOK
  BY TypeInit, TypeNext, PTL DEF Spec

-----------------------------------------------------------------------------
(* No alert is lost.                                                       *)

\* m is where no later step drops it: in a queue, held by a worker that is not
\* about to acknowledge, or by a replay that has not yet published its copy.
SafeAt(m) ==
    \/ ready[m] > 0 \/ retry[m] > 0 \/ dead[m] > 0
    \/ replaying = m /\ ~copied
    \/ \E w \in Workers : msg[w] = m /\ wpc[w] # "ack"

Secured(e) == \E m \in Carry(e) : SafeAt(m)

\* NoAlertLost alone is not inductive: a message a worker is about to
\* acknowledge is still held, but must not be the last one.
Accounted == \A e \in Events : copies[e] > 0 => e \in processed \/ Secured(e)

\* A worker acknowledges only what is processed or in safety elsewhere.
LossInv == TypeOK /\ Accounted

LEMMA LossInit == Init => LossInv
<1>1. Init => Accounted
  BY DEF Init, Accounted
<1>2. QED
  BY <1>1, TypeInit DEF LossInv

\* The step keeps a message of m's event safe, or has processed the event.
Kept(m) ==
    \/ m.event \in processed'
    \/ \E n \in Message : n.event = m.event /\ SafeAt(n)'

\* What a step that touches one worker at most leaves safe.
LEMMA OthersKeepSafe ==
    ASSUME NEW w \in Workers, NEW m \in Message, SafeAt(m),
           ready[m] > 0 => ready'[m] > 0,
           retry[m] > 0 => retry'[m] > 0,
           dead[m] > 0 => dead'[m] > 0,
           UNCHANGED replayVars,
           \A v \in Workers \ {w} : msg'[v] = msg[v] /\ wpc'[v] = wpc[v]
    PROVE  SafeAt(m)' \/ (msg[w] = m /\ wpc[w] # "ack")
<1>1. CASE replaying = m /\ ~copied
  BY <1>1 DEF SafeAt, replayVars
<1>2. CASE ready[m] > 0 \/ retry[m] > 0 \/ dead[m] > 0
  BY <1>2 DEF SafeAt
<1>3. ASSUME NEW v \in Workers, msg[v] = m, wpc[v] # "ack"
      PROVE  SafeAt(m)' \/ (msg[w] = m /\ wpc[w] # "ack")
  BY <1>3 DEF SafeAt
<1>4. QED
  BY <1>1, <1>2, <1>3 DEF SafeAt

LEMMA KeptRetry ==
    ASSUME NEW w \in Workers, NEW m \in Message, TypeOK, wpc[w] # "idle", wpc[w] # "ack",
           Retry(w), UNCHANGED replayVars, SafeAt(m)
    PROVE  Kept(m)
<1>1. CASE Exhausted(msg[w])
  <2>1. Goto(w, "bury") /\ UNCHANGED <<brokerVars, msg>>
    BY <1>1 DEF Retry
  <2>2. SafeAt(m)'
    <3>1. wpc'[w] = "bury" /\ \A v \in Workers \ {w} : wpc'[v] = wpc[v]
      BY <2>1 DEF Goto, TypeOK, WorkersOK
    <3>2. QED
      BY <2>1, <3>1, OthersKeepSafe DEF SafeAt, brokerVars
  <2>3. QED
    BY <2>2 DEF Kept
<1>2. CASE ~Exhausted(msg[w])
  <2>1. retry' = Plus(retry, Died(msg[w])) /\ Release(w) /\ UNCHANGED <<ready, dead>>
    BY <1>2 DEF Retry
  <2>2. msg[w] \in Message /\ Died(msg[w]) \in Message /\ Died(msg[w]).event = msg[w].event
    BY <1>2, BusyWorker, DiedMessage
  <2>3. PICK n \in Message : n = Died(msg[w])
    BY <2>2
  <2>4. retry'[n] > 0 /\ (retry[m] > 0 => retry'[m] > 0)
    BY <2>1, <2>3, PlusCount DEF TypeOK, BrokerOK
  <2>5. \A v \in Workers \ {w} : msg'[v] = msg[v] /\ wpc'[v] = wpc[v]
    BY <2>1 DEF Release, Goto, TypeOK, WorkersOK
  <2>6. SafeAt(m)' \/ msg[w] = m
    BY <2>1, <2>4, <2>5, OthersKeepSafe
  <2>7. SafeAt(n)'
    BY <2>4 DEF SafeAt
  <2>8. QED
    BY <2>2, <2>3, <2>6, <2>7 DEF Kept
<1>3. QED
  BY <1>1, <1>2

LEMMA KeptWorkerStep ==
    ASSUME NEW w \in Workers, NEW m \in Message, TypeOK, WorkerStep(w), SafeAt(m)
    PROVE  Kept(m)
<1>1. wpc[w] # "idle" /\ UNCHANGED <<replayVars, ready, retry>>
  BY DEF WorkerStep, Check, Select, Persist, Push, Record, Ack, SendToDeadLetter, brokerVars
<1>2. \A v \in Workers \ {w} : msg'[v] = msg[v] /\ wpc'[v] = wpc[v]
  BY DEF WorkerStep, Check, Select, Persist, Push, Record, Ack, SendToDeadLetter, Release,
         Goto, TypeOK, WorkersOK
<1>3. msg[w] \in Message
  BY <1>1, BusyWorker
<1>4. dead[m] > 0 => dead'[m] > 0
  <2>1. CASE SendToDeadLetter(w)
    BY <1>3, <2>1, PlusCount DEF SendToDeadLetter, TypeOK, BrokerOK
  <2>2. CASE ~SendToDeadLetter(w)
    BY <2>2 DEF WorkerStep, Check, Select, Persist, Push, Record, Ack, brokerVars
  <2>3. QED
    BY <2>1, <2>2
<1>5. SafeAt(m)' \/ (msg[w] = m /\ wpc[w] # "ack")
  BY <1>1, <1>2, <1>4, OthersKeepSafe
<1>6. ASSUME msg[w] = m, wpc[w] # "ack" PROVE Kept(m)
  <2>1. ~Ack(w)
    BY <1>6 DEF Ack
  <2>2. CASE SendToDeadLetter(w)
    <3>1. dead'[m] > 0
      BY <1>6, <2>2, PlusCount DEF SendToDeadLetter, TypeOK, BrokerOK
    <3>2. QED
      BY <3>1 DEF Kept, SafeAt
  <2>3. CASE Record(w)
    <3>1. m.event \in processed'
      BY <1>6, <2>3 DEF Record, EventOf
    <3>2. QED
      BY <3>1 DEF Kept
  <2>4. CASE Check(w)
    <3>1. msg' = msg /\ processed' = processed /\ wpc'[w] = CheckNext(w)
      BY <2>4 DEF Check, Goto, TypeOK, WorkersOK, tableVars
    <3>2. wpc'[w] = "ack" => m.event \in processed'
      BY <1>6, <3>1 DEF CheckNext, EventOf
    <3>3. wpc'[w] # "ack" => SafeAt(m)'
      BY <1>6, <3>1 DEF SafeAt
    <3>4. QED
      BY <3>2, <3>3 DEF Kept
  <2>5. CASE Select(w) \/ Persist(w) \/ Push(w)
    <3>1. msg' = msg /\ wpc'[w] # "ack"
      BY <2>5 DEF Select, Persist, Push, Goto, TypeOK, WorkersOK
    <3>2. QED
      BY <1>6, <3>1 DEF Kept, SafeAt
  <2>6. QED
    BY <2>1, <2>2, <2>3, <2>4, <2>5 DEF WorkerStep
<1>7. QED
  BY <1>5, <1>6 DEF Kept

LEMMA KeptWorkerCrash ==
    ASSUME NEW w \in Workers, NEW m \in Message, TypeOK, WorkerCrash(w), SafeAt(m)
    PROVE  Kept(m)
<1>1. /\ wpc[w] # "idle" /\ ready' = Plus(ready, msg[w])
      /\ UNCHANGED <<retry, dead, replayVars>>
      /\ Release(w)
  BY DEF WorkerCrash
<1>2. msg[w] \in Message
  BY <1>1, BusyWorker
<1>3. ready'[msg[w]] > 0 /\ (ready[m] > 0 => ready'[m] > 0)
  BY <1>1, <1>2, PlusCount DEF TypeOK, BrokerOK
<1>4. \A v \in Workers \ {w} : msg'[v] = msg[v] /\ wpc'[v] = wpc[v]
  BY <1>1 DEF Release, Goto, TypeOK, WorkersOK
<1>5. SafeAt(m)' \/ msg[w] = m
  BY <1>1, <1>3, <1>4, OthersKeepSafe
<1>6. msg[w] = m => SafeAt(m)'
  BY <1>3 DEF SafeAt
<1>7. QED
  BY <1>5, <1>6 DEF Kept

\* A step that leaves the workers alone moves at most one message from one
\* place to another.
LEMMA KeptBroker ==
    ASSUME NEW m \in Message, TypeOK, SafeAt(m),
           \/ \E e \in Events : Arrive(e)
           \/ \E n \in Message : RetryElapses(n)
           \/ Replay
           \/ \E u \in Users : UserStep(u)
    PROVE  Kept(m)
<1>1. UNCHANGED workerVars
  BY DEF Arrive, RetryElapses, Replay, ReplayGet, ReplayPublish, ReplayAck, ReplayCrash,
         UserStep, CooldownElapses, Anonymize, EnterZone
<1>2. CASE \E w \in Workers : msg[w] = m /\ wpc[w] # "ack"
  BY <1>1, <1>2 DEF Kept, SafeAt, workerVars
<1>3. ASSUME ready[m] > 0 \/ retry[m] > 0 \/ dead[m] > 0 \/ (replaying = m /\ ~copied)
      PROVE  \/ ready'[m] > 0 \/ retry'[m] > 0 \/ dead'[m] > 0
             \/ replaying' = m /\ ~copied'
  <2>1. ASSUME NEW e \in Events, Arrive(e)
        PROVE  (ready[m] > 0 => ready'[m] > 0) /\ UNCHANGED <<retry, dead, replayVars>>
    BY <2>1, FreshMessage, PlusCount DEF Arrive, TypeOK, BrokerOK
  <2>2. ASSUME NEW n \in Message, RetryElapses(n)
        PROVE  /\ ready[m] > 0 => ready'[m] > 0
               /\ retry[m] > 0 => retry'[m] > 0 \/ ready'[m] > 0
               /\ UNCHANGED <<dead, replayVars>>
    <3>1. ready' = Plus(ready, n) /\ retry' = Minus(retry, n) /\ retry[n] > 0
      BY <2>2 DEF RetryElapses
    <3>2. ready'[n] > 0 /\ (ready[m] > 0 => ready'[m] > 0)
      BY <3>1, PlusCount DEF TypeOK, BrokerOK
    <3>3. m # n => retry'[m] = retry[m]
      BY <3>1, MinusCount DEF TypeOK, BrokerOK
    <3>4. QED
      BY <2>2, <3>2, <3>3 DEF RetryElapses
  <2>3. ASSUME NEW n \in Message, ReplayGet(n)
        PROVE  /\ dead[m] > 0 => dead'[m] > 0 \/ (replaying' = m /\ ~copied')
               /\ ~(replaying = m)
               /\ UNCHANGED <<ready, retry>>
    BY <2>3, MinusCount, NoMessageNotMessage DEF ReplayGet, TypeOK, BrokerOK
  <2>4. CASE ReplayPublish
    <3>1. /\ ready[m] > 0 => ready'[m] > 0
          /\ replaying = m => ready'[m] > 0
          /\ UNCHANGED <<retry, dead>>
      BY <2>4, PlusCount DEF ReplayPublish, TypeOK, BrokerOK
    <3>2. QED
      BY <1>3, <3>1
  <2>5. CASE ReplayAck
    BY <1>3, <2>5 DEF ReplayAck, brokerVars
  <2>6. CASE ReplayCrash
    <3>1. /\ dead[m] > 0 => dead'[m] > 0
          /\ replaying = m => dead'[m] > 0
          /\ UNCHANGED <<ready, retry>>
      BY <2>6, PlusCount DEF ReplayCrash, TypeOK, BrokerOK
    <3>2. QED
      BY <1>3, <3>1
  <2>7. ASSUME NEW u \in Users, UserStep(u) PROVE UNCHANGED <<brokerVars, replayVars>>
    BY <2>7 DEF UserStep, CooldownElapses, Anonymize, EnterZone
  <2>8. QED
    BY <1>3, <2>1, <2>2, <2>3, <2>4, <2>5, <2>6, <2>7 DEF Replay, brokerVars, replayVars
<1>4. QED
  BY <1>2, <1>3 DEF Kept, SafeAt

LEMMA KeptTake ==
    ASSUME NEW w \in Workers, NEW n \in Message, NEW m \in Message, TypeOK, Take(w, n), SafeAt(m)
    PROVE  Kept(m)
<1>1. /\ msg[w] = NoMessage /\ msg'[w] = n /\ wpc'[w] = "check"
      /\ \A v \in Workers \ {w} : msg'[v] = msg[v] /\ wpc'[v] = wpc[v]
      /\ UNCHANGED <<retry, dead, replayVars>>
  BY DEF Take, Goto, TypeOK, WorkersOK
<1>2. SafeAt(n)'
  BY <1>1 DEF SafeAt
<1>3. CASE m = n
  BY <1>2, <1>3 DEF Kept
<1>4. CASE m # n
  <2>1. ready'[m] = ready[m]
    BY <1>4, MinusCount DEF Take, TypeOK, BrokerOK
  <2>2. SafeAt(m)'
    BY <1>1, <2>1, OthersKeepSafe, NoMessageNotMessage
  <2>3. QED
    BY <2>2 DEF Kept
<1>5. QED
  BY <1>3, <1>4

LEMMA KeptNext ==
    ASSUME NEW m \in Message, TypeOK, Next, SafeAt(m) PROVE Kept(m)
<1>1. ASSUME NEW w \in Workers, WorkerFails(w) PROVE Kept(m)
  <2>1. wpc[w] # "idle" /\ wpc[w] # "ack" /\ UNCHANGED replayVars
    BY <1>1 DEF WorkerFails, QueryFails, PersistFails, PushFails, RecordFails
  <2>2. CASE Retry(w)
    BY <2>1, <2>2, KeptRetry
  <2>3. CASE ~Retry(w)
    <3>1. Goto(w, "bury") /\ UNCHANGED <<brokerVars, msg>>
      BY <1>1, <2>3 DEF WorkerFails, QueryFails, PersistFails, PushFails, RecordFails
    <3>2. wpc'[w] = "bury" /\ \A v \in Workers \ {w} : wpc'[v] = wpc[v]
      BY <3>1 DEF Goto, TypeOK, WorkersOK
    <3>3. SafeAt(m)'
      BY <2>1, <3>1, <3>2, OthersKeepSafe DEF SafeAt, brokerVars
    <3>4. QED
      BY <3>3 DEF Kept
  <2>4. QED
    BY <2>2, <2>3
<1>2. QED
  BY <1>1, KeptWorkerStep, KeptWorkerCrash, KeptTake, KeptBroker DEF Next, InternalNext

LEMMA LossNext == LossInv /\ [Next]_vars => LossInv'
<1> SUFFICES ASSUME LossInv, [Next]_vars PROVE LossInv'
  OBVIOUS
<1>1. TypeOK /\ TypeOK'
  BY TypeNext DEF LossInv
<1>2. CASE UNCHANGED vars
  <2>1. Accounted'
    BY <1>2 DEF LossInv, Accounted, Secured, SafeAt, vars, brokerVars, workerVars, replayVars,
                tableVars
  <2>2. QED
    BY <1>1, <2>1 DEF LossInv
<1>3. CASE Next
  <2>1. processed \subseteq processed'
    BY <1>3 DEF Next, InternalNext, Arrive, RetryElapses, Take, WorkerStep, Check, Select,
         Persist, Push, Record, Ack, SendToDeadLetter, WorkerFails, QueryFails, PersistFails,
         PushFails, RecordFails, WorkerCrash, Replay, ReplayGet, ReplayPublish, ReplayAck,
         ReplayCrash, UserStep, CooldownElapses, Anonymize, EnterZone, tableVars
  <2>2. ASSUME NEW e \in Events, Secured(e) PROVE e \in processed' \/ Secured(e)'
    <3>1. PICK m \in Message : m.event = e /\ SafeAt(m)
      BY <2>2 DEF Secured, Carry
    <3>2. Kept(m)
      BY <1>1, <1>3, <3>1, KeptNext
    <3>3. QED
      BY <3>1, <3>2 DEF Kept, Secured, Carry
  <2>3. ASSUME NEW e \in Events, ~(copies[e] > 0), copies'[e] > 0 PROVE Secured(e)'
    <3>1. Arrive(e)
      BY <1>1, <1>3, <2>3 DEF Next, InternalNext, Arrive, RetryElapses, Take, WorkerStep, Check,
         Select, Persist, Push, Record, Ack, SendToDeadLetter, WorkerFails, QueryFails,
         PersistFails, PushFails, RecordFails, WorkerCrash, Replay, ReplayGet, ReplayPublish,
         ReplayAck, ReplayCrash, UserStep, CooldownElapses, Anonymize, EnterZone, TypeOK, BrokerOK
    <3>2. PICK m \in Message : m = Fresh(e) /\ m.event = e
      BY FreshMessage
    <3>3. ready'[m] > 0
      BY <1>1, <3>1, <3>2, PlusCount DEF Arrive, TypeOK, BrokerOK
    <3>4. QED
      BY <3>2, <3>3 DEF Secured, Carry, SafeAt
  <2>4. Accounted'
    BY <2>1, <2>2, <2>3 DEF LossInv, Accounted
  <2>5. QED
    BY <1>1, <2>4 DEF LossInv
<1>4. QED
  BY <1>2, <1>3

LEMMA AccountedIsHeld == LossInv => NoAlertLost
<1> SUFFICES ASSUME LossInv, NEW e \in Events, copies[e] > 0, e \notin processed
             PROVE  \E m \in Carry(e) : Held(m)
  BY DEF NoAlertLost
<1>1. PICK m \in Carry(e) : SafeAt(m)
  BY DEF LossInv, Accounted, Secured
<1>2. ready[m] \in Nat /\ retry[m] \in Nat /\ dead[m] \in Nat
  BY <1>1 DEF LossInv, TypeOK, BrokerOK, Carry
<1>3. Held(m)
  BY <1>1, <1>2 DEF Held, SafeAt
<1>4. QED
  BY <1>1, <1>3

\* An event the broker has accepted is processed or still in one of its queues
\* or in somebody's hands, whatever fails and whoever crashes between any two
\* steps of the workers and of the replay.
THEOREM NoEventDropped == Spec => []NoAlertLost
  BY AccountedIsHeld, LossInit, LossNext, PTL DEF Spec

-----------------------------------------------------------------------------
(* Where alerts come from: between two arrivals no event appears in a      *)
(* queue, and what is written or pushed is of an event somebody holds.     *)

HeldEvents == {e \in Events : \E m \in Carry(e) : Held(m)}

LEMMA HeldParts ==
    ASSUME TypeOK, NEW m \in Message
    PROVE  Held(m) <=> \/ ready[m] > 0 \/ retry[m] > 0 \/ dead[m] > 0
                       \/ replaying = m
                       \/ \E w \in Workers : msg[w] = m
<1>1. ready[m] \in Nat /\ retry[m] \in Nat /\ dead[m] \in Nat
  BY DEF TypeOK, BrokerOK
<1>2. QED
  BY <1>1 DEF Held

LEMMA HeldPartsNext ==
    ASSUME TypeOK', NEW m \in Message
    PROVE  Held(m)' <=> \/ ready'[m] > 0 \/ retry'[m] > 0 \/ dead'[m] > 0
                        \/ replaying' = m
                        \/ \E w \in Workers : msg'[w] = m
<1>1. ready'[m] \in Nat /\ retry'[m] \in Nat /\ dead'[m] \in Nat
  BY DEF TypeOK, BrokerOK
<1>2. QED
  BY <1>1 DEF Held

LEMMA QueueOrigin ==
    ASSUME NEW queue \in [Message -> Nat], NEW k \in Message, NEW m \in Message
    PROVE  /\ Plus(queue, k)[m] > 0 => queue[m] > 0 \/ m = k
           /\ queue[k] > 0 /\ Minus(queue, k)[m] > 0 => queue[m] > 0
  BY DEF Plus, Minus

\* The step has m from a message of the same event.
Origin(m) == \E n \in Message : n.event = m.event /\ Held(n)

\* A step that leaves the workers' messages or gives one of them back.
LEMMA OriginReleased ==
    ASSUME TypeOK, TypeOK', NEW w \in Workers, wpc[w] # "idle", UNCHANGED replayVars,
           NEW k \in Message, k.event = EventOf(w),
           \A v \in Workers : msg'[v] = msg[v] \/ msg'[v] = NoMessage,
           ready' = ready \/ ready' = Plus(ready, k),
           retry' = retry \/ retry' = Plus(retry, k),
           dead' = dead \/ dead' = Plus(dead, k),
           NEW m \in Message, Held(m)'
    PROVE  Origin(m)
<1>1. msg[w] \in Message /\ msg[w].event = EventOf(w) /\ Held(msg[w])
  <2>1. msg[w] \in Message
    BY BusyWorker
  <2>2. QED
    BY <2>1, HeldParts DEF EventOf
<1>2. m = k => Origin(m)
  BY <1>1 DEF Origin
<1>3. /\ ready'[m] > 0 => ready[m] > 0 \/ m = k
      /\ retry'[m] > 0 => retry[m] > 0 \/ m = k
      /\ dead'[m] > 0 => dead[m] > 0 \/ m = k
  BY QueueOrigin DEF TypeOK, BrokerOK
<1>4. \A v \in Workers : msg'[v] = m => msg[v] = m
  BY NoMessageNotMessage
<1>5. Held(m) \/ m = k
  BY <1>3, <1>4, HeldParts, HeldPartsNext DEF replayVars
<1>6. QED
  BY <1>2, <1>5 DEF Origin

LEMMA OriginRetry ==
    ASSUME TypeOK, TypeOK', NEW w \in Workers, wpc[w] # "idle", UNCHANGED replayVars,
           Retry(w) \/ UNCHANGED <<brokerVars, msg>>, NEW m \in Message, Held(m)'
    PROVE  Origin(m)
<1>1. msg[w] \in Message /\ msg[w].event = EventOf(w)
  BY BusyWorker DEF EventOf
<1>2. CASE UNCHANGED <<brokerVars, msg>>
  BY <1>1, <1>2, OriginReleased DEF brokerVars
<1>3. CASE ~Exhausted(msg[w]) /\ Retry(w)
  <2>1. Died(msg[w]) \in Message /\ Died(msg[w]).event = EventOf(w)
    BY <1>1, <1>3, DiedMessage
  <2>2. /\ retry' = Plus(retry, Died(msg[w])) /\ UNCHANGED <<ready, dead>>
        /\ \A v \in Workers : msg'[v] = msg[v] \/ msg'[v] = NoMessage
    BY <1>3 DEF Retry, Release, TypeOK, WorkersOK
  <2>3. QED
    BY <2>1, <2>2, OriginReleased
<1>4. QED
  BY <1>2, <1>3 DEF Retry

LEMMA OriginWorker ==
    ASSUME TypeOK, TypeOK', NEW w \in Workers,
           WorkerStep(w) \/ WorkerFails(w) \/ WorkerCrash(w), NEW m \in Message, Held(m)'
    PROVE  Origin(m)
<1>1. wpc[w] # "idle" /\ UNCHANGED replayVars
  BY DEF WorkerStep, Check, Select, Persist, Push, Record, Ack, SendToDeadLetter,
         WorkerFails, QueryFails, PersistFails, PushFails, RecordFails, WorkerCrash
<1>2. msg[w] \in Message /\ msg[w].event = EventOf(w)
  BY <1>1, BusyWorker DEF EventOf
<1>3. CASE WorkerStep(w) \/ WorkerCrash(w)
  <2>1. /\ \A v \in Workers : msg'[v] = msg[v] \/ msg'[v] = NoMessage
        /\ ready' = ready \/ ready' = Plus(ready, msg[w])
        /\ retry' = retry
        /\ dead' = dead \/ dead' = Plus(dead, msg[w])
    BY <1>3 DEF WorkerStep, Check, Select, Persist, Push, Record, Ack, SendToDeadLetter,
         WorkerCrash, Release, brokerVars, TypeOK, WorkersOK
  <2>2. QED
    BY <1>1, <1>2, <2>1, OriginReleased
<1>4. CASE WorkerFails(w)
  BY <1>1, <1>4, OriginRetry
     DEF WorkerFails, QueryFails, PersistFails, PushFails, RecordFails, brokerVars
<1>5. QED
  BY <1>3, <1>4

LEMMA OriginBroker ==
    ASSUME TypeOK, TypeOK',
           \/ \E k \in Message : RetryElapses(k)
           \/ \E k \in Message, w \in Workers : Take(w, k)
           \/ Replay
           \/ \E u \in Users : UserStep(u),
           NEW m \in Message, Held(m)'
    PROVE  Held(m)
<1>1. ASSUME NEW k \in Message, RetryElapses(k) PROVE Held(m)
  <2>1. (ready'[m] > 0 => ready[m] > 0 \/ m = k) /\ (retry'[m] > 0 => retry[m] > 0)
    BY <1>1, QueueOrigin DEF RetryElapses, TypeOK, BrokerOK
  <2>2. QED
    BY <1>1, <2>1, HeldParts, HeldPartsNext DEF RetryElapses, workerVars, replayVars
<1>2. ASSUME NEW k \in Message, NEW w \in Workers, Take(w, k) PROVE Held(m)
  <2>1. ready'[m] > 0 => ready[m] > 0
    BY <1>2, QueueOrigin DEF Take, TypeOK, BrokerOK
  <2>2. \A v \in Workers : msg'[v] = msg[v] \/ msg'[v] = k
    BY <1>2 DEF Take, TypeOK, WorkersOK
  <2>3. QED
    BY <1>2, <2>1, <2>2, HeldParts, HeldPartsNext DEF Take, replayVars
<1>3. CASE Replay
  <2> DEFINE Moved ==
        /\ ready'[m] > 0 => ready[m] > 0 \/ replaying = m
        /\ dead'[m] > 0 => dead[m] > 0 \/ replaying = m
        /\ replaying' = m => replaying = m \/ dead[m] > 0
        /\ UNCHANGED <<retry, msg>>
  <2>1. Moved
    <3>1. ASSUME NEW k \in Message, ReplayGet(k) PROVE Moved
      BY <3>1, QueueOrigin DEF ReplayGet, workerVars, TypeOK, BrokerOK
    <3>2. CASE ReplayPublish
      BY <3>2, QueueOrigin DEF ReplayPublish, workerVars, TypeOK, BrokerOK
    <3>3. CASE ReplayAck
      BY <3>3, NoMessageNotMessage DEF ReplayAck, workerVars, brokerVars
    <3>4. CASE ReplayCrash
      BY <3>4, QueueOrigin, NoMessageNotMessage DEF ReplayCrash, workerVars, TypeOK, BrokerOK
    <3>5. QED
      BY <1>3, <3>1, <3>2, <3>3, <3>4 DEF Replay
  <2>2. QED
    BY <2>1, HeldParts, HeldPartsNext
<1>4. ASSUME NEW u \in Users, UserStep(u) PROVE Held(m)
  BY <1>4, HeldParts, HeldPartsNext
     DEF UserStep, CooldownElapses, Anonymize, EnterZone, brokerVars, workerVars, replayVars
<1>5. QED
  BY <1>1, <1>2, <1>3, <1>4

\* What a worker writes and pushes is of the event it holds.
Traced(w) ==
    /\ processed' \subseteq processed \cup {EventOf(w)}
    /\ notified' \subseteq notified \cup Alerts(w)
    /\ pushed' \subseteq pushed \cup Alerts(w)

LEMMA TracedWorker ==
    ASSUME TypeOK, NEW w \in Workers, WorkerStep(w) \/ WorkerFails(w) \/ WorkerCrash(w)
    PROVE  Traced(w)
<1>1. CASE WorkerStep(w)
  BY <1>1 DEF WorkerStep, Check, Select, Persist, Push, Record, Ack, SendToDeadLetter,
     InsertRows, HandOver, Alerts, Traced, tableVars, rowVars, fcmVars
<1>2. PartlyPushed(w) => pushed' \subseteq pushed \cup Alerts(w)
  BY DEF PartlyPushed, HandOver, Alerts
<1>3. CASE WorkerFails(w)
  BY <1>2, <1>3 DEF WorkerFails, QueryFails, PersistFails, PushFails, RecordFails, InsertRows,
     Traced, tableVars, rowVars, fcmVars
<1>4. CASE WorkerCrash(w)
  BY <1>2, <1>4 DEF WorkerCrash, Traced, tableVars, rowVars, fcmVars
<1>5. QED
  BY <1>1, <1>3, <1>4

LEMMA OriginArrive ==
    ASSUME TypeOK, NEW e \in Events, Arrive(e)
    PROVE  /\ HeldEvents' \subseteq HeldEvents \cup {e}
           /\ UNCHANGED <<processed, notified, entered, pushed>>
<1>1. TypeOK' /\ Fresh(e) \in Message /\ Fresh(e).event = e
  BY TypeArrive, FreshMessage
<1>2. ASSUME NEW m \in Message, Held(m)' PROVE Held(m) \/ m.event = e
  <2>1. ready'[m] > 0 => ready[m] > 0 \/ m = Fresh(e)
    BY <1>1, QueueOrigin DEF Arrive, TypeOK, BrokerOK
  <2>2. QED
    BY <1>1, <1>2, <2>1, HeldParts, HeldPartsNext DEF Arrive, workerVars, replayVars
<1>3. QED
  BY <1>2 DEF Arrive, HeldEvents, Carry, tableVars, rowVars, fcmVars

\* Only an arrival brings the workers an event, and only for an event they
\* hold, or for an impact area a user walks into, is anything written.
LEMMA OriginNext ==
    ASSUME TypeOK, InternalNext
    PROVE  /\ HeldEvents' \subseteq HeldEvents
           /\ processed' \subseteq processed \cup HeldEvents
           /\ notified' \subseteq notified \cup entered' \cup (Users \X HeldEvents)
           /\ pushed' \subseteq pushed \cup (Users \X HeldEvents)
<1>1. TypeOK'
  BY TypeNext DEF Next
<1>2. HeldEvents' \subseteq HeldEvents
  <2> SUFFICES ASSUME NEW m \in Message, Held(m)' PROVE Origin(m)
    BY DEF HeldEvents, Carry, Origin
  <2>1. QED
    BY <1>1, OriginWorker, OriginBroker DEF InternalNext, Origin
<1>3. ASSUME NEW w \in Workers, WorkerStep(w) \/ WorkerFails(w) \/ WorkerCrash(w)
      PROVE  /\ processed' \subseteq processed \cup HeldEvents
             /\ notified' \subseteq notified \cup (Users \X HeldEvents)
             /\ pushed' \subseteq pushed \cup (Users \X HeldEvents)
  <2>1. wpc[w] # "idle"
    BY <1>3 DEF WorkerStep, Check, Select, Persist, Push, Record, Ack, SendToDeadLetter,
         WorkerFails, QueryFails, PersistFails, PushFails, RecordFails, WorkerCrash
  <2>2. EventOf(w) \in HeldEvents
    <3>1. msg[w] \in Message /\ EventOf(w) \in Events
      BY <2>1, BusyWorker
    <3>2. Held(msg[w])
      BY <3>1, HeldParts
    <3>3. QED
      BY <3>1, <3>2 DEF HeldEvents, Carry, EventOf
  <2>3. Alerts(w) \subseteq Users \X HeldEvents
    BY <2>2 DEF Alerts, TypeOK, WorkersOK
  <2>4. QED
    BY <1>3, <2>2, <2>3, TracedWorker DEF Traced
<1>4. ASSUME \/ \E k \in Message : RetryElapses(k)
             \/ \E k \in Message, w \in Workers : Take(w, k)
             \/ Replay
             \/ \E u \in Users : UserStep(u)
      PROVE  /\ processed' = processed /\ pushed' = pushed
             /\ notified' \subseteq notified \cup entered'
  BY <1>4 DEF RetryElapses, Take, Replay, ReplayGet, ReplayPublish, ReplayAck, ReplayCrash,
     UserStep, CooldownElapses, Anonymize, EnterZone, InsertRows, tableVars, rowVars, fcmVars
<1>5. QED
  BY <1>2, <1>3, <1>4 DEF InternalNext

-----------------------------------------------------------------------------
(* Everyone is served.                                                     *)

\* What a worker has done by the time it comes to a step.
Selected(w) ==
    \A u \in Nearby[EventOf(w)] \ deleted : u \in users[w] \/ Excused(u, EventOf(w))

Persisted(w) == \A u \in users[w] : <<u, EventOf(w)>> \in notified \/ u \in deleted

ProgressOf(w) ==
    /\ wpc[w] \in {"persist", "push", "record"} => Selected(w)
    /\ wpc[w] \in {"push", "record"} => Persisted(w)
    /\ wpc[w] = "record" => Alerts(w) \subseteq pushed

ServeInv ==
    /\ TypeOK
    /\ \A w \in Workers : ProgressOf(w)
    /\ PushHasRow
    /\ SkippedOnlyByCooldown

LEMMA ServeInit == Init => ServeInv
<1> SUFFICES ASSUME Init PROVE ServeInv
  OBVIOUS
<1>1. TypeOK
  BY TypeInit
<1>2. QED
  BY <1>1 DEF Init, ServeInv, ProgressOf, PushHasRow, SkippedOnlyByCooldown

\* Accounts stay deleted, pushes stay pushed, and only a deleted account loses
\* a row.
Grows ==
    /\ deleted \subseteq deleted'
    /\ pushed \subseteq pushed'
    /\ \A u \in Users, e \in Events :
         <<u, e>> \in notified => <<u, e>> \in notified' \/ u \in deleted'

LEMMA GrowsNext == ASSUME TypeOK, Next PROVE Grows
<1>1. deleted \subseteq deleted'
  BY DEF Next, InternalNext, Arrive, RetryElapses, Take, WorkerStep, Check, Select, Persist,
     Push, Record, Ack, SendToDeadLetter, WorkerFails, QueryFails, PersistFails, PushFails,
     RecordFails, WorkerCrash, Replay, ReplayGet, ReplayPublish, ReplayAck, ReplayCrash,
     UserStep, CooldownElapses, Anonymize, EnterZone, tableVars
<1>2. pushed \subseteq pushed'
  BY DEF Next, InternalNext, Arrive, RetryElapses, Take, WorkerStep, Check, Select, Persist,
     Push, Record, Ack, SendToDeadLetter, WorkerFails, QueryFails, PersistFails, PushFails,
     RecordFails, WorkerCrash, Replay, ReplayGet, ReplayPublish, ReplayAck, ReplayCrash,
     UserStep, CooldownElapses, Anonymize, EnterZone, fcmVars, HandOver, PartlyPushed
<1>3. \/ notified \subseteq notified'
      \/ \E u \in Users : Anonymize(u)
  BY DEF Next, InternalNext, Arrive, RetryElapses, Take, WorkerStep, Check, Select, Persist,
     Push, Record, Ack, SendToDeadLetter, WorkerFails, QueryFails, PersistFails, PushFails,
     RecordFails, WorkerCrash, Replay, ReplayGet, ReplayPublish, ReplayAck, ReplayCrash,
     UserStep, CooldownElapses, EnterZone, tableVars, rowVars, InsertRows
<1>4. ASSUME NEW v \in Users, Anonymize(v), NEW u \in Users, NEW e \in Events,
             <<u, e>> \in notified
      PROVE  <<u, e>> \in notified' \/ u \in deleted'
  BY <1>4 DEF Anonymize
<1>5. QED
  BY <1>1, <1>2, <1>3, <1>4 DEF Grows

LEMMA ExcusedStays ==
    ASSUME Grows, NEW u \in Users, u \notin deleted', NEW e, Excused(u, e)
    PROVE  Excused(u, e)'
  BY DEF Grows, Excused

LEMMA SelectedStays ==
    ASSUME Grows, NEW w \in Workers, Selected(w), EventOf(w) \in Events,
           EventOf(w)' = EventOf(w), users'[w] = users[w]
    PROVE  Selected(w)'
<1> SUFFICES ASSUME NEW u \in Nearby[EventOf(w)] \ deleted', u \notin users[w]
             PROVE  Excused(u, EventOf(w))'
  BY DEF Selected
<1>1. u \in Users /\ u \notin deleted
  BY DeliveryAssumption DEF Grows
<1>2. PICK e \in Events : e = EventOf(w) /\ e = EventOf(w)'
  OBVIOUS
<1>3. Excused(u, e)
  BY <1>1, <1>2 DEF Selected
<1>4. Excused(u, e)'
  BY <1>1, <1>3, ExcusedStays
<1>5. QED
  BY <1>2, <1>4 DEF Excused

\* Nothing others do takes back what a worker has done.
LEMMA ProgressKept ==
    ASSUME TypeOK, Grows, NEW w \in Workers, ProgressOf(w),
           wpc'[w] = wpc[w], msg'[w] = msg[w], users'[w] = users[w]
    PROVE  ProgressOf(w)'
<1>1. EventOf(w)' = EventOf(w) /\ Alerts(w)' = Alerts(w)
  BY DEF EventOf, Alerts
<1>2. CASE wpc[w] \notin {"persist", "push", "record"}
  BY <1>2 DEF ProgressOf
<1>3. CASE wpc[w] \in {"persist", "push", "record"}
  <2>1. EventOf(w) \in Events /\ users[w] \in SUBSET Users
    BY <1>3, BusyWorker DEF TypeOK, WorkersOK
  <2>2. Selected(w)'
    <3>1. Selected(w)
      BY <1>3 DEF ProgressOf
    <3>2. QED
      BY <1>1, <2>1, <3>1, SelectedStays
  <2>3. Persisted(w) => Persisted(w)'
    BY <1>1, <2>1 DEF Persisted, Grows
  <2>4. Alerts(w) \subseteq pushed => Alerts(w)' \subseteq pushed'
    BY <1>1 DEF Grows
  <2>5. QED
    BY <2>2, <2>3, <2>4 DEF ProgressOf
<1>4. QED
  BY <1>2, <1>3

\* Whoever is left out has the row of another incident.
LEMMA SelectsTheRest ==
    ASSUME TypeOK, NEW e \in Events, NEW u \in Nearby[e] \ deleted, u \notin Recipients(e)
    PROVE  Excused(u, e)
  BY DEF Recipients, CoolingDown, Excused, TypeOK, TablesOK

LEMMA ProgressWorkerStep ==
    ASSUME TypeOK, Grows, NEW w \in Workers, ProgressOf(w), WorkerStep(w)
    PROVE  ProgressOf(w)'
<1>1. wpc[w] # "idle" /\ EventOf(w) \in Events
  BY BusyWorker DEF WorkerStep, Check, Select, Persist, Push, Record, Ack, SendToDeadLetter
<1>2. CASE Select(w)
  <2>1. /\ users'[w] = Recipients(EventOf(w)) /\ wpc'[w] = "persist" /\ msg' = msg
        /\ UNCHANGED tableVars
    BY <1>2 DEF Select, Goto, TypeOK, WorkersOK
  <2>2. EventOf(w)' = EventOf(w)
    BY <2>1 DEF EventOf
  <2>3. ASSUME NEW u \in Nearby[EventOf(w)] \ deleted, u \notin users'[w]
        PROVE  Excused(u, EventOf(w))'
    <3>1. PICK e \in Events : e = EventOf(w) /\ e = EventOf(w)'
      BY <1>1, <2>2
    <3>2. Excused(u, e)
      BY <2>1, <2>3, <3>1, SelectsTheRest
    <3>3. Excused(u, e)'
      BY <2>1, <3>2 DEF Excused, tableVars, rowVars
    <3>4. QED
      BY <3>1, <3>3 DEF Excused
  <2>6. Selected(w)'
    BY <2>1, <2>2, <2>3 DEF Selected, tableVars
  <2>7. QED
    BY <2>1, <2>6 DEF ProgressOf
<1>3. CASE Persist(w) \/ Push(w)
  <2>1. msg' = msg /\ users' = users
    BY <1>3 DEF Persist, Push
  <2>2. EventOf(w)' = EventOf(w) /\ Alerts(w)' = Alerts(w)
    BY <2>1 DEF EventOf, Alerts
  <2>3. Selected(w)
    BY <1>3 DEF Persist, Push, ProgressOf
  <2>5. Selected(w)'
    BY <1>1, <2>1, <2>2, <2>3, SelectedStays
  <2>6. CASE Persist(w)
    <3>1. wpc'[w] = "push" /\ notified' = notified \cup Alerts(w)
      BY <2>6 DEF Persist, Goto, InsertRows, TypeOK, WorkersOK
    <3>2. Persisted(w)'
      BY <2>1, <2>2, <3>1 DEF Persisted, Alerts
    <3>3. QED
      BY <2>5, <3>1, <3>2 DEF ProgressOf
  <2>7. CASE Push(w)
    <3>1. wpc'[w] = "record" /\ pushed' = pushed \cup Alerts(w) /\ UNCHANGED tableVars
      BY <2>7 DEF Push, HandOver, Alerts, Goto, TypeOK, WorkersOK
    <3>2. Persisted(w)
      BY <2>7 DEF Push, ProgressOf
    <3>3. Persisted(w)'
      BY <2>1, <2>2, <3>1, <3>2 DEF Persisted, tableVars, rowVars
    <3>4. Alerts(w)' \subseteq pushed'
      BY <2>2, <3>1
    <3>5. QED
      BY <2>5, <3>3, <3>4 DEF ProgressOf
  <2>8. QED
    BY <1>3, <2>6, <2>7
<1>4. CASE Check(w) \/ Record(w) \/ Ack(w) \/ SendToDeadLetter(w)
  <2>1. wpc'[w] \notin {"persist", "push", "record"}
    BY <1>4 DEF Check, CheckNext, Record, Ack, Release, SendToDeadLetter, Goto, TypeOK, WorkersOK
  <2>2. QED
    BY <2>1 DEF ProgressOf
<1>5. QED
  BY <1>2, <1>3, <1>4 DEF WorkerStep

LEMMA ProgressNext ==
    ASSUME TypeOK, Grows, Next, NEW w \in Workers, ProgressOf(w)
    PROVE  ProgressOf(w)'
<1>1. ASSUME NEW v \in Workers, WorkerStep(v) \/ WorkerFails(v) \/ WorkerCrash(v)
             \/ \E m \in Message : Take(v, m)
      PROVE  \A x \in Workers \ {v} : wpc'[x] = wpc[x] /\ msg'[x] = msg[x] /\ users'[x] = users[x]
  BY <1>1 DEF WorkerStep, Check, Select, Persist, Push, Record, Ack, SendToDeadLetter, WorkerFails,
     QueryFails, PersistFails, PushFails, RecordFails, WorkerCrash, Take, Retry, Release, Goto,
     TypeOK, WorkersOK
<1>2. ASSUME WorkerFails(w) \/ WorkerCrash(w) \/ \E m \in Message : Take(w, m)
      PROVE  wpc'[w] \notin {"persist", "push", "record"}
  BY <1>2 DEF WorkerFails, QueryFails, PersistFails, PushFails, RecordFails, WorkerCrash, Take,
     Retry, Release, Goto, TypeOK, WorkersOK
<1>3. CASE wpc'[w] \notin {"persist", "push", "record"}
  BY <1>3 DEF ProgressOf
<1>4. CASE WorkerStep(w)
  BY <1>4, ProgressWorkerStep
<1>5. CASE \E v \in Workers \ {w} :
             WorkerStep(v) \/ WorkerFails(v) \/ WorkerCrash(v) \/ \E m \in Message : Take(v, m)
  BY <1>1, <1>5, ProgressKept
<1>6. CASE UNCHANGED workerVars
  BY <1>6, ProgressKept DEF workerVars
<1>7. \/ UNCHANGED workerVars
      \/ \E v \in Workers :
           WorkerStep(v) \/ WorkerFails(v) \/ WorkerCrash(v) \/ \E m \in Message : Take(v, m)
  BY DEF Next, InternalNext, Arrive, RetryElapses, Replay, ReplayGet, ReplayPublish, ReplayAck,
     ReplayCrash, UserStep, CooldownElapses, Anonymize, EnterZone
<1>8. QED
  BY <1>2, <1>3, <1>4, <1>5, <1>6, <1>7

\* What is pushed in a step was persisted before.
LEMMA PushedNext ==
    ASSUME TypeOK, Next, \A w \in Workers : ProgressOf(w)
    PROVE  \A u \in Users, e \in Events :
             <<u, e>> \in pushed' \ pushed => <<u, e>> \in notified \/ u \in deleted
<1>1. \/ pushed' = pushed
      \/ \E w \in Workers :
           /\ wpc[w] = "push"
           /\ \E sent \in SUBSET users[w] : pushed' = pushed \cup (sent \X {EventOf(w)})
  <2>1. ASSUME NEW w \in Workers, Push(w)
        PROVE  wpc[w] = "push" /\ pushed' = pushed \cup (users[w] \X {EventOf(w)})
    BY <2>1 DEF Push, HandOver
  <2>2. ASSUME NEW w \in Workers, PushFails(w) \/ WorkerCrash(w)
        PROVE  \/ pushed' = pushed
               \/ wpc[w] = "push" /\ PartlyPushed(w)
    BY <2>2 DEF PushFails, WorkerCrash, fcmVars
  <2>3. \/ pushed' = pushed
        \/ \E w \in Workers : Push(w) \/ PushFails(w) \/ WorkerCrash(w)
    BY DEF Next, InternalNext, Arrive, RetryElapses, Take, WorkerStep, Check, Select, Persist,
       Record, Ack, SendToDeadLetter, WorkerFails, QueryFails, PersistFails, RecordFails, Replay,
       ReplayGet, ReplayPublish, ReplayAck, ReplayCrash, UserStep, CooldownElapses, Anonymize,
       EnterZone, fcmVars
  <2>4. ASSUME NEW w \in Workers, PartlyPushed(w)
        PROVE  \E sent \in SUBSET users[w] : pushed' = pushed \cup (sent \X {EventOf(w)})
    BY <2>4 DEF PartlyPushed, HandOver
  <2>5. QED
    BY <2>1, <2>2, <2>3, <2>4
<1>2. ASSUME NEW w \in Workers, wpc[w] = "push" PROVE Persisted(w)
  BY <1>2 DEF ProgressOf
<1>3. QED
  BY <1>1, <1>2 DEF Persisted

LEMMA ServedNext ==
    ASSUME ServeInv, Next, Grows PROVE SkippedOnlyByCooldown'
<1> SUFFICES ASSUME NEW e \in processed', NEW u \in Nearby[e] \ deleted'
             PROVE  <<u, e>> \in notified' \cap pushed' \/ Excused(u, e)'
  BY DEF SkippedOnlyByCooldown
<1>1. e \in Events /\ u \in Users /\ u \notin deleted
  <2>1. processed' \in SUBSET Events
    BY TypeNext DEF ServeInv, TypeOK, TablesOK
  <2>2. QED
    BY <2>1, DeliveryAssumption DEF Grows
<1>2. <<u, e>> \in notified \cap pushed \/ Excused(u, e)
  <2>1. CASE e \in processed
    BY <1>1, <2>1 DEF ServeInv, SkippedOnlyByCooldown
  <2>2. CASE e \notin processed
    <3>1. PICK w \in Workers : wpc[w] = "record" /\ e = EventOf(w)
      BY <2>2 DEF Next, InternalNext, Arrive, RetryElapses, Take, WorkerStep, Check, Select,
         Persist, Push, Record, Ack, SendToDeadLetter, WorkerFails, QueryFails, PersistFails,
         PushFails, RecordFails, WorkerCrash, Replay, ReplayGet, ReplayPublish, ReplayAck,
         ReplayCrash, UserStep, CooldownElapses, Anonymize, EnterZone, tableVars
    <3>2. Selected(w) /\ Persisted(w) /\ Alerts(w) \subseteq pushed
      BY <3>1 DEF ServeInv, ProgressOf
    <3>3. u \in users[w] \/ Excused(u, e)
      BY <1>1, <3>1, <3>2 DEF Selected
    <3>4. QED
      BY <1>1, <3>1, <3>2, <3>3 DEF Persisted, Alerts
  <2>3. QED
    BY <2>1, <2>2
<1>3. QED
  BY <1>1, <1>2, ExcusedStays DEF Grows

LEMMA ServeNext == ServeInv /\ [Next]_vars => ServeInv'
<1> SUFFICES ASSUME ServeInv, [Next]_vars PROVE ServeInv'
  OBVIOUS
<1>1. CASE UNCHANGED vars
  <2>1. /\ TypeOK'
        /\ UNCHANGED <<wpc, msg, users, notified, deleted, pushed, processed>>
    BY <1>1, TypeNext DEF ServeInv, vars, workerVars, tableVars, rowVars, fcmVars
  <2>2. Grows
    BY <2>1 DEF Grows
  <2>3. \A w \in Workers : ProgressOf(w)'
    BY <2>1, <2>2, ProgressKept DEF ServeInv
  <2>4. PushHasRow' /\ SkippedOnlyByCooldown'
    BY <2>1 DEF ServeInv, PushHasRow, SkippedOnlyByCooldown, Excused
  <2>5. QED
    BY <2>1, <2>3, <2>4 DEF ServeInv
<1>2. CASE Next
  <2>1. TypeOK /\ TypeOK' /\ Grows
    BY <1>2, TypeNext, GrowsNext DEF ServeInv
  <2>3. \A w \in Workers : ProgressOf(w)'
    BY <1>2, <2>1, ProgressNext DEF ServeInv
  <2>4. PushHasRow'
    <3>1. \A u \in Users, e \in Events :
            <<u, e>> \in pushed' => <<u, e>> \in notified \/ u \in deleted
      BY <1>2, <2>1, PushedNext DEF ServeInv, PushHasRow
    <3>2. QED
      BY <2>1, <3>1 DEF PushHasRow, Grows
  <2>5. SkippedOnlyByCooldown'
    BY <1>2, <2>1, ServedNext
  <2>6. QED
    BY <2>1, <2>3, <2>4, <2>5 DEF ServeInv
<1>3. QED
  BY <1>1, <1>2

\* Nobody is ever pushed an alert that has no row in notifications, unless the
\* account was deleted since.
THEOREM PushesHaveRows == Spec => []PushHasRow
<1>1. ServeInv => PushHasRow
  BY DEF ServeInv
<1>2. QED
  BY <1>1, ServeInit, ServeNext, PTL DEF Spec

\* Once processed_events holds an event, everyone near it has the row and was
\* handed to FCM, or has the row of another incident as severe: retries, lost
\* confirmations and second copies leave nobody else out.
THEOREM EveryoneServed == Spec => []SkippedOnlyByCooldown
<1>1. ServeInv => SkippedOnlyByCooldown
  BY DEF ServeInv
<1>2. QED
  BY <1>1, ServeInit, ServeNext, PTL DEF Spec

-----------------------------------------------------------------------------
(* A processed event stays at rest.                                        *)

LEMMA SentByOthers ==
    ASSUME TypeOK, Next, NEW e \in Events, AtRest(e) PROVE UNCHANGED Sent(e)
<1>1. ASSUME NEW w \in Workers, wpc[w] = "push", NEW handed \in SUBSET users[w],
             HandOver(w, handed)
      PROVE  UNCHANGED Sent(e)
  <2>1. EventOf(w) # e
    <3>1. msg[w] \in Message
      BY <1>1, BusyWorker
    <3>2. QED
      BY <1>1, <3>1 DEF AtRest, Carry, EventOf
  <2>2. PICK accepted \in SUBSET handed :
          /\ pushed' = pushed \cup (handed \X {EventOf(w)})
          /\ reached' = reached \cup (accepted \X {EventOf(w)})
    BY <1>1 DEF HandOver
  <2>3. QED
    BY <2>1, <2>2 DEF Sent
<1>2. ASSUME NEW w \in Workers, Push(w) \/ PushFails(w) \/ WorkerCrash(w)
      PROVE  UNCHANGED Sent(e)
  <2>1. CASE UNCHANGED fcmVars
    BY <2>1 DEF Sent, fcmVars
  <2>2. CASE wpc[w] = "push" /\ \E handed \in SUBSET users[w] : HandOver(w, handed)
    BY <1>1, <2>2
  <2>3. QED
    BY <1>2, <2>1, <2>2 DEF Push, PushFails, WorkerCrash, PartlyPushed
<1>3. \/ UNCHANGED fcmVars
      \/ \E w \in Workers : Push(w) \/ PushFails(w) \/ WorkerCrash(w)
  BY DEF Next, InternalNext, Arrive, RetryElapses, Take, WorkerStep, Check, Select, Persist,
     Record, Ack, SendToDeadLetter, WorkerFails, QueryFails, PersistFails, RecordFails, Replay,
     ReplayGet, ReplayPublish, ReplayAck, ReplayCrash, UserStep, CooldownElapses, Anonymize,
     EnterZone
<1>4. QED
  BY <1>2, <1>3 DEF Sent, fcmVars

LEMMA AtRestStep ==
    ASSUME TypeOK, [Next]_vars, NEW e \in Events, AtRest(e)
    PROVE  AtRest(e)' /\ UNCHANGED Sent(e)
<1>1. CASE UNCHANGED vars
  BY <1>1 DEF AtRest, Carry, Sent, vars, workerVars, tableVars, fcmVars
<1>2. CASE Next
  <2>1. e \in processed'
    BY <1>2 DEF AtRest, Next, InternalNext, Arrive, RetryElapses, Take, WorkerStep, Check, Select,
       Persist, Push, Record, Ack, SendToDeadLetter, WorkerFails, QueryFails, PersistFails,
       PushFails, RecordFails, WorkerCrash, Replay, ReplayGet, ReplayPublish, ReplayAck,
       ReplayCrash, UserStep, CooldownElapses, Anonymize, EnterZone, tableVars
  <2>2. ASSUME NEW w \in Workers, msg'[w] \in Carry(e)
        PROVE  wpc'[w] \in {"check", "ack", "bury"}
    <3>1. CASE wpc'[w] = wpc[w] /\ msg'[w] = msg[w]
      BY <2>2, <3>1 DEF AtRest
    <3>2. CASE \E m \in Message : Take(w, m)
      BY <3>2 DEF Take, Goto, TypeOK, WorkersOK
    <3>3. CASE WorkerStep(w) /\ ~Ack(w)
      <4>1. msg' = msg
        BY <3>3 DEF WorkerStep, Check, Select, Persist, Push, Record, SendToDeadLetter
      <4>2. wpc[w] \in {"check", "ack", "bury"} /\ EventOf(w) = e
        BY <2>2, <4>1 DEF AtRest, EventOf, Carry
      <4>3. CASE Check(w)
        BY <4>2, <4>3 DEF Check, CheckNext, AtRest, Goto, TypeOK, WorkersOK
      <4>4. CASE SendToDeadLetter(w)
        BY <4>4 DEF SendToDeadLetter, Goto, TypeOK, WorkersOK
      <4>5. QED
        BY <3>3, <4>2, <4>3, <4>4 DEF WorkerStep, Select, Persist, Push, Record
    <3>4. CASE WorkerFails(w)
      <4>1. wpc'[w] = "bury" \/ msg'[w] = NoMessage
        BY <3>4 DEF WorkerFails, QueryFails, PersistFails, PushFails, RecordFails, Retry, Release,
           Goto, TypeOK, WorkersOK
      <4>2. QED
        BY <2>2, <4>1, NoMessageNotMessage DEF Carry
    <3>5. CASE WorkerCrash(w) \/ Ack(w)
      <4>1. msg'[w] = NoMessage
        BY <3>5 DEF WorkerCrash, Ack, Release, TypeOK, WorkersOK
      <4>2. QED
        BY <2>2, <4>1, NoMessageNotMessage DEF Carry
    <3>6. ASSUME NEW v \in Workers \ {w},
                 WorkerStep(v) \/ WorkerFails(v) \/ WorkerCrash(v) \/ \E m \in Message : Take(v, m)
          PROVE  wpc'[w] = wpc[w] /\ msg'[w] = msg[w]
      BY <3>6 DEF WorkerStep, Check, Select, Persist, Push, Record, Ack, SendToDeadLetter,
         WorkerFails, QueryFails, PersistFails, PushFails, RecordFails, WorkerCrash, Take, Retry,
         Release, Goto, TypeOK, WorkersOK
    <3>7. \/ UNCHANGED workerVars
          \/ \E v \in Workers :
               WorkerStep(v) \/ WorkerFails(v) \/ WorkerCrash(v) \/ \E m \in Message : Take(v, m)
      BY <1>2 DEF Next, InternalNext, Arrive, RetryElapses, Replay, ReplayGet, ReplayPublish,
         ReplayAck, ReplayCrash, UserStep, CooldownElapses, Anonymize, EnterZone
    <3>8. QED
      BY <3>1, <3>2, <3>3, <3>4, <3>5, <3>6, <3>7 DEF workerVars
  <2>3. UNCHANGED Sent(e)
    BY <1>2, SentByOthers
  <2>4. QED
    BY <2>1, <2>2, <2>3 DEF AtRest, Carry
<1>3. QED
  BY <1>1, <1>2

\* No copy of a processed event, however late, is selected for, written or
\* pushed again, not even to those FCM did not accept.
THEOREM ProcessedStaysFinal == Spec => ProcessedIsFinal
<1>1. TypeOK /\ [Next]_vars =>
        [\A e \in Events : AtRest(e) => AtRest(e)' /\ UNCHANGED Sent(e)]_vars
  BY AtRestStep
<1>2. QED
  BY <1>1, TypeInit, TypeNext, PTL DEF Spec, ProcessedIsFinal
=============================================================================
