---------------------------- MODULE OutboxProofs ----------------------------
(* Theorems about Outbox, for every set of events and pollers, every batch *)
(* size and every number of failures.                                      *)
EXTENDS Outbox, FiniteSetTheorems, TLAPS

-----------------------------------------------------------------------------
(* What the actions with a quantified choice do.                           *)

LEMMA ClaimEffect ==
    ASSUME NEW p \in Pollers, TypeOK, Claim(p)
    PROVE  \E S \in SUBSET Events :
             /\ \A e \in S : /\ Claimable(e)
                             /\ token'[e] \in Tokens \ TokensInUse(e)
                             /\ claims'[p][e] = token'[e]
                             /\ e \notin lapsed'
             /\ \A e \in Events \ S : /\ token'[e] = token[e]
                                      /\ claims'[p][e] = NoToken
                                      /\ (e \in lapsed' <=> e \in lapsed)
             /\ \A q \in Pollers \ {p} : claims'[q] = claims[q]
             /\ token' \in [Events -> Tokens \cup {NoToken}]
             /\ lapsed' \in SUBSET Events
             /\ claims' \in [Pollers -> [Events -> Tokens \cup {NoToken}]]
<1> DEFINE fresh == [e \in Events |-> CHOOSE t \in Tokens : t \notin TokensInUse(e)]
<1>1. PICK skipped \in SUBSET RowLocks(p), S \in SUBSET Events :
        /\ IsBatch(S, {e \in Events : Claimable(e)} \ skipped)
        /\ \A e \in S : ~(Tokens \subseteq TokensInUse(e))
        /\ token' = [e \in Events |-> IF e \in S THEN fresh[e] ELSE token[e]]
        /\ claims' = [claims EXCEPT ![p] =
             [e \in Events |-> IF e \in S THEN fresh[e] ELSE NoToken]]
        /\ lapsed' = lapsed \ S
  BY DEF Claim
<1>2. ASSUME NEW e \in S PROVE fresh[e] \in Tokens \ TokensInUse(e)
  <2>1. \E t \in Tokens : t \notin TokensInUse(e)
    BY <1>1
  <2>2. fresh[e] = CHOOSE t \in Tokens : t \notin TokensInUse(e)
    OBVIOUS
  <2>3. QED
    BY <2>1, <2>2
<1>3. \A e \in S : Claimable(e)
  BY <1>1 DEF IsBatch
<1> HIDE DEF fresh
<1>4. claims[p] \in [Events -> Tokens \cup {NoToken}]
  BY DEF TypeOK
<1>5. QED
  BY <1>1, <1>2, <1>3, <1>4 DEF TypeOK

LEMMA RoutingsMonotone ==
    ASSUME NEW e \in Events, copies \in [Events -> Nat],
           copies' \in Routings(e) \/ copies' = copies
    PROVE  /\ copies' \in [Events -> Nat]
           /\ \A f \in Events : copies[f] > 0 => copies'[f] > 0
           /\ e \in DurableEvents /\ copies' \in Routings(e) => copies'[e] > 0
  BY DEF Routings


-----------------------------------------------------------------------------
(* Type correctness, with the shape of rows and claims.                    *)

USE EventsAssumption, TokenAssumption, NoEventAssumption, FaultAssumption

LEMMA TypeInit == Init => TypeOK
  BY DEF Init, TypeOK, NoClaims

LEMMA TypeClaim ==
    ASSUME NEW p \in Pollers, TypeOK, Claim(p) PROVE TypeOK'
<1>1. PICK S \in SUBSET Events :
        /\ \A e \in S : /\ Claimable(e)
                        /\ token'[e] \in Tokens \ TokensInUse(e)
                        /\ claims'[p][e] = token'[e]
                        /\ e \notin lapsed'
        /\ \A e \in Events \ S : /\ token'[e] = token[e]
                                 /\ claims'[p][e] = NoToken
                                 /\ (e \in lapsed' <=> e \in lapsed)
        /\ \A q \in Pollers \ {p} : claims'[q] = claims[q]
        /\ token' \in [Events -> Tokens \cup {NoToken}]
        /\ lapsed' \in SUBSET Events
        /\ claims' \in [Pollers -> [Events -> Tokens \cup {NoToken}]]
  BY ClaimEffect
<1>2. /\ pc[p] = "idle" /\ pc' = [pc EXCEPT ![p] = "batch"]
      /\ UNCHANGED <<committed, outbox, due, copies, row, faults>>
  BY DEF Claim
<1>3. row[p] = NoEvent
  BY <1>2 DEF TypeOK
<1>4. \A e \in S : e \in outbox /\ e \in due /\ e \in committed
  BY <1>1 DEF Claimable, TypeOK
<1>5. QED
  BY <1>1, <1>2, <1>3, <1>4 DEF TypeOK

LEMMA TypePublish ==
    ASSUME NEW p \in Pollers, TypeOK, PublishConfirmed(p) \/ PublishFails(p)
    PROVE  TypeOK'
<1>1. PICK e \in Events :
        /\ claims[p][e] # NoToken
        /\ row' = [row EXCEPT ![p] = e]
        /\ copies' = copies \/ copies' \in Routings(e)
  BY DEF PublishConfirmed, PublishFails, Claimed
<1>2. copies' \in [Events -> Nat]
  BY <1>1, RoutingsMonotone DEF TypeOK
<1>3. /\ \/ pc' = [pc EXCEPT ![p] = "confirmed"]
         \/ pc' = [pc EXCEPT ![p] = "failed"]
      /\ UNCHANGED <<committed, outbox, due, token, lapsed, claims>>
      /\ faults' \in 0..MaxFaults
  BY DEF PublishConfirmed, PublishFails, Fault, TypeOK, tableVars
<1>4. row' = [row EXCEPT ![p] = e]
  BY <1>1
<1>5. claims[p][e] # NoToken /\ e # NoEvent
  BY <1>1
<1>6. QED
  BY <1>2, <1>3, <1>4, <1>5 DEF TypeOK

\* Settling a row only clears columns of that row.
LEMMA SettleEffect ==
    ASSUME NEW p \in Pollers, NEW e \in Events, TypeOK,
           \/ DeleteIfHeld(p, e) \/ RescheduleIfHeld(p, e)
           \/ UNCHANGED <<outbox, due, token, lapsed>>
    PROVE  /\ \/ UNCHANGED <<outbox, due, token, lapsed>>
              \/ /\ HoldsClaim(p, e)
                 /\ outbox' \in {outbox, outbox \ {e}}
                 /\ due' = due \ {e}
                 /\ token' = [token EXCEPT ![e] = NoToken]
                 /\ lapsed' = lapsed \ {e}
           /\ RescheduleIfHeld(p, e) => outbox' = outbox
  BY DEF DeleteIfHeld, DeleteRow, RescheduleIfHeld

\* The row columns stay well formed when one row is settled.
LEMMA SettleShape ==
    ASSUME NEW p \in Pollers, NEW e \in Events, TypeOK, committed' = committed,
           \/ DeleteIfHeld(p, e) \/ RescheduleIfHeld(p, e)
           \/ UNCHANGED <<outbox, due, token, lapsed>>
    PROVE  /\ outbox' \in SUBSET Events /\ outbox' \subseteq committed'
           /\ due' \in SUBSET Events /\ lapsed' \in SUBSET Events
           /\ token' \in [Events -> Tokens \cup {NoToken}]
           /\ due' \subseteq outbox'
           /\ \A f \in lapsed' : token'[f] # NoToken
           /\ \A f \in Events : token'[f] # NoToken => f \in due'
<1>1. \/ UNCHANGED <<outbox, due, token, lapsed>>
      \/ /\ outbox' \in {outbox, outbox \ {e}}
         /\ due' = due \ {e}
         /\ token' = [token EXCEPT ![e] = NoToken]
         /\ lapsed' = lapsed \ {e}
  BY SettleEffect
<1>2. QED
  BY <1>1 DEF TypeOK

LEMMA NextRowShape ==
    ASSUME NEW p \in Pollers, TypeOK, row[p] # NoEvent, committed' = committed,
           NextRow(p) \/ Abandon(p)
    PROVE  /\ pc' \in [Pollers -> {"stopped", "idle", "batch", "confirmed", "failed"}]
           /\ claims' \in [Pollers -> [Events -> Tokens \cup {NoToken}]]
           /\ row' \in [Pollers -> Events \cup {NoEvent}]
           /\ \A q \in Pollers :
                /\ pc'[q] \in {"confirmed", "failed"} <=> row'[q] # NoEvent
                /\ row'[q] # NoEvent => claims'[q][row'[q]] # NoToken
                /\ \A f \in Events : claims'[q][f] # NoToken => f \in committed'
<1>1. row[p] \in Events
  BY DEF TypeOK
<1>2. CASE NextRow(p)
  <2> DEFINE left == [claims[p] EXCEPT ![row[p]] = NoToken]
  <2>1. left \in [Events -> Tokens \cup {NoToken}]
    BY <1>1 DEF TypeOK
  <2>2. \A f \in Events : left[f] # NoToken => claims[p][f] # NoToken
    BY <1>1 DEF TypeOK
  <2>3. /\ claims' = [claims EXCEPT ![p] = left]
        /\ row' = [row EXCEPT ![p] = NoEvent]
        /\ \E c \in {"idle", "batch"} : pc' = [pc EXCEPT ![p] = c]
    BY <1>2 DEF NextRow
  <2> HIDE DEF left
  <2>4. QED
    BY <2>1, <2>2, <2>3 DEF TypeOK
<1>3. CASE Abandon(p)
  BY <1>3 DEF Abandon, NoClaims, TypeOK
<1>4. QED
  BY <1>2, <1>3

LEMMA TypeSettle ==
    ASSUME NEW p \in Pollers, TypeOK,
           \/ MarkPublished(p) \/ RescheduleFailed(p) \/ RescheduleFails(p)
    PROVE  TypeOK'
<1>1. row[p] \in Events
  BY DEF TypeOK, MarkPublished, RescheduleFailed, RescheduleFails
<1>2. /\ \/ DeleteIfHeld(p, row[p]) \/ RescheduleIfHeld(p, row[p])
         \/ UNCHANGED <<outbox, due, token, lapsed>>
      /\ NextRow(p) \/ Abandon(p)
      /\ UNCHANGED <<committed, copies>>
      /\ faults' \in 0..MaxFaults
  BY DEF MarkPublished, RescheduleFailed, RescheduleFails, Fault, TypeOK
<1>3. row[p] # NoEvent
  BY <1>1
<1>4. QED
  BY <1>1, <1>2, <1>3, SettleShape, NextRowShape DEF TypeOK

LEMMA TypeMarkFails ==
    ASSUME NEW p \in Pollers, TypeOK, MarkFails(p) PROVE TypeOK'
<1>1. row[p] \in Events
  BY DEF TypeOK, MarkFails
<1>2. /\ \/ DeleteIfHeld(p, row[p])
         \/ UNCHANGED <<outbox, due, token, lapsed>>
      /\ pc' = [pc EXCEPT ![p] = "failed"]
      /\ pc[p] = "confirmed"
      /\ UNCHANGED <<committed, copies, claims, row>>
      /\ faults' \in 0..MaxFaults
  BY DEF MarkFails, Fault, TypeOK
<1>3. QED
  BY <1>1, <1>2, SettleShape DEF TypeOK

LEMMA TypeOther ==
    ASSUME TypeOK,
           \/ \E e \in Events : Commit(e) \/ ClockStep(e) \/ SlowClaimLapses(e)
           \/ \E p \in Pollers : Crash(p) \/ Restart(p) \/ EmptyPoll(p)
           \/ UNCHANGED vars
    PROVE  TypeOK'
<1>1. ASSUME NEW e \in Events, Commit(e) PROVE TypeOK'
  BY <1>1 DEF Commit, TypeOK, pollerVars
<1>2. ASSUME NEW e \in Events, BackoffElapses(e) PROVE TypeOK'
  BY <1>2 DEF BackoffElapses, TypeOK, pollerVars
<1>3. ASSUME NEW e \in Events, AbandonedClaimLapses(e) \/ SlowClaimLapses(e)
      PROVE  TypeOK'
  <2>1. /\ token[e] # NoToken
        /\ lapsed' = lapsed \cup {e}
        /\ UNCHANGED <<committed, outbox, due, token, copies, pc, claims, row>>
    BY <1>3 DEF AbandonedClaimLapses, SlowClaimLapses, Lapse, Unclaimed, pollerVars
  <2>2. faults' \in 0..MaxFaults
    BY <1>3 DEF AbandonedClaimLapses, SlowClaimLapses, Fault, TypeOK
  <2>3. QED
    BY <2>1, <2>2 DEF TypeOK
<1>4. ASSUME NEW p \in Pollers, Crash(p) PROVE TypeOK'
  BY <1>4 DEF Crash, Abandon, NoClaims, Fault, TypeOK, tableVars
<1>5. ASSUME NEW p \in Pollers, Restart(p) PROVE TypeOK'
  BY <1>5 DEF Restart, TypeOK, tableVars
<1>6. ASSUME UNCHANGED vars PROVE TypeOK'
  BY <1>6 DEF vars, tableVars, pollerVars, TypeOK
<1>7. QED
  BY <1>1, <1>2, <1>3, <1>4, <1>5, <1>6 DEF ClockStep, EmptyPoll

LEMMA TypeNext == TypeOK /\ [Next]_vars => TypeOK'
  BY TypeClaim, TypePublish, TypeSettle, TypeMarkFails, TypeOther
     DEF Next, PollerStep, PollerFault

\* Every variable keeps its type, and the rows and claims their shape: no
\* deadline without a claim, no claim on a row that is not due.
THEOREM TypeCorrect == Spec => []TypeOK
  BY TypeInit, TypeNext, PTL DEF Spec

-----------------------------------------------------------------------------
(* No event is lost: a row is deleted only after a confirm, which for a    *)
(* durable event means a copy in a queue.                                  *)

ConfirmedHasCopy ==
    \A p \in Pollers :
        pc[p] = "confirmed" /\ row[p] \in DurableEvents => copies[row[p]] > 0

LossInv == TypeOK /\ NoEventLost /\ ConfirmedHasCopy

LEMMA LossInit == Init => LossInv
  BY TypeInit DEF Init, LossInv, NoEventLost, ConfirmedHasCopy

LEMMA LossPublish ==
    ASSUME NEW p \in Pollers, LossInv, PublishConfirmed(p) \/ PublishFails(p)
    PROVE  NoEventLost' /\ ConfirmedHasCopy'
<1>1. PICK e \in Events :
        /\ row' = [row EXCEPT ![p] = e]
        /\ copies' = copies \/ copies' \in Routings(e)
        /\ PublishConfirmed(p) => copies' \in Routings(e)
  BY DEF PublishConfirmed, PublishFails, Claimed
<1>2. /\ \A f \in Events : copies[f] > 0 => copies'[f] > 0
      /\ PublishConfirmed(p) /\ e \in DurableEvents => copies'[e] > 0
  BY <1>1, RoutingsMonotone DEF LossInv, TypeOK
<1>3. row' = [row EXCEPT ![p] = e]
  BY <1>1
<1>4. /\ \/ PublishConfirmed(p) /\ pc' = [pc EXCEPT ![p] = "confirmed"]
         \/ pc' = [pc EXCEPT ![p] = "failed"]
      /\ UNCHANGED <<committed, outbox>>
  BY DEF PublishConfirmed, PublishFails, tableVars
<1>5. NoEventLost'
  BY <1>2, <1>4 DEF LossInv, NoEventLost
<1>6. ConfirmedHasCopy'
  BY <1>2, <1>3, <1>4 DEF LossInv, ConfirmedHasCopy, TypeOK
<1>7. QED
  BY <1>5, <1>6

LEMMA LossSettle ==
    ASSUME NEW p \in Pollers, LossInv,
           \/ MarkPublished(p) \/ MarkFails(p)
           \/ RescheduleFailed(p) \/ RescheduleFails(p)
    PROVE  NoEventLost' /\ ConfirmedHasCopy'
<1>1. row[p] \in Events
  BY DEF LossInv, TypeOK, MarkPublished, MarkFails, RescheduleFailed, RescheduleFails
<1>2. /\ outbox' = outbox \/ (pc[p] = "confirmed" /\ outbox' = outbox \ {row[p]})
      /\ UNCHANGED <<committed, copies>>
  BY DEF MarkPublished, MarkFails, RescheduleFailed, RescheduleFails,
         DeleteIfHeld, DeleteRow, RescheduleIfHeld
<1>3. \A q \in Pollers : pc'[q] = "confirmed" => pc[q] = "confirmed" /\ row'[q] = row[q]
  BY DEF MarkPublished, MarkFails, RescheduleFailed, RescheduleFails, NextRow,
         Abandon, LossInv, TypeOK
<1>4. NoEventLost'
  BY <1>1, <1>2 DEF LossInv, NoEventLost, ConfirmedHasCopy
<1>5. ConfirmedHasCopy'
  BY <1>2, <1>3 DEF LossInv, ConfirmedHasCopy
<1>6. QED
  BY <1>4, <1>5

LEMMA LossOther ==
    ASSUME LossInv,
           \/ \E e \in Events : Commit(e) \/ ClockStep(e) \/ SlowClaimLapses(e)
           \/ \E p \in Pollers : Claim(p) \/ Crash(p) \/ Restart(p) \/ EmptyPoll(p)
           \/ UNCHANGED vars
    PROVE  NoEventLost' /\ ConfirmedHasCopy'
<1>1. ASSUME NEW e \in Events, Commit(e) PROVE NoEventLost' /\ ConfirmedHasCopy'
  BY <1>1 DEF Commit, LossInv, NoEventLost, ConfirmedHasCopy, pollerVars
<1>2. ASSUME NEW e \in Events, ClockStep(e) \/ SlowClaimLapses(e)
      PROVE  UNCHANGED <<committed, outbox, copies, pc, row>>
  BY <1>2 DEF ClockStep, BackoffElapses, AbandonedClaimLapses, SlowClaimLapses,
              Lapse, pollerVars
<1>3. ASSUME NEW p \in Pollers, Claim(p) \/ Crash(p) \/ Restart(p)
      PROVE  /\ UNCHANGED <<committed, outbox, copies>>
             /\ \A q \in Pollers :
                  pc'[q] = "confirmed" => pc[q] = "confirmed" /\ row'[q] = row[q]
  BY <1>3 DEF Claim, Crash, Restart, Abandon, tableVars, LossInv, TypeOK
<1>4. ASSUME UNCHANGED vars PROVE UNCHANGED <<committed, outbox, copies, pc, row>>
  BY <1>4 DEF vars, tableVars, pollerVars
<1>5. ASSUME UNCHANGED <<committed, outbox, copies>>,
             \A q \in Pollers :
               pc'[q] = "confirmed" => pc[q] = "confirmed" /\ row'[q] = row[q]
      PROVE  NoEventLost' /\ ConfirmedHasCopy'
  BY <1>5 DEF LossInv, NoEventLost, ConfirmedHasCopy
<1>6. QED
  BY <1>1, <1>2, <1>3, <1>4, <1>5 DEF EmptyPoll

LEMMA LossNext == LossInv /\ [Next]_vars => LossInv'
<1> SUFFICES ASSUME LossInv, [Next]_vars PROVE LossInv'
  OBVIOUS
<1>1. TypeOK'
  BY TypeNext DEF LossInv
<1>2. NoEventLost' /\ ConfirmedHasCopy'
  BY LossPublish, LossSettle, LossOther DEF Next, PollerStep, PollerFault
<1>3. QED
  BY <1>1, <1>2 DEF LossInv

\* Once its transaction has committed, a durable event has a row in the table
\* or a copy in the broker, whatever pollers fail, overlap or restart.
THEOREM NothingLost == Spec => []NoEventLost
<1>1. LossInv => NoEventLost
  BY DEF LossInv
<1>2. QED
  BY LossInit, LossNext, <1>1, PTL DEF Spec

-----------------------------------------------------------------------------
(* A claim that has not lapsed is exclusive: two pollers never hold the    *)
(* same token for a row, because a fresh token is one nobody holds.        *)

OneHolder ==
    \A p, q \in Pollers, e \in Events :
        claims[p][e] = claims[q][e] /\ claims[p][e] # NoToken => p = q

LEMMA OneHolderInit == Init => OneHolder
  BY DEF Init, OneHolder, NoClaims

LEMMA OneHolderNext == TypeOK /\ OneHolder /\ [Next]_vars => OneHolder'
<1> SUFFICES ASSUME TypeOK, OneHolder, [Next]_vars PROVE OneHolder'
  OBVIOUS
<1>1. ASSUME NEW p \in Pollers, Claim(p) PROVE OneHolder'
  <2>1. PICK S \in SUBSET Events :
          /\ \A e \in S : token'[e] \in Tokens \ TokensInUse(e) /\ claims'[p][e] = token'[e]
          /\ \A e \in Events \ S : claims'[p][e] = NoToken
          /\ \A q \in Pollers \ {p} : claims'[q] = claims[q]
    BY <1>1, ClaimEffect
  <2>2. \A e \in S, q \in Pollers \ {p} : claims'[p][e] # claims'[q][e]
    BY <2>1 DEF TokensInUse
  <2>3. \A e \in Events : claims'[p][e] # NoToken =>
          \A q \in Pollers \ {p} : claims'[p][e] # claims'[q][e]
    BY <2>1, <2>2
  <2>4. SUFFICES ASSUME NEW q \in Pollers, NEW r \in Pollers, NEW e \in Events,
                        claims'[q][e] = claims'[r][e], claims'[q][e] # NoToken
                 PROVE  q = r
    BY DEF OneHolder
  <2>5. CASE q # p /\ r # p
    BY <2>1, <2>4, <2>5 DEF OneHolder
  <2>6. CASE q = p \/ r = p
    BY <2>3, <2>4, <2>6
  <2>7. QED
    BY <2>5, <2>6
<1>2. ASSUME NEW p \in Pollers, NextRow(p) \/ Abandon(p), row[p] \in Events \/ Abandon(p)
      PROVE  \A q \in Pollers, e \in Events :
               claims'[q][e] # NoToken => claims'[q][e] = claims[q][e]
  BY <1>2 DEF NextRow, Abandon, NoClaims, TypeOK
<1>3. ASSUME NEW p \in Pollers,
             \/ MarkPublished(p) \/ RescheduleFailed(p)
             \/ RescheduleFails(p) \/ Crash(p)
      PROVE  OneHolder'
  <2>1. /\ NextRow(p) \/ Abandon(p)
        /\ row[p] \in Events \/ Abandon(p)
    BY <1>3 DEF MarkPublished, RescheduleFailed, RescheduleFails, Crash, TypeOK
  <2>2. \A q \in Pollers, e \in Events :
          claims'[q][e] # NoToken => claims'[q][e] = claims[q][e]
    BY <1>2, <2>1
  <2>3. SUFFICES ASSUME NEW q \in Pollers, NEW r \in Pollers, NEW e \in Events,
                        claims'[q][e] = claims'[r][e], claims'[q][e] # NoToken
                 PROVE  q = r
    BY DEF OneHolder
  <2>4. claims[q][e] = claims[r][e] /\ claims[q][e] # NoToken
    BY <2>2, <2>3
  <2>5. QED
    BY <2>4 DEF OneHolder
<1>4. ASSUME UNCHANGED claims PROVE OneHolder'
  BY <1>4 DEF OneHolder
<1>5. ASSUME NEW p \in Pollers,
             \/ PublishConfirmed(p) \/ PublishFails(p) \/ MarkFails(p)
             \/ Restart(p) \/ EmptyPoll(p)
      PROVE  UNCHANGED claims
  BY <1>5 DEF PublishConfirmed, PublishFails, MarkFails, Restart, EmptyPoll, vars, pollerVars
<1>6. ASSUME NEW e \in Events, Commit(e) \/ ClockStep(e) \/ SlowClaimLapses(e)
      PROVE  UNCHANGED claims
  BY <1>6 DEF Commit, ClockStep, BackoffElapses, AbandonedClaimLapses,
              SlowClaimLapses, Lapse, pollerVars
<1>7. UNCHANGED vars => UNCHANGED claims
  BY DEF vars, pollerVars
<1>8. QED
  BY <1>1, <1>3, <1>4, <1>5, <1>6, <1>7 DEF Next, PollerStep, PollerFault

\* What LiveClaimIsExclusive says of one step, one poller and one row.
LiveClaimKept(p, e) ==
    /\ e \in outbox /\ claims[p][e] # NoToken
    /\ claims[p][e] = token[e] /\ e \notin lapsed
    => \/ e \in outbox' /\ token'[e] = token[e] /\ (e \in due' <=> e \in due)
       \/ pc[p] \in {"confirmed", "failed"} /\ row[p] = e /\ pc'[p] # pc[p]

LEMMA SettleKeepsOthers ==
    ASSUME NEW p \in Pollers, NEW e \in Events, NEW q \in Pollers,
           TypeOK, OneHolder, row[q] \in Events, ~(q = p /\ row[q] = e),
           claims[p][e] # NoToken, claims[p][e] = token[e], e \in outbox,
           \/ DeleteIfHeld(q, row[q]) \/ RescheduleIfHeld(q, row[q])
           \/ UNCHANGED <<outbox, due, token, lapsed>>
    PROVE  e \in outbox' /\ token'[e] = token[e] /\ (e \in due' <=> e \in due)
<1>1. \/ UNCHANGED <<outbox, due, token, lapsed>>
      \/ /\ HoldsClaim(q, row[q])
         /\ outbox' \in {outbox, outbox \ {row[q]}}
         /\ due' = due \ {row[q]}
         /\ token' = [token EXCEPT ![row[q]] = NoToken]
  BY SettleEffect
<1>2. HoldsClaim(q, row[q]) => row[q] # e
  BY DEF HoldsClaim, OneHolder
<1>3. QED
  BY <1>1, <1>2 DEF TypeOK

LEMMA LiveClaimStep ==
    ASSUME TypeOK, OneHolder, [Next]_vars, NEW p \in Pollers, NEW e \in Events
    PROVE  LiveClaimKept(p, e)
<1> SUFFICES ASSUME e \in outbox, claims[p][e] # NoToken, claims[p][e] = token[e],
                    e \notin lapsed,
                    ~(pc[p] \in {"confirmed", "failed"} /\ row[p] = e /\ pc'[p] # pc[p])
             PROVE  e \in outbox' /\ token'[e] = token[e] /\ (e \in due' <=> e \in due)
  BY DEF LiveClaimKept
<1>1. e \in due
  BY DEF TypeOK
<1>2. ASSUME NEW q \in Pollers, Claim(q)
      PROVE  e \in outbox' /\ token'[e] = token[e] /\ (e \in due' <=> e \in due)
  <2>1. PICK S \in SUBSET Events :
          /\ \A f \in S : Claimable(f)
          /\ \A f \in Events \ S : token'[f] = token[f]
    BY <1>2, ClaimEffect
  <2>2. e \notin S
    BY <2>1 DEF Claimable, Unclaimed
  <2>3. QED
    BY <1>2, <2>1, <2>2 DEF Claim
<1>3. ASSUME NEW q \in Pollers,
             \/ MarkPublished(q) \/ MarkFails(q)
             \/ RescheduleFailed(q) \/ RescheduleFails(q)
      PROVE  e \in outbox' /\ token'[e] = token[e] /\ (e \in due' <=> e \in due)
  <2>1. row[q] \in Events
    BY <1>3 DEF TypeOK, MarkPublished, MarkFails, RescheduleFailed, RescheduleFails
  <2>2. pc[q] \in {"confirmed", "failed"} /\ pc'[q] # pc[q]
    BY <1>3 DEF MarkPublished, MarkFails, RescheduleFailed, RescheduleFails,
                NextRow, Abandon, TypeOK
  <2>3. \/ DeleteIfHeld(q, row[q]) \/ RescheduleIfHeld(q, row[q])
        \/ UNCHANGED <<outbox, due, token, lapsed>>
    BY <1>3 DEF MarkPublished, MarkFails, RescheduleFailed, RescheduleFails
  <2>4. ~(q = p /\ row[q] = e)
    BY <2>2
  <2>5. QED
    BY <2>1, <2>3, <2>4, SettleKeepsOthers
<1>4. ASSUME NEW f \in Events, Commit(f) \/ ClockStep(f) \/ SlowClaimLapses(f)
      PROVE  e \in outbox' /\ token'[e] = token[e] /\ (e \in due' <=> e \in due)
  BY <1>1, <1>4 DEF Commit, ClockStep, BackoffElapses, AbandonedClaimLapses,
                    SlowClaimLapses, Lapse
<1>5. ASSUME NEW q \in Pollers,
             \/ PublishConfirmed(q) \/ PublishFails(q) \/ Crash(q)
             \/ Restart(q) \/ EmptyPoll(q)
      PROVE  UNCHANGED <<outbox, token, due>>
  BY <1>5 DEF PublishConfirmed, PublishFails, Crash, Restart, EmptyPoll, vars, tableVars
<1>6. UNCHANGED vars => UNCHANGED <<outbox, token, due>>
  BY DEF vars, tableVars
<1>7. QED
  BY <1>2, <1>3, <1>4, <1>5, <1>6 DEF Next, PollerStep, PollerFault

\* As long as a claim has not lapsed, no step but its holder's deletes the
\* row, reschedules it or takes it over.
THEOREM ClaimsExclusive == Spec => LiveClaimIsExclusive
<1> DEFINE Step == \A p \in Pollers, e \in Events : LiveClaimKept(p, e)
<1>1. Spec => [](TypeOK /\ OneHolder)
  BY TypeInit, OneHolderInit, TypeNext, OneHolderNext, PTL DEF Spec
<1>2. TypeOK /\ OneHolder /\ [Next]_vars => [Step]_vars
  BY LiveClaimStep
<1>3. Spec => [][Step]_vars
  BY <1>1, <1>2, PTL DEF Spec
<1>4. QED
  BY <1>3 DEF LiveClaimIsExclusive, LiveClaimKept

-----------------------------------------------------------------------------
(* At least once, and every extra copy is paid for by a failure.  Each     *)
(* event has a budget of 1 + faults copies, spent on the copies the broker *)
(* has, on the pollers that claimed the row and are still to publish it,   *)
(* and on the claim that may yet be taken without any further failure.     *)

Owing(e) == {p \in Pollers : claims[p][e] # NoToken /\ row[p] # e}

\* The row will be claimable without a failure: it is, its claim lapses
\* because its poller is gone, or its poller is about to give it back.
GivenBack(e) ==
    \/ Unclaimed(e) \/ e \in lapsed \/ Abandoned(e)
    \/ \E p \in Pollers : pc[p] = "failed" /\ row[p] = e /\ claims[p][e] = token[e]

Credit(e) == IF e \notin committed \/ (e \in outbox /\ GivenBack(e)) THEN 1 ELSE 0

Budget(e) ==
    /\ IsFiniteSet(Owing(e))
    /\ copies[e] + Cardinality(Owing(e)) + Credit(e) <= 1 + faults

IdleHoldsNothing ==
    \A p \in Pollers : pc[p] \in {"idle", "stopped"} => claims[p] = NoClaims

CopiesInv == TypeOK /\ IdleHoldsNothing /\ \A e \in Events : Budget(e)

LEMMA CopiesInit == Init => CopiesInv
<1> SUFFICES ASSUME Init PROVE CopiesInv
  OBVIOUS
<1>1. TypeOK /\ IdleHoldsNothing
  BY TypeInit DEF Init, IdleHoldsNothing
<1>2. ASSUME NEW e \in Events PROVE Budget(e)
  <2>1. Owing(e) = {}
    BY DEF Init, Owing, NoClaims
  <2>2. copies[e] = 0 /\ faults = 0 /\ Credit(e) = 1
    BY DEF Init, Credit
  <2>3. QED
    BY <2>1, <2>2, FS_EmptySet DEF Budget
<1>3. QED
  BY <1>1, <1>2 DEF CopiesInv

\* A step that publishes nothing and claims nothing keeps the budget when it
\* adds no credit, or when it is a failure.
LEMMA BudgetKept ==
    ASSUME NEW e \in Events, TypeOK, Budget(e),
           Owing(e)' \subseteq Owing(e), copies'[e] = copies[e],
           \/ faults' = faults /\ (Credit(e)' = 1 => Credit(e) = 1)
           \/ faults' = faults + 1
    PROVE  Budget(e)'
<1>1. /\ IsFiniteSet(Owing(e)')
      /\ Cardinality(Owing(e)') <= Cardinality(Owing(e))
  BY FS_Subset DEF Budget
<1>2. Cardinality(Owing(e)) \in Nat /\ Cardinality(Owing(e)') \in Nat
  BY <1>1, FS_CardinalityType DEF Budget
<1>3. copies[e] \in Nat /\ faults \in Nat
  BY DEF TypeOK
<1>4. Credit(e) \in {0, 1} /\ Credit(e)' \in {0, 1}
  BY DEF Credit
<1>5. copies[e] + Cardinality(Owing(e)) + Credit(e) <= 1 + faults
  BY DEF Budget
<1>6. copies'[e] + Cardinality(Owing(e)') + Credit(e)' <= 1 + faults'
  BY <1>1, <1>2, <1>3, <1>4, <1>5
<1>7. QED
  BY <1>1, <1>6 DEF Budget

LEMMA CopiesClaim ==
    ASSUME NEW p \in Pollers, CopiesInv, Claim(p), NEW e \in Events
    PROVE  Budget(e)'
<1>1. PICK S \in SUBSET Events :
        /\ \A f \in S : /\ Claimable(f)
                        /\ token'[f] \in Tokens \ TokensInUse(f)
                        /\ claims'[p][f] = token'[f]
                        /\ f \notin lapsed'
        /\ \A f \in Events \ S : /\ token'[f] = token[f]
                                 /\ claims'[p][f] = NoToken
                                 /\ (f \in lapsed' <=> f \in lapsed)
        /\ \A q \in Pollers \ {p} : claims'[q] = claims[q]
  BY ClaimEffect DEF CopiesInv
<1>2. /\ pc[p] = "idle" /\ pc' = [pc EXCEPT ![p] = "batch"]
      /\ UNCHANGED <<committed, outbox, copies, row, faults>>
  BY DEF Claim
<1>3. row[p] = NoEvent /\ claims[p][e] = NoToken
  BY <1>2 DEF CopiesInv, TypeOK, IdleHoldsNothing, NoClaims
<1>4. TypeOK /\ Budget(e)
  BY DEF CopiesInv
<1>5. CASE e \in S
  <2>1. /\ Claimable(e) /\ e \notin lapsed'
        /\ token'[e] \in Tokens \ TokensInUse(e) /\ claims'[p][e] = token'[e]
    BY <1>1, <1>5
  <2>2. Owing(e)' = Owing(e) \cup {p} /\ p \notin Owing(e)
    BY <1>1, <1>2, <1>3, <2>1 DEF Owing
  <2>3. Credit(e) = 1
    BY <2>1 DEF Credit, GivenBack, Claimable
  <2>4. Credit(e)' = 0
    <3>1. token'[e] # NoToken /\ claims'[p][e] = token'[e]
      BY <2>1
    <3>2. \A q \in Pollers \ {p} : claims'[q][e] # token'[e]
      BY <1>1, <2>1 DEF TokensInUse
    <3>3. pc'[p] # "failed"
      BY <1>2, <1>4 DEF TypeOK
    <3>4. ~GivenBack(e)'
      BY <2>1, <3>1, <3>2, <3>3 DEF GivenBack, Unclaimed, Abandoned
    <3>5. e \in committed'
      BY <1>2, <1>4, <2>1 DEF Claimable, TypeOK
    <3>6. QED
      BY <3>4, <3>5 DEF Credit
  <2>5. IsFiniteSet(Owing(e)') /\ Cardinality(Owing(e)') = Cardinality(Owing(e)) + 1
    BY <1>4, <2>2, FS_AddElement DEF Budget
  <2>6. Cardinality(Owing(e)) \in Nat /\ copies[e] \in Nat /\ faults \in Nat
    BY <1>4, FS_CardinalityType DEF Budget, TypeOK
  <2>7. copies[e] + Cardinality(Owing(e)) + Credit(e) <= 1 + faults
    BY <1>4 DEF Budget
  <2>8. copies'[e] = copies[e] /\ faults' = faults
    BY <1>2
  <2>9. copies'[e] + Cardinality(Owing(e)') + Credit(e)' <= 1 + faults'
    BY <2>3, <2>4, <2>5, <2>6, <2>7, <2>8
  <2>10. QED
    BY <2>5, <2>9 DEF Budget
<1>6. CASE e \notin S
  <2>1. /\ token'[e] = token[e] /\ (e \in lapsed' <=> e \in lapsed)
        /\ \A q \in Pollers : claims'[q][e] = claims[q][e]
    BY <1>1, <1>3, <1>6
  <2>2. \A q \in Pollers : pc'[q] = "failed" <=> pc[q] = "failed"
    BY <1>2, <1>4 DEF TypeOK
  <2>3. Owing(e)' = Owing(e)
    BY <1>2, <2>1 DEF Owing
  <2>4. GivenBack(e)' <=> GivenBack(e)
    BY <1>2, <2>1, <2>2 DEF GivenBack, Unclaimed, Abandoned
  <2>5. Credit(e)' = Credit(e)
    BY <1>2, <2>4 DEF Credit
  <2>6. QED
    BY <1>2, <1>4, <2>3, <2>5, BudgetKept
<1>7. QED
  BY <1>5, <1>6

LEMMA CopiesPublish ==
    ASSUME NEW p \in Pollers, CopiesInv, PublishConfirmed(p) \/ PublishFails(p),
           NEW e \in Events
    PROVE  Budget(e)'
<1>1. PICK f \in Events :
        /\ claims[p][f] # NoToken
        /\ row' = [row EXCEPT ![p] = f]
        /\ copies' = copies \/ copies' = [copies EXCEPT ![f] = @ + 1]
  BY DEF PublishConfirmed, PublishFails, Claimed, Routings
<1>2. /\ pc[p] = "batch" /\ UNCHANGED <<committed, outbox, token, lapsed, claims>>
      /\ \/ pc' = [pc EXCEPT ![p] = "confirmed"] /\ faults' = faults
         \/ pc' = [pc EXCEPT ![p] = "failed"] /\ faults' = faults + 1
  BY DEF PublishConfirmed, PublishFails, Fault, tableVars
<1>3. TypeOK /\ Budget(e)
  BY DEF CopiesInv
<1>4. row[p] = NoEvent /\ row \in [Pollers -> Events \cup {NoEvent}]
      /\ pc \in [Pollers -> {"stopped", "idle", "batch", "confirmed", "failed"}]
      /\ copies \in [Events -> Nat] /\ faults \in Nat
  BY <1>2, <1>3 DEF TypeOK
<1>5. \/ faults' = faults /\ (Credit(e)' = 1 => Credit(e) = 1)
      \/ faults' = faults + 1
  <2>1. CASE pc' = [pc EXCEPT ![p] = "confirmed"] /\ faults' = faults
    <3>1. GivenBack(e)' => GivenBack(e)
      BY <1>1, <1>2, <1>4, <2>1 DEF GivenBack, Unclaimed, Abandoned
    <3>2. QED
      BY <1>2, <2>1, <3>1 DEF Credit
  <2>2. QED
    BY <1>2, <2>1
<1>6. CASE e = f
  <2>1. Owing(e)' = Owing(e) \ {p} /\ p \in Owing(e)
    BY <1>1, <1>2, <1>4, <1>6 DEF Owing
  <2>2. IsFiniteSet(Owing(e)') /\ Cardinality(Owing(e)') = Cardinality(Owing(e)) - 1
    BY <1>3, <2>1, FS_RemoveElement DEF Budget
  <2>3. Cardinality(Owing(e)) \in Nat
    BY <1>3, FS_CardinalityType DEF Budget
  <2>4. copies[e] + Cardinality(Owing(e)) + Credit(e) <= 1 + faults
    BY <1>3 DEF Budget
  <2>5. copies'[e] \in {copies[e], copies[e] + 1}
    BY <1>1, <1>4, <1>6
  <2>6. Credit(e) \in {0, 1} /\ Credit(e)' \in {0, 1}
    BY DEF Credit
  <2>7. copies[e] \in Nat
    BY <1>4
  <2>8. copies'[e] + Cardinality(Owing(e)') + Credit(e)' <= 1 + faults'
    BY <1>4, <1>5, <2>2, <2>3, <2>4, <2>5, <2>6, <2>7
  <2>9. QED
    BY <2>2, <2>8 DEF Budget
<1>7. CASE e # f
  <2>1. Owing(e)' \subseteq Owing(e) /\ copies'[e] = copies[e]
    BY <1>1, <1>2, <1>4, <1>7 DEF Owing
  <2>2. QED
    BY <1>3, <1>5, <2>1, BudgetKept
<1>8. QED
  BY <1>6, <1>7

\* Settling without a failure: a row that is given back was already counted.
LEMMA CopiesSettle ==
    ASSUME NEW p \in Pollers, CopiesInv, MarkPublished(p) \/ RescheduleFailed(p),
           NEW e \in Events
    PROVE  Budget(e)'
<1> DEFINE r == row[p]
<1>1. TypeOK /\ Budget(e)
  BY DEF CopiesInv
<1>2. r \in Events /\ r # NoEvent
  BY <1>1 DEF TypeOK, MarkPublished, RescheduleFailed
<1>3. /\ UNCHANGED <<committed, copies, faults>>
      /\ \/ UNCHANGED <<outbox, due, token, lapsed>>
         \/ /\ HoldsClaim(p, r)
            /\ outbox' \in {outbox, outbox \ {r}}
            /\ token' = [token EXCEPT ![r] = NoToken]
            /\ lapsed' = lapsed \ {r}
      /\ ~HoldsClaim(p, r) => UNCHANGED <<outbox, due, token, lapsed>>
      /\ pc[p] = "failed" => outbox' = outbox
      /\ pc[p] # "failed" /\ HoldsClaim(p, r) => r \notin outbox'
  BY DEF MarkPublished, RescheduleFailed, DeleteIfHeld, DeleteRow, RescheduleIfHeld
<1>4. /\ \A q \in Pollers \ {p} : claims'[q] = claims[q] /\ pc'[q] = pc[q] /\ row'[q] = row[q]
      /\ \A g \in Events \ {r} : claims'[p][g] = claims[p][g]
      /\ claims'[p][r] = NoToken /\ row'[p] = NoEvent /\ pc'[p] # "failed"
  BY <1>1, <1>2 DEF MarkPublished, RescheduleFailed, NextRow, TypeOK
<1>5. row[p] = r
  OBVIOUS
<1> HIDE DEF r
<1>6. Owing(e)' \subseteq Owing(e)
  BY <1>2, <1>4, <1>5 DEF Owing
<1>7. Credit(e)' = 1 => Credit(e) = 1
  <2>1. CASE e # r
    <3>1. /\ \A q \in Pollers : claims'[q][e] = claims[q][e]
          /\ token'[e] = token[e] /\ (e \in lapsed' <=> e \in lapsed)
          /\ (e \in outbox' <=> e \in outbox)
      BY <1>1, <1>3, <1>4, <2>1 DEF TypeOK
    <3>2. GivenBack(e)' => GivenBack(e)
      BY <1>4, <2>1, <3>1 DEF GivenBack, Unclaimed, Abandoned
    <3>3. QED
      BY <1>3, <3>1, <3>2 DEF Credit
  <2>2. CASE e = r /\ HoldsClaim(p, r)
    <3>1. e \in committed /\ e \in outbox
      BY <1>1, <2>2 DEF HoldsClaim, TypeOK
    <3>2. CASE pc[p] = "failed"
      <4>1. GivenBack(e)
        BY <1>5, <2>2, <3>2 DEF GivenBack, HoldsClaim
      <4>2. QED
        BY <3>1, <4>1 DEF Credit
    <3>3. CASE pc[p] # "failed"
      <4>1. e \notin outbox' /\ e \in committed'
        BY <1>3, <2>2, <3>1, <3>3
      <4>2. QED
        BY <4>1 DEF Credit
    <3>4. QED
      BY <3>2, <3>3
  <2>3. CASE e = r /\ ~HoldsClaim(p, r)
    <3>1. UNCHANGED <<committed, outbox, token, lapsed>>
      BY <1>3, <2>3
    <3>2. e \in outbox => claims[p][e] # token[e]
      BY <2>3 DEF HoldsClaim
    <3>3. e \in outbox /\ GivenBack(e)' => GivenBack(e)
      BY <1>4, <2>3, <3>1, <3>2 DEF GivenBack, Unclaimed, Abandoned
    <3>4. QED
      BY <3>1, <3>3 DEF Credit
  <2>4. QED
    BY <2>1, <2>2, <2>3
<1>8. QED
  BY <1>1, <1>3, <1>6, <1>7, BudgetKept

\* A failure pays for whatever becomes claimable again.
LEMMA CopiesFault ==
    ASSUME CopiesInv, NEW e \in Events,
           \/ \E p \in Pollers : MarkFails(p) \/ RescheduleFails(p) \/ Crash(p)
           \/ \E f \in Events : SlowClaimLapses(f)
    PROVE  Budget(e)'
<1>1. TypeOK /\ Budget(e)
  BY DEF CopiesInv
<1>2. copies' = copies /\ faults' = faults + 1
  BY DEF MarkFails, RescheduleFails, Crash, SlowClaimLapses, Lapse, Fault
<1>3. ASSUME NEW p \in Pollers, RescheduleFails(p) \/ Crash(p)
      PROVE  Owing(e)' \subseteq Owing(e)
  BY <1>1, <1>3 DEF RescheduleFails, Crash, Abandon, NoClaims, Owing, TypeOK
<1>4. UNCHANGED <<claims, row>> => Owing(e)' = Owing(e)
  BY DEF Owing
<1>5. ASSUME NEW p \in Pollers, MarkFails(p) PROVE UNCHANGED <<claims, row>>
  BY <1>5 DEF MarkFails
<1>6. ASSUME NEW f \in Events, SlowClaimLapses(f) PROVE UNCHANGED <<claims, row>>
  BY <1>6 DEF SlowClaimLapses, Lapse, pollerVars
<1>7. Owing(e)' \subseteq Owing(e)
  BY <1>3, <1>4, <1>5, <1>6
<1>8. QED
  BY <1>1, <1>2, <1>7, BudgetKept

LEMMA CopiesOther ==
    ASSUME CopiesInv, NEW e \in Events,
           \/ \E f \in Events : Commit(f) \/ ClockStep(f)
           \/ \E p \in Pollers : EmptyPoll(p) \/ Restart(p)
           \/ UNCHANGED vars
    PROVE  Budget(e)'
<1>1. TypeOK /\ Budget(e)
  BY DEF CopiesInv
<1>2. UNCHANGED <<copies, claims, row, faults>>
  BY DEF Commit, ClockStep, BackoffElapses, AbandonedClaimLapses, Lapse, EmptyPoll,
         Restart, vars, pollerVars
<1>3. Owing(e)' = Owing(e)
  BY <1>2 DEF Owing
<1>4. ASSUME NEW f \in Events, Commit(f) PROVE Credit(e)' = 1 => Credit(e) = 1
  <2>1. /\ UNCHANGED <<token, lapsed, claims, pc, row>> /\ f \notin committed
        /\ committed' = committed \cup {f} /\ outbox' = outbox \cup {f}
    BY <1>4 DEF Commit, pollerVars
  <2>2. GivenBack(e)' <=> GivenBack(e)
    BY <2>1 DEF GivenBack, Unclaimed, Abandoned
  <2>3. QED
    BY <2>1, <2>2 DEF Credit
<1>5. ASSUME NEW f \in Events, BackoffElapses(f) PROVE Credit(e)' = Credit(e)
  <2>1. UNCHANGED <<committed, outbox, token, lapsed, claims, pc, row>>
    BY <1>5 DEF BackoffElapses, pollerVars
  <2>2. QED
    BY <2>1 DEF Credit, GivenBack, Unclaimed, Abandoned
<1>6. ASSUME NEW f \in Events, AbandonedClaimLapses(f)
      PROVE  Credit(e)' = 1 => Credit(e) = 1
  <2>1. /\ Abandoned(f) /\ f \in outbox /\ lapsed' = lapsed \cup {f}
        /\ UNCHANGED <<committed, outbox, token, claims, pc, row>>
    BY <1>6 DEF AbandonedClaimLapses, Lapse, pollerVars
  <2>2. GivenBack(e)' => GivenBack(e)
    BY <2>1 DEF GivenBack, Unclaimed, Abandoned
  <2>3. QED
    BY <2>1, <2>2 DEF Credit
<1>7. ASSUME (\E p \in Pollers : EmptyPoll(p)) \/ UNCHANGED vars
      PROVE  Credit(e)' = Credit(e)
  <2>1. UNCHANGED vars
    BY <1>7 DEF EmptyPoll
  <2>2. QED
    BY <2>1 DEF vars, tableVars, pollerVars, Credit, GivenBack, Unclaimed, Abandoned
<1>8. ASSUME NEW p \in Pollers, Restart(p) PROVE Credit(e)' = 1 => Credit(e) = 1
  <2>1. /\ UNCHANGED <<committed, outbox, token, lapsed, claims, row>>
        /\ \A q \in Pollers : pc'[q] = "failed" => pc[q] = "failed"
    BY <1>1, <1>8 DEF Restart, TypeOK, tableVars
  <2>2. GivenBack(e)' => GivenBack(e)
    BY <2>1 DEF GivenBack, Unclaimed, Abandoned
  <2>3. QED
    BY <2>1, <2>2 DEF Credit
<1>9. Credit(e)' = 1 => Credit(e) = 1
  BY <1>4, <1>5, <1>6, <1>7, <1>8 DEF ClockStep
<1>10. QED
  BY <1>1, <1>2, <1>3, <1>9, BudgetKept

LEMMA IdleHoldsNothingNext ==
    ASSUME TypeOK, IdleHoldsNothing, [Next]_vars PROVE IdleHoldsNothing'
<1>1. ASSUME NEW p \in Pollers, NextRow(p), row[p] \in Events PROVE IdleHoldsNothing'
  <2> DEFINE left == [claims[p] EXCEPT ![row[p]] = NoToken]
  <2>1. left \in [Events -> Tokens \cup {NoToken}]
    BY <1>1 DEF TypeOK
  <2>2. /\ claims' = [claims EXCEPT ![p] = left]
        /\ pc' = [pc EXCEPT ![p] =
             IF \A e \in Events : left[e] = NoToken THEN "idle" ELSE "batch"]
    BY <1>1 DEF NextRow
  <2>3. (\A e \in Events : left[e] = NoToken) => left = NoClaims
    BY <2>1 DEF NoClaims
  <2> HIDE DEF left
  <2>4. QED
    BY <2>2, <2>3 DEF IdleHoldsNothing, TypeOK
<1>2. ASSUME NEW p \in Pollers, Abandon(p) PROVE IdleHoldsNothing'
  BY <1>2 DEF Abandon, IdleHoldsNothing, TypeOK
<1>3. ASSUME NEW p \in Pollers, Claim(p) PROVE IdleHoldsNothing'
  <2>1. \A q \in Pollers \ {p} : claims'[q] = claims[q]
    BY <1>3, ClaimEffect
  <2>2. QED
    BY <1>3, <2>1 DEF Claim, IdleHoldsNothing, TypeOK
<1>4. ASSUME NEW p \in Pollers,
             PublishConfirmed(p) \/ PublishFails(p) \/ MarkFails(p) \/ Restart(p)
      PROVE  IdleHoldsNothing'
  BY <1>4 DEF PublishConfirmed, PublishFails, MarkFails, Restart, IdleHoldsNothing, TypeOK
<1>5. ASSUME NEW p \in Pollers, MarkPublished(p) \/ RescheduleFailed(p)
      PROVE  IdleHoldsNothing'
  <2>1. NextRow(p) /\ row[p] \in Events
    BY <1>5 DEF MarkPublished, RescheduleFailed, TypeOK
  <2>2. QED
    BY <1>1, <2>1
<1>6. ASSUME NEW p \in Pollers, RescheduleFails(p) \/ Crash(p) PROVE IdleHoldsNothing'
  BY <1>2, <1>6 DEF RescheduleFails, Crash
<1>7. ASSUME NEW e \in Events, Commit(e) \/ ClockStep(e) \/ SlowClaimLapses(e)
      PROVE  UNCHANGED <<pc, claims>>
  BY <1>7 DEF Commit, ClockStep, BackoffElapses, AbandonedClaimLapses, SlowClaimLapses,
              Lapse, pollerVars
<1>8. (\E p \in Pollers : EmptyPoll(p)) \/ UNCHANGED vars => UNCHANGED <<pc, claims>>
  BY DEF EmptyPoll, vars, pollerVars
<1>9. UNCHANGED <<pc, claims>> => IdleHoldsNothing'
  BY DEF IdleHoldsNothing
<1>10. QED
  BY <1>3, <1>4, <1>5, <1>6, <1>7, <1>8, <1>9 DEF Next, PollerStep, PollerFault

LEMMA CopiesNext == CopiesInv /\ [Next]_vars => CopiesInv'
<1> SUFFICES ASSUME CopiesInv, [Next]_vars PROVE CopiesInv'
  OBVIOUS
<1>1. TypeOK' /\ IdleHoldsNothing'
  BY TypeNext, IdleHoldsNothingNext DEF CopiesInv
<1>2. ASSUME NEW e \in Events PROVE Budget(e)'
  BY CopiesClaim, CopiesPublish, CopiesSettle, CopiesFault, CopiesOther
     DEF Next, PollerStep, PollerFault
<1>3. QED
  BY <1>1, <1>2 DEF CopiesInv

LEMMA CopiesBound == CopiesInv => AtMostOneCopyPerFault
<1> SUFFICES ASSUME CopiesInv, NEW e \in Events PROVE copies[e] <= 1 + faults
  BY DEF AtMostOneCopyPerFault
<1>1. /\ copies[e] + Cardinality(Owing(e)) + Credit(e) <= 1 + faults
      /\ Cardinality(Owing(e)) \in Nat /\ copies[e] \in Nat /\ faults \in Nat
  BY FS_CardinalityType DEF CopiesInv, Budget, TypeOK
<1>2. Credit(e) \in {0, 1}
  BY DEF Credit
<1>3. QED
  BY <1>1, <1>2

\* Two pollers that run undisturbed never publish a row twice: the broker has
\* at most one copy of an event, and one more for each failure so far.
THEOREM CopiesPaidFor == Spec => []AtMostOneCopyPerFault
  BY CopiesInit, CopiesNext, CopiesBound, PTL DEF Spec

-----------------------------------------------------------------------------
(* Refinement: every step of the pollers is a step of EventHandoff or      *)
(* leaves what it speaks of unchanged.                                     *)

LEMMA HandoffInit == Init => Handoff!Init
  BY DEF Init, Handoff!Init

LEMMA HandoffPublish ==
    ASSUME NEW p \in Pollers, LossInv, PublishConfirmed(p) \/ PublishFails(p)
    PROVE  Handoff!Next \/ UNCHANGED Handoff!vars
<1>1. PICK e \in Events :
        /\ claims[p][e] # NoToken
        /\ copies' = copies \/ copies' = [copies EXCEPT ![e] = @ + 1]
  BY DEF PublishConfirmed, PublishFails, Claimed, Routings
<1>2. UNCHANGED <<committed, outbox>>
  BY DEF PublishConfirmed, PublishFails, tableVars
<1>3. e \in committed
  BY <1>1 DEF LossInv, TypeOK
<1>4. CASE copies' = copies
  BY <1>2, <1>4 DEF Handoff!vars
<1>5. CASE copies' = [copies EXCEPT ![e] = @ + 1]
  <2>1. \A f \in Events : copies'[f] > 0 <=> (copies[f] > 0 \/ f = e)
    BY <1>5 DEF LossInv, TypeOK
  <2>2. {f \in Events : copies'[f] > 0} = {f \in Events : copies[f] > 0} \cup {e}
    BY <2>1
  <2>3. Handoff!HandOff(e)
    BY <1>2, <1>3, <2>2 DEF Handoff!HandOff
  <2>4. QED
    BY <2>3 DEF Handoff!Next
<1>6. QED
  BY <1>1, <1>4, <1>5

LEMMA HandoffStep ==
    ASSUME LossInv, [Next]_vars PROVE Handoff!Next \/ UNCHANGED Handoff!vars
<1>1. ASSUME NEW e \in Events, Commit(e) PROVE Handoff!Next
  <2>1. Handoff!Record(e)
    BY <1>1 DEF Commit, Handoff!Record
  <2>2. QED
    BY <2>1 DEF Handoff!Next
<1>2. ASSUME NEW p \in Pollers,
             \/ MarkPublished(p) \/ MarkFails(p)
             \/ RescheduleFailed(p) \/ RescheduleFails(p)
      PROVE  Handoff!Next \/ UNCHANGED Handoff!vars
  <2>1. row[p] \in Events
    BY <1>2 DEF LossInv, TypeOK, MarkPublished, MarkFails, RescheduleFailed, RescheduleFails
  <2>2. UNCHANGED <<committed, copies>>
    BY <1>2 DEF MarkPublished, MarkFails, RescheduleFailed, RescheduleFails
  <2>3. \/ outbox' = outbox
        \/ /\ pc[p] = "confirmed" /\ row[p] \in outbox
           /\ outbox' = outbox \ {row[p]}
    BY <1>2 DEF MarkPublished, MarkFails, RescheduleFailed, RescheduleFails,
                DeleteIfHeld, DeleteRow, RescheduleIfHeld, HoldsClaim
  <2>4. CASE outbox' = outbox
    BY <2>2, <2>4 DEF Handoff!vars
  <2>5. CASE pc[p] = "confirmed" /\ row[p] \in outbox /\ outbox' = outbox \ {row[p]}
    <3>1. row[p] \in DurableEvents => copies[row[p]] > 0
      BY <2>5 DEF LossInv, ConfirmedHasCopy
    <3>2. Handoff!Settle(row[p])
      BY <2>1, <2>2, <2>5, <3>1 DEF Handoff!Settle
    <3>3. QED
      BY <2>1, <3>2 DEF Handoff!Next
  <2>6. QED
    BY <2>3, <2>4, <2>5
<1>3. ASSUME NEW e \in Events, ClockStep(e) \/ SlowClaimLapses(e)
      PROVE  UNCHANGED <<committed, outbox, copies>>
  BY <1>3 DEF ClockStep, BackoffElapses, AbandonedClaimLapses, SlowClaimLapses, Lapse
<1>4. ASSUME NEW p \in Pollers, Claim(p) \/ Crash(p) \/ Restart(p) \/ EmptyPoll(p)
      PROVE  UNCHANGED <<committed, outbox, copies>>
  BY <1>4 DEF Claim, Crash, Restart, EmptyPoll, vars, tableVars
<1>5. UNCHANGED vars => UNCHANGED <<committed, outbox, copies>>
  BY DEF vars, tableVars
<1>6. UNCHANGED <<committed, outbox, copies>> => UNCHANGED Handoff!vars
  BY DEF Handoff!vars
<1>7. QED
  BY <1>1, <1>2, <1>3, <1>4, <1>5, <1>6, HandoffPublish
     DEF Next, PollerStep, PollerFault

\* The outbox implements the safety part of the hand-off it promises: events
\* are recorded, handed over and settled in that order.
THEOREM ImplementsHandoffSafety ==
    Spec => Handoff!Init /\ [][Handoff!Next]_(Handoff!vars)
<1>1. LossInv /\ [Next]_vars => [Handoff!Next]_(Handoff!vars)
  BY HandoffStep
<1>2. QED
  BY LossInit, LossNext, HandoffInit, <1>1, PTL DEF Spec

=============================================================================
