------------------------------- MODULE Outbox -------------------------------
(***************************************************************************)
(* The transactional outbox: the transaction that records a change and its *)
(* event together, and the pollers that claim rows of the outbox table,    *)
(* publish them to the broker and settle them (outbox_service.py).         *)
(*                                                                         *)
(* An event is named by its created_at, the time its transaction started:  *)
(* rows are claimed in that order, but may commit in any other.  Clocks    *)
(* are abstracted to what a WHERE clause compares with NOW(): due holds    *)
(* the rows with available_at <= NOW(), lapsed the claimed rows with       *)
(* locked_until <= NOW().  UUIDs are never exhausted: a fresh token is one *)
(* nobody holds for that row.                                              *)
(***************************************************************************)
EXTENDS Naturals, FiniteSets

CONSTANTS
    Events,         \* events the API may record, numbered by created_at
    DurableEvents,  \* those of a type in DURABLE_EVENT_TYPES, bound to a queue
    Pollers,        \* processes or embedded tasks running run_loop
    Tokens,         \* values of gen_random_uuid()
    NoToken,        \* processing_token IS NULL
    NoEvent,        \* a poller between two rows
    BATCH_SIZE,     \* OUTBOX_BATCH_SIZE
    MaxFaults       \* bound: failures, crashes and overrun claims of a behaviour

ASSUME EventsAssumption == Events \subseteq Nat /\ DurableEvents \subseteq Events
ASSUME TokenAssumption == NoToken \notin Tokens
ASSUME NoEventAssumption == NoEvent \notin Events
ASSUME BatchAssumption == BATCH_SIZE \in Nat \ {0}
ASSUME FaultAssumption == MaxFaults \in Nat

VARIABLES
    committed,  \* events whose transaction committed (with the change itself)
    outbox,     \* events with a row in the outbox table
    due,        \* rows with available_at <= NOW()
    token,      \* token[e]: processing_token of e's row
    lapsed,     \* claimed rows with locked_until <= NOW()
    copies,     \* copies[e]: messages of e the broker has routed to a queue
    pc,         \* pc[p]: where poller p is in run_loop
    claims,     \* claims[p][e]: token p received for e, row not settled yet
    row,        \* row[p]: the row p is working on
    faults      \* failures so far

tableVars == <<committed, outbox, due, token, lapsed>>
pollerVars == <<pc, claims, row>>
vars == <<tableVars, copies, pollerVars, faults>>

TypeOK ==
    /\ committed \in SUBSET Events
    /\ outbox \in SUBSET Events
    /\ due \in SUBSET Events
    /\ token \in [Events -> Tokens \cup {NoToken}]
    /\ lapsed \in SUBSET Events
    /\ copies \in [Events -> Nat]
    /\ pc \in [Pollers -> {"stopped", "idle", "batch", "confirmed", "failed"}]
    /\ claims \in [Pollers -> [Events -> Tokens \cup {NoToken}]]
    /\ row \in [Pollers -> Events \cup {NoEvent}]
    /\ faults \in 0..MaxFaults
    \* A row has a deadline only with a claim, is claimed only when due, and
    \* its columns are gone with it; a poller works on a row it claimed.
    /\ outbox \subseteq committed
    /\ due \subseteq outbox
    /\ \A e \in lapsed : token[e] # NoToken
    /\ \A e \in Events : token[e] # NoToken => e \in due
    /\ \A p \in Pollers :
         /\ pc[p] \in {"confirmed", "failed"} <=> row[p] # NoEvent
         /\ row[p] # NoEvent => claims[p][row[p]] # NoToken
         /\ \A e \in Events : claims[p][e] # NoToken => e \in committed

NoClaims == [e \in Events |-> NoToken]

Init ==
    /\ committed = {} /\ outbox = {} /\ due = {} /\ lapsed = {}
    /\ copies = [e \in Events |-> 0]
    /\ token = NoClaims
    /\ pc = [p \in Pollers |-> "stopped"]
    /\ claims = [p \in Pollers |-> NoClaims]
    /\ row = [p \in Pollers |-> NoEvent]
    /\ faults = 0

Fault == faults < MaxFaults /\ faults' = faults + 1

-----------------------------------------------------------------------------
(* The producers.  The change and its outbox row are one transaction: a    *)
(* rejected duplicate or any other failure leaves neither.                 *)

\* A bug: the event is written in a transaction of its own, and the change
\* after it may fail.
Commit_Apart(e) ==
    /\ e \notin committed
    /\ committed' \in {committed, committed \cup {e}}
    /\ outbox' = outbox \cup {e}
    /\ due' = due \cup {e}
    /\ UNCHANGED <<token, lapsed, copies, pollerVars, faults>>

Commit(e) ==
    /\ e \notin committed
    /\ committed' = committed \cup {e}
    /\ outbox' = outbox \cup {e}
    /\ due' = due \cup {e}
    /\ UNCHANGED <<token, lapsed, copies, pollerVars, faults>>

-----------------------------------------------------------------------------
(* Claiming.                                                               *)

Unclaimed(e) == token[e] = NoToken

\* A bug: a live claim does not keep another poller out.
Claimable_LockIgnored(e) == e \in outbox /\ e \in due

\* A bug: claims of pollers that died are never taken over.
Claimable_LapsedIgnored(e) == e \in outbox /\ e \in due /\ Unclaimed(e)

Claimable(e) == e \in outbox /\ e \in due /\ (Unclaimed(e) \/ e \in lapsed)

\* Rows another poller's open transaction may have locked: SKIP LOCKED passes
\* them over.
RowLocks(p) ==
    {row[q] : q \in {r \in Pollers \ {p} : pc[r] \in {"confirmed", "failed"}}}

\* ORDER BY created_at LIMIT BATCH_SIZE over the rows not skipped.
IsBatch(S, candidates) ==
    /\ S \subseteq candidates
    /\ Cardinality(S) <= BATCH_SIZE
    /\ S = candidates \/ Cardinality(S) = BATCH_SIZE
    /\ \A e \in S, f \in candidates \ S : e < f

TokensInUse(e) == {token[e]} \cup {claims[p][e] : p \in Pollers}

Claim(p) ==
    /\ pc[p] = "idle"
    /\ \E skipped \in SUBSET RowLocks(p), S \in SUBSET Events :
         /\ S # {}
         /\ IsBatch(S, {e \in Events : Claimable(e)} \ skipped)
         /\ \A e \in S : ~(Tokens \subseteq TokensInUse(e))
         /\ LET fresh == [e \in Events |-> CHOOSE t \in Tokens : t \notin TokensInUse(e)]
            IN  /\ token' = [e \in Events |-> IF e \in S THEN fresh[e] ELSE token[e]]
                /\ claims' = [claims EXCEPT ![p] =
                     [e \in Events |-> IF e \in S THEN fresh[e] ELSE NoToken]]
         /\ lapsed' = lapsed \ S
    /\ pc' = [pc EXCEPT ![p] = "batch"]
    /\ UNCHANGED <<committed, outbox, due, copies, row, faults>>

\* Nothing to claim: the loop sleeps POLL_SECONDS.
EmptyPoll(p) ==
    /\ pc[p] = "idle"
    /\ \A e \in Events : ~Claimable(e)
    /\ UNCHANGED vars

-----------------------------------------------------------------------------
(* Publishing one claimed row and settling it.                             *)

Claimed(p) == {e \in Events : claims[p][e] # NoToken}

\* The claim p took is still the one on the row (id = ... AND
\* processing_token = ...).
HoldsClaim(p, e) == e \in outbox /\ token[e] = claims[p][e]

\* A durable event is published with mandatory = TRUE, so a confirm means it
\* is in a queue; an advisory one is confirmed even when no realtime listener
\* is bound at the moment, and then it is gone.
Routings(e) ==
    {[copies EXCEPT ![e] = @ + 1]} \cup (IF e \in DurableEvents THEN {} ELSE {copies})

PublishConfirmed(p) ==
    /\ pc[p] = "batch"
    /\ \E e \in Claimed(p) :
         /\ row' = [row EXCEPT ![p] = e]
         /\ copies' \in Routings(e)
    /\ pc' = [pc EXCEPT ![p] = "confirmed"]
    /\ UNCHANGED <<tableVars, claims, faults>>

\* publish_envelope raises: returned, refused, or the confirm is lost, and in
\* that last case the broker has the message.
PublishFails(p) ==
    /\ pc[p] = "batch"
    /\ Fault
    /\ \E e \in Claimed(p) :
         /\ row' = [row EXCEPT ![p] = e]
         /\ copies' \in {copies} \cup Routings(e)
    /\ pc' = [pc EXCEPT ![p] = "failed"]
    /\ UNCHANGED <<tableVars, claims>>

DeleteRow(e) ==
    /\ outbox' = outbox \ {e}
    /\ due' = due \ {e}
    /\ token' = [token EXCEPT ![e] = NoToken]
    /\ lapsed' = lapsed \ {e}

\* A bug: the row is deleted by id alone.
DeleteIfHeld_TokenIgnored(p, e) ==
    IF e \in outbox THEN DeleteRow(e) ELSE UNCHANGED <<outbox, due, token, lapsed>>

DeleteIfHeld(p, e) ==
    IF HoldsClaim(p, e) THEN DeleteRow(e) ELSE UNCHANGED <<outbox, due, token, lapsed>>

\* The rest of the for loop of publish_batch, or the sleep after it.
NextRow(p) ==
    LET left == [claims[p] EXCEPT ![row[p]] = NoToken]
    IN  /\ claims' = [claims EXCEPT ![p] = left]
        /\ row' = [row EXCEPT ![p] = NoEvent]
        /\ pc' = [pc EXCEPT ![p] =
             IF \A e \in Events : left[e] = NoToken THEN "idle" ELSE "batch"]

MarkPublished(p) ==
    /\ pc[p] = "confirmed"
    /\ DeleteIfHeld(p, row[p])
    /\ NextRow(p)
    /\ UNCHANGED <<committed, copies, faults>>

\* mark_published raises, before or after its DELETE committed; the same
\* except clause then reschedules a row that was published.
MarkFails(p) ==
    /\ pc[p] = "confirmed"
    /\ Fault
    /\ DeleteIfHeld(p, row[p]) \/ UNCHANGED <<outbox, due, token, lapsed>>
    /\ pc' = [pc EXCEPT ![p] = "failed"]
    /\ UNCHANGED <<committed, copies, claims, row>>

\* A bug: a failed publication gives the row up.
RescheduleIfHeld_Dropped(p, e) == DeleteIfHeld(p, e)

\* A bug: the token is cleared and locked_until is not.
RescheduleIfHeld_DeadlineKept(p, e) ==
    IF HoldsClaim(p, e)
    THEN /\ due' = due \ {e}
         /\ token' = [token EXCEPT ![e] = NoToken]
         /\ UNCHANGED <<outbox, lapsed>>
    ELSE UNCHANGED <<outbox, due, token, lapsed>>

RescheduleIfHeld(p, e) ==
    IF HoldsClaim(p, e)
    THEN /\ due' = due \ {e}
         /\ token' = [token EXCEPT ![e] = NoToken]
         /\ lapsed' = lapsed \ {e}
         /\ UNCHANGED outbox
    ELSE UNCHANGED <<outbox, due, token, lapsed>>

RescheduleFailed(p) ==
    /\ pc[p] = "failed"
    /\ RescheduleIfHeld(p, row[p])
    /\ NextRow(p)
    /\ UNCHANGED <<committed, copies, faults>>

-----------------------------------------------------------------------------
(* Failures of a poller, restarts and time.                                *)

\* The loop ends: what is left of the batch is forgotten, its claims stay.
Abandon(p) ==
    /\ pc' = [pc EXCEPT ![p] = "stopped"]
    /\ claims' = [claims EXCEPT ![p] = NoClaims]
    /\ row' = [row EXCEPT ![p] = NoEvent]

\* reschedule_failed raises inside the except clause: the exception leaves
\* publish_batch and run_loop closes the publisher.
RescheduleFails(p) ==
    /\ pc[p] = "failed"
    /\ Fault
    /\ RescheduleIfHeld(p, row[p]) \/ UNCHANGED <<outbox, due, token, lapsed>>
    /\ Abandon(p)
    /\ UNCHANGED <<committed, copies>>

\* claim_batch raises, the process dies, or the task is cancelled.
Crash(p) ==
    /\ pc[p] # "stopped"
    /\ Fault
    /\ Abandon(p)
    /\ UNCHANGED <<tableVars, copies>>

\* The supervisor (or the container) starts run_loop again.
Restart(p) ==
    /\ pc[p] = "stopped"
    /\ pc' = [pc EXCEPT ![p] = "idle"]
    /\ UNCHANGED <<tableVars, copies, claims, row, faults>>

BackoffElapses(e) ==
    /\ e \in outbox \ due
    /\ due' = due \cup {e}
    /\ UNCHANGED <<committed, outbox, token, lapsed, copies, pollerVars, faults>>

Abandoned(e) == \A p \in Pollers : claims[p][e] # token[e]

Lapse(e) ==
    /\ e \in outbox \ lapsed /\ ~Unclaimed(e)
    /\ lapsed' = lapsed \cup {e}
    /\ UNCHANGED <<committed, outbox, due, token, copies, pollerVars>>

\* CLAIM_SECONDS pass on a claim whose poller is gone ...
AbandonedClaimLapses(e) == Abandoned(e) /\ Lapse(e) /\ UNCHANGED faults

\* ... or on one whose poller is only slow: nothing renews a claim while its
\* batch is worked off, so it may lapse at any await.
SlowClaimLapses(e) == ~Abandoned(e) /\ Lapse(e) /\ Fault

-----------------------------------------------------------------------------
PollerStep(p) ==
    \/ Claim(p)
    \/ EmptyPoll(p)
    \/ PublishConfirmed(p)
    \/ MarkPublished(p)
    \/ RescheduleFailed(p)
    \/ Restart(p)

PollerFault(p) ==
    \/ PublishFails(p)
    \/ MarkFails(p)
    \/ RescheduleFails(p)
    \/ Crash(p)

ClockStep(e) == BackoffElapses(e) \/ AbandonedClaimLapses(e)

Next ==
    \/ \E e \in Events : Commit(e) \/ ClockStep(e) \/ SlowClaimLapses(e)
    \/ \E p \in Pollers : PollerStep(p) \/ PollerFault(p)

\* A poller that is running takes its next step, a supervisor restarts one
\* that stopped, and time passes.
Fairness ==
    /\ \A p \in Pollers : WF_vars(PollerStep(p))
    /\ \A e \in Events : WF_vars(ClockStep(e))

Spec == Init /\ [][Next]_vars /\ Fairness

-----------------------------------------------------------------------------
(* Properties.                                                             *)

\* An incident accepted by the API (HTTP 201) is never silently without its
\* alert: its event still has a row, or the broker has it.
NoEventLost ==
    \A e \in committed \cap DurableEvents : e \in outbox \/ copies[e] > 0

\* Delivery is at least once, and every extra copy is paid for by a failure:
\* two pollers that run undisturbed never publish a row twice.
AtMostOneCopyPerFault ==
    \A e \in Events : copies[e] <= 1 + faults

\* Migration 011: another poller may take over an abandoned claim, but may
\* not confirm or reschedule the work of one that still owns it.  As long as
\* a claim has not lapsed, only a step of its holder touches the row.
LiveClaimIsExclusive ==
    [][\A p \in Pollers, e \in Events :
         /\ e \in outbox /\ claims[p][e] # NoToken
         /\ claims[p][e] = token[e] /\ e \notin lapsed
         => \/ e \in outbox' /\ token'[e] = token[e] /\ (e \in due' <=> e \in due)
            \/ pc[p] \in {"confirmed", "failed"} /\ row[p] = e /\ pc'[p] # pc[p]]_vars

\* Every row leaves the table at last, whoever crashed holding a claim on it
\* and however often a publication failed.
EveryRowSettled ==
    \A e \in Events : e \in outbox ~> e \notin outbox

\* The pollers, their claims and their retries implement the hand-off
\* EventHandoff promises, its liveness included.
Handoff == INSTANCE EventHandoff WITH
    recorded <- committed, pending <- outbox, handed <- {e \in Events : copies[e] > 0}

ImplementsHandoff == Handoff!Spec
=============================================================================
