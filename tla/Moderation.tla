----------------------------- MODULE Moderation -----------------------------
(***************************************************************************)
(* What citizens and moderators decide about an incident: community votes  *)
(* (community_validation.py), reviews and photos                           *)
(* (postgres_incident_repository.py).  Each request is one transaction,    *)
(* READ COMMITTED, that first locks the row of its incident; a review also *)
(* locks the rows of the voters whose trust it adjusts, one by one, and so *)
(* two reviews can wait for each other.                                    *)
(*                                                                         *)
(* What the transactions insert into the outbox is the Commit of module    *)
(* Outbox; contribution points, comments, priorities and event payloads    *)
(* are left out.                                                           *)
(***************************************************************************)
EXTENDS Integers, FiniteSets, FiniteSetsExt

CONSTANTS
    Incidents,
    Users,
    Moderators,          \* users with role moderador or administrador
    Reporter,            \* Reporter[i]: who reported incident i
    InitialVotes,        \* InitialVotes[i][u]: votes cast before
    InitialTrust,        \* InitialTrust[u]: trust_score won before
    Requests,            \* requests served concurrently
    NoVote,
    NoUser,
    MIN_DECISIVE_VOTES,
    FULL_EVIDENCE,       \* the 8.0 of confidence_score
    MaxTime              \* bound: transactions of a behaviour

Votes == {"confirmar", "rejeitar", "complementar"}
Decisions == {"em_analise", "validado", "rejeitado", "resolvido"}
Statuses == {"reportado"} \cup Decisions
Deltas == {-3, 0, 2}

ASSUME ModerationAssumption ==
    /\ Incidents # {} /\ IsFiniteSet(Users) /\ Moderators \subseteq Users
    /\ Reporter \in [Incidents -> Users]
    /\ NoVote \notin Votes /\ NoUser \notin Users
    /\ InitialVotes \in [Incidents -> [Users -> Votes \cup {NoVote}]]
    /\ \A i \in Incidents : InitialVotes[i][Reporter[i]] = NoVote
    /\ InitialTrust \in [Users -> 0..100]
    /\ MIN_DECISIVE_VOTES \in Nat \ {0} /\ FULL_EVIDENCE \in Nat \ {0} /\ MaxTime \in Nat

VARIABLES
    now,          \* transactions started so far: the clock
    votes,        \* incident_validations
    reviews,      \* incident_reviews
    adjustments,  \* incident_trust_adjustments
    trust,        \* users.trust_score
    row,          \* row[i]: tally, workflow_status and photo of incidents
    updatedAt,    \* updatedAt[i]: incidents.updated_at
    pc,           \* pc[q]: where request q is in its transaction
    job,          \* job[q]: what it was asked
    started,      \* started[q]: NOW(), the time its transaction began
    draft,        \* draft[q]: the row it is about to commit
    todo,         \* todo[q]: voters whose trust it has still to adjust
    want,         \* want[q]: the one whose row it updates next
    claimed       \* claimed[q]: those whose rows it has locked

tableVars == <<votes, reviews, adjustments, trust, row, updatedAt>>
requestVars == <<pc, job, started, draft, todo, want, claimed>>
vars == <<now, tableVars, requestVars>>

-----------------------------------------------------------------------------
(* Scores (community_scoring.py), in hundredths of a point.                *)

VotersOf(ballot, V) == {u \in Users : ballot[u] \in V}
Decisive == {"confirmar", "rejeitar"}
Weight(S, weights) == MapThenSumSet(LAMBDA u : weights[u], S)

Tally(ballot) ==
    [confirmations |-> Cardinality(VotersOf(ballot, {"confirmar"})),
     rejections |-> Cardinality(VotersOf(ballot, {"rejeitar"})),
     complements |-> Cardinality(VotersOf(ballot, {"complementar"}))]

DecisiveVotes(tally) == tally.confirmations + tally.rejections

\* round(a / b): to the nearest, ties aside.
Rounded(a, b) == (2 * a + b) \div (2 * b)

Smaller(a, b) == IF a < b THEN a ELSE b

\* A bug: LEAST(100, ...) is forgotten.
Clamped_NoTop(x, top) == IF x < 0 THEN 0 ELSE x

Clamped(x, top) == IF x < 0 THEN 0 ELSE Smaller(x, top)

ConfidenceScore(weighted, decisive, count) ==
    IF decisive <= 0 THEN 5000
    ELSE Clamped(5000 + Rounded(weighted * 4000 * Smaller(count, FULL_EVIDENCE),
                                decisive * FULL_EVIDENCE), 10000)

Confidence(ballot, weights) ==
    LET for == Weight(VotersOf(ballot, {"confirmar"}), weights)
        against == Weight(VotersOf(ballot, {"rejeitar"}), weights)
    IN  ConfidenceScore(for - against, for + against, DecisiveVotes(Tally(ballot)))

\* A bug: the minimum of votes is forgotten.
WorkflowStatus_NoMinimum(confidence, count) ==
    IF confidence >= 7000 THEN "validado"
    ELSE IF confidence <= 3000 THEN "rejeitado" ELSE "em_analise"

WorkflowStatus(confidence, count) ==
    IF count < MIN_DECISIVE_VOTES THEN "em_analise"
    ELSE IF confidence >= 7000 THEN "validado"
    ELSE IF confidence <= 3000 THEN "rejeitado" ELSE "em_analise"

-----------------------------------------------------------------------------
VoteJob == [kind : {"vote"}, incident : Incidents, user : Users, choice : Votes]
ReviewJob == [kind : {"review"}, incident : Incidents, user : Moderators, choice : Decisions]
PhotoJob == [kind : {"photo"}, incident : Incidents, user : Users, choice : {"photo"}]
Job == VoteJob \cup ReviewJob \cup PhotoJob

Adjustment == [incident : Incidents, user : Users, delta : Deltas]

Row == [tally : [confirmations : Nat, rejections : Nat, complements : Nat],
        status : Statuses, photo : BOOLEAN]

TypeOK ==
    /\ now \in 0..MaxTime
    /\ votes \in [Incidents -> [Users -> Votes \cup {NoVote}]]
    /\ reviews \in [Incidents -> [Moderators -> Decisions \cup {NoVote}]]
    /\ adjustments \in SUBSET Adjustment
    /\ trust \in [Users -> 0..100]
    /\ row \in [Incidents -> Row]
    /\ updatedAt \in [Incidents -> 0..MaxTime]
    /\ pc \in [Requests -> {"idle", "lock", "work", "adjust", "commit"}]
    /\ job \in [Requests -> Job]
    /\ started \in [Requests -> 0..MaxTime]
    /\ draft \in [Requests -> Row]
    /\ todo \in [Requests -> SUBSET Users]
    /\ want \in [Requests -> Users \cup {NoUser}]
    /\ claimed \in [Requests -> SUBSET Users]
    /\ \A q \in Requests : pc[q] = "adjust" <=> want[q] # NoUser

\* Votes cast before, and nothing decided: an incident whose votes do not
\* settle it.  Every request is idle; what it was last asked does not matter.
Init ==
    /\ now = 0
    /\ votes = InitialVotes
    /\ reviews = [i \in Incidents |-> [m \in Moderators |-> NoVote]]
    /\ adjustments = {}
    /\ trust = InitialTrust
    /\ row = [i \in Incidents |->
                [tally |-> Tally(InitialVotes[i]),
                 status |-> IF VotersOf(InitialVotes[i], Votes) = {} THEN "reportado"
                            ELSE WorkflowStatus(Confidence(InitialVotes[i], InitialTrust),
                                                DecisiveVotes(Tally(InitialVotes[i]))),
                 photo |-> FALSE]]
    /\ updatedAt = [i \in Incidents |-> 0]
    /\ pc = [q \in Requests |-> "idle"]
    /\ job = [q \in Requests |-> CHOOSE j \in PhotoJob : TRUE]
    /\ started = [q \in Requests |-> 0]
    /\ draft = [q \in Requests |-> row[job[q].incident]]
    /\ todo = [q \in Requests |-> {}]
    /\ want = [q \in Requests |-> NoUser]
    /\ claimed = [q \in Requests |-> {}]

-----------------------------------------------------------------------------
Goto(q, l) == pc' = [pc EXCEPT ![q] = l]
IncidentOf(q) == job[q].incident

\* A request reaches the API and its transaction begins.
Begin(q, j) ==
    /\ pc[q] = "idle"
    /\ now < MaxTime
    /\ now' = now + 1
    /\ job' = [job EXCEPT ![q] = j]
    /\ started' = [started EXCEPT ![q] = now + 1]
    /\ Goto(q, "lock")
    /\ UNCHANGED <<tableVars, draft, todo, want, claimed>>

HoldsRow(q, i) == pc[q] \in {"work", "adjust", "commit"} /\ IncidentOf(q) = i

\* A bug: the SELECT has no FOR UPDATE.
RowFree_Unlocked(q) == TRUE

RowFree(q) == \A p \in Requests \ {q} : ~HoldsRow(p, IncidentOf(q))

\* Nobody votes on an incident of their own, or sends a photo for another's.
Allowed(j) ==
    CASE j.kind = "vote" -> j.user # Reporter[j.incident]
      [] j.kind = "photo" -> j.user = Reporter[j.incident]
      [] OTHER -> TRUE

\* SELECT ... FOR UPDATE on the incident.
LockRow(q) ==
    /\ pc[q] = "lock"
    /\ RowFree(q)
    /\ Allowed(job[q])
    /\ Goto(q, "work")
    /\ UNCHANGED <<now, tableVars, job, started, draft, todo, want, claimed>>

\* The transaction is over: its locks are free, what it was about to write
\* is gone or committed.
Finish(q) ==
    /\ Goto(q, "idle")
    /\ todo' = [todo EXCEPT ![q] = {}]
    /\ want' = [want EXCEPT ![q] = NoUser]
    /\ claimed' = [claimed EXCEPT ![q] = {}]
    /\ UNCHANGED <<now, job, started, draft>>

\* PermissionError: 409 or 403, and the transaction is rolled back.
Refuse(q) ==
    /\ pc[q] = "lock"
    /\ RowFree(q)
    /\ ~Allowed(job[q])
    /\ Finish(q)
    /\ UNCHANGED tableVars

\* The vote is inserted and the votes are counted, weighted by the trust
\* committed by now; nobody else changes it until the commit.
BallotWith(q) == [votes[IncidentOf(q)] EXCEPT ![job[q].user] = job[q].choice]

Vote(q) ==
    /\ pc[q] = "work" /\ job[q].kind = "vote"
    /\ LET ballot == BallotWith(q)
           tally == Tally(ballot)
       IN  draft' = [draft EXCEPT ![q] =
             [row[IncidentOf(q)] EXCEPT
                !.tally = tally,
                !.status = WorkflowStatus(Confidence(ballot, trust), DecisiveVotes(tally))]]
    /\ Goto(q, "commit")
    /\ UNCHANGED <<now, tableVars, job, started, todo, want, claimed>>

Photo(q) ==
    /\ pc[q] = "work" /\ job[q].kind = "photo"
    /\ draft' = [draft EXCEPT ![q] = [row[IncidentOf(q)] EXCEPT !.photo = TRUE]]
    /\ Goto(q, "commit")
    /\ UNCHANGED <<now, tableVars, job, started, todo, want, claimed>>

Final(decision) == decision \in {"validado", "rejeitado"}

\* A bug: INSERT ... RETURNING also of voters adjusted before.
Unadjusted_Again(i) == VotersOf(votes[i], Votes)

\* ON CONFLICT (incident_id, user_id) DO NOTHING RETURNING.
Unadjusted(i) ==
    VotersOf(votes[i], Votes) \ {a.user : a \in {b \in adjustments : b.incident = i}}

\* The database returns the adjusted voters in an order of its own.
TurnTo(q, S) ==
    /\ todo' = [todo EXCEPT ![q] = S]
    /\ IF S = {}
       THEN Goto(q, "commit") /\ want' = [want EXCEPT ![q] = NoUser]
       ELSE Goto(q, "adjust") /\ \E u \in S : want' = [want EXCEPT ![q] = u]

Review(q) ==
    /\ pc[q] = "work" /\ job[q].kind = "review"
    /\ draft' = [draft EXCEPT ![q] = [row[IncidentOf(q)] EXCEPT !.status = job[q].choice]]
    /\ TurnTo(q, IF Final(job[q].choice) THEN Unadjusted(IncidentOf(q)) ELSE {})
    /\ UNCHANGED <<now, tableVars, job, started, claimed>>

\* UPDATE users: waits for a transaction that has updated the same row.
Adjust(q) ==
    /\ pc[q] = "adjust"
    /\ \A p \in Requests \ {q} : want[q] \notin claimed[p]
    /\ claimed' = [claimed EXCEPT ![q] = @ \cup {want[q]}]
    /\ TurnTo(q, todo[q] \ {want[q]})
    /\ UNCHANGED <<now, tableVars, job, started, draft>>

Agrees(vote, decision) ==
    \/ vote = "confirmar" /\ decision = "validado"
    \/ vote = "rejeitar" /\ decision = "rejeitado"

Delta(vote, decision) ==
    IF Agrees(vote, decision) THEN 2 ELSE IF vote \in Decisive THEN -3 ELSE 0

Commit(q) ==
    LET i == IncidentOf(q)
        delta == [u \in Users |-> Delta(votes[i][u], job[q].choice)]
    IN
    /\ pc[q] = "commit"
    /\ votes' = IF job[q].kind = "vote" THEN [votes EXCEPT ![i] = BallotWith(q)] ELSE votes
    /\ reviews' = IF job[q].kind = "review"
                  THEN [reviews EXCEPT ![i][job[q].user] = job[q].choice] ELSE reviews
    /\ adjustments' = adjustments \cup
         {[incident |-> i, user |-> u, delta |-> delta[u]] : u \in claimed[q]}
    /\ trust' = [u \in Users |->
         IF u \in claimed[q] THEN Clamped(trust[u] + delta[u], 100) ELSE trust[u]]
    /\ row' = [row EXCEPT ![i] = draft[q]]
    /\ updatedAt' = [updatedAt EXCEPT ![i] = started[q]]
    /\ Finish(q)

\* The connection or the process dies, or a statement fails.
Rollback(q) ==
    /\ pc[q] # "idle"
    /\ Finish(q)
    /\ UNCHANGED tableVars

\* Requests that wait for one another in a ring.
Blockers(q) == {p \in Requests \ {q} : pc[q] = "adjust" /\ want[q] \in claimed[p]}

Deadlocked(q) ==
    \E S \in SUBSET Requests :
        q \in S /\ \A p \in S : Blockers(p) \cap S # {}

\* A bug: the error of the database leaves the transaction open.
DeadlockAbort_LeftOpen(q) == Deadlocked(q) /\ UNCHANGED vars

\* deadlock_timeout: PostgreSQL aborts one of them, and the API answers 500.
DeadlockAbort(q) ==
    /\ Deadlocked(q)
    /\ Finish(q)
    /\ UNCHANGED tableVars

-----------------------------------------------------------------------------
RequestStep(q) ==
    LockRow(q) \/ Refuse(q) \/ Vote(q) \/ Photo(q) \/ Review(q) \/ Adjust(q) \/ Commit(q)

Next ==
    \E q \in Requests :
        \/ \E j \in Job : Begin(q, j)
        \/ RequestStep(q) \/ Rollback(q) \/ DeadlockAbort(q)

\* A transaction that does not wait goes on, and deadlocks are detected.
Fairness ==
    \A q \in Requests : WF_vars(RequestStep(q)) /\ WF_vars(DeadlockAbort(q))

Spec == Init /\ [][Next]_vars /\ Fairness

-----------------------------------------------------------------------------
(* Properties.                                                             *)

\* The counts shown on the map are those of the votes table, whatever votes,
\* reviews and photos of the same incident were committed concurrently.
CountsMatchVotes == \A i \in Incidents : row[i].tally = Tally(votes[i])

\* No incident is settled lightly: a verdict is the latest word of a moderator
\* or has the minimum of decisive votes behind it, the ones counted now.
StatusJustified ==
    \A i \in Incidents : row[i].status \in {"validado", "rejeitado", "resolvido"} =>
        \/ \E m \in Moderators : reviews[i][m] = row[i].status
        \/ row[i].status # "resolvido" /\ DecisiveVotes(Tally(votes[i])) >= MIN_DECISIVE_VOTES

GainsOf(u) ==
    Weight({a \in adjustments : a.user = u /\ a.delta > 0}, [a \in Adjustment |-> a.delta])
LossesOf(u) ==
    Weight({a \in adjustments : a.user = u /\ a.delta < 0}, [a \in Adjustment |-> -a.delta])

\* Trust is what the recorded adjustments made of it, one per incident and
\* voter however often an incident is reviewed: never an update lost or made
\* twice.  Only at 0 and 100 is something cut off.
TrustAccounted ==
    /\ \A a, b \in adjustments : a.incident = b.incident /\ a.user = b.user => a = b
    /\ \A u \in Users :
         LET high == InitialTrust[u] + GainsOf(u)
             low == InitialTrust[u] - LossesOf(u)
         IN  /\ trust[u] <= high /\ trust[u] >= low
             /\ high <= 100 /\ low >= 0 => trust[u] = high - LossesOf(u)

\* Every request is answered, also when reviews of different incidents lock
\* the same voters in different orders.
EveryRequestAnswered == \A q \in Requests : pc[q] # "idle" ~> pc[q] = "idle"

\* What save_photo's comment says of a new photo, "updated_at avança para o feed
\* incremental do mapa trazer a nova foto": the feed asks for rows updated
\* after the latest it has, so the commit that brings the photo must not leave
\* updated_at where it was, or put it back.
PhotoAdvancesFeed ==
    [][\A i \in Incidents :
         row'[i].photo # row[i].photo => updatedAt'[i] > updatedAt[i]]_vars
=============================================================================
