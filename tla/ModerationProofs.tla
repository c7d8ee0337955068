-------------------------- MODULE ModerationProofs --------------------------
(***************************************************************************)
(* Proofs about Moderation: type correctness, that the counts of an        *)
(* incident are those of its votes, that no verdict stands without a       *)
(* moderator or enough votes, and that trust is what the recorded          *)
(* adjustments made of it, for any number of incidents, users, requests    *)
(* and transactions.                                                       *)
(***************************************************************************)
EXTENDS Moderation, FiniteSetTheorems, TLAPS

\* The alternatives of Next, one by one.
LEMMA NextCases ==
    ASSUME Next
    PROVE  \E q \in Requests :
             \/ \E j \in Job : Begin(q, j)
             \/ LockRow(q) \/ Refuse(q) \/ Vote(q) \/ Photo(q) \/ Review(q)
             \/ Adjust(q) \/ Commit(q) \/ Rollback(q) \/ DeadlockAbort(q)
  BY DEF Next, RequestStep

Tallies == [confirmations : Nat, rejections : Nat, complements : Nat]

\* A tally is made of counts: there are finitely many users.
LEMMA TallyTyped == \A ballot : Tally(ballot) \in Tallies
  <1> SUFFICES ASSUME NEW ballot PROVE Tally(ballot) \in Tallies
    OBVIOUS
  <1>1. \A V : Cardinality(VotersOf(ballot, V)) \in Nat
    <2> TAKE V
    <2>1. VotersOf(ballot, V) \subseteq Users
      BY DEF VotersOf
    <2> QED
      BY <2>1, ModerationAssumption, FS_Subset, FS_CardinalityType
  <1> QED
    BY <1>1 DEF Tally, Tallies

\* What the votes alone say: a verdict needs its minimum of votes.
LEMMA WorkflowFacts ==
    ASSUME NEW confidence, NEW count
    PROVE  /\ WorkflowStatus(confidence, count) \in {"em_analise", "validado", "rejeitado"}
           /\ WorkflowStatus(confidence, count) # "em_analise" => ~(count < MIN_DECISIVE_VOTES)
  BY DEF WorkflowStatus

LEMMA ClampedTyped ==
    ASSUME NEW x \in Int, NEW top \in Nat
    PROVE  Clamped(x, top) \in 0..top
  BY DEF Clamped, Smaller

LEMMA JobFacts ==
    ASSUME NEW j \in Job
    PROVE  /\ j.incident \in Incidents /\ j.user \in Users
           /\ j.kind \in {"vote", "review", "photo"}
           /\ j.kind = "vote" => j.choice \in Votes
           /\ j.kind = "review" => j.user \in Moderators /\ j.choice \in Decisions
  BY ModerationAssumption DEF Job, VoteJob, ReviewJob, PhotoJob

-----------------------------------------------------------------------------
(* Types.                                                                  *)

LEMMA InitTyped == Init => TypeOK
  <1> SUFFICES ASSUME Init PROVE TypeOK
    OBVIOUS
  <1>1. now \in 0..MaxTime /\ adjustments = {} /\ trust \in [Users -> 0..100]
    BY ModerationAssumption DEF Init
  <1>2. row \in [Incidents -> Row]
    BY TallyTyped, WorkflowFacts DEF Init, Row, Tallies, Statuses, Decisions
  <1>3. job \in [Requests -> Job]
    <2>1. PICK i \in Incidents : TRUE
      BY ModerationAssumption
    <2>2. [kind |-> "photo", incident |-> i, user |-> Reporter[i], choice |-> "photo"] \in PhotoJob
      BY <2>1, ModerationAssumption DEF PhotoJob
    <2> QED
      BY <2>2 DEF Init, Job
  <1>4. draft \in [Requests -> Row]
    BY <1>2, <1>3, JobFacts DEF Init
  <1>5. votes \in [Incidents -> [Users -> Votes \cup {NoVote}]]
    BY ModerationAssumption DEF Init
  <1>6. \A q \in Requests : pc[q] = "adjust" <=> want[q] # NoUser
    BY DEF Init
  <1>7. updatedAt \in [Incidents -> 0..MaxTime] /\ started \in [Requests -> 0..MaxTime]
    BY ModerationAssumption DEF Init
  <1> QED
    BY <1>1, <1>2, <1>3, <1>4, <1>5, <1>6, <1>7 DEF Init, TypeOK

\* The end of a transaction leaves the request idle, and the rest typed.
LEMMA FinishTyped ==
    ASSUME TypeOK, NEW q \in Requests, Finish(q)
    PROVE  /\ now' = now /\ job' = job /\ started' = started /\ draft' = draft
           /\ pc' \in [Requests -> {"idle", "lock", "work", "adjust", "commit"}]
           /\ todo' \in [Requests -> SUBSET Users]
           /\ want' \in [Requests -> Users \cup {NoUser}]
           /\ claimed' \in [Requests -> SUBSET Users]
           /\ \A p \in Requests : pc'[p] = "adjust" <=> want'[p] # NoUser
  BY DEF TypeOK, Finish, Goto

LEMMA TurnTyped ==
    ASSUME TypeOK, NEW q \in Requests, NEW S \in SUBSET Users, TurnTo(q, S)
    PROVE  /\ pc' \in [Requests -> {"idle", "lock", "work", "adjust", "commit"}]
           /\ todo' \in [Requests -> SUBSET Users]
           /\ want' \in [Requests -> Users \cup {NoUser}]
           /\ \A p \in Requests : pc'[p] = "adjust" <=> want'[p] # NoUser
  <1>1. todo' = [todo EXCEPT ![q] = S]
    BY DEF TurnTo
  <1>2. CASE S = {}
    BY <1>1, <1>2 DEF TypeOK, TurnTo, Goto
  <1>3. CASE S # {}
    <2>1. PICK u \in S : want' = [want EXCEPT ![q] = u] /\ Goto(q, "adjust")
      BY <1>3 DEF TurnTo
    <2>2. u \in Users /\ u # NoUser
      BY <2>1, ModerationAssumption
    <2> QED
      BY <1>1, <2>1, <2>2 DEF TypeOK, Goto
  <1> QED
    BY <1>2, <1>3

LEMMA CommitTyped == ASSUME TypeOK, NEW q \in Requests, Commit(q) PROVE TypeOK'
  <1> DEFINE i == IncidentOf(q)
             delta == [u \in Users |-> Delta(votes[i][u], job[q].choice)]
  <1>1. job[q] \in Job /\ i \in Incidents
    BY JobFacts DEF TypeOK, IncidentOf
  <1>2. Finish(q)
    BY DEF Commit
  <1>3. delta \in [Users -> Deltas]
    BY DEF Delta, Deltas
  <1>4. votes' \in [Incidents -> [Users -> Votes \cup {NoVote}]]
    <2>1. job[q].kind = "vote" => BallotWith(q) \in [Users -> Votes \cup {NoVote}]
      BY <1>1, JobFacts DEF BallotWith, IncidentOf, TypeOK
    <2> QED
      BY <1>1, <2>1 DEF Commit, TypeOK
  <1>5. reviews' \in [Incidents -> [Moderators -> Decisions \cup {NoVote}]]
    BY <1>1, JobFacts DEF Commit, TypeOK
  <1>6. adjustments' \in SUBSET Adjustment
    <2>1. claimed[q] \subseteq Users
      BY DEF TypeOK
    <2>2. adjustments' = adjustments \cup
            {[incident |-> i, user |-> u, delta |-> delta[u]] : u \in claimed[q]}
      BY DEF Commit
    <2> HIDE DEF delta, i
    <2> QED
      BY <1>1, <1>3, <2>1, <2>2 DEF TypeOK, Adjustment
  <1>7. trust' \in [Users -> 0..100]
    <2>1. \A u \in Users : trust[u] + delta[u] \in Int /\ trust[u] \in 0..100
      <3>1. \A d \in Deltas : d \in Int
        BY DEF Deltas
      <3>2. \A t \in 0..100, d \in Int : t + d \in Int
        OBVIOUS
      <3> HIDE DEF delta, i
      <3> QED
        BY <1>3, <3>1, <3>2 DEF TypeOK
    <2>2. \A u \in Users : Clamped(trust[u] + delta[u], 100) \in 0..100
      BY <2>1, ClampedTyped
    <2>3. trust' = [u \in Users |->
            IF u \in claimed[q] THEN Clamped(trust[u] + delta[u], 100) ELSE trust[u]]
      BY DEF Commit
    <2> QED
      BY <2>1, <2>2, <2>3
  <1>8. row' \in [Incidents -> Row] /\ updatedAt' \in [Incidents -> 0..MaxTime]
    BY DEF Commit, TypeOK
  <1> QED
    BY <1>2, <1>4, <1>5, <1>6, <1>7, <1>8, FinishTyped DEF TypeOK

LEMMA StepTyped == TypeOK /\ [Next]_vars => TypeOK'
  <1> SUFFICES ASSUME TypeOK, [Next]_vars PROVE TypeOK'
    OBVIOUS
  <1>1. ASSUME NEW q \in Requests, NEW j \in Job, Begin(q, j) PROVE TypeOK'
    <2>1. now' \in 0..MaxTime
      BY <1>1, ModerationAssumption DEF Begin, TypeOK
    <2> QED
      BY <1>1, <2>1 DEF Begin, Goto, TypeOK, tableVars
  <1>2. ASSUME NEW q \in Requests, LockRow(q) PROVE TypeOK'
    BY <1>2 DEF LockRow, Goto, TypeOK, tableVars
  <1>3. ASSUME NEW q \in Requests, Finish(q), UNCHANGED tableVars PROVE TypeOK'
    BY <1>3, FinishTyped DEF TypeOK, tableVars
  <1>4. ASSUME NEW q \in Requests, Vote(q) PROVE TypeOK'
    <2>1. draft' \in [Requests -> Row]
      <3> DEFINE s == WorkflowStatus(Confidence(BallotWith(q), trust), DecisiveVotes(Tally(BallotWith(q))))
      <3>1. s \in Statuses /\ Tally(BallotWith(q)) \in Tallies
        BY TallyTyped, WorkflowFacts DEF Statuses, Decisions
      <3>2. row[IncidentOf(q)] \in Row
        BY JobFacts DEF IncidentOf, TypeOK
      <3>3. draft' = [draft EXCEPT ![q] =
              [row[IncidentOf(q)] EXCEPT !.tally = Tally(BallotWith(q)), !.status = s]]
        BY <1>4 DEF Vote
      <3> HIDE DEF s
      <3> QED
        BY <3>1, <3>2, <3>3 DEF Row, Tallies, TypeOK
    <2> QED
      BY <1>4, <2>1 DEF Vote, Goto, TypeOK, tableVars
  <1>5. ASSUME NEW q \in Requests, Photo(q) PROVE TypeOK'
    <2>1. row[IncidentOf(q)] \in Row
      BY JobFacts DEF IncidentOf, TypeOK
    <2>2. draft' \in [Requests -> Row]
      BY <1>5, <2>1 DEF Photo, Row, TypeOK
    <2> QED
      BY <1>5, <2>2 DEF Photo, Goto, TypeOK, tableVars
  <1>6. ASSUME NEW q \in Requests, Review(q) PROVE TypeOK'
    <2>1. row[IncidentOf(q)] \in Row /\ job[q].choice \in Statuses
      BY <1>6, JobFacts DEF Review, IncidentOf, TypeOK, Statuses
    <2>2. draft' \in [Requests -> Row]
      BY <1>6, <2>1 DEF Review, Row, TypeOK
    <2>3. (IF Final(job[q].choice) THEN Unadjusted(IncidentOf(q)) ELSE {}) \in SUBSET Users
      BY DEF Unadjusted, VotersOf
    <2> QED
      BY <1>6, <2>2, <2>3, TurnTyped DEF Review, TypeOK, tableVars
  <1>7. ASSUME NEW q \in Requests, Adjust(q) PROVE TypeOK'
    <2>1. todo[q] \ {want[q]} \in SUBSET Users /\ want[q] \in Users
      BY <1>7 DEF Adjust, TypeOK
    <2>2. claimed' \in [Requests -> SUBSET Users]
      BY <1>7, <2>1 DEF Adjust, TypeOK
    <2> QED
      BY <1>7, <2>1, <2>2, TurnTyped DEF Adjust, TypeOK, tableVars
  <1>8. ASSUME UNCHANGED vars PROVE TypeOK'
    BY <1>8 DEF vars, tableVars, requestVars, TypeOK
  <1> QED
    BY <1>1, <1>2, <1>3, <1>4, <1>5, <1>6, <1>7, <1>8, NextCases, CommitTyped
    DEF Refuse, Rollback, DeadlockAbort

\* Every vote, review, adjustment and row written has the form the schema and
\* the handlers of the API give it, and trust stays within 0 and 100.
THEOREM TypeCorrect == Spec => []TypeOK
  BY InitTyped, StepTyped, PTL DEF Spec
-----------------------------------------------------------------------------
(* Counts and verdicts.  Requests that hold the row of an incident exclude *)
(* each other, so what a request has read of it still is what the commit   *)
(* finds: the draft it commits has the counts of the votes as they will    *)
(* be, and a verdict that is its own moderator's, or stood before, or has  *)
(* the votes behind it.                                                    *)

OneHolder ==
    \A p, q \in Requests, i \in Incidents : HoldsRow(p, i) /\ HoldsRow(q, i) => p = q

\* The votes on its incident once q has committed.
BallotAfter(q) == IF job[q].kind = "vote" THEN BallotWith(q) ELSE votes[IncidentOf(q)]

Verdicts == {"validado", "rejeitado", "resolvido"}

DraftJustified(q) ==
    \/ draft[q].status \notin Verdicts
    \/ job[q].kind = "vote" /\ draft[q].status # "resolvido"
         /\ DecisiveVotes(draft[q].tally) >= MIN_DECISIVE_VOTES
    \/ job[q].kind = "review" /\ draft[q].status = job[q].choice
    \/ job[q].kind = "photo" /\ draft[q].status = row[IncidentOf(q)].status

DraftRight ==
    \A q \in Requests : pc[q] \in {"adjust", "commit"} =>
        draft[q].tally = Tally(BallotAfter(q)) /\ DraftJustified(q)

Settled == OneHolder /\ DraftRight /\ CountsMatchVotes /\ StatusJustified

SettledInv == TypeOK /\ Settled

LEMMA InitSettled == Init => Settled
  <1> SUFFICES ASSUME Init PROVE Settled
    OBVIOUS
  <1>1. OneHolder /\ DraftRight
    BY DEF Init, OneHolder, DraftRight, HoldsRow
  <1>2. CountsMatchVotes
    BY DEF Init, CountsMatchVotes
  <1>3. StatusJustified
    <2> SUFFICES ASSUME NEW i \in Incidents, row[i].status \in {"validado", "rejeitado", "resolvido"}
                 PROVE  /\ row[i].status # "resolvido"
                        /\ DecisiveVotes(Tally(votes[i])) >= MIN_DECISIVE_VOTES
      BY DEF StatusJustified
    <2>1. DecisiveVotes(Tally(votes[i])) \in Nat
      BY TallyTyped DEF Tallies, DecisiveVotes
    <2>2. row[i].status = WorkflowStatus(Confidence(votes[i], trust), DecisiveVotes(Tally(votes[i])))
      BY DEF Init
    <2> QED
      BY <2>1, <2>2, WorkflowFacts, ModerationAssumption
  <1> QED
    BY <1>1, <1>2, <1>3 DEF Settled

\* A step of a request that writes no table, and after which it holds no more
\* than it held, or holds a row nobody held, and has a right draft.
LEMMA QuietStep ==
    ASSUME SettledInv, NEW q \in Requests, UNCHANGED tableVars,
           \A p \in Requests \ {q} :
             pc'[p] = pc[p] /\ job'[p] = job[p] /\ draft'[p] = draft[p],
           \A i \in Incidents : HoldsRow(q, i)' =>
             HoldsRow(q, i) \/ \A p \in Requests \ {q} : ~HoldsRow(p, i),
           pc'[q] \in {"adjust", "commit"} =>
             draft'[q].tally = Tally(BallotAfter(q)') /\ DraftJustified(q)'
    PROVE  Settled'
  <1> USE DEF SettledInv, Settled
  <1>1. OneHolder'
    <2> SUFFICES ASSUME NEW p \in Requests, NEW r \in Requests, NEW i \in Incidents,
                        HoldsRow(p, i)', HoldsRow(r, i)'
                 PROVE  p = r
      BY DEF OneHolder
    <2>1. \A s \in Requests \ {q} : HoldsRow(s, i)' => HoldsRow(s, i)
      BY DEF HoldsRow, IncidentOf
    <2> QED
      BY <2>1 DEF OneHolder
  <1>2. DraftRight'
    <2>1. ASSUME NEW p \in Requests \ {q}
          PROVE  BallotAfter(p)' = BallotAfter(p) /\ (DraftJustified(p) => DraftJustified(p)')
      BY <2>1 DEF BallotAfter, BallotWith, DraftJustified, IncidentOf, tableVars
    <2>2. ASSUME NEW p \in Requests \ {q}, pc'[p] \in {"adjust", "commit"}
          PROVE  draft'[p].tally = Tally(BallotAfter(p))' /\ DraftJustified(p)'
      <3>1. draft[p].tally = Tally(BallotAfter(p)) /\ DraftJustified(p)
        BY <2>2 DEF DraftRight
      <3> QED
        BY <2>1, <3>1
    <2> QED
      BY <2>2 DEF DraftRight
  <1>3. CountsMatchVotes' /\ StatusJustified'
    BY DEF CountsMatchVotes, StatusJustified, tableVars
  <1> QED
    BY <1>1, <1>2, <1>3

LEMMA FinishSettled ==
    ASSUME SettledInv, NEW q \in Requests, Finish(q), UNCHANGED tableVars
    PROVE  Settled'
  <1>1. pc' = [pc EXCEPT ![q] = "idle"] /\ job' = job /\ draft' = draft
    BY DEF Finish, Goto
  <1>2. pc'[q] = "idle" /\ \A p \in Requests \ {q} : pc'[p] = pc[p]
    BY <1>1 DEF SettledInv, TypeOK
  <1>3. \A i \in Incidents : ~HoldsRow(q, i)'
    BY <1>2 DEF HoldsRow
  <1> QED
    BY <1>1, <1>2, <1>3, QuietStep

LEMMA CommitSettled == ASSUME SettledInv, NEW q \in Requests, Commit(q) PROVE Settled'
  <1> DEFINE i == IncidentOf(q)
  <1> USE DEF SettledInv, Settled
  <1>1. job[q] \in Job /\ i \in Incidents /\ pc[q] = "commit"
    BY JobFacts DEF TypeOK, IncidentOf, Commit
  <1>2. pc' = [pc EXCEPT ![q] = "idle"] /\ job' = job /\ draft' = draft
    BY DEF Commit, Finish, Goto
  <1>3. pc'[q] = "idle" /\ \A p \in Requests \ {q} : pc'[p] = pc[p]
    BY <1>2 DEF TypeOK
  <1>4. votes'[i] = BallotAfter(q) /\ \A k \in Incidents \ {i} : votes'[k] = votes[k]
    BY <1>1 DEF Commit, BallotAfter, TypeOK
  <1>5. row'[i] = draft[q] /\ \A k \in Incidents \ {i} : row'[k] = row[k]
    BY <1>1 DEF Commit, TypeOK
  <1>6. \A k \in Incidents \ {i} : reviews'[k] = reviews[k]
    BY <1>1 DEF Commit, TypeOK
  <1>7. draft[q].tally = Tally(BallotAfter(q)) /\ DraftJustified(q)
    BY <1>1 DEF DraftRight
  <1>8. OneHolder'
    <2>1. \A p \in Requests, k \in Incidents : HoldsRow(p, k)' => HoldsRow(p, k)
      BY <1>2, <1>3 DEF HoldsRow, IncidentOf
    <2> QED
      BY <2>1 DEF OneHolder
  <1>9. DraftRight'
    <2> SUFFICES ASSUME NEW p \in Requests \ {q}, pc'[p] \in {"adjust", "commit"}
                 PROVE  draft'[p].tally = Tally(BallotAfter(p)') /\ DraftJustified(p)'
      BY <1>3 DEF DraftRight
    <2>1. pc[p] \in {"adjust", "commit"} /\ IncidentOf(p) \in Incidents
      BY <1>3, JobFacts DEF TypeOK, IncidentOf
    <2>2. IncidentOf(p) # i
      BY <1>1, <2>1 DEF OneHolder, HoldsRow
    <2>3. votes'[IncidentOf(p)] = votes[IncidentOf(p)] /\ row'[IncidentOf(p)] = row[IncidentOf(p)]
      BY <1>4, <1>5, <2>1, <2>2
    <2>4. IncidentOf(p)' = IncidentOf(p)
      BY <1>2 DEF IncidentOf
    <2>5. BallotAfter(p)' = BallotAfter(p)
      BY <1>2, <2>3, <2>4 DEF BallotAfter, BallotWith
    <2>6. DraftJustified(p) => DraftJustified(p)'
      BY <1>2, <2>3, <2>4 DEF DraftJustified
    <2> QED
      BY <1>2, <2>1, <2>5, <2>6 DEF DraftRight
  <1>10. CountsMatchVotes'
    BY <1>4, <1>5, <1>7 DEF CountsMatchVotes
  <1>11. StatusJustified'
    <2> SUFFICES ASSUME NEW k \in Incidents, row'[k].status \in Verdicts
                 PROVE  \/ \E m \in Moderators : reviews'[k][m] = row'[k].status
                        \/ /\ row'[k].status # "resolvido"
                           /\ DecisiveVotes(Tally(votes'[k])) >= MIN_DECISIVE_VOTES
      BY DEF StatusJustified, Verdicts
    <2>1. CASE k # i
      BY <1>4, <1>5, <1>6, <2>1 DEF StatusJustified, Verdicts
    <2>2. CASE k = i /\ job[q].kind = "vote"
      BY <1>4, <1>5, <1>7, <2>2 DEF DraftJustified
    <2>3. CASE k = i /\ job[q].kind = "review"
      <3>1. draft[q].status = job[q].choice
        BY <1>5, <1>7, <2>3 DEF DraftJustified
      <3>2. job[q].user \in Moderators /\ reviews'[i][job[q].user] = job[q].choice
        BY <1>1, <2>3, JobFacts DEF Commit, TypeOK
      <3> QED
        BY <1>5, <2>3, <3>1, <3>2
    <2>4. CASE k = i /\ job[q].kind = "photo"
      <3>1. draft[q].status = row[i].status
        BY <1>5, <1>7, <2>4 DEF DraftJustified
      <3>2. votes'[i] = votes[i] /\ reviews'[i] = reviews[i]
        BY <1>1, <2>4 DEF Commit
      <3> QED
        BY <1>1, <1>5, <2>4, <3>1, <3>2 DEF StatusJustified, Verdicts
    <2> QED
      BY <1>1, <2>1, <2>2, <2>3, <2>4, JobFacts
  <1> QED
    BY <1>8, <1>9, <1>10, <1>11

LEMMA StepSettled == SettledInv /\ [Next]_vars => Settled'
  <1> SUFFICES ASSUME SettledInv, [Next]_vars PROVE Settled'
    OBVIOUS
  <1> USE DEF SettledInv
  <1>1. ASSUME NEW q \in Requests, NEW j \in Job, Begin(q, j) PROVE Settled'
    <2>1. /\ UNCHANGED tableVars /\ pc'[q] = "lock"
          /\ \A p \in Requests \ {q} : pc'[p] = pc[p] /\ job'[p] = job[p] /\ draft'[p] = draft[p]
      BY <1>1 DEF Begin, Goto, TypeOK
    <2> QED
      BY <2>1, QuietStep DEF HoldsRow
  <1>2. ASSUME NEW q \in Requests, LockRow(q) PROVE Settled'
    <2>1. /\ UNCHANGED tableVars /\ pc'[q] = "work" /\ job' = job
          /\ \A p \in Requests \ {q} : pc'[p] = pc[p] /\ job'[p] = job[p] /\ draft'[p] = draft[p]
      BY <1>2 DEF LockRow, Goto, TypeOK
    <2>2. \A i \in Incidents : HoldsRow(q, i)' => \A p \in Requests \ {q} : ~HoldsRow(p, i)
      BY <1>2, <2>1 DEF HoldsRow, IncidentOf, LockRow, RowFree
    <2> QED
      BY <2>1, <2>2, QuietStep
  <1>3. ASSUME NEW q \in Requests, Vote(q) PROVE Settled'
    <2> DEFINE ballot == BallotWith(q)
               s == WorkflowStatus(Confidence(ballot, trust), DecisiveVotes(Tally(ballot)))
    <2>1. /\ UNCHANGED tableVars /\ pc[q] = "work" /\ pc'[q] = "commit" /\ job' = job
          /\ job[q].kind = "vote"
          /\ \A p \in Requests \ {q} : pc'[p] = pc[p] /\ job'[p] = job[p] /\ draft'[p] = draft[p]
      BY <1>3 DEF Vote, Goto, TypeOK
    <2>2. draft'[q].tally = Tally(ballot) /\ draft'[q].status = s
      <3>1. row[IncidentOf(q)] \in Row
        BY JobFacts DEF IncidentOf, TypeOK
      <3>2. draft' = [draft EXCEPT ![q] =
              [row[IncidentOf(q)] EXCEPT !.tally = Tally(ballot), !.status = s]]
        BY <1>3 DEF Vote
      <3> HIDE DEF s, ballot
      <3> QED
        BY <3>1, <3>2 DEF Row, TypeOK
    <2>3. BallotAfter(q)' = ballot
      BY <2>1 DEF BallotAfter, BallotWith, IncidentOf, tableVars
    <2>4. DraftJustified(q)'
      <3>1. DecisiveVotes(Tally(ballot)) \in Nat
        BY TallyTyped DEF Tallies, DecisiveVotes
      <3>2. s \in {"em_analise", "validado", "rejeitado"}
            /\ (s # "em_analise" => ~(DecisiveVotes(Tally(ballot)) < MIN_DECISIVE_VOTES))
        BY WorkflowFacts
      <3> HIDE DEF s, ballot
      <3>3. s \in Verdicts => DecisiveVotes(Tally(ballot)) >= MIN_DECISIVE_VOTES /\ s # "resolvido"
        BY <3>1, <3>2, ModerationAssumption DEF Verdicts
      <3> QED
        BY <2>1, <2>2, <3>3 DEF DraftJustified
    <2>5. \A i \in Incidents : HoldsRow(q, i)' => HoldsRow(q, i)
      BY <2>1 DEF HoldsRow, IncidentOf
    <2>6. draft'[q].tally = Tally(BallotAfter(q)')
      BY <2>2, <2>3
    <2> HIDE DEF s, ballot
    <2> QED
      BY <2>1, <2>4, <2>5, <2>6, QuietStep
  <1>4. ASSUME NEW q \in Requests, Photo(q) PROVE Settled'
    <2>1. /\ UNCHANGED tableVars /\ pc[q] = "work" /\ pc'[q] = "commit" /\ job' = job
          /\ job[q].kind = "photo"
          /\ \A p \in Requests \ {q} : pc'[p] = pc[p] /\ job'[p] = job[p] /\ draft'[p] = draft[p]
      BY <1>4 DEF Photo, Goto, TypeOK
    <2>2. IncidentOf(q) \in Incidents /\ row[IncidentOf(q)] \in Row
      BY JobFacts DEF IncidentOf, TypeOK
    <2>3. draft'[q].tally = row[IncidentOf(q)].tally /\ draft'[q].status = row[IncidentOf(q)].status
      BY <1>4, <2>2 DEF Photo, Row, TypeOK
    <2>4. BallotAfter(q)' = votes[IncidentOf(q)]
      BY <2>1 DEF BallotAfter, IncidentOf, tableVars
    <2>5. DraftJustified(q)'
      BY <2>1, <2>3 DEF DraftJustified, IncidentOf, tableVars
    <2>6. \A i \in Incidents : HoldsRow(q, i)' => HoldsRow(q, i)
      BY <2>1 DEF HoldsRow, IncidentOf
    <2>7. draft'[q].tally = Tally(BallotAfter(q)')
      BY <2>2, <2>3, <2>4 DEF Settled, CountsMatchVotes
    <2> QED
      BY <2>1, <2>5, <2>6, <2>7, QuietStep
  <1>5. ASSUME NEW q \in Requests, Review(q) PROVE Settled'
    <2>1. /\ UNCHANGED tableVars /\ pc[q] = "work" /\ job' = job /\ job[q].kind = "review"
          /\ \A p \in Requests \ {q} : pc'[p] = pc[p] /\ job'[p] = job[p] /\ draft'[p] = draft[p]
      BY <1>5 DEF Review, TurnTo, Goto, TypeOK
    <2>2. IncidentOf(q) \in Incidents /\ row[IncidentOf(q)] \in Row
      BY JobFacts DEF IncidentOf, TypeOK
    <2>3. draft'[q].tally = row[IncidentOf(q)].tally /\ draft'[q].status = job[q].choice
      BY <1>5, <2>2 DEF Review, Row, TypeOK
    <2>4. BallotAfter(q)' = votes[IncidentOf(q)]
      BY <2>1 DEF BallotAfter, IncidentOf, tableVars
    <2>5. DraftJustified(q)'
      BY <2>1, <2>3 DEF DraftJustified
    <2>6. \A i \in Incidents : HoldsRow(q, i)' => HoldsRow(q, i)
      BY <2>1 DEF HoldsRow, IncidentOf
    <2>7. draft'[q].tally = Tally(BallotAfter(q)')
      BY <2>2, <2>3, <2>4 DEF Settled, CountsMatchVotes
    <2> QED
      BY <2>1, <2>5, <2>6, <2>7, QuietStep
  <1>6. ASSUME NEW q \in Requests, Adjust(q) PROVE Settled'
    <2>1. /\ UNCHANGED tableVars /\ pc[q] = "adjust" /\ job' = job /\ draft' = draft
          /\ \A p \in Requests \ {q} : pc'[p] = pc[p]
      BY <1>6 DEF Adjust, TurnTo, Goto, TypeOK
    <2>2. BallotAfter(q)' = BallotAfter(q) /\ (DraftJustified(q) => DraftJustified(q)')
      BY <2>1 DEF BallotAfter, BallotWith, DraftJustified, IncidentOf, tableVars
    <2>3. draft'[q].tally = Tally(BallotAfter(q)') /\ DraftJustified(q)'
      BY <2>1, <2>2 DEF Settled, DraftRight
    <2>4. \A i \in Incidents : HoldsRow(q, i)' => HoldsRow(q, i)
      BY <2>1 DEF HoldsRow, IncidentOf
    <2> QED
      BY <2>1, <2>3, <2>4, QuietStep
  <1>7. ASSUME UNCHANGED vars PROVE Settled'
    BY <1>7 DEF vars, tableVars, requestVars, Settled, OneHolder, HoldsRow, IncidentOf,
       DraftRight, DraftJustified, BallotAfter, BallotWith, CountsMatchVotes, StatusJustified
  <1> QED
    BY <1>1, <1>2, <1>3, <1>4, <1>5, <1>6, <1>7, NextCases, CommitSettled, FinishSettled
    DEF Refuse, Rollback, DeadlockAbort

LEMMA SettledAlways == Spec => []SettledInv
  <1>1. SettledInv /\ [Next]_vars => SettledInv'
    BY StepTyped, StepSettled DEF SettledInv
  <1>2. Init => SettledInv
    BY InitTyped, InitSettled DEF SettledInv
  <1> QED
    BY <1>1, <1>2, PTL DEF Spec

\* The counts of an incident are those of its votes, however votes, reviews
\* and photos of it are committed concurrently, rolled back or aborted.
THEOREM CountsKept == Spec => []CountsMatchVotes
  <1>1. SettledInv => CountsMatchVotes
    BY DEF SettledInv, Settled
  <1> QED
    BY <1>1, SettledAlways, PTL

\* No verdict stands without the moderator who gave it or the minimum of
\* decisive votes.
THEOREM VerdictsJustified == Spec => []StatusJustified
  <1>1. SettledInv => StatusJustified
    BY DEF SettledInv, Settled
  <1> QED
    BY <1>1, SettledAlways, PTL

-----------------------------------------------------------------------------
(* Sums.  What MapThenSumSet computes, an element at a time, for every     *)
(* finite set: a set for which it were wrong would contain a least one.    *)

\* A finite set has a least element by inclusion in any set of its subsets.
LEMMA LeastSubset ==
    ASSUME NEW S, IsFiniteSet(S), NEW F \in SUBSET SUBSET S, F # {}
    PROVE  \E X \in F : \A Y \in F : Y \subseteq X => Y = X
  <1>1. IsWellFoundedOn(StrictSubsetOrdering(S), SUBSET S)
    BY FS_StrictSubsetOrderingWellFounded, FS_FiniteSubsetsOfFinite
  <1>2. PICK X \in F : \A Y \in F : <<Y, X>> \notin StrictSubsetOrdering(S)
    BY <1>1, WFMin
  <1> QED
    BY <1>2 DEF StrictSubsetOrdering

First(s) == CHOOSE x \in s : TRUE

\* g sums the weights of every subset of S, an element at a time.
Sums(g, S, w) ==
    g = [s \in SUBSET S |-> IF s = {} THEN 0 ELSE w[First(s)] + g[s \ {First(s)}]]

LEMMA WeightIsSum ==
    ASSUME NEW S, NEW w
    PROVE  Weight(S, w) = (CHOOSE g : Sums(g, S, w))[S]
  BY DEF Weight, MapThenSumSet, MapThenFoldSet, Sums, First

LEMMA SumsStep ==
    ASSUME NEW S, NEW w, NEW g, Sums(g, S, w), NEW s \in SUBSET S
    PROVE  /\ s = {} => g[s] = 0
           /\ s # {} => /\ First(s) \in s /\ s \ {First(s)} \in SUBSET S
                        /\ g[s] = w[First(s)] + g[s \ {First(s)}]
  <1> DEFINE h == [t \in SUBSET S |-> IF t = {} THEN 0 ELSE w[First(t)] + g[t \ {First(t)}]]
  <1>1. g = h
    BY DEF Sums
  <1>2. g[s] = h[s]
    BY <1>1
  <1>3. h[s] = IF s = {} THEN 0 ELSE w[First(s)] + g[s \ {First(s)}]
    OBVIOUS
  <1>4. s # {} => First(s) \in s
    BY DEF First
  <1> HIDE DEF h
  <1> QED
    BY <1>2, <1>3, <1>4

LEMMA SumsUnique ==
    ASSUME NEW S, NEW T, IsFiniteSet(S), T \subseteq S, NEW w, NEW g, NEW h,
           Sums(g, S, w), Sums(h, T, w)
    PROVE  \A s \in SUBSET T : g[s] = h[s]
  <1> DEFINE F == {s \in SUBSET T : g[s] # h[s]}
  <1> SUFFICES ASSUME F # {} PROVE FALSE
    OBVIOUS
  <1>1. IsFiniteSet(T)
    BY FS_Subset
  <1>0. F \in SUBSET SUBSET T
    OBVIOUS
  <1>2. PICK X \in F : \A Y \in F : Y \subseteq X => Y = X
    <2> HIDE DEF F
    <2> QED
      BY <1>0, <1>1, LeastSubset
  <1>3. X \in SUBSET T /\ X \in SUBSET S /\ g[X] # h[X]
    OBVIOUS
  <1>4. X # {}
    <2> HIDE DEF F
    <2>1. g[{}] = 0
      BY SumsStep
    <2>2. h[{}] = 0
      BY SumsStep
    <2> QED
      BY <1>3, <2>1, <2>2
  <1>5. First(X) \in X /\ X \ {First(X)} \in SUBSET T
    BY <1>3, <1>4, SumsStep
  <1>6. g[X \ {First(X)}] = h[X \ {First(X)}]
    BY <1>2, <1>5
  <1> HIDE DEF F
  <1> QED
    BY <1>3, <1>4, <1>6, SumsStep

LEMMA SumsExist ==
    ASSUME NEW S, IsFiniteSet(S), NEW w
    PROVE  \E g : Sums(g, S, w)
  <1> DEFINE F == {s \in SUBSET S : ~ \E g : Sums(g, s, w)}
  <1> SUFFICES ASSUME F # {} PROVE FALSE
    OBVIOUS
  <1>0. F \in SUBSET SUBSET S
    OBVIOUS
  <1>1. PICK X \in F : \A Y \in F : Y \subseteq X => Y = X
    <2> HIDE DEF F
    <2> QED
      BY <1>0, LeastSubset
  <1>2. X \in SUBSET S /\ ~ \E g : Sums(g, X, w)
    OBVIOUS
  <1> DEFINE part(s) == CHOOSE g : Sums(g, s, w)
             before(s) == part(s \ {First(s)})[s \ {First(s)}]
             total == [s \in SUBSET X |-> IF s = {} THEN 0 ELSE w[First(s)] + before(s)]
  <1>3. ASSUME NEW s \in SUBSET X, s # X PROVE Sums(part(s), s, w)
    <2>1. \E g : Sums(g, s, w)
      BY <1>1, <1>2, <1>3
    <2> QED
      BY <2>1
  <1>4. ASSUME NEW s \in SUBSET X, s # X PROVE total[s] = part(s)[s]
    <2>1. Sums(part(s), s, w)
      BY <1>3, <1>4
    <2>2. total[s] = IF s = {} THEN 0 ELSE w[First(s)] + before(s)
      OBVIOUS
    <2>3. CASE s = {}
      <3> HIDE DEF part, total
      <3> QED
        BY <2>1, <2>2, <2>3, SumsStep
    <2>4. CASE s # {}
      <3> DEFINE r == s \ {First(s)}
      <3>1. First(s) \in s /\ r \subseteq s /\ r # X
        BY <1>4, <2>4 DEF First
      <3>2. Sums(part(r), r, w)
        BY <1>3, <3>1
      <3>3. IsFiniteSet(s)
        BY <1>2, FS_Subset
      <3>4. before(s) = part(r)[r]
        OBVIOUS
      <3> HIDE DEF part, total, before, r
      <3>5. part(s)[r] = part(r)[r]
        BY <2>1, <3>1, <3>2, <3>3, SumsUnique
      <3>6. part(s)[s] = w[First(s)] + part(s)[s \ {First(s)}]
        BY <2>1, <2>4, SumsStep
      <3> QED
        BY <2>2, <2>4, <3>4, <3>5, <3>6 DEF r
    <2> QED
      BY <2>3, <2>4
  <1>5. ASSUME NEW s \in SUBSET X, s # {} PROVE total[s \ {First(s)}] = before(s)
    <2>1. First(s) \in s
      BY <1>5 DEF First
    <2>2. s \ {First(s)} \in SUBSET X /\ s \ {First(s)} # X
      BY <2>1
    <2> QED
      BY <1>4, <2>2
  <1> HIDE DEF before
  <1>6. total = [s \in SUBSET X |-> IF s = {} THEN 0 ELSE w[First(s)] + total[s \ {First(s)}]]
    BY <1>5
  <1> HIDE DEF total
  <1>7. Sums(total, X, w)
    BY <1>6 DEF Sums
  <1> QED
    BY <1>2, <1>7

\* The sum over a finite set: nothing, or the weight of its first element and
\* the sum over the others.
LEMMA WeightStep ==
    ASSUME NEW S, IsFiniteSet(S), NEW w
    PROVE  /\ S = {} => Weight(S, w) = 0
           /\ S # {} => /\ First(S) \in S
                        /\ Weight(S, w) = w[First(S)] + Weight(S \ {First(S)}, w)
  <1> DEFINE g == CHOOSE g : Sums(g, S, w)
             R == S \ {First(S)}
             h == CHOOSE h : Sums(h, R, w)
  <1>1. Sums(g, S, w) /\ Weight(S, w) = g[S]
    BY SumsExist, WeightIsSum
  <1>2. IsFiniteSet(R)
    BY FS_Subset
  <1>3. Sums(h, R, w) /\ Weight(R, w) = h[R]
    BY <1>2, SumsExist, WeightIsSum
  <1> HIDE DEF g, h
  <1>4. g[R] = h[R]
    BY <1>1, <1>3, SumsUnique
  <1> QED
    BY <1>1, <1>3, <1>4, SumsStep

LEMMA WeightTyped ==
    ASSUME NEW S, IsFiniteSet(S), NEW w, \A x \in S : w[x] \in Int
    PROVE  Weight(S, w) \in Int
  <1> DEFINE F == {s \in SUBSET S : Weight(s, w) \notin Int}
  <1> SUFFICES ASSUME F # {} PROVE FALSE
    OBVIOUS
  <1>0. F \in SUBSET SUBSET S
    OBVIOUS
  <1>1. PICK X \in F : \A Y \in F : Y \subseteq X => Y = X
    <2> HIDE DEF F
    <2> QED
      BY <1>0, LeastSubset
  <1>2. X \in SUBSET S /\ Weight(X, w) \notin Int /\ IsFiniteSet(X)
    BY FS_Subset
  <1>3. /\ X = {} => Weight(X, w) = 0
        /\ X # {} => /\ First(X) \in X
                     /\ Weight(X, w) = w[First(X)] + Weight(X \ {First(X)}, w)
    <2> HIDE DEF F
    <2> QED
      BY <1>2, WeightStep
  <1>4. X # {}
    <2> HIDE DEF F
    <2> QED
      BY <1>2, <1>3
  <1>5. Weight(X \ {First(X)}, w) \in Int
    BY <1>1, <1>2, <1>3, <1>4
  <1>6. w[First(X)] \in Int
    BY <1>2, <1>3, <1>4
  <1>7. \A a, b \in Int : a + b \in Int
    OBVIOUS
  <1> HIDE DEF F
  <1> QED
    BY <1>2, <1>3, <1>4, <1>5, <1>6, <1>7

\* The order of the elements does not matter.
LEMMA WeightRemove ==
    ASSUME NEW S, IsFiniteSet(S), NEW w, \A x \in S : w[x] \in Int, NEW x \in S
    PROVE  Weight(S, w) = w[x] + Weight(S \ {x}, w)
  <1> DEFINE F == {s \in SUBSET S : \E y \in s : Weight(s, w) # w[y] + Weight(s \ {y}, w)}
  <1> SUFFICES ASSUME F # {} PROVE FALSE
    OBVIOUS
  <1>0. F \in SUBSET SUBSET S
    OBVIOUS
  <1>1. PICK X \in F : \A Y \in F : Y \subseteq X => Y = X
    <2> HIDE DEF F
    <2> QED
      BY <1>0, LeastSubset
  <1>2. PICK y \in X : Weight(X, w) # w[y] + Weight(X \ {y}, w)
    OBVIOUS
  <1> DEFINE z == First(X)
  <1>3. X \in SUBSET S /\ IsFiniteSet(X)
    BY FS_Subset
  <1>4. z \in X /\ Weight(X, w) = w[z] + Weight(X \ {z}, w)
    BY <1>2, <1>3, WeightStep
  <1>5. y # z
    BY <1>2, <1>4
  <1>6. X \ {z} \in SUBSET S /\ X \ {y} \in SUBSET S /\ X \ {z} # X /\ X \ {y} # X
    BY <1>3, <1>4
  <1>7. X \ {z} \notin F /\ X \ {y} \notin F
    BY <1>1, <1>6
  <1>8. Weight(X \ {z}, w) = w[y] + Weight((X \ {z}) \ {y}, w)
    BY <1>5, <1>6, <1>7
  <1>9. Weight(X \ {y}, w) = w[z] + Weight((X \ {y}) \ {z}, w)
    BY <1>4, <1>5, <1>6, <1>7
  <1> HIDE DEF F, z
  <1>10. (X \ {y}) \ {z} = (X \ {z}) \ {y}
    OBVIOUS
  <1>11. w[y] \in Int /\ w[z] \in Int /\ Weight((X \ {z}) \ {y}, w) \in Int
    <2>1. (X \ {z}) \ {y} \subseteq S
      BY <1>3
    <2>2. IsFiniteSet((X \ {z}) \ {y})
      BY <2>1, FS_Subset
    <2>3. \A u \in (X \ {z}) \ {y} : w[u] \in Int
      BY <2>1
    <2>4. y \in S /\ z \in S
      BY <1>3, <1>4
    <2> QED
      BY <2>2, <2>3, <2>4, WeightTyped
  <1>12. \A a, b, c \in Int : a + (b + c) = b + (a + c)
    OBVIOUS
  <1>13. Weight(X, w) = w[z] + (w[y] + Weight((X \ {z}) \ {y}, w))
    BY <1>4, <1>8
  <1>14. w[y] + Weight(X \ {y}, w) = w[y] + (w[z] + Weight((X \ {z}) \ {y}, w))
    BY <1>9, <1>10
  <1> QED
    BY <1>2, <1>11, <1>12, <1>13, <1>14

LEMMA WeightAdd ==
    ASSUME NEW S, IsFiniteSet(S), NEW w, NEW x, x \notin S,
           \A y \in S \cup {x} : w[y] \in Int
    PROVE  Weight(S \cup {x}, w) = w[x] + Weight(S, w)
  <1>1. IsFiniteSet(S \cup {x}) /\ (S \cup {x}) \ {x} = S
    BY FS_AddElement
  <1> QED
    BY <1>1, WeightRemove

LEMMA WeightNat ==
    ASSUME NEW S, IsFiniteSet(S), NEW w, \A x \in S : w[x] \in Nat
    PROVE  Weight(S, w) \in Nat
  <1> DEFINE F == {s \in SUBSET S : Weight(s, w) \notin Nat}
  <1> SUFFICES ASSUME F # {} PROVE FALSE
    OBVIOUS
  <1>0. F \in SUBSET SUBSET S
    OBVIOUS
  <1>1. PICK X \in F : \A Y \in F : Y \subseteq X => Y = X
    <2> HIDE DEF F
    <2> QED
      BY <1>0, LeastSubset
  <1>2. X \in SUBSET S /\ Weight(X, w) \notin Nat /\ IsFiniteSet(X)
    BY FS_Subset
  <1>3. /\ X = {} => Weight(X, w) = 0
        /\ X # {} => /\ First(X) \in X
                     /\ Weight(X, w) = w[First(X)] + Weight(X \ {First(X)}, w)
    <2> HIDE DEF F
    <2> QED
      BY <1>2, WeightStep
  <1>4. X # {}
    <2> HIDE DEF F
    <2> QED
      BY <1>2, <1>3
  <1>5. Weight(X \ {First(X)}, w) \in Nat
    BY <1>1, <1>2, <1>3, <1>4
  <1>6. w[First(X)] \in Nat
    BY <1>2, <1>3, <1>4
  <1>7. \A a, b \in Nat : a + b \in Nat
    OBVIOUS
  <1> HIDE DEF F
  <1> QED
    BY <1>2, <1>3, <1>4, <1>5, <1>6, <1>7

-----------------------------------------------------------------------------
(* Trust.  A review that holds the row of its incident has locked, and has *)
(* still to lock, only voters with no adjustment for that incident: nobody *)
(* else can add one.  Its commit adds one adjustment for each and moves    *)
(* their trust by it.                                                      *)

Gain == [a \in Adjustment |-> a.delta]
Loss == [a \in Adjustment |-> -a.delta]
Ups(u) == {a \in adjustments : a.user = u /\ a.delta > 0}
Downs(u) == {a \in adjustments : a.user = u /\ a.delta < 0}

LEMMA GainsAreUps ==
    ASSUME NEW u
    PROVE  GainsOf(u) = Weight(Ups(u), Gain) /\ LossesOf(u) = Weight(Downs(u), Loss)
  BY DEF GainsOf, LossesOf, Ups, Downs, Gain, Loss

OneEach == \A a, b \in adjustments : a.incident = b.incident /\ a.user = b.user => a = b

NotYetAdjusted ==
    \A q \in Requests :
        /\ pc[q] \in {"idle", "lock", "work"} => claimed[q] = {} /\ todo[q] = {}
        /\ pc[q] = "adjust" => want[q] \in todo[q]
        /\ \A a \in adjustments :
             a.incident = IncidentOf(q) => a.user \notin claimed[q] \cup todo[q]

\* The second half of TrustAccounted, in numbers: what trust t is, with gains
\* g and losses l since it was t0.
Accounts(t0, g, l, t) ==
    /\ t <= t0 + g /\ t >= t0 - l
    /\ t0 + g <= 100 /\ t0 - l >= 0 => t = t0 + g - l

TrustOf(u) == Accounts(InitialTrust[u], GainsOf(u), LossesOf(u), trust[u])

Trusted == IsFiniteSet(adjustments) /\ OneEach /\ NotYetAdjusted /\ \A u \in Users : TrustOf(u)

LEMMA AccountsClamped ==
    ASSUME NEW t0 \in 0..100, NEW t \in 0..100, NEW g \in Nat, NEW l \in Nat,
           Accounts(t0, g, l, t)
    PROVE  /\ Accounts(t0, g + 2, l, Clamped(t + 2, 100))
           /\ Accounts(t0, g, l + 3, Clamped(t + (-3), 100))
           /\ Accounts(t0, g, l, Clamped(t + 0, 100))
  BY DEF Accounts, Clamped, Smaller

\* The adjustments of a voter are finitely many and sum up to naturals.
LEMMA GainsTyped ==
    ASSUME TypeOK, IsFiniteSet(adjustments), NEW u
    PROVE  /\ IsFiniteSet(Ups(u)) /\ IsFiniteSet(Downs(u))
           /\ GainsOf(u) \in Nat /\ LossesOf(u) \in Nat
  <1>1. Ups(u) \subseteq adjustments /\ Downs(u) \subseteq adjustments
    BY DEF Ups, Downs
  <1>2. IsFiniteSet(Ups(u)) /\ IsFiniteSet(Downs(u))
    BY <1>1, FS_Subset
  <1>3. \A a \in Adjustment : Gain[a] = a.delta /\ Loss[a] = -a.delta /\ a.delta \in Deltas
    BY DEF Gain, Loss, Adjustment
  <1>4. \A d \in Deltas : (d > 0 => d \in Nat) /\ (d < 0 => -d \in Nat)
    BY DEF Deltas
  <1>5. adjustments \subseteq Adjustment
    BY DEF TypeOK
  <1>6. (\A a \in Ups(u) : Gain[a] \in Nat) /\ (\A a \in Downs(u) : Loss[a] \in Nat)
    BY <1>1, <1>3, <1>4, <1>5 DEF Ups, Downs
  <1>7. Weight(Ups(u), Gain) \in Nat
    BY <1>2, <1>6, WeightNat
  <1>8. Weight(Downs(u), Loss) \in Nat
    BY <1>2, <1>6, WeightNat
  <1> QED
    BY <1>2, <1>7, <1>8, GainsAreUps

LEMMA InitTrusted == Init => Trusted
  <1> SUFFICES ASSUME Init PROVE Trusted
    OBVIOUS
  <1>1. adjustments = {} /\ trust = InitialTrust /\ TypeOK
    BY InitTyped DEF Init
  <1>2. IsFiniteSet(adjustments) /\ OneEach
    BY <1>1, FS_EmptySet DEF OneEach
  <1>3. NotYetAdjusted
    BY <1>1 DEF Init, NotYetAdjusted
  <1>4. ASSUME NEW u \in Users PROVE TrustOf(u)
    <2>1. Ups(u) = {} /\ Downs(u) = {}
      BY <1>1 DEF Ups, Downs
    <2>2. Weight({}, Gain) = 0 /\ Weight({}, Loss) = 0
      <3>1. Weight({}, Gain) = 0
        BY FS_EmptySet, WeightStep
      <3>2. Weight({}, Loss) = 0
        BY FS_EmptySet, WeightStep
      <3> QED
        BY <3>1, <3>2
    <2>3. GainsOf(u) = 0 /\ LossesOf(u) = 0
      BY <2>1, <2>2, GainsAreUps
    <2>4. InitialTrust[u] \in Nat
      BY ModerationAssumption
    <2> QED
      BY <1>1, <2>3, <2>4 DEF TrustOf, Accounts
  <1> QED
    BY <1>2, <1>3, <1>4 DEF Trusted

\* What a commit adds to the adjustments of a voter it has locked, or not.
LEMMA CommitAdjusts ==
    ASSUME TypeOK, Trusted, NEW q \in Requests, Commit(q), NEW u \in Users,
           NEW d, d = Delta(votes[IncidentOf(q)][u], job[q].choice),
           NEW n, n = [incident |-> IncidentOf(q), user |-> u, delta |-> d]
    PROVE  /\ n \in Adjustment /\ d \in Deltas /\ n.delta = d
           /\ u \in claimed[q] => n \notin adjustments
           /\ Ups(u)' = IF u \in claimed[q] /\ d > 0 THEN Ups(u) \cup {n} ELSE Ups(u)
           /\ Downs(u)' = IF u \in claimed[q] /\ d < 0 THEN Downs(u) \cup {n} ELSE Downs(u)
  <1> DEFINE i == IncidentOf(q)
             delta == [v \in Users |-> Delta(votes[i][v], job[q].choice)]
             new(v) == [incident |-> i, user |-> v, delta |-> delta[v]]
  <1>1. i \in Incidents
    BY JobFacts DEF TypeOK, IncidentOf
  <1>2. d \in Deltas
    BY DEF Delta, Deltas
  <1>3. adjustments' = adjustments \cup {new(v) : v \in claimed[q]}
    BY DEF Commit
  <1>4. \A v : new(v).user = v
    OBVIOUS
  <1>5. delta[u] = d /\ new(u) = n /\ n.user = u /\ n.delta = d /\ n.incident = i
    OBVIOUS
  <1>6. u \in claimed[q] => n \notin adjustments
    BY <1>5 DEF Trusted, NotYetAdjusted
  <1>7. n \in Adjustment
    BY <1>1, <1>2 DEF Adjustment
  <1> HIDE DEF i, delta, new
  <1>8. \A a : a \in adjustments' <=> a \in adjustments \/ \E v \in claimed[q] : a = new(v)
    BY <1>3
  <1>9. \A a : a \in adjustments' /\ a.user = u
               <=> (a \in adjustments /\ a.user = u) \/ (u \in claimed[q] /\ a = n)
    BY <1>4, <1>5, <1>8
  <1>10. Ups(u)' = IF u \in claimed[q] /\ d > 0 THEN Ups(u) \cup {n} ELSE Ups(u)
    BY <1>5, <1>9 DEF Ups
  <1>11. Downs(u)' = IF u \in claimed[q] /\ d < 0 THEN Downs(u) \cup {n} ELSE Downs(u)
    BY <1>5, <1>9 DEF Downs
  <1> QED
    BY <1>2, <1>5, <1>6, <1>7, <1>10, <1>11

LEMMA CommitTrusts ==
    ASSUME TypeOK, Trusted, NEW q \in Requests, Commit(q), NEW u \in Users
    PROVE  TrustOf(u)'
  <1> DEFINE d == Delta(votes[IncidentOf(q)][u], job[q].choice)
             n == [incident |-> IncidentOf(q), user |-> u, delta |-> d]
  <1>1. /\ n \in Adjustment /\ d \in Deltas /\ n.delta = d
        /\ u \in claimed[q] => n \notin adjustments
        /\ Ups(u)' = IF u \in claimed[q] /\ d > 0 THEN Ups(u) \cup {n} ELSE Ups(u)
        /\ Downs(u)' = IF u \in claimed[q] /\ d < 0 THEN Downs(u) \cup {n} ELSE Downs(u)
    BY CommitAdjusts
  <1>2. trust'[u] = IF u \in claimed[q] THEN Clamped(trust[u] + d, 100) ELSE trust[u]
    BY DEF Commit
  <1> HIDE DEF d, n
  <1>3. /\ IsFiniteSet(Ups(u)) /\ IsFiniteSet(Downs(u))
        /\ GainsOf(u) \in Nat /\ LossesOf(u) \in Nat
    BY GainsTyped DEF Trusted
  <1>4. /\ GainsOf(u) = Weight(Ups(u), Gain) /\ LossesOf(u) = Weight(Downs(u), Loss)
        /\ GainsOf(u)' = Weight(Ups(u)', Gain) /\ LossesOf(u)' = Weight(Downs(u)', Loss)
    BY DEF GainsOf, LossesOf, Ups, Downs, Gain, Loss
  <1>5. Gain[n] = d /\ Loss[n] = -d
    BY <1>1 DEF Gain, Loss
  <1>6. /\ \A a \in Ups(u) : Gain[a] \in Int
        /\ \A a \in Downs(u) : Loss[a] \in Int
    <2>1. \A a \in Adjustment : Gain[a] = a.delta /\ Loss[a] = -a.delta /\ a.delta \in Deltas
      BY DEF Gain, Loss, Adjustment
    <2>2. \A e \in Deltas : e \in Int /\ -e \in Int
      BY DEF Deltas
    <2>3. Ups(u) \subseteq Adjustment /\ Downs(u) \subseteq Adjustment
      BY DEF Ups, Downs, TypeOK
    <2> QED
      BY <2>1, <2>2, <2>3
  <1>7. InitialTrust[u] \in 0..100 /\ trust[u] \in 0..100
    BY ModerationAssumption DEF TypeOK
  <1>8. Accounts(InitialTrust[u], GainsOf(u), LossesOf(u), trust[u])
    BY DEF Trusted, TrustOf
  <1>9. TrustOf(u)' <=> Accounts(InitialTrust[u], GainsOf(u)', LossesOf(u)', trust'[u])
    BY DEF TrustOf
  <1>10. d = 2 \/ d = -3 \/ d = 0
    BY <1>1 DEF Deltas
  <1>11. CASE u \notin claimed[q]
    <2>1. Ups(u)' = Ups(u) /\ Downs(u)' = Downs(u) /\ trust'[u] = trust[u]
      BY <1>1, <1>2, <1>11
    <2>2. GainsOf(u)' = GainsOf(u) /\ LossesOf(u)' = LossesOf(u)
      BY <1>4, <2>1
    <2> QED
      BY <1>8, <1>9, <2>1, <2>2
  <1>12. CASE u \in claimed[q] /\ d = 2
    <2>1. Ups(u)' = Ups(u) \cup {n} /\ Downs(u)' = Downs(u) /\ n \notin Ups(u)
      BY <1>1, <1>12 DEF Ups
    <2>2. \A a \in Ups(u) \cup {n} : Gain[a] \in Int
      BY <1>5, <1>6, <1>12
    <2>3. Weight(Ups(u) \cup {n}, Gain) = 2 + Weight(Ups(u), Gain)
      BY <1>3, <1>5, <1>12, <2>1, <2>2, WeightAdd
    <2>4. GainsOf(u)' = GainsOf(u) + 2 /\ LossesOf(u)' = LossesOf(u)
      BY <1>3, <1>4, <2>1, <2>3
    <2>5. trust'[u] = Clamped(trust[u] + 2, 100)
      BY <1>2, <1>12
    <2> QED
      BY <1>3, <1>7, <1>8, <1>9, <2>4, <2>5, AccountsClamped
  <1>13. CASE u \in claimed[q] /\ d = -3
    <2>1. Downs(u)' = Downs(u) \cup {n} /\ Ups(u)' = Ups(u) /\ n \notin Downs(u)
      BY <1>1, <1>13 DEF Downs
    <2>2. Loss[n] = 3
      <3>1. \A x \in Int : x + 3 = 0 => -x = 3
        OBVIOUS
      <3>2. d \in Int /\ d + 3 = 0
        BY <1>13
      <3> QED
        BY <1>5, <3>1, <3>2
    <2>3. \A a \in Downs(u) \cup {n} : Loss[a] \in Int
      BY <1>6, <2>2
    <2>4. Weight(Downs(u) \cup {n}, Loss) = 3 + Weight(Downs(u), Loss)
      BY <1>3, <2>1, <2>2, <2>3, WeightAdd
    <2>5. GainsOf(u)' = GainsOf(u) /\ LossesOf(u)' = LossesOf(u) + 3
      BY <1>3, <1>4, <2>1, <2>4
    <2>6. trust'[u] = Clamped(trust[u] + (-3), 100)
      BY <1>2, <1>13
    <2> QED
      BY <1>3, <1>7, <1>8, <1>9, <2>5, <2>6, AccountsClamped
  <1>14. CASE u \in claimed[q] /\ d = 0
    <2>1. Ups(u)' = Ups(u) /\ Downs(u)' = Downs(u) /\ trust'[u] = Clamped(trust[u] + 0, 100)
      BY <1>1, <1>2, <1>14
    <2>2. GainsOf(u)' = GainsOf(u) /\ LossesOf(u)' = LossesOf(u)
      BY <1>4, <2>1
    <2>3. Accounts(InitialTrust[u], GainsOf(u), LossesOf(u), Clamped(trust[u] + 0, 100))
      BY <1>3, <1>7, <1>8, AccountsClamped
    <2> QED
      BY <1>9, <2>1, <2>2, <2>3
  <1> QED
    BY <1>10, <1>11, <1>12, <1>13, <1>14

LEMMA CommitTrusted == ASSUME SettledInv, Trusted, NEW q \in Requests, Commit(q) PROVE Trusted'
  <1> DEFINE i == IncidentOf(q)
             delta == [v \in Users |-> Delta(votes[i][v], job[q].choice)]
             new(v) == [incident |-> i, user |-> v, delta |-> delta[v]]
  <1> USE DEF SettledInv
  <1>1. i \in Incidents /\ claimed[q] \in SUBSET Users /\ pc[q] = "commit"
    BY JobFacts DEF TypeOK, IncidentOf, Commit
  <1>2. adjustments' = adjustments \cup {new(v) : v \in claimed[q]}
    BY DEF Commit
  <1>3. \A v : new(v).user = v /\ new(v).incident = i
    OBVIOUS
  <1>4. /\ pc' = [pc EXCEPT ![q] = "idle"] /\ job' = job
        /\ todo' = [todo EXCEPT ![q] = {}] /\ claimed' = [claimed EXCEPT ![q] = {}]
        /\ want' = [want EXCEPT ![q] = NoUser]
    BY DEF Commit, Finish, Goto
  <1> HIDE DEF new, delta
  <1>5. IsFiniteSet(adjustments')
    <2>1. IsFiniteSet(claimed[q])
      BY <1>1, ModerationAssumption, FS_Subset
    <2>2. IsFiniteSet({new(v) : v \in claimed[q]})
      <3> DEFINE N == {new(v) : v \in claimed[q]}
                 f == [v \in claimed[q] |-> new(v)]
      <3>1. f \in Surjection(claimed[q], N)
        BY DEF Surjection
      <3> HIDE DEF f
      <3> QED
        BY <2>1, <3>1, FS_Surjection
    <2> QED
      BY <1>2, <2>2, FS_Union DEF Trusted
  <1>6. OneEach'
    <2> SUFFICES ASSUME NEW a \in adjustments', NEW b \in adjustments',
                        a.incident = b.incident, a.user = b.user
                 PROVE  a = b
      BY DEF OneEach
    <2>1. \A c \in adjustments' : 
            c \in adjustments \/ (c.user \in claimed[q] /\ c = new(c.user))
      <3> SUFFICES ASSUME NEW c \in adjustments', c \notin adjustments
                   PROVE  c.user \in claimed[q] /\ c = new(c.user)
        OBVIOUS
      <3>1. PICK v \in claimed[q] : c = new(v)
        BY <1>2
      <3> QED
        BY <1>3, <3>1
    <2>2. \A c \in adjustments : c.incident = i => c.user \notin claimed[q]
      BY DEF Trusted, NotYetAdjusted
    <2>3. CASE a \in adjustments /\ b \in adjustments
      BY <2>3 DEF Trusted, OneEach
    <2>4. CASE a \notin adjustments /\ b \notin adjustments
      BY <2>1, <2>4
    <2>5. CASE a \in adjustments /\ b \notin adjustments
      BY <1>3, <2>1, <2>2, <2>5
    <2>6. CASE a \notin adjustments /\ b \in adjustments
      BY <1>3, <2>1, <2>2, <2>6
    <2> QED
      BY <2>3, <2>4, <2>5, <2>6
  <1>7. NotYetAdjusted'
    <2> SUFFICES ASSUME NEW p \in Requests
                 PROVE  /\ pc'[p] \in {"idle", "lock", "work"} => claimed'[p] = {} /\ todo'[p] = {}
                        /\ pc'[p] = "adjust" => want'[p] \in todo'[p]
                        /\ \A a \in adjustments' :
                             a.incident = IncidentOf(p)' => a.user \notin claimed'[p] \cup todo'[p]
      BY DEF NotYetAdjusted
    <2>1. CASE p = q
      <3>1. pc'[p] = "idle" /\ claimed'[p] = {} /\ todo'[p] = {}
        BY <1>4, <2>1 DEF TypeOK
      <3> QED
        BY <3>1
    <2>2. CASE p # q
      <3>1. /\ pc'[p] = pc[p] /\ claimed'[p] = claimed[p] /\ todo'[p] = todo[p]
            /\ want'[p] = want[p] /\ IncidentOf(p)' = IncidentOf(p)
        BY <1>4, <2>2 DEF TypeOK, IncidentOf
      <3>2. CASE pc[p] \in {"idle", "lock", "work"}
        BY <3>1, <3>2 DEF Trusted, NotYetAdjusted
      <3>3. CASE pc[p] \notin {"idle", "lock", "work"}
        <4>1. pc[p] \in {"adjust", "commit"}
          BY <3>3 DEF TypeOK
        <4>2. IncidentOf(p) # i
          BY <1>1, <2>2, <4>1 DEF Settled, OneHolder, HoldsRow
        <4>3. \A a \in adjustments' : a.incident = IncidentOf(p) => a \in adjustments
          BY <1>2, <1>3, <4>2
        <4>4. /\ pc[p] = "adjust" => want[p] \in todo[p]
              /\ \A a \in adjustments :
                   a.incident = IncidentOf(p) => a.user \notin claimed[p] \cup todo[p]
          BY DEF Trusted, NotYetAdjusted
        <4> QED
          BY <3>1, <3>3, <4>3, <4>4
      <3> QED
        BY <3>2, <3>3
    <2> QED
      BY <2>1, <2>2
  <1> QED
    BY <1>5, <1>6, <1>7, CommitTrusts DEF Trusted

\* A step that adjusts nothing keeps the accounts, and NotYetAdjusted if its
\* request keeps its part of it.
LEMMA QuietTrusted ==
    ASSUME TypeOK, Trusted, NEW q \in Requests, UNCHANGED <<adjustments, trust>>,
           \A p \in Requests \ {q} :
             /\ pc'[p] = pc[p] /\ job'[p] = job[p]
             /\ claimed'[p] = claimed[p] /\ todo'[p] = todo[p] /\ want'[p] = want[p],
           pc'[q] \in {"idle", "lock", "work"} => claimed'[q] = {} /\ todo'[q] = {},
           pc'[q] = "adjust" => want'[q] \in todo'[q],
           \A a \in adjustments :
             a.incident = IncidentOf(q)' => a.user \notin claimed'[q] \cup todo'[q]
    PROVE  Trusted'
  <1>1. NotYetAdjusted'
    <2> SUFFICES ASSUME NEW p \in Requests
                 PROVE  /\ pc'[p] \in {"idle", "lock", "work"} => claimed'[p] = {} /\ todo'[p] = {}
                        /\ pc'[p] = "adjust" => want'[p] \in todo'[p]
                        /\ \A a \in adjustments' :
                             a.incident = IncidentOf(p)' => a.user \notin claimed'[p] \cup todo'[p]
      BY DEF NotYetAdjusted
    <2>1. CASE p = q
      BY <2>1
    <2>2. CASE p # q
      <3>1. IncidentOf(p)' = IncidentOf(p)
        BY <2>2 DEF IncidentOf
      <3> QED
        BY <2>2, <3>1 DEF Trusted, NotYetAdjusted
    <2> QED
      BY <2>1, <2>2
  <1>2. ASSUME NEW u \in Users PROVE TrustOf(u)'
    <2>1. TrustOf(u)
      BY DEF Trusted
    <2> QED
      BY <2>1 DEF TrustOf, GainsOf, LossesOf
  <1> QED
    BY <1>1, <1>2 DEF Trusted, OneEach

LEMMA FinishTrusted ==
    ASSUME TypeOK, Trusted, NEW q \in Requests, Finish(q), UNCHANGED tableVars
    PROVE  Trusted'
  <1>1. /\ pc'[q] = "idle" /\ claimed'[q] = {} /\ todo'[q] = {}
        /\ \A p \in Requests \ {q} :
             /\ pc'[p] = pc[p] /\ job'[p] = job[p]
             /\ claimed'[p] = claimed[p] /\ todo'[p] = todo[p] /\ want'[p] = want[p]
    BY DEF Finish, Goto, TypeOK
  <1> QED
    BY <1>1, QuietTrusted DEF tableVars

\* The voters a review turns to are among those it may adjust.
LEMMA TurnTrusted ==
    ASSUME TypeOK, Trusted, NEW q \in Requests, NEW S \in SUBSET Users, TurnTo(q, S),
           UNCHANGED <<adjustments, trust, job>>,
           \A p \in Requests \ {q} : claimed'[p] = claimed[p],
           \A a \in adjustments : a.incident = IncidentOf(q) => a.user \notin claimed'[q] \cup S
    PROVE  Trusted'
  <1>1. /\ \A p \in Requests \ {q} :
             pc'[p] = pc[p] /\ todo'[p] = todo[p] /\ want'[p] = want[p]
        /\ todo'[q] = S /\ pc'[q] \in {"adjust", "commit"}
    BY DEF TurnTo, Goto, TypeOK
  <1>2. pc'[q] = "adjust" => want'[q] \in S
    <2>1. CASE S = {}
      BY <2>1 DEF TurnTo, Goto, TypeOK
    <2>2. CASE S # {}
      <3>1. PICK u \in S : want' = [want EXCEPT ![q] = u]
        BY <2>2 DEF TurnTo
      <3> QED
        BY <3>1 DEF TypeOK
    <2> QED
      BY <2>1, <2>2
  <1>3. IncidentOf(q)' = IncidentOf(q)
    BY DEF IncidentOf
  <1> QED
    BY <1>1, <1>2, <1>3, QuietTrusted

LEMMA StepTrusted == SettledInv /\ Trusted /\ [Next]_vars => Trusted'
  <1> SUFFICES ASSUME SettledInv, Trusted, [Next]_vars PROVE Trusted'
    OBVIOUS
  <1>0. TypeOK
    BY DEF SettledInv
  <1>1. ASSUME NEW q \in Requests, NEW j \in Job, Begin(q, j) PROVE Trusted'
    <2>1. claimed[q] = {} /\ todo[q] = {}
      BY <1>1 DEF Begin, Trusted, NotYetAdjusted
    <2>2. /\ UNCHANGED <<adjustments, trust, claimed, todo, want>> /\ pc'[q] = "lock"
          /\ \A p \in Requests \ {q} : pc'[p] = pc[p] /\ job'[p] = job[p]
      BY <1>0, <1>1 DEF Begin, Goto, TypeOK, tableVars
    <2> QED
      BY <1>0, <2>1, <2>2, QuietTrusted
  <1>2. ASSUME NEW q \in Requests, LockRow(q) PROVE Trusted'
    <2>1. claimed[q] = {} /\ todo[q] = {}
      BY <1>2 DEF LockRow, Trusted, NotYetAdjusted
    <2>2. /\ UNCHANGED <<adjustments, trust, claimed, todo, want, job>> /\ pc'[q] = "work"
          /\ \A p \in Requests \ {q} : pc'[p] = pc[p]
      BY <1>0, <1>2 DEF LockRow, Goto, TypeOK, tableVars
    <2> QED
      BY <1>0, <2>1, <2>2, QuietTrusted
  <1>3. ASSUME NEW q \in Requests, Vote(q) \/ Photo(q) PROVE Trusted'
    <2>1. claimed[q] = {} /\ todo[q] = {}
      BY <1>3 DEF Vote, Photo, Trusted, NotYetAdjusted
    <2>2. /\ UNCHANGED <<adjustments, trust, claimed, todo, want, job>> /\ pc'[q] = "commit"
          /\ \A p \in Requests \ {q} : pc'[p] = pc[p]
      BY <1>0, <1>3 DEF Vote, Photo, Goto, TypeOK, tableVars
    <2> QED
      BY <1>0, <2>1, <2>2, QuietTrusted
  <1>4. ASSUME NEW q \in Requests, Review(q) PROVE Trusted'
    <2> DEFINE S == IF Final(job[q].choice) THEN Unadjusted(IncidentOf(q)) ELSE {}
    <2>1. claimed[q] = {}
      BY <1>4 DEF Review, Trusted, NotYetAdjusted
    <2>2. UNCHANGED <<adjustments, trust, claimed, job>> /\ TurnTo(q, S)
      BY <1>4 DEF Review, tableVars
    <2>3. S \in SUBSET Users
      BY DEF Unadjusted, VotersOf
    <2>4. \A a \in adjustments : a.incident = IncidentOf(q) => a.user \notin S
      BY DEF Unadjusted
    <2> HIDE DEF S
    <2> QED
      BY <1>0, <2>1, <2>2, <2>3, <2>4, TurnTrusted
  <1>5. ASSUME NEW q \in Requests, Adjust(q) PROVE Trusted'
    <2>1. /\ UNCHANGED <<adjustments, trust, job>> /\ TurnTo(q, todo[q] \ {want[q]})
          /\ claimed' = [claimed EXCEPT ![q] = @ \cup {want[q]}]
          /\ pc[q] = "adjust"
      BY <1>5 DEF Adjust, tableVars
    <2>2. /\ claimed'[q] = claimed[q] \cup {want[q]}
          /\ \A p \in Requests \ {q} : claimed'[p] = claimed[p]
          /\ todo[q] \ {want[q]} \in SUBSET Users
      BY <1>0, <2>1 DEF TypeOK
    <2>3. want[q] \in todo[q] /\ \A a \in adjustments :
            a.incident = IncidentOf(q) => a.user \notin claimed[q] \cup todo[q]
      BY <2>1 DEF Trusted, NotYetAdjusted
    <2>4. \A a \in adjustments : a.incident = IncidentOf(q) =>
            a.user \notin claimed'[q] \cup (todo[q] \ {want[q]})
      BY <2>2, <2>3
    <2> QED
      BY <1>0, <2>1, <2>2, <2>4, TurnTrusted
  <1>6. ASSUME UNCHANGED vars PROVE Trusted'
    <2>1. UNCHANGED <<adjustments, trust, pc, job, claimed, todo, want>>
      BY <1>6 DEF vars, tableVars, requestVars
    <2> QED
      BY <2>1 DEF Trusted, OneEach, NotYetAdjusted, IncidentOf, TrustOf, GainsOf, LossesOf
  <1> QED
    BY <1>0, <1>1, <1>2, <1>3, <1>4, <1>5, <1>6, NextCases, CommitTrusted, FinishTrusted
    DEF Refuse, Rollback, DeadlockAbort

\* Trust is what the recorded adjustments made of it, one per incident and
\* voter, whatever reviews of whatever incidents run, wait, fail or deadlock.
THEOREM TrustKept == Spec => []TrustAccounted
  <1>1. SettledInv /\ Trusted => TrustAccounted
    <2> SUFFICES ASSUME SettledInv, Trusted PROVE TrustAccounted
      OBVIOUS
    <2>1. \A a, b \in adjustments : a.incident = b.incident /\ a.user = b.user => a = b
      BY DEF Trusted, OneEach
    <2>2. ASSUME NEW u \in Users
          PROVE  LET high == InitialTrust[u] + GainsOf(u)
                     low == InitialTrust[u] - LossesOf(u)
                 IN  /\ trust[u] <= high /\ trust[u] >= low
                     /\ high <= 100 /\ low >= 0 => trust[u] = high - LossesOf(u)
      <3>1. Accounts(InitialTrust[u], GainsOf(u), LossesOf(u), trust[u])
        BY DEF Trusted, TrustOf
      <3>2. GainsOf(u) \in Nat /\ LossesOf(u) \in Nat
        BY GainsTyped DEF SettledInv, Trusted
      <3>3. InitialTrust[u] \in 0..100 /\ trust[u] \in 0..100
        BY ModerationAssumption DEF SettledInv, TypeOK
      <3> QED
        BY <3>1, <3>2, <3>3 DEF Accounts
    <2> QED
      BY <2>1, <2>2, Zenon DEF TrustAccounted
  <1>2. SettledInv /\ Trusted /\ [Next]_vars => Trusted'
    BY StepTrusted
  <1> QED
    BY <1>1, <1>2, InitTrusted, SettledAlways, PTL DEF Spec
=============================================================================
