-------------------------- MODULE ReadCacheProofs ---------------------------
(***************************************************************************)
(* Proofs about ReadCache: type correctness and that a client that was     *)
(* told of a change sees it when it reads again, for any number of         *)
(* changes, instances, requests, versions and faults.                      *)
(***************************************************************************)
EXTENDS ReadCache, TLAPS

\* The alternatives of Next, one by one.
LEMMA NextCases ==
    ASSUME Next
    PROVE  \/ \E c \in Changes : Commit(c)
           \/ \E c \in Changes : Publish(c)
           \/ \E i \in Instances : Listen(i)
           \/ \E i \in Instances : Tell(i)
           \/ \E i \in Instances, c \in Changes : Invalidate(i, c)
           \/ \E i \in Instances, stopped \in BOOLEAN : Disconnect(i, stopped)
           \/ \E i \in Instances, c \in Changes : InvalidateFails(i, c)
           \/ \E r \in Readers : ReadVersion(r)
           \/ \E r \in Readers : Lookup(r)
           \/ \E r \in Readers : LookupFails(r)
           \/ \E r \in Readers : Bypass(r)
           \/ \E r \in Readers : Load(r)
           \/ \E r \in Readers : Store(r)
           \/ \E r \in Readers : StoreFails(r)
           \/ \E r \in Readers : Return(r)
           \/ \E v \in Versions : Expire(v)
           \/ \E restarted \in BOOLEAN : LoseVersion(restarted)
  BY DEF Next, ListenerStep, ReaderStep

LEMMA VersionFacts ==
    /\ Versions \subseteq Nat
    /\ 0 \in Versions
    /\ \A v \in Versions : v < MaxVersion => v + 1 \in Versions
  BY CacheAssumption DEF Versions

LEMMA FaultFacts ==
    ASSUME faults \in 0..MaxFaults, Fault
    PROVE  faults' \in 0..MaxFaults
  BY CacheAssumption DEF Fault

-----------------------------------------------------------------------------
(* Types.                                                                  *)

LEMMA InitTyped == Init => TypeOK
  <1> SUFFICES ASSUME Init PROVE TypeOK
    OBVIOUS
  <1>1. version \in Versions /\ faults \in 0..MaxFaults
    BY CacheAssumption, VersionFacts DEF Init
  <1>2. entries \in [Versions -> SUBSET committed] /\ seen \in [Readers -> Versions]
    BY VersionFacts DEF Init
  <1> QED
    BY <1>1, <1>2 DEF Init, TypeOK

LEMMA StepTyped == TypeOK /\ [Next]_vars => TypeOK'
  <1> SUFFICES ASSUME TypeOK, [Next]_vars PROVE TypeOK'
    OBVIOUS
  <1> USE DEF TypeOK, vars, listenerVars, redisVars, readerVars
  <1>1. ASSUME NEW c \in Changes, Commit(c) PROVE TypeOK'
    BY <1>1 DEF Commit
  <1>2. ASSUME NEW c \in Changes, Publish(c) PROVE TypeOK'
    BY <1>2, FaultFacts DEF Publish
  <1>3. ASSUME NEW i \in Instances, Listen(i) PROVE TypeOK'
    BY <1>3 DEF Listen
  <1>4. ASSUME NEW i \in Instances, Tell(i) PROVE TypeOK'
    BY <1>4 DEF Tell
  <1>5. ASSUME NEW i \in Instances, NEW c \in Changes, Invalidate(i, c) PROVE TypeOK'
    BY <1>5, VersionFacts DEF Invalidate
  <1>6. ASSUME NEW i \in Instances, NEW stopped \in BOOLEAN, Disconnect(i, stopped) PROVE TypeOK'
    BY <1>6, FaultFacts DEF Disconnect
  <1>7. ASSUME NEW i \in Instances, NEW c \in Changes, InvalidateFails(i, c) PROVE TypeOK'
    BY <1>7, VersionFacts, FaultFacts DEF InvalidateFails
  <1>8. ASSUME NEW r \in Readers, ReadVersion(r) PROVE TypeOK'
    BY <1>8 DEF ReadVersion, Goto
  <1>9. ASSUME NEW r \in Readers, Lookup(r) PROVE TypeOK'
    BY <1>9 DEF Lookup, Goto
  <1>10. ASSUME NEW r \in Readers, LookupFails(r) PROVE TypeOK'
    BY <1>10, FaultFacts DEF LookupFails, Goto
  <1>11. ASSUME NEW r \in Readers, Bypass(r) PROVE TypeOK'
    BY <1>11 DEF Bypass, Goto
  <1>12. ASSUME NEW r \in Readers, Load(r) PROVE TypeOK'
    BY <1>12 DEF Load, Goto
  <1>13. ASSUME NEW r \in Readers, Store(r) PROVE TypeOK'
    BY <1>13 DEF Store, SetEntry, StoreKey, Goto
  <1>14. ASSUME NEW r \in Readers, StoreFails(r) PROVE TypeOK'
    BY <1>14, FaultFacts DEF StoreFails, SetEntry, StoreKey, Goto
  <1>15. ASSUME NEW r \in Readers, Return(r) PROVE TypeOK'
    BY <1>15 DEF Return, Goto
  <1>16. ASSUME NEW v \in Versions, Expire(v) PROVE TypeOK'
    BY <1>16 DEF Expire
  <1>17. ASSUME NEW restarted \in BOOLEAN, LoseVersion(restarted) PROVE TypeOK'
    BY <1>17, VersionFacts, FaultFacts DEF LoseVersion
  <1>18. ASSUME UNCHANGED vars PROVE TypeOK'
    BY <1>18
  <1> QED
    BY <1>1, <1>2, <1>3, <1>4, <1>5, <1>6, <1>7, <1>8, <1>9, <1>10, <1>11, <1>12, <1>13, <1>14,
       <1>15, <1>16, <1>17, <1>18, NextCases

\* Every variable keeps its type: what is cached, delivered or answered is
\* always something that was committed, and no version leaves its range.
THEOREM TypeCorrect == Spec => []TypeOK
  BY InitTyped, StepTyped, PTL DEF Spec

-----------------------------------------------------------------------------
(* A client sees what it was told of.                                      *)
(*                                                                         *)
(* ToldIsSeen is about a reader that has answered; what makes it true is   *)
(* what holds of the entries it may find.  A change is announced when its  *)
(* INCR was answered on some instance; from then on the current version    *)
(* embeds that INCR, so whoever read it loaded the change.                 *)

\* Changes some instance has invalidated for, and may have told of.
Announced == (told \cup {handling[i] : i \in Instances}) \ (missed \cup {Nothing})

\* Nothing is stored, nor read, under a version that is still to come.
VersionsPast ==
    /\ \A v \in stored : v <= version
    /\ \A r \in Readers : seen[r] <= version

\* What is found, or about to be stored, under the version of now shows
\* every announced change.
CurrentIsFresh ==
    /\ version \in stored => Announced \subseteq entries[version]
    /\ \A s \in Readers :
           pc[s] = "store" /\ seen[s] = version => Announced \subseteq value[s]

\* What reader r may find under its own version shows all its client knew,
\* however far the version has moved since.
FoundIsFresh(r) ==
    pc[r] = "lookup" =>
        /\ seen[r] \in stored => floor[r] \subseteq entries[seen[r]] \cup missed
        /\ \A s \in Readers :
               pc[s] = "store" /\ seen[s] = seen[r] => floor[r] \subseteq value[s] \cup missed

\* Whoever holds a value holds all its client knew.
HeldIsFresh(r) ==
    pc[r] \in {"store", "answered"} => floor[r] \subseteq value[r] \cup missed

FloorTold == \A r \in Readers : floor[r] \subseteq told

Fresh ==
    /\ VersionsPast
    /\ CurrentIsFresh
    /\ \A r \in Readers : FoundIsFresh(r) /\ HeldIsFresh(r)

FreshInv == TypeOK /\ FloorTold /\ (~versionLost => Fresh)

LEMMA InitFresh == Init => FreshInv
  <1> SUFFICES ASSUME Init PROVE FreshInv
    OBVIOUS
  <1>1. TypeOK
    BY InitTyped
  <1>2. FloorTold /\ VersionsPast
    BY DEF Init, FloorTold, VersionsPast
  <1>3. CurrentIsFresh /\ \A r \in Readers : FoundIsFresh(r) /\ HeldIsFresh(r)
    BY DEF Init, CurrentIsFresh, FoundIsFresh, HeldIsFresh
  <1> QED
    BY <1>1, <1>2, <1>3 DEF FreshInv, Fresh

LEMMA AnnouncedCommitted == TypeOK => Announced \subseteq committed
  BY DEF TypeOK, Announced

\* A step that leaves the readers and Redis alone, or lets Redis forget an
\* entry, and announces nothing new.
LEMMA QuietStep ==
    ASSUME Fresh, TypeOK,
           Announced' \subseteq Announced, missed \subseteq missed',
           version' = version, stored' \subseteq stored,
           \A v \in stored' : entries'[v] = entries[v],
           UNCHANGED readerVars
    PROVE  Fresh'
  <1> USE DEF readerVars
  <1>1. VersionsPast'
    BY DEF Fresh, VersionsPast
  <1>2. CurrentIsFresh'
    BY DEF Fresh, CurrentIsFresh
  <1>3. ASSUME NEW r \in Readers PROVE FoundIsFresh(r)' /\ HeldIsFresh(r)'
    <2>1. FoundIsFresh(r) /\ HeldIsFresh(r)
      BY DEF Fresh
    <2>2. FoundIsFresh(r)'
      BY <2>1 DEF FoundIsFresh
    <2>3. HeldIsFresh(r)'
      BY <2>1 DEF HeldIsFresh
    <2> QED
      BY <2>2, <2>3
  <1> QED
    BY <1>1, <1>2, <1>3 DEF Fresh

\* An INCR: nothing is stored or read under the new version yet.
LEMMA NewVersion ==
    ASSUME Fresh, TypeOK,
           version' = version + 1, missed \subseteq missed',
           UNCHANGED <<stored, entries, readerVars>>
    PROVE  Fresh'
  <1> USE DEF readerVars
  <1>1. version \in Nat /\ seen \in [Readers -> Versions] /\ stored \subseteq Versions
    BY VersionFacts DEF TypeOK
  <1>2. \A v \in stored : v \in Nat /\ v <= version
    BY <1>1, VersionFacts DEF Fresh, VersionsPast
  <1>3. \A r \in Readers : seen[r] \in Nat /\ seen[r] <= version
    BY <1>1, VersionFacts DEF Fresh, VersionsPast
  <1>4. VersionsPast'
    BY <1>1, <1>2, <1>3 DEF VersionsPast
  <1>5. CurrentIsFresh'
    BY <1>1, <1>2, <1>3 DEF CurrentIsFresh
  <1>6. ASSUME NEW r \in Readers PROVE FoundIsFresh(r)' /\ HeldIsFresh(r)'
    <2>1. FoundIsFresh(r) /\ HeldIsFresh(r)
      BY DEF Fresh
    <2> QED
      BY <2>1 DEF FoundIsFresh, HeldIsFresh
  <1> QED
    BY <1>4, <1>5, <1>6 DEF Fresh

LEMMA ListenerFresh ==
    ASSUME Fresh, TypeOK, NEW i \in Instances, NEW c \in Changes,
           Invalidate(i, c) \/ InvalidateFails(i, c)
    PROVE  Fresh'
  <1> USE DEF redisVars
  <1>1. CASE version' = version + 1
    <2>1. missed \subseteq missed' /\ UNCHANGED <<stored, entries, readerVars>>
      BY DEF Invalidate, InvalidateFails
    <2> QED
      BY <1>1, <2>1, NewVersion
  <1>2. CASE version' # version + 1
    <2>1. InvalidateFails(i, c) /\ version' = version
      BY <1>2 DEF Invalidate, InvalidateFails
    <2>2. missed' = missed \cup {c} /\ told' = told
      BY <2>1 DEF InvalidateFails
    <2>3. handling' = [handling EXCEPT ![i] = c] /\ handling \in [Instances -> committed \cup {Nothing}]
      BY <2>1 DEF InvalidateFails, TypeOK
    <2>4. Announced' \subseteq Announced
      BY <2>2, <2>3 DEF Announced
    <2>5. stored' = stored /\ entries' = entries /\ UNCHANGED readerVars
      BY <2>1 DEF InvalidateFails
    <2> QED
      BY <2>1, <2>2, <2>4, <2>5, QuietStep
  <1> QED
    BY <1>1, <1>2

LEMMA TellFresh ==
    ASSUME Fresh, TypeOK, NEW i \in Instances, Tell(i) PROVE Fresh'
  <1>1. told' = told \cup {handling[i]} /\ missed' = missed
    BY DEF Tell
  <1>2. handling' = [handling EXCEPT ![i] = Nothing] /\ handling \in [Instances -> committed \cup {Nothing}]
    BY DEF Tell, TypeOK
  <1>3. Announced' \subseteq Announced
    BY <1>1, <1>2 DEF Announced
  <1>4. version' = version /\ stored' = stored /\ entries' = entries /\ UNCHANGED readerVars
    BY DEF Tell, redisVars
  <1> QED
    BY <1>1, <1>3, <1>4, QuietStep

-----------------------------------------------------------------------------
(* The steps of a reader.                                                  *)

\* Steps after which reader r has neither a value to store nor a key to find.
LEMMA OtherReaderSteps ==
    ASSUME Fresh, TypeOK, NEW r \in Readers, NEW l \in {"idle", "load", "bypass", "answered"},
           pc' = [pc EXCEPT ![r] = l],
           value' \in [Readers -> SUBSET Changes],
           \A s \in Readers \ {r} : value'[s] = value[s],
           UNCHANGED <<seen, floor>>,
           UNCHANGED <<redisVars, told, handling, missed>>,
           l = "answered" => floor[r] \subseteq value'[r] \cup missed
    PROVE  Fresh'
  <1> USE DEF redisVars
  <1>1. pc \in [Readers -> {"idle", "lookup", "load", "bypass", "store", "answered"}]
    BY DEF TypeOK
  <1>2. pc'[r] = l /\ \A s \in Readers \ {r} : pc'[s] = pc[s]
    BY <1>1
  <1>3. Announced' = Announced
    BY DEF Announced
  <1>4. VersionsPast'
    BY DEF Fresh, VersionsPast
  <1>5. CurrentIsFresh'
    BY <1>2, <1>3 DEF Fresh, CurrentIsFresh
  <1>6. ASSUME NEW s \in Readers PROVE FoundIsFresh(s)' /\ HeldIsFresh(s)'
    <2>1. FoundIsFresh(s) /\ HeldIsFresh(s)
      BY DEF Fresh
    <2>2. FoundIsFresh(s)'
      BY <2>1, <1>2 DEF FoundIsFresh
    <2>3. HeldIsFresh(s)'
      BY <2>1, <1>2 DEF HeldIsFresh
    <2> QED
      BY <2>2, <2>3
  <1> QED
    BY <1>4, <1>5, <1>6 DEF Fresh

LEMMA ReadVersionFresh ==
    ASSUME FreshInv, Fresh, NEW r \in Readers, ReadVersion(r) PROVE Fresh'
  <1> USE DEF redisVars
  <1>0. TypeOK
    BY DEF FreshInv
  <1>1. /\ pc' = [pc EXCEPT ![r] = "lookup"] /\ seen' = [seen EXCEPT ![r] = version]
        /\ floor' = [floor EXCEPT ![r] = told] /\ value' = [value EXCEPT ![r] = {}]
    BY DEF ReadVersion, Goto
  <1>2. /\ pc'[r] = "lookup" /\ seen'[r] = version /\ floor'[r] = told
        /\ \A s \in Readers \ {r} : /\ pc'[s] = pc[s] /\ seen'[s] = seen[s]
                                   /\ floor'[s] = floor[s] /\ value'[s] = value[s]
    BY <1>0, <1>1 DEF TypeOK
  <1>3. UNCHANGED <<version, stored, entries, told, handling, missed, committed>>
    BY DEF ReadVersion, listenerVars
  <1>4. Announced' = Announced /\ told \subseteq Announced \cup missed
    BY <1>0, <1>3, CacheAssumption DEF Announced, TypeOK
  <1>5. VersionsPast'
    <2>1. version \in Nat
      BY <1>0, VersionFacts DEF TypeOK
    <2> QED
      BY <1>2, <1>3, <2>1 DEF Fresh, VersionsPast
  <1>6. CurrentIsFresh'
    BY <1>2, <1>3, <1>4 DEF Fresh, CurrentIsFresh
  <1>7. FoundIsFresh(r)'
    <2>1. version \in stored => told \subseteq entries[version] \cup missed
      BY <1>4 DEF Fresh, CurrentIsFresh
    <2>2. \A s \in Readers : pc'[s] = "store" /\ seen'[s] = version => told \subseteq value'[s] \cup missed
      BY <1>2, <1>4 DEF Fresh, CurrentIsFresh
    <2> QED
      BY <1>2, <1>3, <2>1, <2>2 DEF FoundIsFresh
  <1>8. ASSUME NEW s \in Readers \ {r} PROVE FoundIsFresh(s)'
    BY <1>2, <1>3 DEF Fresh, FoundIsFresh
  <1>9. ASSUME NEW s \in Readers PROVE HeldIsFresh(s)'
    BY <1>2, <1>3 DEF Fresh, HeldIsFresh
  <1> QED
    BY <1>5, <1>6, <1>7, <1>8, <1>9 DEF Fresh

LEMMA LookupFresh ==
    ASSUME Fresh, TypeOK, NEW r \in Readers, Lookup(r) PROVE Fresh'
  <1>1. pc[r] = "lookup" /\ FoundIsFresh(r)
    BY DEF Lookup, Fresh
  <1>2. UNCHANGED <<seen, floor>> /\ UNCHANGED <<redisVars, told, handling, missed>>
    BY DEF Lookup, listenerVars
  <1>3. value \in [Readers -> SUBSET Changes]
    BY DEF TypeOK
  <1>4. CASE seen[r] \in stored
    <2>1. pc' = [pc EXCEPT ![r] = "answered"] /\ value' = [value EXCEPT ![r] = entries[seen[r]]]
      BY <1>4 DEF Lookup, Goto
    <2>2. entries[seen[r]] \subseteq Changes
      BY DEF TypeOK
    <2>3. /\ value' \in [Readers -> SUBSET Changes] /\ value'[r] = entries[seen[r]]
          /\ \A s \in Readers \ {r} : value'[s] = value[s]
      BY <1>3, <2>1, <2>2
    <2>4. floor[r] \subseteq value'[r] \cup missed
      BY <1>1, <1>4, <2>3 DEF FoundIsFresh
    <2> QED
      BY <1>2, <2>1, <2>3, <2>4, OtherReaderSteps
  <1>5. CASE seen[r] \notin stored
    <2>1. pc' = [pc EXCEPT ![r] = "load"] /\ value' = value
      BY <1>5 DEF Lookup, Goto
    <2> QED
      BY <1>2, <1>3, <2>1, OtherReaderSteps
  <1> QED
    BY <1>4, <1>5

LEMMA LoadFresh ==
    ASSUME FreshInv, Fresh, NEW r \in Readers, Load(r) PROVE Fresh'
  <1> USE DEF redisVars
  <1>0. TypeOK /\ floor[r] \subseteq told /\ told \subseteq committed /\ Announced \subseteq committed
    BY AnnouncedCommitted DEF FreshInv, FloorTold, TypeOK
  <1>1. pc' = [pc EXCEPT ![r] = "store"] /\ value' = [value EXCEPT ![r] = committed]
    BY DEF Load, Goto
  <1>2. /\ pc'[r] = "store" /\ value'[r] = committed
        /\ \A s \in Readers \ {r} : pc'[s] = pc[s] /\ value'[s] = value[s]
    BY <1>0, <1>1 DEF TypeOK
  <1>3. UNCHANGED <<version, stored, entries, told, handling, missed, committed, seen, floor>>
    BY DEF Load, listenerVars
  <1>4. Announced' = Announced
    BY <1>3 DEF Announced
  <1>5. VersionsPast'
    BY <1>3 DEF Fresh, VersionsPast
  <1>6. CurrentIsFresh'
    BY <1>0, <1>2, <1>3, <1>4 DEF Fresh, CurrentIsFresh
  <1>7. ASSUME NEW s \in Readers PROVE FoundIsFresh(s)'
    <2>1. floor[s] \subseteq committed
      BY <1>0 DEF FreshInv, FloorTold
    <2> QED
      BY <1>2, <1>3, <2>1 DEF Fresh, FoundIsFresh
  <1>8. ASSUME NEW s \in Readers PROVE HeldIsFresh(s)'
    BY <1>0, <1>2, <1>3 DEF Fresh, HeldIsFresh
  <1> QED
    BY <1>5, <1>6, <1>7, <1>8 DEF Fresh

LEMMA StoreFresh ==
    ASSUME Fresh, TypeOK, NEW r \in Readers, Store(r) \/ StoreFails(r) PROVE Fresh'
  <1>1. pc[r] = "store" /\ pc' = [pc EXCEPT ![r] = "answered"]
    BY DEF Store, StoreFails, Goto
  <1>2. UNCHANGED <<version, told, handling, missed, seen, value, floor>>
    BY DEF Store, StoreFails, listenerVars
  <1>3. pc'[r] = "answered" /\ \A s \in Readers \ {r} : pc'[s] = pc[s]
    BY <1>1 DEF TypeOK
  <1>4. \/ stored' = stored /\ entries' = entries
        \/ stored' = stored \cup {seen[r]} /\ entries' = [entries EXCEPT ![seen[r]] = value[r]]
    BY DEF Store, StoreFails, SetEntry, StoreKey
  <1>5. \A v \in stored' : v \in stored \/ (v = seen[r] /\ entries'[v] = value[r])
    BY <1>4 DEF TypeOK
  <1>6. \A v \in stored' : v # seen[r] => v \in stored /\ entries'[v] = entries[v]
    BY <1>4 DEF TypeOK
  <1>7. seen[r] \in stored' => \/ entries'[seen[r]] = value[r]
                               \/ seen[r] \in stored /\ entries'[seen[r]] = entries[seen[r]]
    BY <1>4 DEF TypeOK
  <1>8. Announced' = Announced
    BY <1>2 DEF Announced
  <1>9. VersionsPast'
    BY <1>2, <1>5 DEF Fresh, VersionsPast
  <1>10. CurrentIsFresh'
    <2>1. version \in stored' => Announced \subseteq entries'[version]
      BY <1>1, <1>6, <1>7 DEF Fresh, CurrentIsFresh
    <2> QED
      BY <1>2, <1>3, <1>8, <2>1 DEF Fresh, CurrentIsFresh
  <1>11. ASSUME NEW s \in Readers PROVE FoundIsFresh(s)'
    <2>1. CASE s = r
      BY <1>3, <2>1 DEF FoundIsFresh
    <2>2. CASE s # r /\ pc[s] = "lookup"
      <3>1. FoundIsFresh(s)
        BY DEF Fresh
      <3>2. seen[s] \in stored' => floor[s] \subseteq entries'[seen[s]] \cup missed
        BY <1>1, <1>6, <1>7, <2>2, <3>1 DEF FoundIsFresh
      <3> QED
        BY <1>2, <1>3, <2>2, <3>1, <3>2 DEF FoundIsFresh
    <2>3. CASE s # r /\ pc[s] # "lookup"
      BY <1>3, <2>3 DEF FoundIsFresh
    <2> QED
      BY <2>1, <2>2, <2>3
  <1>12. ASSUME NEW s \in Readers PROVE HeldIsFresh(s)'
    BY <1>1, <1>2, <1>3 DEF Fresh, HeldIsFresh
  <1> QED
    BY <1>9, <1>10, <1>11, <1>12 DEF Fresh

LEMMA StepFloor == FreshInv /\ [Next]_vars => FloorTold'
  <1> SUFFICES ASSUME FreshInv, [Next]_vars PROVE FloorTold'
    OBVIOUS
  <1>1. CASE \E r \in Readers : ReadVersion(r)
    <2>1. PICK r \in Readers : ReadVersion(r)
      BY <1>1
    <2>2. floor' = [floor EXCEPT ![r] = told] /\ told' = told
      BY <2>1 DEF ReadVersion, listenerVars
    <2> QED
      BY <2>2 DEF FreshInv, FloorTold, TypeOK
  <1>2. CASE floor' = floor /\ told \subseteq told'
    BY <1>2 DEF FreshInv, FloorTold
  <1>3. ASSUME Next PROVE (\E r \in Readers : ReadVersion(r)) \/ (floor' = floor /\ told \subseteq told')
    BY <1>3, NextCases
    DEF Commit, Publish, Listen, Tell, Invalidate, Disconnect, InvalidateFails, Lookup, LookupFails,
        Bypass, Load, Store, StoreFails, Return, Expire, LoseVersion, listenerVars, readerVars
  <1>4. UNCHANGED vars => floor' = floor /\ told \subseteq told'
    BY DEF vars, listenerVars, readerVars
  <1> QED
    BY <1>1, <1>2, <1>3, <1>4

LEMMA StepFresh ==
    ASSUME FreshInv, [Next]_vars, ~versionLost' PROVE Fresh'
  <1> USE DEF listenerVars, redisVars
  <1>1. TypeOK
    BY DEF FreshInv
  <1>2. ~versionLost
    BY NextCases
    DEF vars, Commit, Publish, Listen, Tell, Invalidate, Disconnect, InvalidateFails, ReadVersion,
        Lookup, LookupFails, Bypass, Load, Store, StoreFails, Return, Expire, LoseVersion
  <1>3. Fresh
    BY <1>2 DEF FreshInv
  <1>4. ASSUME NEW c \in Changes, Commit(c) \/ Publish(c) PROVE Fresh'
    <2>1. UNCHANGED <<told, handling, missed, version, stored, entries, readerVars>>
      BY <1>4 DEF Commit, Publish
    <2>2. Announced' = Announced
      BY <2>1 DEF Announced
    <2> QED
      BY <1>1, <1>3, <2>1, <2>2, QuietStep
  <1>5. ASSUME NEW i \in Instances, Listen(i) PROVE Fresh'
    <2>1. UNCHANGED <<told, handling, missed, version, stored, entries, readerVars>>
      BY <1>5 DEF Listen
    <2>2. Announced' = Announced
      BY <2>1 DEF Announced
    <2> QED
      BY <1>1, <1>3, <2>1, <2>2, QuietStep
  <1>6. ASSUME NEW i \in Instances, NEW stopped \in BOOLEAN, Disconnect(i, stopped) PROVE Fresh'
    <2>1. UNCHANGED <<told, missed, version, stored, entries, readerVars>>
      BY <1>6 DEF Disconnect
    <2>2. \A j \in Instances : handling'[j] \in {handling[j], Nothing}
      BY <1>1, <1>6 DEF Disconnect, TypeOK
    <2>3. Announced' \subseteq Announced
      BY <2>1, <2>2 DEF Announced
    <2> QED
      BY <1>1, <1>3, <2>1, <2>3, QuietStep
  <1>7. ASSUME NEW r \in Readers, LookupFails(r) PROVE Fresh'
    <2>1. pc' = [pc EXCEPT ![r] = "bypass"] /\ UNCHANGED <<redisVars, told, handling, missed, seen, value, floor>>
      BY <1>7 DEF LookupFails, Goto
    <2>2. value \in [Readers -> SUBSET Changes]
      BY <1>1 DEF TypeOK
    <2> QED
      BY <1>1, <1>3, <2>1, <2>2, OtherReaderSteps
  <1>8. ASSUME NEW r \in Readers, Bypass(r) PROVE Fresh'
    <2>1. /\ pc' = [pc EXCEPT ![r] = "answered"] /\ value' = [value EXCEPT ![r] = committed]
          /\ UNCHANGED <<redisVars, told, handling, missed, seen, floor>>
      BY <1>8 DEF Bypass, Goto
    <2>2. /\ value' \in [Readers -> SUBSET Changes] /\ value'[r] = committed
          /\ \A s \in Readers \ {r} : value'[s] = value[s]
      BY <1>1, <2>1 DEF TypeOK
    <2>3. floor[r] \subseteq committed
      BY DEF FreshInv, FloorTold, TypeOK
    <2> QED
      BY <1>1, <1>3, <2>1, <2>2, <2>3, OtherReaderSteps
  <1>9. ASSUME NEW r \in Readers, Return(r) PROVE Fresh'
    <2>1. pc' = [pc EXCEPT ![r] = "idle"] /\ UNCHANGED <<redisVars, told, handling, missed, seen, value, floor>>
      BY <1>9 DEF Return, Goto
    <2>2. value \in [Readers -> SUBSET Changes]
      BY <1>1 DEF TypeOK
    <2> QED
      BY <1>1, <1>3, <2>1, <2>2, OtherReaderSteps
  <1>10. ASSUME NEW v \in Versions, Expire(v) PROVE Fresh'
    <2>1. UNCHANGED <<told, handling, missed, version, readerVars>> /\ stored' = stored \ {v}
      BY <1>10 DEF Expire
    <2>2. \A u \in stored' : entries'[u] = entries[u]
      BY <1>1, <1>10, <2>1 DEF Expire, TypeOK
    <2>3. Announced' = Announced
      BY <2>1 DEF Announced
    <2> QED
      BY <1>1, <1>3, <2>1, <2>2, <2>3, QuietStep
  <1>11. ASSUME UNCHANGED vars PROVE Fresh'
    <2>1. UNCHANGED <<told, handling, missed, version, stored, entries, readerVars>>
      BY <1>11 DEF vars
    <2>2. Announced' = Announced
      BY <2>1 DEF Announced
    <2> QED
      BY <1>1, <1>3, <2>1, <2>2, QuietStep
  <1>12. ASSUME NEW restarted \in BOOLEAN, LoseVersion(restarted) PROVE FALSE
    BY <1>12 DEF LoseVersion
  <1> QED
    BY <1>1, <1>3, <1>4, <1>5, <1>6, <1>7, <1>8, <1>9, <1>10, <1>11, <1>12, NextCases,
       ListenerFresh, TellFresh, ReadVersionFresh, LookupFresh, LoadFresh, StoreFresh

LEMMA FreshImplies == FreshInv => ToldIsSeen
  BY DEF FreshInv, Fresh, HeldIsFresh, ToldIsSeen

\* On any instance, from the cache or not, a client that was told of a change
\* and asks again is answered with it, however invalidations, loads and stores
\* interleave: unless the INCR for it failed, or Redis lost the version.
THEOREM ClientsSeeWhatTheyWereTold == Spec => []ToldIsSeen
  <1>1. FreshInv /\ [Next]_vars => FreshInv'
    BY StepTyped, StepFloor, StepFresh DEF FreshInv
  <1> QED
    BY <1>1, InitFresh, FreshImplies, PTL DEF Spec
=============================================================================
