-------------------------- MODULE MobileSyncProofs --------------------------
(***************************************************************************)
(* Proofs about MobileSync: type correctness, that a record marked synced  *)
(* stands for a report the server has, and that no created report is lost, *)
(* for any number of reports, accounts, logins and faults.                 *)
(***************************************************************************)
EXTENDS MobileSync, TLAPS

-----------------------------------------------------------------------------
(* Types.                                                                  *)

SyncState == [at : Steps, queue : SUBSET Reports,
              cur : Reports \union {None}, mobile : BOOLEAN]

DeviceTyped ==
    /\ box \in [Stores -> [Reports -> Record]]
    /\ author \in [Reports -> Users \union {None}]
    /\ file \in [Reports -> {"missing", "fine", "refusable"}]

RunsTyped ==
    /\ open \subseteq Isolates
    /\ sync \in [Isolates -> SyncState]
    /\ task \in BOOLEAN
    /\ \A i \in Isolates :
         sync[i].cur = None <=> sync[i].at \in {"idle", "connecting", "picking"}

TokensTyped ==
    /\ issued \in 0 .. Len(Logins)
    /\ live \subseteq 1 .. issued
    /\ session \in [Isolates -> 0 .. issued]
    /\ storedSession \in 0 .. issued

ClosedIdle == \A i \in Isolates : i \notin open => sync[i] = Idle /\ session[i] = 0

ServerTyped ==
    /\ stored \in [Reports -> Users \union {None}]
    /\ photos \subseteq {r \in Reports : stored[r] # None}
    /\ faults \in 0 .. MaxFaults

LEMMA TypeParts ==
    TypeOK <=> DeviceTyped /\ RunsTyped /\ TokensTyped /\ ClosedIdle /\ ServerTyped
  BY DEF TypeOK, DeviceTyped, RunsTyped, TokensTyped, ClosedIdle, ServerTyped, SyncState

LEMMA TypePartsNext ==
    TypeOK' <=> DeviceTyped' /\ RunsTyped' /\ TokensTyped' /\ ClosedIdle' /\ ServerTyped'
  BY DEF TypeOK, DeviceTyped, RunsTyped, TokensTyped, ClosedIdle, ServerTyped, SyncState

LEMMA Records ==
    /\ NoRecord \in Record /\ Pending \in Record /\ Synced \in Record /\ Failed \in Record
    /\ NoRecord.status = "none" /\ Pending.status = "pending"
    /\ Synced.status = "synced" /\ Failed.status = "failed"
    /\ Idle \in SyncState /\ Idle.at = "idle" /\ Idle.cur = None /\ Idle.queue = {}
  BY DEF NoRecord, Pending, Synced, Failed, Record, Idle, SyncState, Steps

LEMMA AccountTyped ==
    ASSUME TokensTyped, NEW t \in 0 .. issued
    PROVE  /\ AccountOf(t) \in Users \union {None}
           /\ t # 0 => Logins[t] \in Users /\ Logins[t] # None
  <1>1. CASE t = 0
    BY <1>1 DEF AccountOf
  <1>2. CASE t # 0
    <2>1. t \in 1 .. Len(Logins)
      BY <1>2, LoginsAssumption DEF TokensTyped
    <2> QED
      BY <1>2, <2>1, LoginsAssumption, NoneAssumption DEF AccountOf
  <1> QED
    BY <1>1, <1>2

\* The alternatives of Next, one by one.
LEMMA NextCases ==
    ASSUME Next
    PROVE  \/ OpenApp \/ CloseApp \/ RunTask \/ FinishTask \/ StopTask
           \/ Login \/ Logout
           \/ \E t \in live : Expire(t)
           \/ \E r \in Reports : Create(r) \/ LoseFile(r)
           \/ \E s \in Stores, r \in Reports : BackoffEnds(s, r)
           \/ \E i \in Isolates :
                \/ NoticeExpired(i)
                \/ \E net \in {"none", "mobile", "wifi"} : Begin(i, net)
                \/ Pick(i) \/ Post(i) \/ SendPhoto(i)
                \/ MarkSynced(i) \/ MarkFailed(i) \/ BreakOff(i)
  BY DEF Next, Synchronize

LEMMA InitTyped == Init => TypeOK
  <1> SUFFICES ASSUME Init PROVE TypeOK
    OBVIOUS
  <1>1. DeviceTyped
    BY Records DEF Init, DeviceTyped
  <1>2. RunsTyped /\ ClosedIdle
    BY Records DEF Init, RunsTyped, ClosedIdle
  <1>3. TokensTyped
    BY LoginsAssumption DEF Init, TokensTyped
  <1>4. ServerTyped
    BY BoundsAssumption DEF Init, ServerTyped
  <1> QED
    BY <1>1, <1>2, <1>3, <1>4, TypeParts

\* What an isolate writes of a report is well typed.
LEMMA PutTyped ==
    ASSUME DeviceTyped, NEW i \in Isolates, NEW r \in Reports, NEW record \in Record,
           Put(i, r, record)
    PROVE  box' \in [Stores -> [Reports -> Record]]
  BY DEF DeviceTyped, Put

\* Moving on within a run, with the report at hand kept.
LEMMA GotoTyped ==
    ASSUME RunsTyped, ClosedIdle, NEW i \in Isolates, NEW step,
           sync[i].cur # None,
           step \in Steps \ {"idle", "connecting", "picking"}, Goto(i, step),
           UNCHANGED <<open, task>>,
           \A k \in Isolates : k \notin open => session'[k] = session[k]
    PROVE  RunsTyped' /\ ClosedIdle'
  <1>1. sync' \in [Isolates -> SyncState]
    BY DEF RunsTyped, Goto, SyncState
  <1>2. i \in open
    BY Records DEF ClosedIdle
  <1>3. \A k \in Isolates : k # i => sync'[k] = sync[k]
    BY DEF RunsTyped, Goto
  <1>4. sync'[i].at = step /\ sync'[i].cur = sync[i].cur
    BY DEF RunsTyped, Goto, SyncState
  <1>5. \A k \in Isolates :
          sync'[k].cur = None <=> sync'[k].at \in {"idle", "connecting", "picking"}
    BY <1>3, <1>4 DEF RunsTyped
  <1>6. ClosedIdle'
    BY <1>2, <1>3 DEF ClosedIdle
  <1> QED
    BY <1>1, <1>5, <1>6 DEF RunsTyped

\* A step of a run leaves an isolate that was running where it is.
LEMMA RunStepTyped ==
    ASSUME RunsTyped, ClosedIdle, NEW i \in Isolates, NEW state \in SyncState,
           i \in open,
           state.cur = None <=> state.at \in {"idle", "connecting", "picking"},
           sync' = [sync EXCEPT ![i] = state],
           task' \in BOOLEAN, UNCHANGED <<open, session>>
    PROVE  RunsTyped' /\ ClosedIdle'
  <1>1. sync' \in [Isolates -> SyncState]
    BY DEF RunsTyped
  <1>2. \A k \in Isolates : sync'[k] = IF k = i THEN state ELSE sync[k]
    BY DEF RunsTyped
  <1>3. RunsTyped'
    BY <1>1, <1>2 DEF RunsTyped
  <1>4. ClosedIdle'
    BY <1>2 DEF ClosedIdle
  <1> QED
    BY <1>3, <1>4

\* Only a running isolate is anywhere in synchronize().
LEMMA BusyIsOpen ==
    ASSUME ClosedIdle, NEW i \in Isolates, sync[i].at # "idle"
    PROVE  i \in open
  BY Records DEF ClosedIdle

LEMMA OpenTyped ==
    ASSUME TypeOK, NEW i \in Isolates, NEW old, Initialize(i, old),
           UNCHANGED <<author, file, storedSession, issued, live, serverVars, faults>>
    PROVE  DeviceTyped' /\ TokensTyped' /\ ServerTyped' /\ open' \subseteq Isolates
  <1>1. DeviceTyped /\ RunsTyped /\ TokensTyped /\ ServerTyped
    BY TypeParts
  <1>2. DeviceTyped'
    BY <1>1, Records DEF DeviceTyped, Initialize, Stores
  <1>3. TokensTyped'
    BY <1>1 DEF TokensTyped, Initialize
  <1>4. ServerTyped' /\ open' \subseteq Isolates
    BY <1>1 DEF ServerTyped, RunsTyped, Initialize, serverVars
  <1> QED
    BY <1>2, <1>3, <1>4

LEMMA OpenAppTyped ==
    ASSUME TypeOK, OpenApp
    PROVE  TypeOK'
  <1>1. RunsTyped /\ ClosedIdle /\ TokensTyped
    BY TypeParts
  <1>2. PICK old \in SUBSET Purgeable : Initialize("app", old)
    BY DEF OpenApp
  <1>3. DeviceTyped' /\ TokensTyped' /\ ServerTyped' /\ open' \subseteq Isolates
    BY <1>2, OpenTyped DEF OpenApp, Isolates
  <1>4. RunsTyped'
    BY <1>1, <1>3 DEF RunsTyped, OpenApp, Schedule
  <1>5. ClosedIdle'
    BY <1>1, <1>2 DEF ClosedIdle, OpenApp, Initialize, Isolates, TokensTyped
  <1> QED
    BY <1>3, <1>4, <1>5, TypePartsNext

LEMMA RunTaskTyped ==
    ASSUME TypeOK, RunTask
    PROVE  TypeOK'
  <1> DEFINE b == "background"
             state == [sync[b] EXCEPT !.at = "connecting", !.queue = PendingIn("file")]
  <1>1. RunsTyped /\ ClosedIdle /\ TokensTyped /\ b \in Isolates
    BY TypeParts DEF Isolates
  <1>2. PICK old \in SUBSET Purgeable : Initialize(b, old)
    BY DEF RunTask
  <1>3. DeviceTyped' /\ TokensTyped' /\ ServerTyped' /\ open' \subseteq Isolates
    BY <1>1, <1>2, OpenTyped DEF RunTask
  <1>4. sync[b] = Idle
    BY <1>1 DEF ClosedIdle, RunTask
  <1>5. /\ state \in SyncState /\ state.at = "connecting" /\ state.cur = None
        /\ sync' = [sync EXCEPT ![b] = state]
    BY <1>1, <1>4, Records DEF RunTask, SyncState, Steps, PendingIn, Idle, RunsTyped
  <1>6. /\ sync' \in [Isolates -> SyncState]
        /\ \A k \in Isolates : sync'[k] = IF k = b THEN state ELSE sync[k]
    <2> HIDE DEF state
    <2> QED
      BY <1>1, <1>5 DEF RunsTyped
  <1>7. RunsTyped'
    <2> HIDE DEF state
    <2> QED
      BY <1>1, <1>3, <1>5, <1>6 DEF RunsTyped, RunTask
  <1>8. ClosedIdle'
    <2> HIDE DEF state
    <2> QED
      BY <1>1, <1>2, <1>6 DEF ClosedIdle, Initialize, TokensTyped
  <1> QED
    BY <1>3, <1>7, <1>8, TypePartsNext

LEMMA CloseTyped ==
    ASSUME TypeOK, NEW i \in Isolates, Close(i), task' \in BOOLEAN,
           faults' \in 0 .. MaxFaults,
           UNCHANGED <<author, file, storedSession, issued, live, serverVars>>
    PROVE  TypeOK'
  <1>1. DeviceTyped /\ RunsTyped /\ TokensTyped /\ ClosedIdle /\ ServerTyped
    BY TypeParts
  <1>2. DeviceTyped'
    BY <1>1, Records DEF DeviceTyped, Close
  <1>3. TokensTyped'
    BY <1>1 DEF TokensTyped, Close
  <1>4. ServerTyped'
    BY <1>1 DEF ServerTyped, serverVars
  <1>5. \A k \in Isolates : sync'[k] = IF k = i THEN Idle ELSE sync[k]
    BY <1>1 DEF RunsTyped, Close
  <1>6. RunsTyped'
    BY <1>1, <1>5, Records DEF RunsTyped, Close
  <1>7. ClosedIdle'
    BY <1>1, <1>5 DEF ClosedIdle, Close, TokensTyped
  <1> QED
    BY <1>2, <1>3, <1>4, <1>6, <1>7, TypePartsNext

LEMMA ClosingTyped ==
    ASSUME TypeOK, CloseApp \/ FinishTask \/ StopTask
    PROVE  TypeOK'
  <1>1. task' \in BOOLEAN /\ faults' \in 0 .. MaxFaults
    <2>1. RunsTyped /\ ServerTyped
      BY TypeParts
    <2>2. task' \in BOOLEAN
      BY <2>1 DEF RunsTyped, CloseApp, FinishTask, StopTask, Schedule
    <2>3. faults' = faults \/ (faults < MaxFaults /\ faults' = faults + 1)
      BY DEF CloseApp, FinishTask, StopTask
    <2> QED
      BY <2>1, <2>2, <2>3, BoundsAssumption DEF ServerTyped
  <1>2. \E i \in Isolates : Close(i)
    BY DEF CloseApp, FinishTask, StopTask, Isolates
  <1>3. UNCHANGED <<author, file, storedSession, issued, live, serverVars>>
    BY DEF CloseApp, FinishTask, StopTask
  <1> QED
    BY <1>1, <1>2, <1>3, CloseTyped

\* The steps that change nothing but who is signed in.
LEMMA SessionTyped ==
    ASSUME TypeOK, Login \/ Logout \/ (\E t \in live : Expire(t))
                     \/ (\E i \in Isolates : NoticeExpired(i))
    PROVE  TypeOK'
  <1>1. DeviceTyped /\ RunsTyped /\ TokensTyped /\ ClosedIdle /\ ServerTyped
    BY TypeParts
  <1>2. UNCHANGED <<deviceVars, runVars, serverVars, faults>>
    BY DEF Login, Logout, Expire, NoticeExpired
  <1>3. DeviceTyped' /\ RunsTyped' /\ ServerTyped'
    BY <1>1, <1>2
    DEF DeviceTyped, RunsTyped, ServerTyped, deviceVars, runVars, serverVars
  <1>4. TokensTyped'
    <2>1. CASE Login
      <3>1. /\ issued \in 0 .. Len(Logins) /\ issued < Len(Logins) /\ Len(Logins) \in Nat
            /\ issued' = issued + 1 /\ live' = live \union {issued'}
            /\ storedSession' = issued'
            /\ session' = [session EXCEPT !["app"] = issued']
        BY <1>1, <2>1, LoginsAssumption DEF TokensTyped, Login
      <3>2. issued' \in 0 .. Len(Logins) /\ issued \in Nat
        BY <3>1
      <3>3. 0 .. issued \subseteq 0 .. issued' /\ 1 .. issued \subseteq 1 .. issued'
            /\ issued' \in 1 .. issued'
        BY <3>1, <3>2
      <3>4. live' \subseteq 1 .. issued'
        BY <1>1, <3>1, <3>3 DEF TokensTyped
      <3>5. session' \in [Isolates -> 0 .. issued']
        <4>1. session \in [Isolates -> 0 .. issued']
          <5>1. \A k \in Isolates : session[k] \in 0 .. issued'
            BY <1>1, <3>3 DEF TokensTyped
          <5> QED
            BY <1>1, <5>1 DEF TokensTyped
        <4>2. issued' \in 0 .. issued'
          BY <3>2
        <4> QED
          BY <3>1, <4>1, <4>2
      <3> QED
        BY <3>1, <3>2, <3>3, <3>4, <3>5 DEF TokensTyped
    <2>2. CASE Logout
      <3>1. live' \subseteq live /\ issued' = issued /\ 0 \in 0 .. issued
        BY <1>1, <2>2 DEF TokensTyped, Logout
      <3> QED
        BY <1>1, <2>2, <3>1 DEF TokensTyped, Logout
    <2>3. CASE \E t \in live : Expire(t)
      BY <1>1, <2>3 DEF TokensTyped, Expire
    <2>4. CASE \E i \in Isolates : NoticeExpired(i)
      BY <1>1, <2>4 DEF TokensTyped, NoticeExpired, HandleUnauthorized
    <2> QED
      BY <2>1, <2>2, <2>3, <2>4
  <1>5. ClosedIdle'
    <2>1. \A k \in Isolates : k \notin open => session'[k] = session[k] \/ session'[k] = 0
      BY <1>1 DEF Login, Logout, Expire, NoticeExpired, HandleUnauthorized, TokensTyped
    <2> QED
      BY <1>1, <1>2, <2>1 DEF ClosedIdle, runVars
  <1> QED
    BY <1>3, <1>4, <1>5, TypePartsNext

\* The steps that touch only what is kept on the device.
LEMMA DeviceStepTyped ==
    ASSUME TypeOK, (\E r \in Reports : LoseFile(r))
                     \/ (\E s \in Stores, r \in Reports : BackoffEnds(s, r))
    PROVE  TypeOK'
  <1>1. DeviceTyped /\ RunsTyped /\ TokensTyped /\ ClosedIdle /\ ServerTyped
    BY TypeParts
  <1>2. UNCHANGED <<runVars, sessionVars, serverVars, faults>>
    BY DEF LoseFile, BackoffEnds
  <1>3. DeviceTyped'
    <2>1. CASE \E r \in Reports : LoseFile(r)
      BY <1>1, <2>1 DEF DeviceTyped, LoseFile
    <2>2. CASE \E s \in Stores, r \in Reports : BackoffEnds(s, r)
      <3>1. PICK s \in Stores, r \in Reports : BackoffEnds(s, r)
        BY <2>2
      <3>2. [box[s][r] EXCEPT !.waiting = FALSE] \in Record
        <4>1. box[s][r] \in Record
          BY <1>1 DEF DeviceTyped
        <4> QED
          BY <4>1 DEF Record
      <3>3. box' = [box EXCEPT ![s] = [box[s] EXCEPT ![r] =
                      [box[s][r] EXCEPT !.waiting = FALSE]]]
        BY <3>1 DEF BackoffEnds
      <3> QED
        BY <1>1, <3>1, <3>2, <3>3 DEF DeviceTyped, BackoffEnds
    <2> QED
      BY <2>1, <2>2
  <1>4. RunsTyped' /\ TokensTyped' /\ ClosedIdle' /\ ServerTyped'
    BY <1>1, <1>2 DEF RunsTyped, TokensTyped, ClosedIdle, ServerTyped,
       runVars, sessionVars, serverVars
  <1> QED
    BY <1>3, <1>4, TypePartsNext

LEMMA CreateTyped ==
    ASSUME TypeOK, NEW r \in Reports, Create(r)
    PROVE  TypeOK'
  <1> DEFINE state == [sync["app"] EXCEPT !.at = "connecting"]
  <1>1. DeviceTyped /\ RunsTyped /\ TokensTyped /\ ClosedIdle /\ ServerTyped
        /\ "app" \in Isolates
    BY TypeParts DEF Isolates
  <1>2. box' \in [Stores -> [Reports -> Record]]
    BY <1>1, Records, PutTyped DEF Create
  <1>3. session["app"] \in 0 .. issued
    BY <1>1 DEF TokensTyped
  <1>4. AccountOf(session["app"]) \in Users \union {None}
    BY <1>1, <1>3, AccountTyped
  <1>5. DeviceTyped'
    BY <1>1, <1>2, <1>4 DEF DeviceTyped, Create
  <1>6. TokensTyped' /\ ServerTyped'
    BY <1>1 DEF TokensTyped, ServerTyped, Create, sessionVars, serverVars
  <1>7. "app" \in open
    BY <1>1 DEF ClosedIdle, Create
  <1>8. sync["app"] \in SyncState /\ sync["app"].cur = None
    BY <1>1 DEF RunsTyped, Create
  <1>9. state \in SyncState /\ state.at = "connecting" /\ state.cur = None
    BY <1>8 DEF SyncState, Steps
  <1>10. sync' = [sync EXCEPT !["app"] = state]
    BY DEF Create, Goto
  <1>11. task' \in BOOLEAN /\ UNCHANGED <<open, session>>
    BY <1>1 DEF Create, RunsTyped, sessionVars
  <1>12. RunsTyped' /\ ClosedIdle'
    <2> HIDE DEF state
    <2> QED
      BY <1>1, <1>7, <1>9, <1>10, <1>11, RunStepTyped
  <1> QED
    BY <1>5, <1>6, <1>12, TypePartsNext

LEMMA BeginTyped ==
    ASSUME TypeOK, NEW i \in Isolates, NEW net, Begin(i, net)
    PROVE  TypeOK'
  <1>1. DeviceTyped /\ RunsTyped /\ TokensTyped /\ ClosedIdle /\ ServerTyped
    BY TypeParts
  <1>2. i \in open
    BY <1>1, BusyIsOpen DEF Begin
  <1>3. sync[i] \in SyncState
    BY <1>1 DEF RunsTyped
  <1>4. \E state \in SyncState :
          /\ state.cur = None /\ state.at \in {"idle", "picking"}
          /\ sync' = [sync EXCEPT ![i] = state]
    <2>1. CASE net = "none"
      BY <2>1, Records DEF Begin
    <2>2. CASE net # "none"
      <3> DEFINE queue == IF i = "app" THEN PendingIn("app") ELSE sync[i].queue
      <3>1. queue \in SUBSET Reports
        BY <1>3 DEF SyncState, PendingIn
      <3> HIDE DEF queue
      <3>2. [at |-> "picking", cur |-> None, mobile |-> net = "mobile", queue |-> queue]
              \in SyncState
        BY <3>1 DEF SyncState, Steps
      <3> QED
        BY <2>2, <3>2 DEF Begin, queue
    <2> QED
      BY <2>1, <2>2
  <1>5. task' \in BOOLEAN /\ UNCHANGED <<deviceVars, open, sessionVars, serverVars, faults>>
    BY <1>1 DEF Begin, Schedule, RunsTyped
  <1>6. RunsTyped' /\ ClosedIdle'
    BY <1>1, <1>2, <1>4, <1>5, RunStepTyped DEF sessionVars
  <1>7. DeviceTyped' /\ TokensTyped' /\ ServerTyped'
    BY <1>1, <1>5 DEF DeviceTyped, TokensTyped, ServerTyped, deviceVars, sessionVars, serverVars
  <1> QED
    BY <1>6, <1>7, TypePartsNext

\* What Pick leaves of the state of a run.
LEMMA PickResult ==
    ASSUME RunsTyped, NEW i \in Isolates, Pick(i)
    PROVE  \E state \in SyncState :
             /\ state.cur = None <=> state.at \in {"idle", "picking"}
             /\ state.at \in {"idle", "picking", "posting"}
             /\ state.queue \subseteq sync[i].queue
             /\ state.cur \in sync[i].queue \union {None}
             /\ sync' = [sync EXCEPT ![i] = state]
  <1>1. sync[i] \in SyncState /\ sync[i].cur = None /\ sync[i].at = "picking"
    BY DEF RunsTyped, Pick
  <1>2. CASE sync' = [sync EXCEPT ![i] = Idle]
    BY <1>2, Records
  <1>3. CASE \E r \in sync[i].queue :
               sync' = [sync EXCEPT ![i].queue = sync[i].queue \ {r}]
    <2>1. PICK r \in sync[i].queue : sync' = [sync EXCEPT ![i].queue = sync[i].queue \ {r}]
      BY <1>3
    <2> DEFINE state == [sync[i] EXCEPT !.queue = sync[i].queue \ {r}]
    <2>2. state \in SyncState /\ state.cur = None /\ state.at = "picking"
          /\ state.queue \subseteq sync[i].queue
      BY <1>1 DEF SyncState
    <2>3. sync' = [sync EXCEPT ![i] = state]
      BY <2>1
    <2> QED
      BY <2>2, <2>3
  <1>4. CASE \E r \in sync[i].queue :
               sync' = [sync EXCEPT ![i].queue = sync[i].queue \ {r}, ![i].cur = r,
                                    ![i].at = "posting"]
    <2>1. PICK r \in sync[i].queue :
               sync' = [sync EXCEPT ![i].queue = sync[i].queue \ {r}, ![i].cur = r,
                                    ![i].at = "posting"]
      BY <1>4
    <2> DEFINE state == [sync[i] EXCEPT !.queue = sync[i].queue \ {r}, !.cur = r,
                                        !.at = "posting"]
    <2>2. state \in SyncState /\ state.cur = r /\ state.at = "posting"
          /\ state.queue \subseteq sync[i].queue
      BY <1>1 DEF SyncState, Steps
    <2>3. r # None
      BY <1>1, NoneAssumption DEF SyncState
    <2>4. sync' = [sync EXCEPT ![i] = state]
      BY <2>1, <1>1 DEF RunsTyped
    <2> QED
      BY <2>2, <2>3, <2>4
  <1> QED
    BY <1>2, <1>3, <1>4 DEF Pick

LEMMA PickTyped ==
    ASSUME TypeOK, NEW i \in Isolates, Pick(i)
    PROVE  TypeOK'
  <1>1. DeviceTyped /\ RunsTyped /\ TokensTyped /\ ClosedIdle /\ ServerTyped
    BY TypeParts
  <1>2. i \in open
    BY <1>1, BusyIsOpen DEF Pick
  <1>3. task' \in BOOLEAN /\ UNCHANGED <<deviceVars, open, sessionVars, serverVars, faults>>
    BY <1>1 DEF Pick, Schedule, RunsTyped
  <1>4. RunsTyped' /\ ClosedIdle'
    BY <1>1, <1>2, <1>3, PickResult, RunStepTyped DEF sessionVars
  <1>5. DeviceTyped' /\ TokensTyped' /\ ServerTyped'
    BY <1>1, <1>3 DEF DeviceTyped, TokensTyped, ServerTyped, deviceVars, sessionVars, serverVars
  <1> QED
    BY <1>4, <1>5, TypePartsNext

\* A call may end the session of the run that makes it, and no other.
LEMMA CallSession ==
    ASSUME TokensTyped, NEW i \in Isolates, CallRefused(i) \/ UNCHANGED sessionVars
    PROVE  /\ TokensTyped'
           /\ issued' = issued
           /\ \A k \in Isolates : session'[k] = session[k] \/ session'[k] = 0
  <1>1. CASE UNCHANGED sessionVars
    BY <1>1 DEF TokensTyped, sessionVars
  <1>2. CASE HandleUnauthorized(i) /\ UNCHANGED <<issued, live>>
    <2>1. 0 \in 0 .. issued
      BY DEF TokensTyped
    <2> QED
      BY <1>2, <2>1 DEF TokensTyped, HandleUnauthorized
  <1> QED
    BY <1>1, <1>2 DEF CallRefused

\* Where a call leads.
LEMMA CallTyped ==
    ASSUME RunsTyped, ClosedIdle, TokensTyped, NEW i \in Isolates, NEW step,
           sync[i].cur # None, step \in {"photo", "marking", "failing", "signedOut"},
           Goto(i, step), UNCHANGED <<open, task>>,
           CallRefused(i) \/ UNCHANGED sessionVars
    PROVE  RunsTyped' /\ ClosedIdle' /\ TokensTyped'
  <1>1. TokensTyped' /\ \A k \in Isolates : session'[k] = session[k] \/ session'[k] = 0
    BY CallSession
  <1>2. \A k \in Isolates : k \notin open => session'[k] = session[k]
    BY <1>1 DEF ClosedIdle
  <1> QED
    BY <1>1, <1>2, GotoTyped DEF Steps

\* The outcomes of the two calls, as far as the run is concerned.
LEMMA PostOutcome ==
    ASSUME NEW i \in Isolates, Post(i)
    PROVE  /\ \E step \in {"photo", "failing", "signedOut"} :
                Goto(i, step) /\ (step = "photo" => session[i] \in live /\ StoreReport(sync[i].cur, session[i]))
           /\ CallRefused(i) \/ UNCHANGED sessionVars
           /\ stored' = stored \/ (session[i] \in live /\ StoreReport(sync[i].cur, session[i]))
           /\ faults' = faults \/ (faults < MaxFaults /\ faults' = faults + 1)
           /\ UNCHANGED <<deviceVars, open, task, photos>>
  BY DEF Post, CallRefused, CallFails, PhotoNext

LEMMA PhotoOutcome ==
    ASSUME NEW i \in Isolates, SendPhoto(i)
    PROVE  /\ \E step \in {"marking", "failing", "signedOut"} :
                /\ Goto(i, step)
                /\ step = "marking" => file[sync[i].cur] # "fine" \/ StorePhoto(sync[i].cur)
           /\ CallRefused(i) \/ UNCHANGED sessionVars
           /\ \/ photos' = photos
              \/ MayAddPhoto(sync[i].cur, session[i]) /\ StorePhoto(sync[i].cur)
           /\ faults' = faults \/ (faults < MaxFaults /\ faults' = faults + 1)
           /\ UNCHANGED <<deviceVars, open, task, stored>>
  BY DEF SendPhoto, CallRefused, CallFails

\* The run at a call has a report at hand.
LEMMA AtHand ==
    ASSUME RunsTyped, NEW i \in Isolates,
           sync[i].at \notin {"idle", "connecting", "picking"}
    PROVE  sync[i].cur \in Reports /\ sync[i].cur # None
  BY DEF RunsTyped, SyncState

\* Once the server has a report it keeps it, with the author it has.
LEMMA StoreFacts ==
    ASSUME ServerTyped, TokensTyped, NEW r \in Reports, NEW t \in live, StoreReport(r, t)
    PROVE  /\ stored' \in [Reports -> Users \union {None}]
           /\ stored'[r] # None
           /\ \A q \in Reports : stored[q] # None => stored'[q] = stored[q]
  <1>1. t \in 0 .. issued /\ t # 0
    BY DEF TokensTyped
  <1>2. Logins[t] \in Users /\ Logins[t] # None
    BY <1>1, AccountTyped
  <1> QED
    BY <1>2 DEF StoreReport, ServerTyped

LEMMA PostTyped ==
    ASSUME TypeOK, NEW i \in Isolates, Post(i)
    PROVE  TypeOK'
  <1>1. DeviceTyped /\ RunsTyped /\ TokensTyped /\ ClosedIdle /\ ServerTyped
    BY TypeParts
  <1>2. sync[i].cur \in Reports /\ sync[i].cur # None
    BY <1>1, AtHand DEF Post
  <1>3. RunsTyped' /\ ClosedIdle' /\ TokensTyped'
    BY <1>1, <1>2, PostOutcome, CallTyped
  <1>4. DeviceTyped'
    BY <1>1, PostOutcome DEF DeviceTyped, deviceVars
  <1>5. stored' \in [Reports -> Users \union {None}]
        /\ \A q \in Reports : stored[q] # None => stored'[q] # None
    BY <1>1, <1>2, PostOutcome, StoreFacts DEF ServerTyped
  <1>6. faults' \in 0 .. MaxFaults
    BY <1>1, PostOutcome, BoundsAssumption DEF ServerTyped
  <1>7. ServerTyped'
    BY <1>1, <1>5, <1>6, PostOutcome DEF ServerTyped
  <1> QED
    BY <1>3, <1>4, <1>7, TypePartsNext

LEMMA SendPhotoTyped ==
    ASSUME TypeOK, NEW i \in Isolates, SendPhoto(i)
    PROVE  TypeOK'
  <1>1. DeviceTyped /\ RunsTyped /\ TokensTyped /\ ClosedIdle /\ ServerTyped
    BY TypeParts
  <1>2. sync[i].cur \in Reports /\ sync[i].cur # None
    BY <1>1, AtHand DEF SendPhoto
  <1>3. RunsTyped' /\ ClosedIdle' /\ TokensTyped'
    BY <1>1, <1>2, PhotoOutcome, CallTyped
  <1>4. DeviceTyped'
    BY <1>1, PhotoOutcome DEF DeviceTyped, deviceVars
  <1>5. faults' \in 0 .. MaxFaults
    BY <1>1, PhotoOutcome, BoundsAssumption DEF ServerTyped
  <1>6. MayAddPhoto(sync[i].cur, session[i]) => stored[sync[i].cur] # None
    <2>1. SUFFICES ASSUME session[i] \in live PROVE AccountOf(session[i]) # None
      BY DEF MayAddPhoto
    <2>2. session[i] \in 0 .. issued /\ session[i] # 0
      BY <1>1, <2>1 DEF TokensTyped
    <2> QED
      BY <1>1, <2>2, AccountTyped DEF AccountOf
  <1>7. ServerTyped'
    BY <1>1, <1>2, <1>5, <1>6, PhotoOutcome DEF ServerTyped, StorePhoto
  <1> QED
    BY <1>3, <1>4, <1>7, TypePartsNext

\* The three ways a report leaves the run.
LEMMA LeavingTyped ==
    ASSUME TypeOK, NEW i \in Isolates, MarkSynced(i) \/ MarkFailed(i) \/ BreakOff(i)
    PROVE  TypeOK'
  <1>1. DeviceTyped /\ RunsTyped /\ TokensTyped /\ ClosedIdle /\ ServerTyped
    BY TypeParts
  <1>2. sync[i].cur \in Reports /\ sync[i].cur # None /\ i \in open
    BY <1>1, AtHand, BusyIsOpen DEF MarkSynced, MarkFailed, BreakOff
  <1>3. \E record \in Record : Put(i, sync[i].cur, record)
    BY Records DEF MarkSynced, MarkFailed, BreakOff
  <1>4. box' \in [Stores -> [Reports -> Record]]
    BY <1>1, <1>2, <1>3, PutTyped
  <1>5. /\ UNCHANGED <<author, file, open, sessionVars, serverVars, faults>>
        /\ task' \in BOOLEAN
    BY <1>1 DEF MarkSynced, MarkFailed, BreakOff, Schedule, RunsTyped
  <1>6. \E state \in SyncState :
          /\ state.cur = None /\ state.at \in {"idle", "picking"}
          /\ sync' = [sync EXCEPT ![i] = state]
    <2>1. CASE sync' = [sync EXCEPT ![i] = Idle]
      BY <2>1, Records
    <2>2. CASE NextReport(i)
      <3>1. sync[i] \in SyncState
        BY <1>1 DEF RunsTyped
      <3> DEFINE state == [sync[i] EXCEPT !.at = "picking", !.cur = None]
      <3>2. state \in SyncState /\ state.cur = None /\ state.at = "picking"
        BY <3>1 DEF SyncState, Steps
      <3>3. sync' = [sync EXCEPT ![i] = state]
        BY <1>1, <2>2 DEF NextReport, RunsTyped
      <3> QED
        BY <3>2, <3>3
    <2> QED
      BY <2>1, <2>2 DEF MarkSynced, MarkFailed, BreakOff
  <1>7. RunsTyped' /\ ClosedIdle'
    BY <1>1, <1>2, <1>5, <1>6, RunStepTyped DEF sessionVars
  <1>8. DeviceTyped' /\ TokensTyped' /\ ServerTyped'
    BY <1>1, <1>4, <1>5 DEF DeviceTyped, TokensTyped, ServerTyped, sessionVars, serverVars
  <1> QED
    BY <1>7, <1>8, TypePartsNext

LEMMA StepTyped ==
    ASSUME TypeOK, [Next]_vars
    PROVE  TypeOK'
  <1>1. CASE UNCHANGED vars
    BY <1>1 DEF TypeOK, vars, deviceVars, runVars, sessionVars, serverVars
  <1>2. CASE Next
    BY <1>2, NextCases, OpenAppTyped, RunTaskTyped, ClosingTyped, SessionTyped,
       DeviceStepTyped, CreateTyped, BeginTyped, PickTyped, PostTyped, SendPhotoTyped,
       LeavingTyped
  <1> QED
    BY <1>1, <1>2

\* The queue's type invariant holds for any number of reports, accounts,
\* logins and faults.
THEOREM TypeCorrect == Spec => []TypeOK
  BY InitTyped, StepTyped, PTL DEF Spec

-----------------------------------------------------------------------------
(* Nothing is lost.  SyncedMeansDelivered is not inductive: a run may be    *)
(* about to mark a report.  What a run at "marking" knows is that the server *)
(* has taken the photo, and what makes that stable is that a report exists   *)
(* from the moment it is in the queue, so that it is never created again.    *)

\* A run at "photo" or "marking" knows what the server has.
RunKnows ==
    \A i \in Isolates :
      /\ sync[i].at = "photo" => stored[sync[i].cur] # None
      /\ sync[i].at = "marking" => Delivered(sync[i].cur)

\* Records and runs are about reports that were created.
Existing ==
    /\ \A s \in Stores, r \in Reports : author[r] = None => box[s][r].status = "none"
    /\ \A i \in Isolates : \A r \in sync[i].queue \union {sync[i].cur} :
         r # None => author[r] # None

QueueInv == TypeOK /\ RunKnows /\ Existing /\ SyncedMeansDelivered /\ NoReportLost

LEMMA InitQueue == Init => QueueInv
  <1> SUFFICES ASSUME Init PROVE QueueInv
    OBVIOUS
  <1>1. TypeOK
    BY InitTyped
  <1>2. RunKnows /\ Existing
    BY Records DEF Init, RunKnows, Existing
  <1>3. SyncedMeansDelivered /\ NoReportLost
    BY Records DEF Init, SyncedMeansDelivered, NoReportLost
  <1> QED
    BY <1>1, <1>2, <1>3 DEF QueueInv

\* What was delivered stays so, as long as no photo is captured for it again.
LEMMA DeliveredStays ==
    ASSUME \A r \in Reports : stored[r] # None => stored'[r] # None,
           photos \subseteq photos',
           \A r \in Reports : author[r] # None => file'[r] = file[r] \/ file'[r] = "missing"
    PROVE  \A r \in Reports : author[r] # None /\ Delivered(r) => Delivered(r)'
  BY DEF Delivered

\* A step whose writes to the box are sound preserves the two promises: it
\* writes "synced" only of what is delivered, and drops only what is synced.
LEMMA PromisesStay ==
    ASSUME QueueInv, TypeOK',
           author' = author,
           \A r \in Reports : author[r] # None /\ Delivered(r) => Delivered(r)',
           \A s \in Stores, r \in Reports :
             box'[s][r].status = "synced" =>
               (\E q \in Stores : box[q][r].status = "synced") \/ (author[r] # None /\ Delivered(r)),
           \A r \in Reports :
             \/ box'["file"][r].status = box["file"][r].status
             \/ box'["file"][r].status \in {"pending", "failed"}
             \/ author[r] # None /\ Delivered(r)
             \/ box["file"][r].status = "synced"
    PROVE  SyncedMeansDelivered' /\ NoReportLost'
  <1>1. \A r \in Reports : (\E q \in Stores : box[q][r].status = "synced") =>
           author[r] # None /\ Delivered(r)
    BY DEF QueueInv, Existing, SyncedMeansDelivered
  <1>2. SyncedMeansDelivered'
    BY <1>1 DEF SyncedMeansDelivered
  <1>3. NoReportLost'
    <2> SUFFICES ASSUME NEW r \in Reports, author[r] # None, ~Delivered(r)'
                 PROVE  box'["file"][r].status \in {"pending", "failed"}
      BY DEF NoReportLost
    <2>1. ~Delivered(r)
      OBVIOUS
    <2>2. box["file"][r].status \in {"pending", "failed"}
      BY <2>1 DEF QueueInv, NoReportLost
    <2> QED
      BY <2>1, <2>2
  <1> QED
    BY <1>2, <1>3

\* Steps that change neither the records nor what the server has, and whose
\* runs look at nothing new.
LEMMA QuietQueue ==
    ASSUME QueueInv, TypeOK', UNCHANGED <<box, author, file, stored, photos>>,
           RunKnows',
           \A k \in Isolates : \A r \in sync'[k].queue \union {sync'[k].cur} :
             r # None => author[r] # None
    PROVE  QueueInv'
  BY DEF QueueInv, Existing, SyncedMeansDelivered, NoReportLost, Delivered

\* A report in the queue of a store was created.
LEMMA PendingExists ==
    ASSUME QueueInv, NEW s \in Stores, NEW r \in PendingIn(s)
    PROVE  r \in Reports /\ author[r] # None
  BY DEF QueueInv, Existing, PendingIn

LEMMA SessionQueue ==
    ASSUME QueueInv, TypeOK', UNCHANGED <<deviceVars, sync, serverVars>>
    PROVE  QueueInv'
  <1>1. RunKnows'
    BY DEF QueueInv, RunKnows, Delivered, deviceVars, serverVars
  <1>2. \A k \in Isolates : \A r \in sync'[k].queue \union {sync'[k].cur} :
          r # None => author[r] # None
    BY DEF QueueInv, Existing
  <1> QED
    BY <1>1, <1>2, QuietQueue DEF deviceVars, serverVars

LEMMA OpenQueue ==
    ASSUME QueueInv, TypeOK', OpenApp \/ RunTask
    PROVE  QueueInv'
  <1>1. RunsTyped /\ DeviceTyped /\ ClosedIdle
    BY TypeParts DEF QueueInv
  <1>2. PICK i \in Isolates, old \in SUBSET Purgeable : Initialize(i, old)
    BY DEF OpenApp, RunTask, Isolates
  <1>3. UNCHANGED <<author, file, stored, photos>>
    BY DEF OpenApp, RunTask, serverVars
  <1>4. \A s \in Stores, r \in Reports :
          \/ box'[s][r].status \in {box[s][r].status, box["file"][r].status}
          \/ box'[s][r].status = "none"
    BY <1>2, Records DEF Initialize
  <1>5. \A r \in Reports : box'["file"][r].status = box["file"][r].status
                             \/ box["file"][r].status = "synced"
    BY <1>2 DEF Initialize, Purgeable, Stores
  <1>6. "file" \in Stores
    BY DEF Stores
  <1>7. SyncedMeansDelivered' /\ NoReportLost'
    <2>1. \A r \in Reports : author[r] # None /\ Delivered(r) => Delivered(r)'
      BY <1>3 DEF Delivered
    <2>2. \A s \in Stores, r \in Reports : box'[s][r].status = "synced" =>
             \E q \in Stores : box[q][r].status = "synced"
      BY <1>4, <1>6
    <2> QED
      BY <1>3, <1>5, <2>1, <2>2, PromisesStay
  <1>8. \A k \in Isolates :
          \/ sync'[k] = sync[k]
          \/ /\ sync'[k].at = "connecting" /\ sync'[k].cur = sync[k].cur
             /\ sync'[k].queue = PendingIn("file")
    <2>1. CASE OpenApp
      BY <2>1 DEF OpenApp
    <2>2. CASE RunTask
      BY <1>1, <2>2 DEF RunTask, RunsTyped, SyncState
    <2> QED
      BY <2>1, <2>2
  <1>9. RunKnows'
    <2> SUFFICES ASSUME NEW k \in Isolates
                 PROVE  /\ sync'[k].at = "photo" => stored'[sync'[k].cur] # None
                        /\ sync'[k].at = "marking" => Delivered(sync[k].cur)' /\ sync'[k].cur = sync[k].cur
      BY DEF RunKnows, Delivered
    <2>1. CASE sync'[k] = sync[k]
      BY <1>3, <2>1 DEF QueueInv, RunKnows, Delivered
    <2>2. CASE sync'[k].at = "connecting"
      BY <2>2
    <2> QED
      BY <1>8, <2>1, <2>2
  <1>10. Existing'
    <2>1. \A s \in Stores, r \in Reports : author'[r] = None => box'[s][r].status = "none"
      BY <1>3, <1>4, <1>6 DEF QueueInv, Existing
    <2>2. \A k \in Isolates : \A r \in sync'[k].queue \union {sync'[k].cur} :
            r # None => author'[r] # None
      BY <1>3, <1>6, <1>8, PendingExists DEF QueueInv, Existing
    <2> QED
      BY <2>1, <2>2 DEF Existing
  <1> QED
    BY <1>7, <1>9, <1>10 DEF QueueInv

LEMMA CloseQueue ==
    ASSUME QueueInv, TypeOK', CloseApp \/ FinishTask \/ StopTask
    PROVE  QueueInv'
  <1>1. RunsTyped /\ DeviceTyped
    BY TypeParts DEF QueueInv
  <1>2. PICK i \in Isolates : Close(i) /\ i # "file"
    BY DEF CloseApp, FinishTask, StopTask, Isolates
  <1>3. UNCHANGED <<author, file, stored, photos>>
    BY DEF CloseApp, FinishTask, StopTask, serverVars
  <1>4. \A s \in Stores, r \in Reports :
          box'[s][r].status \in {box[s][r].status, "none"}
    BY <1>2, Records DEF Close
  <1>5. \A r \in Reports : box'["file"][r].status = box["file"][r].status
    BY <1>2 DEF Close, Stores
  <1>6. \A k \in Isolates : sync'[k] \in {Idle, sync[k]}
    BY <1>1, <1>2 DEF Close, RunsTyped
  <1>7. SyncedMeansDelivered' /\ NoReportLost'
    <2>1. \A r \in Reports : author[r] # None /\ Delivered(r) => Delivered(r)'
      BY <1>3 DEF Delivered
    <2> QED
      BY <1>3, <1>4, <1>5, <2>1, PromisesStay
  <1>8. RunKnows'
    <2> SUFFICES ASSUME NEW k \in Isolates, sync'[k] = sync[k]
                 PROVE  /\ sync[k].at = "photo" => stored'[sync[k].cur] # None
                        /\ sync[k].at = "marking" => Delivered(sync[k].cur)'
      BY <1>6, Records DEF RunKnows, Delivered
    <2> QED
      BY <1>3 DEF QueueInv, RunKnows, Delivered
  <1>9. Existing'
    BY <1>3, <1>4, <1>6, Records DEF QueueInv, Existing
  <1> QED
    BY <1>7, <1>8, <1>9 DEF QueueInv

LEMMA DeviceQueue ==
    ASSUME QueueInv, TypeOK', (\E r \in Reports : LoseFile(r))
             \/ (\E s \in Stores, r \in Reports : BackoffEnds(s, r))
    PROVE  QueueInv'
  <1>1. DeviceTyped
    BY TypeParts DEF QueueInv
  <1>2. UNCHANGED <<author, sync, stored, photos>>
    BY DEF LoseFile, BackoffEnds, runVars, serverVars
  <1>3. \A r \in Reports : file'[r] = file[r] \/ file'[r] = "missing"
    BY <1>1 DEF LoseFile, BackoffEnds, DeviceTyped
  <1>4. \A s \in Stores, r \in Reports : box'[s][r].status = box[s][r].status
    <2>1. CASE \E r \in Reports : LoseFile(r)
      BY <2>1 DEF LoseFile
    <2>2. CASE \E s \in Stores, r \in Reports : BackoffEnds(s, r)
      BY <1>1, <2>2 DEF BackoffEnds, DeviceTyped, Record
    <2> QED
      BY <2>1, <2>2
  <1>5. \A r \in Reports : author[r] # None /\ Delivered(r) => Delivered(r)'
    BY <1>2, <1>3, DeliveredStays
  <1>6. SyncedMeansDelivered' /\ NoReportLost'
    <2>1. \A s \in Stores, r \in Reports : box'[s][r].status = "synced" =>
             \E q \in Stores : box[q][r].status = "synced"
      BY <1>4
    <2>2. \A r \in Reports : box'["file"][r].status = box["file"][r].status
      BY <1>4 DEF Stores
    <2> QED
      BY <1>2, <1>5, <2>1, <2>2, PromisesStay
  <1>7. RunKnows'
    <2> SUFFICES ASSUME NEW k \in Isolates
                 PROVE  /\ sync[k].at = "photo" => stored[sync[k].cur] # None
                        /\ sync[k].at = "marking" => Delivered(sync[k].cur)'
      BY <1>2 DEF RunKnows, Delivered
    <2>1. RunsTyped
      BY TypeParts DEF QueueInv
    <2>2. sync[k].at = "marking" =>
            sync[k].cur \in Reports /\ author[sync[k].cur] # None /\ Delivered(sync[k].cur)
      BY <2>1, AtHand DEF QueueInv, RunKnows, Existing
    <2> QED
      BY <1>2, <1>5, <2>2 DEF QueueInv, RunKnows, Delivered
  <1>8. Existing'
    BY <1>2, <1>4 DEF QueueInv, Existing
  <1> QED
    BY <1>6, <1>7, <1>8 DEF QueueInv

\* A new report: nothing was known of it, and it is in the file at once.
LEMMA CreateQueue ==
    ASSUME QueueInv, TypeOK', NEW r \in Reports, Create(r)
    PROVE  QueueInv'
  <1>1. RunsTyped /\ DeviceTyped /\ TokensTyped /\ "app" \in Isolates
    BY TypeParts DEF QueueInv, Isolates
  <1>2. author'[r] # None /\ \A q \in Reports : q # r => author'[q] = author[q]
    <2>1. session["app"] \in 0 .. issued /\ session["app"] # 0
      BY <1>1 DEF TokensTyped, Create
    <2>2. AccountOf(session["app"]) # None
      BY <1>1, <2>1, AccountTyped DEF AccountOf
    <2> QED
      BY <1>1, <2>2 DEF DeviceTyped, Create
  <1>3. UNCHANGED <<stored, photos>>
    BY DEF Create, serverVars
  <1>4. \A q \in Reports : q # r => file'[q] = file[q]
    BY <1>1 DEF DeviceTyped, Create
  <1>5. \A s \in Stores, q \in Reports :
          box'[s][q].status = IF q = r THEN "pending" ELSE box[s][q].status
    BY <1>1, Records DEF DeviceTyped, Create, Put, Stores
  <1>6. \A q \in Reports : q # r => (Delivered(q) <=> Delivered(q)')
    BY <1>3, <1>4 DEF Delivered
  <1>7. SyncedMeansDelivered'
    BY <1>5, <1>6 DEF QueueInv, SyncedMeansDelivered
  <1>8. NoReportLost'
    <2>1. box'["file"][r].status = "pending"
      BY <1>5 DEF Stores
    <2>2. \A q \in Reports : q # r => box'["file"][q].status = box["file"][q].status
      BY <1>5 DEF Stores
    <2> QED
      BY <1>2, <1>6, <2>1, <2>2 DEF QueueInv, NoReportLost
  <1>9. /\ sync'["app"].at = "connecting"
        /\ \A k \in Isolates : /\ sync'[k].queue = sync[k].queue /\ sync'[k].cur = sync[k].cur
                               /\ sync'[k].at \in {sync[k].at, "connecting"}
    BY <1>1 DEF Create, Goto, RunsTyped, SyncState
  <1>10. RunKnows'
    <2> SUFFICES ASSUME NEW k \in Isolates, sync[k].at \in {"photo", "marking"}
                 PROVE  /\ sync[k].at = "photo" => stored'[sync'[k].cur] # None
                        /\ sync[k].at = "marking" => Delivered(sync[k].cur)'
      BY <1>9 DEF RunKnows, Delivered
    <2>1. sync[k].cur \in Reports /\ sync[k].cur # None
      BY <1>1, AtHand
    <2>2. author[sync[k].cur] # None
      BY <2>1 DEF QueueInv, Existing
    <2>3. sync[k].cur # r
      BY <2>2 DEF Create
    <2> QED
      BY <1>3, <1>4, <1>9, <2>1, <2>3 DEF QueueInv, RunKnows, Delivered
  <1>11. Existing'
    <2>1. \A s \in Stores, q \in Reports : author'[q] = None => box'[s][q].status = "none"
      BY <1>2, <1>5 DEF QueueInv, Existing
    <2>2. \A k \in Isolates : \A q \in sync[k].queue \union {sync[k].cur} :
            q # None => q \in Reports /\ author[q] # None
      BY <1>1 DEF QueueInv, Existing, RunsTyped, SyncState
    <2>3. \A k \in Isolates : \A q \in sync'[k].queue \union {sync'[k].cur} :
            q # None => author'[q] # None
      BY <1>2, <1>9, <2>2
    <2> QED
      BY <2>1, <2>3 DEF Existing
  <1> QED
    BY <1>7, <1>8, <1>10, <1>11 DEF QueueInv

\* The start of a run and the choice of its next report.
LEMMA LookQueue ==
    ASSUME QueueInv, TypeOK', NEW i \in Isolates,
           (\E net \in {"none", "mobile", "wifi"} : Begin(i, net)) \/ Pick(i)
    PROVE  QueueInv'
  <1>1. RunsTyped
    BY TypeParts DEF QueueInv
  <1>2. UNCHANGED <<box, author, file, stored, photos>>
    BY DEF Begin, Pick, deviceVars, serverVars
  <1>3. \E state \in SyncState :
          /\ state.at \in {"idle", "picking", "posting"}
          /\ \A r \in state.queue \union {state.cur} : r # None => author[r] # None
          /\ sync' = [sync EXCEPT ![i] = state]
    <2>1. CASE Pick(i)
      <3>1. \A r \in sync[i].queue : r # None => author[r] # None
        BY DEF QueueInv, Existing
      <3> QED
        BY <1>1, <2>1, <3>1, PickResult
    <2>2. CASE \E net \in {"none", "mobile", "wifi"} : Begin(i, net)
      <3>1. CASE sync' = [sync EXCEPT ![i] = Idle]
        BY <3>1, Records
      <3>2. CASE \E mobile \in BOOLEAN :
                   sync' = [sync EXCEPT ![i] =
                     [at |-> "picking", cur |-> None, mobile |-> mobile,
                      queue |-> IF i = "app" THEN PendingIn("app") ELSE sync[i].queue]]
        <4> DEFINE queue == IF i = "app" THEN PendingIn("app") ELSE sync[i].queue
        <4>1. sync[i] \in SyncState /\ "app" \in Stores
          BY <1>1 DEF RunsTyped, Stores
        <4>2. queue \in SUBSET Reports /\ \A r \in queue : r # None => author[r] # None
          BY <4>1, PendingExists DEF SyncState, PendingIn, QueueInv, Existing
        <4> HIDE DEF queue
        <4>3. PICK mobile \in BOOLEAN :
                sync' = [sync EXCEPT ![i] = [at |-> "picking", cur |-> None,
                                             mobile |-> mobile, queue |-> queue]]
          BY <3>2 DEF queue
        <4> DEFINE state == [at |-> "picking", cur |-> None, mobile |-> mobile, queue |-> queue]
        <4>4. state \in SyncState /\ state.at = "picking" /\ state.cur = None
              /\ state.queue = queue
          BY <4>2 DEF SyncState, Steps
        <4> QED
          BY <4>2, <4>3, <4>4
      <3> QED
        BY <2>2, <3>1, <3>2 DEF Begin
    <2> QED
      BY <2>1, <2>2
  <1>4. PICK state \in SyncState :
          /\ state.at \in {"idle", "picking", "posting"}
          /\ \A r \in state.queue \union {state.cur} : r # None => author[r] # None
          /\ sync' = [sync EXCEPT ![i] = state]
    BY <1>3
  <1>5. \A k \in Isolates : sync'[k] = IF k = i THEN state ELSE sync[k]
    BY <1>1, <1>4 DEF RunsTyped
  <1>6. RunKnows'
    BY <1>2, <1>4, <1>5 DEF QueueInv, RunKnows, Delivered
  <1>7. \A k \in Isolates : \A r \in sync'[k].queue \union {sync'[k].cur} :
          r # None => author[r] # None
    BY <1>4, <1>5 DEF QueueInv, Existing
  <1> QED
    BY <1>2, <1>6, <1>7, QuietQueue

\* A call of run i that leads it to a step where it knows enough.
LEMMA CallQueue ==
    ASSUME QueueInv, TypeOK', NEW i \in Isolates, NEW step,
           UNCHANGED <<box, author, file>>, Goto(i, step),
           sync[i].cur \in Reports /\ sync[i].cur # None,
           \A r \in Reports : stored[r] # None => stored'[r] # None,
           photos \subseteq photos',
           step = "photo" => stored'[sync[i].cur] # None,
           step = "marking" =>
             stored'[sync[i].cur] # None
               /\ (sync[i].cur \in photos' \/ file[sync[i].cur] # "fine")
    PROVE  QueueInv'
  <1>1. RunsTyped
    BY TypeParts DEF QueueInv
  <1>2. \A k \in Isolates :
          /\ sync'[k].queue = sync[k].queue /\ sync'[k].cur = sync[k].cur
          /\ sync'[k].at = IF k = i THEN step ELSE sync[k].at
    BY <1>1 DEF Goto, RunsTyped, SyncState
  <1>3. \A r \in Reports : author[r] # None /\ Delivered(r) => Delivered(r)'
    BY DeliveredStays
  <1>4. SyncedMeansDelivered' /\ NoReportLost'
    BY <1>3, PromisesStay
  <1>5. RunKnows'
    <2> SUFFICES ASSUME NEW k \in Isolates, sync'[k].at \in {"photo", "marking"}
                 PROVE  /\ stored'[sync[k].cur] # None
                        /\ sync'[k].at = "marking" =>
                             sync[k].cur \in photos' \/ file[sync[k].cur] # "fine"
      BY <1>2 DEF RunKnows, Delivered
    <2>1. CASE k = i
      BY <1>2, <2>1
    <2>2. CASE k # i
      <3>1. sync[k].at = sync'[k].at
        BY <1>2, <2>2
      <3>2. sync[k].cur \in Reports
        BY <1>1, <3>1, AtHand
      <3> QED
        BY <3>1, <3>2 DEF QueueInv, RunKnows, Delivered
    <2> QED
      BY <2>1, <2>2
  <1>6. Existing'
    BY <1>2 DEF QueueInv, Existing
  <1> QED
    BY <1>4, <1>5, <1>6 DEF QueueInv

LEMMA PostQueue ==
    ASSUME QueueInv, TypeOK', NEW i \in Isolates, Post(i)
    PROVE  QueueInv'
  <1>1. RunsTyped /\ TokensTyped /\ ServerTyped
    BY TypeParts DEF QueueInv
  <1>2. sync[i].cur \in Reports /\ sync[i].cur # None
    BY <1>1, AtHand DEF Post
  <1>3. PICK step \in {"photo", "failing", "signedOut"} :
          Goto(i, step) /\ (step = "photo" =>
            session[i] \in live /\ StoreReport(sync[i].cur, session[i]))
    BY PostOutcome
  <1>4. UNCHANGED <<box, author, file, photos>>
    BY PostOutcome DEF deviceVars
  <1>5. /\ \A r \in Reports : stored[r] # None => stored'[r] # None
        /\ step = "photo" => stored'[sync[i].cur] # None
    BY <1>1, <1>2, <1>3, PostOutcome, StoreFacts
  <1> QED
    BY <1>2, <1>3, <1>4, <1>5, CallQueue

LEMMA SendPhotoQueue ==
    ASSUME QueueInv, TypeOK', NEW i \in Isolates, SendPhoto(i)
    PROVE  QueueInv'
  <1>1. RunsTyped
    BY TypeParts DEF QueueInv
  <1>2. sync[i].cur \in Reports /\ sync[i].cur # None
    BY <1>1, AtHand DEF SendPhoto
  <1>3. PICK step \in {"marking", "failing", "signedOut"} :
          /\ Goto(i, step)
          /\ step = "marking" => file[sync[i].cur] # "fine" \/ StorePhoto(sync[i].cur)
    BY PhotoOutcome
  <1>4. UNCHANGED <<box, author, file, stored>> /\ photos \subseteq photos'
    BY PhotoOutcome DEF deviceVars, StorePhoto
  <1>5. stored[sync[i].cur] # None
    BY DEF QueueInv, RunKnows, SendPhoto
  <1>6. step = "marking" =>
          sync[i].cur \in photos' \/ file[sync[i].cur] # "fine"
    BY <1>3 DEF StorePhoto
  <1> QED
    BY <1>2, <1>3, <1>4, <1>5, <1>6, CallQueue

LEMMA LeavingQueue ==
    ASSUME QueueInv, TypeOK', NEW i \in Isolates, MarkSynced(i) \/ MarkFailed(i) \/ BreakOff(i)
    PROVE  QueueInv'
  <1>1. RunsTyped /\ DeviceTyped
    BY TypeParts DEF QueueInv
  <1>2. sync[i].cur \in Reports /\ sync[i].cur # None /\ author[sync[i].cur] # None
    BY <1>1, AtHand DEF MarkSynced, MarkFailed, BreakOff, QueueInv, Existing
  <1>3. UNCHANGED <<author, file, stored, photos>>
    BY DEF MarkSynced, MarkFailed, BreakOff, serverVars
  <1>4. PICK record \in {Synced, Failed} :
          /\ Put(i, sync[i].cur, record)
          /\ record = Synced => Delivered(sync[i].cur)
    BY Records DEF MarkSynced, MarkFailed, BreakOff, QueueInv, RunKnows
  <1>5. \A s \in Stores, r \in Reports :
          box'[s][r] = IF s \in {i, "file"} /\ r = sync[i].cur THEN record ELSE box[s][r]
    BY <1>1, <1>2, <1>4 DEF Put, DeviceTyped
  <1>6. SyncedMeansDelivered' /\ NoReportLost'
    <2>1. \A r \in Reports : author[r] # None /\ Delivered(r) => Delivered(r)'
      BY <1>3 DEF Delivered
    <2>2. record.status = "failed" \/ (record.status = "synced" /\ Delivered(sync[i].cur))
      BY <1>4, Records
    <2>3. \A s \in Stores, r \in Reports : box'[s][r].status = "synced" =>
             (\E q \in Stores : box[q][r].status = "synced")
               \/ (author[r] # None /\ Delivered(r))
      BY <1>2, <1>5, <2>2
    <2>4. \A r \in Reports :
             \/ box'["file"][r].status = box["file"][r].status
             \/ box'["file"][r].status \in {"pending", "failed"}
             \/ author[r] # None /\ Delivered(r)
      BY <1>2, <1>5, <2>2 DEF Stores
    <2> QED
      BY <1>3, <2>1, <2>3, <2>4, PromisesStay
  <1>7. \A k \in Isolates :
          \/ sync'[k] = sync[k]
          \/ /\ sync'[k].at \in {"idle", "picking"} /\ sync'[k].cur = None
             /\ sync'[k].queue \subseteq sync[k].queue
    BY <1>1, Records DEF MarkSynced, MarkFailed, BreakOff, NextReport, RunsTyped, SyncState
  <1>8. RunKnows'
    <2> SUFFICES ASSUME NEW k \in Isolates, sync'[k] = sync[k]
                 PROVE  /\ sync[k].at = "photo" => stored'[sync[k].cur] # None
                        /\ sync[k].at = "marking" =>
                             stored'[sync[k].cur] # None
                               /\ (sync[k].cur \in photos' \/ file'[sync[k].cur] # "fine")
      BY <1>7 DEF RunKnows, Delivered
    <2> QED
      BY <1>3 DEF QueueInv, RunKnows, Delivered
  <1>9. Existing'
    <2>1. \A s \in Stores, r \in Reports : author'[r] = None => box'[s][r].status = "none"
      BY <1>2, <1>3, <1>5 DEF QueueInv, Existing
    <2>2. \A k \in Isolates : \A r \in sync'[k].queue \union {sync'[k].cur} :
            r # None => author'[r] # None
      BY <1>3, <1>7 DEF QueueInv, Existing
    <2> QED
      BY <2>1, <2>2 DEF Existing
  <1> QED
    BY <1>6, <1>8, <1>9 DEF QueueInv

LEMMA StepQueue ==
    ASSUME QueueInv, [Next]_vars
    PROVE  QueueInv'
  <1>1. TypeOK'
    BY StepTyped DEF QueueInv
  <1>2. CASE UNCHANGED vars
    BY <1>1, <1>2, SessionQueue DEF vars, runVars
  <1>3. CASE Login \/ Logout \/ (\E t \in live : Expire(t))
               \/ (\E i \in Isolates : NoticeExpired(i))
    BY <1>1, <1>3, SessionQueue DEF Login, Logout, Expire, NoticeExpired, runVars
  <1>4. CASE Next
    BY <1>1, <1>3, <1>4, NextCases, OpenQueue, CloseQueue, DeviceQueue, CreateQueue,
       LookQueue, PostQueue, SendPhotoQueue, LeavingQueue
  <1> QED
    BY <1>2, <1>4

LEMMA QueueAlways == Spec => []QueueInv
  BY InitQueue, StepQueue, PTL DEF Spec

\* No record says "synced" of a report, or of a photo the API would have taken,
\* that the server lacks, whatever the two isolates, the faults and the
\* sessions do.
THEOREM SyncedIsDelivered == Spec => []SyncedMeansDelivered
  <1>1. QueueInv => SyncedMeansDelivered
    BY DEF QueueInv
  <1> QED
    BY <1>1, QueueAlways, PTL

\* No report a citizen created is ever lost.
THEOREM NothingLost == Spec => []NoReportLost
  <1>1. QueueInv => NoReportLost
    BY DEF QueueInv
  <1> QED
    BY <1>1, QueueAlways, PTL
=============================================================================
