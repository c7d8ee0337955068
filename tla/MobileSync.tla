----------------------------- MODULE MobileSync -----------------------------
(***************************************************************************)
(* The offline queue of the mobile app.  A report is first saved in a Hive *)
(* box on the device; synchronize() later uploads what is pending: a POST  *)
(* of the report, a PUT of its photo, then markSynced.  It runs in two     *)
(* Dart isolates that share nothing but the disk: the app, when a report   *)
(* is created, and the Workmanager background task.  Each opens the box    *)
(* for itself and from then on reads its own in-memory copy, while every   *)
(* put also reaches the file; of the copy of the task, which reads it once *)
(* per run, only the queue taken from it is kept here.  Each also has its  *)
(* own copy of the session, read once from the secure storage.             *)
(*                                                                         *)
(* Tokens are numbered in the order of the logins, and token 0 is no       *)
(* session.  A record keeps what the queue looks at: its status, and       *)
(* whether nextAttemptAt is still ahead.  What Connectivity reports is an  *)
(* input of the step that asks for it.                                     *)
(***************************************************************************)
EXTENDS Naturals, Sequences

CONSTANTS
    Reports,     \* the ids the app may draw for its reports
    Users,       \* the accounts that use the device
    None,        \* no account, no report
    Logins,      \* bound on logins: who logs in on the device, in this order
    MaxFaults    \* bound on faults: calls that fail, runs the system stops

ASSUME NoneAssumption == None \notin Users \union Reports
ASSUME LoginsAssumption == Logins \in Seq(Users)
ASSUME BoundsAssumption == MaxFaults \in Nat

VARIABLES
    box,            \* the records in the file and in the app's copy of it
    author,         \* reportedById of each report, None before it exists
    file,           \* per report: the photo on the device, if the API would take it
    open,           \* the isolates that are running
    sync,           \* per isolate: where its synchronize() is
    session,        \* per isolate: the token AuthService holds in memory
    storedSession,  \* the token in the secure storage
    issued,         \* how many tokens were issued
    live,           \* tokens the server still accepts
    task,           \* a one-off background task is registered
    stored,         \* server: reported_by of each stored report
    photos,         \* server: reports with a photo
    faults          \* calls that failed and runs that were stopped

deviceVars == <<box, author, file>>
runVars == <<open, sync, task>>
sessionVars == <<session, storedSession, issued, live>>
serverVars == <<stored, photos>>
vars == <<deviceVars, runVars, sessionVars, serverVars, faults>>

Isolates == {"app", "background"}
Stores == {"file", "app"}

\* Only a failed record waits (nextAttemptAt).
Record ==
    {r \in [status : {"none", "pending", "synced", "failed"}, waiting : BOOLEAN] :
       r.waiting => r.status = "failed"}
NoRecord == [status |-> "none", waiting |-> FALSE]
Pending == [status |-> "pending", waiting |-> FALSE]
Synced_StillWaiting == [status |-> "synced", waiting |-> TRUE]

\* copyWith sets nextAttemptAt to null, as asked.
Synced == [status |-> "synced", waiting |-> FALSE]
Failed == [status |-> "failed", waiting |-> TRUE]

Steps == {"idle", "connecting", "picking", "posting", "photo",
          "marking", "failing", "signedOut"}
Idle == [at |-> "idle", queue |-> {}, cur |-> None, mobile |-> FALSE]

TypeOK ==
    /\ box \in [Stores -> [Reports -> Record]]
    /\ author \in [Reports -> Users \union {None}]
    /\ file \in [Reports -> {"missing", "fine", "refusable"}]
    /\ open \subseteq Isolates
    /\ sync \in [Isolates -> [at : Steps, queue : SUBSET Reports,
                              cur : Reports \union {None}, mobile : BOOLEAN]]
    /\ \A i \in Isolates :
         /\ sync[i].cur = None <=> sync[i].at \in {"idle", "connecting", "picking"}
         /\ i \notin open => sync[i] = Idle /\ session[i] = 0
    /\ issued \in 0 .. Len(Logins)
    /\ live \subseteq 1 .. issued
    /\ session \in [Isolates -> 0 .. issued]
    /\ storedSession \in 0 .. issued
    /\ task \in BOOLEAN
    /\ stored \in [Reports -> Users \union {None}]
    /\ photos \subseteq {r \in Reports : stored[r] # None}
    /\ faults \in 0 .. MaxFaults

-----------------------------------------------------------------------------
(* What the records and the sessions say *)

AccountOf(t) == IF t = 0 THEN None ELSE Logins[t]

PendingIn_NewOnly(s) ==
    {r \in Reports : box[s][r].status = "pending" /\ ~box[s][r].waiting}

\* IncidentRepositoryImpl.pending
PendingIn(s) ==
    {r \in Reports : box[s][r].status \in {"pending", "failed"} /\ ~box[s][r].waiting}

\* What CreateIncidentUseCase leaves at the defaults of Incident: nothing on
\* the device ever raises them, so every report of the queue has the same rank.
Severity == "moderado"
PriorityScore == 50

\* May the report be sent over mobile data?
UrgentEnough == Severity = "critico" \/ PriorityScore >= 75

-----------------------------------------------------------------------------
(* Small steps shared by the actions *)

\* HiveIncidentLocalDataSource.put: the isolate's own copy and the file.
Put(i, r, record) ==
    box' = [s \in Stores |->
              IF s \in {i, "file"} THEN [box[s] EXCEPT ![r] = record] ELSE box[s]]

Goto(i, step) == sync' = [sync EXCEPT ![i].at = step]

\* Leave the current report and look at the next one of the queue.
NextReport(i) == sync' = [sync EXCEPT ![i].at = "picking", ![i].cur = None]

\* BackgroundSync.schedule: replaces the task that is registered, if any.
Schedule == task' = TRUE

\* AuthService.handleUnauthorized, when there is a session: forget it, also in
\* the storage.
HandleUnauthorized(i) ==
    /\ session' = [session EXCEPT ![i] = 0]
    /\ storedSession' = 0

-----------------------------------------------------------------------------
(* The life of the two isolates *)

Init ==
    /\ box = [s \in Stores |-> [r \in Reports |-> NoRecord]]
    /\ author = [r \in Reports |-> None]
    /\ file = [r \in Reports |-> "missing"]
    /\ open = {}
    /\ sync = [i \in Isolates |-> Idle]
    /\ session = [i \in Isolates |-> 0]
    /\ storedSession = 0
    /\ issued = 0
    /\ live = {}
    /\ task = FALSE
    /\ stored = [r \in Reports |-> None]
    /\ photos = {}
    /\ faults = 0

Purgeable_AnyStatus == {r \in Reports : box["file"][r].status # "none"}

\* Synced records of the file, those past 30 days being any of them.
Purgeable == {r \in Reports : box["file"][r].status = "synced"}

\* AppInitializer.initialize: open the box, purge old synced records, restore
\* the session from the secure storage.
Initialize(i, old) ==
    LET kept == [r \in Reports |-> IF r \in old THEN NoRecord ELSE box["file"][r]]
    IN  /\ box' = [s \in Stores |-> IF s \in {i, "file"} THEN kept ELSE box[s]]
        /\ open' = open \union {i}
        /\ session' = [session EXCEPT ![i] = storedSession]

OpenApp ==
    /\ "app" \notin open
    /\ \E old \in SUBSET Purgeable : Initialize("app", old)
    /\ Schedule
    /\ UNCHANGED <<author, file, sync, storedSession, issued, live,
                   serverVars, faults>>

\* Workmanager runs the task.
RunTask ==
    /\ task
    /\ "background" \notin open
    /\ task' = FALSE
    /\ \E old \in SUBSET Purgeable : Initialize("background", old)
    /\ sync' = [sync EXCEPT !["background"].at = "connecting",
                            !["background"].queue = PendingIn("file")]
    /\ UNCHANGED <<author, file, storedSession, issued, live,
                   serverVars, faults>>

Close(i) ==
    /\ open' = open \ {i}
    /\ sync' = [sync EXCEPT ![i] = Idle]
    /\ session' = [session EXCEPT ![i] = 0]
    /\ box' = [s \in Stores |-> IF s = i THEN [r \in Reports |-> NoRecord] ELSE box[s]]

\* synchronize() returned: the task registers its successor, whatever is left.
FinishTask ==
    /\ "background" \in open
    /\ sync["background"].at = "idle"
    /\ Close("background")
    /\ Schedule
    /\ UNCHANGED <<author, file, storedSession, issued, live,
                   serverVars, faults>>

\* The system stops the task, or the task fails and returns false: Workmanager
\* will run it again.
StopTask ==
    /\ "background" \in open /\ faults < MaxFaults
    /\ faults' = faults + 1
    /\ Close("background")
    /\ Schedule
    /\ UNCHANGED <<author, file, storedSession, issued, live,
                   serverVars>>

CloseApp ==
    /\ "app" \in open
    /\ Close("app")
    /\ UNCHANGED <<author, file, storedSession, issued, live, task,
                   serverVars, faults>>

-----------------------------------------------------------------------------
(* The citizen's session *)

Login ==
    /\ "app" \in open /\ session["app"] = 0
    /\ issued < Len(Logins)
    /\ issued' = issued + 1
    /\ live' = live \union {issued'}
    /\ storedSession' = issued'
    /\ session' = [session EXCEPT !["app"] = issued']
    /\ UNCHANGED <<deviceVars, runVars, serverVars, faults>>

\* logout revokes the token if the API answers, and ends the session anyway.
Logout ==
    /\ session["app"] # 0
    /\ live' \in {live, live \ {session["app"]}}
    /\ session' = [session EXCEPT !["app"] = 0]
    /\ storedSession' = 0
    /\ UNCHANGED <<deviceVars, runVars, issued, serverVars, faults>>

\* A token reaches the end of its life.
Expire(t) ==
    /\ t \in live
    /\ live' = live \ {t}
    /\ UNCHANGED <<deviceVars, runVars, session, storedSession, issued,
                   serverVars, faults>>

\* Another call of the isolate (the map feed, the proximity check) meets a 401.
NoticeExpired(i) ==
    /\ session[i] # 0 /\ session[i] \notin live
    /\ HandleUnauthorized(i)
    /\ UNCHANGED <<deviceVars, runVars, issued, live, serverVars, faults>>

-----------------------------------------------------------------------------
(* Creating a report *)

\* CreateIncidentUseCase, then synchronize().
Create(r) ==
    /\ sync["app"].at = "idle" /\ session["app"] # 0
    /\ author[r] = None
    /\ author' = [author EXCEPT ![r] = AccountOf(session["app"])]
    /\ \E f \in {"fine", "refusable"} : file' = [file EXCEPT ![r] = f]
    /\ Put("app", r, Pending)
    /\ Goto("app", "connecting")
    /\ UNCHANGED <<open, task, sessionVars, serverVars, faults>>

-----------------------------------------------------------------------------
(* SyncIncidentsService.synchronize *)

\* No network: come back later.  Otherwise take a snapshot of what is pending.
Begin(i, net) ==
    /\ sync[i].at = "connecting"
    /\ \/ /\ net = "none"
          /\ Schedule
          /\ sync' = [sync EXCEPT ![i] = Idle]
       \/ /\ net # "none"
          /\ sync' = [sync EXCEPT
               ![i] = [at |-> "picking", cur |-> None, mobile |-> net = "mobile",
                       queue |-> IF i = "app" THEN PendingIn("app") ELSE sync[i].queue]]
          /\ UNCHANGED task
    /\ UNCHANGED <<deviceVars, open, sessionVars, serverVars, faults>>

\* The next report of the queue: all rank the same, so it may be any of them.
Pick(i) ==
    /\ sync[i].at = "picking"
    /\ \/ /\ sync[i].queue = {}
          /\ sync' = [sync EXCEPT ![i] = Idle]
          /\ UNCHANGED task
       \/ \E r \in sync[i].queue :
            LET rest == sync[i].queue \ {r}
                mine == author[r] = AccountOf(session[i])
                held == sync[i].mobile /\ ~UrgentEnough
            IN  \/ /\ ~mine
                   /\ sync' = [sync EXCEPT ![i].queue = rest]
                   /\ UNCHANGED task
                \/ /\ mine /\ held
                   /\ sync' = [sync EXCEPT ![i].queue = rest]
                   /\ Schedule
                \/ /\ mine /\ ~held
                   /\ sync' = [sync EXCEPT ![i].queue = rest, ![i].cur = r,
                                           ![i].at = "posting"]
                   /\ UNCHANGED task
    /\ UNCHANGED <<deviceVars, open, sessionVars, serverVars, faults>>

\* What the API does with the report: a second POST of it is a duplicate (409).
StoreReport(r, t) ==
    stored' = IF stored[r] = None THEN [stored EXCEPT ![r] = Logins[t]] ELSE stored

\* The call got no further than authorizedHeaders (no session) or the API's check
\* of the token (401).
CallRefused(i) ==
    /\ Goto(i, "signedOut")
    /\ \/ session[i] = 0 /\ UNCHANGED sessionVars
       \/ /\ session[i] # 0 /\ session[i] \notin live
          /\ HandleUnauthorized(i)
          /\ UNCHANGED <<issued, live>>

\* The call fails, on the way there, at the server or on the way back.
CallFails(i) ==
    /\ faults < MaxFaults
    /\ faults' = faults + 1
    /\ Goto(i, "failing")
    /\ UNCHANGED sessionVars

PhotoNext_Skipped(i) == Goto(i, "marking")

\* Accepted (202) or duplicate (409), upload goes on to the photo.
PhotoNext(i) == Goto(i, "photo")

\* HttpIncidentRemoteDataSource.upload, after the wait for the context.
Post(i) ==
    /\ sync[i].at = "posting"
    /\ LET r == sync[i].cur
           t == session[i]
       IN  \/ CallRefused(i) /\ UNCHANGED <<stored, faults>>
           \/ /\ t \in live
              /\ StoreReport(r, t)
              /\ PhotoNext(i)
              /\ UNCHANGED <<sessionVars, faults>>
           \/ /\ t # 0
              /\ CallFails(i)
              /\ UNCHANGED stored \/ (t \in live /\ StoreReport(r, t))
    /\ UNCHANGED <<deviceVars, open, task, photos>>

\* The API takes a photo from the author of the report only (403 otherwise).
MayAddPhoto(r, t) == t \in live /\ stored[r] = AccountOf(t)

StorePhoto(r) == photos' = photos \union {r}

\* uploadPhoto.  A photo that is gone or refused (413, 415) does not hold the
\* queue up.
SendPhoto(i) ==
    /\ sync[i].at = "photo"
    /\ LET r == sync[i].cur
           t == session[i]
       IN  \/ /\ file[r] = "missing"
              /\ Goto(i, "marking")
              /\ UNCHANGED <<photos, sessionVars, faults>>
           \/ /\ file[r] # "missing"
              /\ CallRefused(i)
              /\ UNCHANGED <<photos, faults>>
           \/ /\ file[r] = "refusable" /\ t \in live
              /\ Goto(i, "marking")
              /\ UNCHANGED <<photos, sessionVars, faults>>
           \/ /\ file[r] = "fine" /\ t \in live /\ ~MayAddPhoto(r, t)
              /\ Goto(i, "failing")
              /\ UNCHANGED <<photos, sessionVars, faults>>
           \/ /\ file[r] = "fine" /\ MayAddPhoto(r, t)
              /\ StorePhoto(r)
              /\ Goto(i, "marking")
              /\ UNCHANGED <<sessionVars, faults>>
           \/ /\ file[r] # "missing" /\ t # 0
              /\ CallFails(i)
              /\ \/ UNCHANGED photos
                 \/ file[r] = "fine" /\ MayAddPhoto(r, t) /\ StorePhoto(r)
    /\ UNCHANGED <<deviceVars, open, task, stored>>

MarkSynced(i) ==
    /\ sync[i].at = "marking"
    /\ Put(i, sync[i].cur, Synced)
    /\ NextReport(i)
    /\ UNCHANGED <<author, file, open, task, sessionVars, serverVars, faults>>

\* markFailed, a new date for the task, and on to the next report.
MarkFailed(i) ==
    /\ sync[i].at = "failing"
    /\ Put(i, sync[i].cur, Failed)
    /\ NextReport(i)
    /\ Schedule
    /\ UNCHANGED <<author, file, open, sessionVars, serverVars, faults>>

\* markFailed, then break: no session, no point in trying the others.
BreakOff(i) ==
    /\ sync[i].at = "signedOut"
    /\ Put(i, sync[i].cur, Failed)
    /\ sync' = [sync EXCEPT ![i] = Idle]
    /\ UNCHANGED <<author, file, open, task, sessionVars, serverVars, faults>>

-----------------------------------------------------------------------------
(* The world around *)

\* nextAttemptAt of a failed record passes.
BackoffEnds(s, r) ==
    /\ box[s][r].waiting
    /\ box' = [box EXCEPT ![s][r].waiting = FALSE]
    /\ UNCHANGED <<author, file, runVars, sessionVars, serverVars, faults>>

\* The system cleans the directory the camera left the photo in.
LoseFile(r) ==
    /\ file[r] # "missing"
    /\ file' = [file EXCEPT ![r] = "missing"]
    /\ UNCHANGED <<box, author, runVars, sessionVars, serverVars, faults>>

Synchronize(i) ==
    \/ \E net \in {"none", "mobile", "wifi"} : Begin(i, net)
    \/ Pick(i) \/ Post(i) \/ SendPhoto(i)
    \/ MarkSynced(i) \/ MarkFailed(i) \/ BreakOff(i)

Next ==
    \/ OpenApp \/ CloseApp \/ RunTask \/ FinishTask \/ StopTask
    \/ Login \/ Logout
    \/ \E t \in live : Expire(t)
    \/ \E r \in Reports : Create(r) \/ LoseFile(r)
    \/ \E i \in Isolates : Synchronize(i) \/ NoticeExpired(i)
    \/ \E s \in Stores, r \in Reports : BackoffEnds(s, r)

Spec == Init /\ [][Next]_vars

\* The code that runs goes on, Workmanager runs a registered task, time passes.
\* Nobody has to open the app or log in, and calls fail only finitely often.
Fairness ==
    /\ \A i \in Isolates : WF_vars(Synchronize(i))
    /\ WF_vars(RunTask) /\ WF_vars(FinishTask)
    /\ \A r \in Reports : WF_vars(BackoffEnds("file", r))

\* Again and again the task finds the phone on Wi-Fi ...
WifiSpec == Spec /\ Fairness /\ SF_vars(Begin("background", "wifi"))

\* ... or just connected.
ConnectedSpec ==
    Spec /\ Fairness
      /\ SF_vars(\E net \in {"mobile", "wifi"} : Begin("background", net))

-----------------------------------------------------------------------------
(* What the queue promises *)

\* The server has the report, and its photo unless that was refused or is gone.
Delivered(r) ==
    stored[r] # None /\ (r \in photos \/ file[r] # "fine")

\* A record never says "synced" of a report the server lacks, in the file or in
\* the copy of the app, although a POST may be answered 409, its photo
\* refused, and each isolate overwrites what the other wrote
\* (http_incident_remote_data_source.dart, upload and uploadPhoto).
SyncedMeansDelivered ==
    \A s \in Stores, r \in Reports : box[s][r].status = "synced" => Delivered(r)

\* A report that was created is still in the file's queue until the server has
\* it: no purge, no run stopped midway, no stale copy of the other isolate and
\* no lost call makes it disappear (hive_incident_local_data_source.dart,
\* purgeSyncedOlderThan; incident_repository_impl.dart, markSynced, markFailed).
NoReportLost ==
    \A r \in Reports :
      author[r] # None =>
        box["file"][r].status \in {"pending", "failed"} \/ Delivered(r)

\* From some time on, the author of the report is signed in, and no other
\* account has come to own it at the server.
AuthorStays(r) ==
    /\ <>[](storedSession \in live /\ AccountOf(storedSession) = author[r])
    /\ [](stored[r] \in {None, author[r]})

\* Where Wi-Fi keeps coming back, a report whose author stays signed in is
\* delivered and leaves the queue for good (sync_incidents_service.dart,
\* synchronize; background_sync.dart, backgroundSyncDispatcher).
EventuallySettled ==
    \A r \in Reports :
      AuthorStays(r) =>
        <>[](stored[r] # None /\ box["file"][r].status \in {"synced", "none"})

\* README-POSTGRES.md:59: "o serviço de sincronização tenta enviar pendências
\* quando há conexão".  So where a connection keeps coming back, some call for
\* the report of an author who stays signed in is made.
TriedWhenConnected ==
    \A r \in Reports :
      AuthorStays(r) => <>(\E i \in Isolates : sync[i].cur = r)
=============================================================================
