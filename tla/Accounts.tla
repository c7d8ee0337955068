------------------------------ MODULE Accounts ------------------------------
(***************************************************************************)
(* The life of an account and of its sessions: registration, login, logout *)
(* with its deny list of tokens, deletion of the account, and the requests *)
(* that go on meanwhile (identity/, auth.py).  A request is a sequence of  *)
(* transactions of one statement or a few; between any two of them other   *)
(* requests run, the token may expire and the request may fail.            *)
(*                                                                         *)
(* An access token is a JWT: its signature and expiry are checked in       *)
(* memory, before the database is asked whether its jti was revoked and    *)
(* whether its account still exists.  API and database share one clock.    *)
(* Of a row of users is kept what a deletion must erase: the e-mail, the   *)
(* push token (fcm_token) and the personal data; a position stands for the *)
(* route stored with it, and the categories for the preferences, of which  *)
(* a deletion erases no others.                                            *)
(* The push of evaluate() writes nothing and is left out.                  *)
(***************************************************************************)
CONSTANTS
    Accounts,   \* the ids that registrations draw
    Mails,
    Devices,    \* FCM registration tokens
    Tokens,     \* the jtis that are drawn: bound on the sessions
    Slots,      \* requests served concurrently
    None

ASSUME NoneAssumption == None \notin Accounts \union Mails \union Devices \union Tokens

VARIABLES
    users,      \* users[a]: the row of account a
    alerts,     \* accounts with rows in notifications
    issued,     \* issued[t]: the account of token t
    expired,    \* tokens past their exp
    revoked,    \* revoked_tokens
    req,        \* req[q]: the request in slot q
    loggedOut,  \* history: tokens whose logout was answered
    alone       \* history: accounts removed while no other request of theirs was being served

vars == <<users, alerts, issued, expired, revoked, req, loggedOut, alone>>

Personal == {"position", "categories"}
UserRow == [state : {"none", "active", "removed"}, mail : Mails \union {None},
            push : Devices \union {None}, data : SUBSET Personal]
NoUser == [state |-> "none", mail |-> None, push |-> None, data |-> {}]

\* What anonymize leaves of a row.
Anonymous == [NoUser EXCEPT !.state = "removed"]

\* The requests behind CurrentUser; a WebSocket handshake authenticates alike.
Authenticated == {"me", "delete", "location", "preferences"}
Operations == Authenticated \union {"register", "login", "logout"}
Places == {"idle", "issuing", "checking", "looking", "erasing", "revoking",
           "updating", "nearby", "alerting", "answering"}
Request == [op : Operations, at : Places, token : Tokens \union {None},
            account : Accounts \union {None}, late : {"no", "loggedOut", "removed"}]
Idle == [op |-> "me", at |-> "idle", token |-> None, account |-> None, late |-> "no"]

Serving(q) == req[q].at # "idle"

\* The request is past get_current_user: its handler runs.
Admitted(q) == req[q].op \in Authenticated /\ req[q].at \notin {"idle", "checking", "looking"}

TypeOK ==
    /\ users \in [Accounts -> UserRow]
    /\ alerts \subseteq Accounts
    /\ issued \in [Tokens -> Accounts \union {None}]
    /\ expired \subseteq {t \in Tokens : issued[t] # None}
    /\ revoked \subseteq {t \in Tokens : issued[t] # None}
    /\ req \in [Slots -> Request]
    /\ loggedOut \subseteq Tokens
    /\ alone \subseteq Accounts
    /\ \A q \in Slots :
         /\ req[q].at = "issuing" => req[q].account # None
         /\ req[q].at \notin {"idle", "issuing"} =>
              req[q].token # None /\ issued[req[q].token] = req[q].account /\ req[q].account # None

-----------------------------------------------------------------------------
Goto(q, place) == req' = [req EXCEPT ![q].at = place]
End(q) == req' = [req EXCEPT ![q] = Idle]

\* What had ended, and was answered, when a request with token t begins.
LateAt(t) ==
    IF users[issued[t]].state = "removed" THEN "removed"
    ELSE IF t \in loggedOut THEN "loggedOut" ELSE "no"

Init ==
    /\ users = [a \in Accounts |-> NoUser]
    /\ alerts = {}
    /\ issued = [t \in Tokens |-> None]
    /\ expired = {} /\ revoked = {} /\ loggedOut = {} /\ alone = {}
    /\ req = [q \in Slots |-> Idle]

-----------------------------------------------------------------------------
(* Registration and login *)

\* register, with a position or without: a fresh id; the e-mail is inserted or
\* its UNIQUE constraint fails (409).
Register(q, a, m, position) ==
    /\ ~Serving(q) /\ users[a].state = "none"
    /\ IF \E b \in Accounts : users[b].mail = m THEN UNCHANGED <<users, req>>
       ELSE /\ users' = [users EXCEPT ![a] = [NoUser EXCEPT !.state = "active", !.mail = m,
                                                         !.data = position]]
            /\ req' = [req EXCEPT ![q] = [Idle EXCEPT !.op = "register", !.at = "issuing",
                                                      !.account = a]]
    /\ UNCHANGED <<alerts, issued, expired, revoked, loggedOut, alone>>

Holds(a, m) == users[a].state = "active" /\ users[a].mail = m

\* login with the password of account a: find_credentials_by_email, then _verify.
Login(q, a, m) ==
    /\ ~Serving(q) /\ Holds(a, m)
    /\ req' = [req EXCEPT ![q] = [Idle EXCEPT !.op = "login", !.at = "issuing", !.account = a]]
    /\ UNCHANGED <<users, alerts, issued, expired, revoked, loggedOut, alone>>

Issue_SameJti(q, t) ==
    /\ req[q].at = "issuing"
    /\ issued' = [issued EXCEPT ![t] = req[q].account]
    /\ End(q)
    /\ UNCHANGED <<users, alerts, expired, revoked, loggedOut, alone>>

\* JwtTokenService.create: a fresh jti.
Issue(q, t) ==
    /\ req[q].at = "issuing" /\ issued[t] = None
    /\ issued' = [issued EXCEPT ![t] = req[q].account]
    /\ End(q)
    /\ UNCHANGED <<users, alerts, expired, revoked, loggedOut, alone>>

-----------------------------------------------------------------------------
(* Authentication *)

\* A request with a token that passes the check of its signature and expiry:
\* get_current_user before the handler, or the logout, which asks no more.
Start(q, op, t) ==
    /\ ~Serving(q) /\ issued[t] # None /\ t \notin expired
    /\ req' = [req EXCEPT ![q] =
                 [op |-> op, at |-> IF op = "logout" THEN "revoking" ELSE "checking",
                  token |-> t, account |-> issued[t], late |-> LateAt(t)]]
    /\ UNCHANGED <<users, alerts, issued, expired, revoked, loggedOut, alone>>

CheckRevoked(q) ==
    /\ req[q].at = "checking"
    /\ IF req[q].token \in revoked THEN End(q) ELSE Goto(q, "looking")
    /\ UNCHANGED <<users, alerts, issued, expired, revoked, loggedOut, alone>>

Found_AnyRow(a) == users[a].state # "none"

\* find_by_id
Found(a) == users[a].state = "active"

FirstPlace(op) ==
    IF op = "delete" THEN "erasing"
    ELSE IF op \in {"location", "preferences"} THEN "updating" ELSE "answering"

FindUser(q) ==
    /\ req[q].at = "looking"
    /\ IF Found(req[q].account) THEN Goto(q, FirstPlace(req[q].op)) ELSE End(q)
    /\ UNCHANGED <<users, alerts, issued, expired, revoked, loggedOut, alone>>

-----------------------------------------------------------------------------
(* Logout and deletion *)

AfterRevoke_PurgeAll(t) == {t} \ expired

\* The rows of revoked_tokens once t is revoked: the expired ones are purged.
AfterRevoke(t) == (revoked \union {t}) \ expired

Revoke(q) ==
    /\ req[q].at = "revoking"
    /\ revoked' = AfterRevoke(req[q].token)
    /\ Goto(q, "answering")
    /\ UNCHANGED <<users, alerts, issued, expired, loggedOut, alone>>

\* anonymize, unless another request did it; then revoke() checks the token
\* again before it writes, and raises when it has expired.
Erase(q) ==
    LET a == req[q].account IN
    /\ req[q].at = "erasing"
    /\ IF users[a].state = "active"
       THEN /\ users' = [users EXCEPT ![a] = Anonymous]
            /\ alerts' = alerts \ {a}
            /\ alone' = IF \E p \in Slots \ {q} : Admitted(p) /\ req[p].account = a
                        THEN alone ELSE alone \union {a}
       ELSE UNCHANGED <<users, alerts, alone>>
    /\ IF req[q].token \in expired THEN End(q) ELSE Goto(q, "revoking")
    /\ UNCHANGED <<issued, expired, revoked, loggedOut>>

Answer(q) ==
    /\ req[q].at = "answering"
    /\ loggedOut' = IF req[q].op = "logout" THEN loggedOut \union {req[q].token} ELSE loggedOut
    /\ End(q)
    /\ UNCHANGED <<users, alerts, issued, expired, revoked, alone>>

-----------------------------------------------------------------------------
(* Location and preferences *)

\* PUT /me/location: the UPDATE looks at the id only.  The push token is
\* optional; when another row holds it, its unique index fails the request.
UpdateLocation(q, d) ==
    LET a == req[q].account IN
    /\ req[q].at = "updating" /\ req[q].op = "location"
    /\ IF d # None /\ \E b \in Accounts \ {a} : users[b].push = d
       THEN End(q) /\ UNCHANGED users
       ELSE /\ users' = [users EXCEPT ![a].data = @ \union {"position"},
                                      ![a].push = IF d = None THEN @ ELSE d]
            /\ Goto(q, "nearby")
    /\ UNCHANGED <<alerts, issued, expired, revoked, loggedOut, alone>>

UpdatePreferences(q, chosen) ==
    LET a == req[q].account IN
    /\ req[q].at = "updating" /\ req[q].op = "preferences"
    /\ users' = [users EXCEPT ![a].data = (@ \ {"categories"}) \union chosen]
    /\ Goto(q, "answering")
    /\ UNCHANGED <<alerts, issued, expired, revoked, loggedOut, alone>>

\* create_for_nearby_incidents: what its statement sees, with an incident in
\* reach or not ...
Nearby(q, inReach) ==
    LET row == users[req[q].account] IN
    /\ req[q].at = "nearby"
    /\ Goto(q, IF inReach /\ "position" \in row.data /\ row.state = "active"
               THEN "alerting" ELSE "answering")
    /\ UNCHANGED <<users, alerts, issued, expired, revoked, loggedOut, alone>>

\* ... and what it inserts, with no lock that a deletion would wait for.
InsertAlert(q) ==
    /\ req[q].at = "alerting"
    /\ alerts' = alerts \union {req[q].account}
    /\ Goto(q, "answering")
    /\ UNCHANGED <<users, issued, expired, revoked, loggedOut, alone>>

-----------------------------------------------------------------------------
(* Faults and time *)

\* A database call raises, before or after its commit, or the client goes
\* away: the request ends without the answer it was made for.
Fail(q) ==
    /\ Serving(q)
    /\ End(q)
    /\ UNCHANGED <<users, alerts, issued, expired, revoked, loggedOut, alone>>

Expire(t) ==
    /\ issued[t] # None
    /\ expired' = expired \union {t}
    /\ UNCHANGED <<users, alerts, issued, revoked, req, loggedOut, alone>>

Handler(q) ==
    \/ Erase(q) \/ Revoke(q) \/ InsertAlert(q) \/ Answer(q) \/ Fail(q)
    \/ \E d \in Devices \union {None} : UpdateLocation(q, d)
    \/ \E chosen \in SUBSET {"categories"} : UpdatePreferences(q, chosen)
    \/ \E inReach \in BOOLEAN : Nearby(q, inReach)

Next ==
    \/ \E q \in Slots :
         \/ \E a \in Accounts, m \in Mails :
              Login(q, a, m) \/ \E position \in SUBSET {"position"} : Register(q, a, m, position)
         \/ \E t \in Tokens : Issue(q, t) \/ \E op \in Authenticated \union {"logout"} : Start(q, op, t)
         \/ CheckRevoked(q) \/ FindUser(q) \/ Handler(q)
    \/ \E t \in Tokens : Expire(t)

Spec == Init /\ [][Next]_vars

-----------------------------------------------------------------------------
(* Properties *)

\* No request that begins after its session has ended gets past
\* get_current_user: never once the account is removed, even if the deletion
\* then failed to revoke the token (auth.py:60), and after an answered logout
\* only with a token that expired while the request was being checked, whose
\* row in revoked_tokens the logout of somebody else may have purged.
EndedSessionsRefused ==
    \A q \in Slots : Admitted(q) =>
        /\ req[q].late # "removed"
        /\ req[q].late = "loggedOut" => req[q].token \in expired

\* The erasure lasts: nothing personal, no push token and no notification of
\* an account comes back after it was removed, unless one of its requests was
\* being served at that moment.  (Such a request does write: update_location
\* does not look at deleted_at.)
ErasureLasts == \A a \in alone : users[a] = Anonymous /\ a \notin alerts
=============================================================================
