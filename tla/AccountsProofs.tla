---------------------------- MODULE AccountsProofs ----------------------------
(***************************************************************************)
(* Proofs about Accounts, for any number of accounts, e-mails, devices,    *)
(* sessions and concurrent requests: type correctness, that an ended       *)
(* session is refused, and that an erased account stays erased.            *)
(***************************************************************************)
EXTENDS Accounts, TLAPS

\* The alternatives of Next, one by one.
LEMMA NextCases ==
    ASSUME Next
    PROVE  \/ \E t \in Tokens : Expire(t)
           \/ \E q \in Slots :
                \/ \E a \in Accounts, m \in Mails, position \in SUBSET {"position"} :
                     Register(q, a, m, position)
                \/ \E a \in Accounts, m \in Mails : Login(q, a, m)
                \/ \E t \in Tokens : Issue(q, t)
                \/ \E t \in Tokens, op \in Authenticated \union {"logout"} : Start(q, op, t)
                \/ CheckRevoked(q) \/ FindUser(q)
                \/ Erase(q) \/ Revoke(q) \/ InsertAlert(q) \/ Answer(q) \/ Fail(q)
                \/ \E d \in Devices \union {None} : UpdateLocation(q, d)
                \/ \E chosen \in SUBSET {"categories"} : UpdatePreferences(q, chosen)
                \/ \E inReach \in BOOLEAN : Nearby(q, inReach)
  BY DEF Next, Handler

-----------------------------------------------------------------------------
(* Types.                                                                  *)

TablesTyped ==
    /\ users \in [Accounts -> UserRow]
    /\ alerts \subseteq Accounts
    /\ issued \in [Tokens -> Accounts \union {None}]
    /\ expired \subseteq {t \in Tokens : issued[t] # None}
    /\ revoked \subseteq {t \in Tokens : issued[t] # None}
    /\ loggedOut \subseteq Tokens
    /\ alone \subseteq Accounts

\* Request q is well formed, and knows the account of its token.
RequestTyped(q) ==
    /\ req[q] \in Request
    /\ req[q].at = "issuing" => req[q].account # None
    /\ req[q].at \notin {"idle", "issuing"} =>
         req[q].token # None /\ issued[req[q].token] = req[q].account /\ req[q].account # None

Typed == TablesTyped /\ req \in [Slots -> Request] /\ \A q \in Slots : RequestTyped(q)

LEMMA TypeParts == TypeOK <=> Typed
  BY DEF TypeOK, Typed, TablesTyped, RequestTyped

LEMMA IdleTyped == Idle \in Request /\ Idle.at = "idle" /\ Idle.op = "me" /\ Idle.late = "no"
  BY DEF Idle, Request, Operations, Authenticated, Places

LEMMA RowsTyped ==
    /\ NoUser \in UserRow /\ NoUser.state = "none"
    /\ Anonymous \in UserRow /\ Anonymous.state = "removed"
  BY DEF NoUser, Anonymous, UserRow

LEMMA InitTyped == Init => Typed
  BY IdleTyped, RowsTyped DEF Init, Typed, TablesTyped, RequestTyped

\* What a step may do to the request in a slot, if the account of no token
\* in use changes.
LEMMA SlotTyped ==
    ASSUME Typed, NEW q \in Slots, NEW r \in Request,
           req' = [req EXCEPT ![q] = r],
           r.at = "issuing" => r.account # None,
           r.at \notin {"idle", "issuing"} =>
             r.token # None /\ issued[r.token] = r.account /\ r.account # None,
           \A t \in Tokens : issued[t] # None => issued'[t] = issued[t]
    PROVE  req' \in [Slots -> Request] /\ \A p \in Slots : RequestTyped(p)'
  <1>1. req' \in [Slots -> Request]
    BY DEF Typed
  <1>2. ASSUME NEW p \in Slots PROVE RequestTyped(p)'
    <2>1. CASE p = q
      <3>1. req'[p] = r
        BY <2>1 DEF Typed
      <3>2. r.token \in Tokens \union {None}
        BY DEF Request
      <3> QED
        BY <3>1, <3>2 DEF RequestTyped
    <2>2. CASE p # q
      <3>1. req'[p] = req[p] /\ RequestTyped(p) /\ req[p].token \in Tokens \union {None}
        BY <2>2 DEF Typed, Request
      <3> QED
        BY <3>1 DEF RequestTyped
    <2> QED
      BY <2>1, <2>2
  <1> QED
    BY <1>1, <1>2

\* A request that moves on within its handler, or ends.
LEMMA MoveTyped ==
    ASSUME Typed, NEW q \in Slots, NEW place \in Places \ {"issuing"},
           Serving(q), req[q].at # "issuing",
           Goto(q, place) \/ End(q), UNCHANGED issued
    PROVE  req' \in [Slots -> Request] /\ \A p \in Slots : RequestTyped(p)'
  <1>1. CASE Goto(q, place)
    <2> DEFINE r == [req[q] EXCEPT !.at = place]
    <2>1. r \in Request /\ r.at = place /\ r.token = req[q].token /\ r.account = req[q].account
      BY DEF Typed, Request
    <2>2. RequestTyped(q) /\ req[q].at \notin {"idle", "issuing"}
      BY DEF Typed, Serving
    <2>3. req' = [req EXCEPT ![q] = r]
      BY <1>1 DEF Goto, Typed
    <2> HIDE DEF r
    <2> QED
      BY <2>1, <2>2, <2>3, SlotTyped DEF RequestTyped
  <1>2. CASE End(q)
    BY <1>2, IdleTyped, SlotTyped DEF End
  <1> QED
    BY <1>1, <1>2

LEMMA EndTyped ==
    ASSUME Typed, NEW q \in Slots, End(q),
           \A t \in Tokens : issued[t] # None => issued'[t] = issued[t]
    PROVE  req' \in [Slots -> Request] /\ \A p \in Slots : RequestTyped(p)'
  BY IdleTyped, SlotTyped DEF End

\* A request of a handler names an account.
LEMMA AccountKnown ==
    ASSUME Typed, NEW q \in Slots, Serving(q)
    PROVE  /\ req[q].account \in Accounts
           /\ req[q].at # "issuing" => req[q].token \in Tokens /\ issued[req[q].token] = req[q].account
  <1>1. RequestTyped(q)
    BY DEF Typed
  <1> QED
    BY <1>1 DEF RequestTyped, Serving, Request

LEMMA StepTyped ==
    ASSUME Typed, [Next]_vars
    PROVE  Typed'
  <1>1. CASE UNCHANGED vars
    BY <1>1 DEF vars, Typed, TablesTyped, RequestTyped
  <1>2. ASSUME NEW t \in Tokens, Expire(t) PROVE Typed'
    BY <1>2 DEF Expire, Typed, TablesTyped, RequestTyped
  <1>3. ASSUME NEW q \in Slots, NEW a \in Accounts, NEW m \in Mails,
               NEW position \in SUBSET {"position"}, Register(q, a, m, position)
        PROVE  Typed'
    <2>1. CASE UNCHANGED <<users, req>>
      BY <1>3, <2>1 DEF Register, Typed, TablesTyped, RequestTyped
    <2>2. CASE ~UNCHANGED <<users, req>>
      <3> DEFINE row == [NoUser EXCEPT !.state = "active", !.mail = m, !.data = position]
                 r == [Idle EXCEPT !.op = "register", !.at = "issuing", !.account = a]
      <3>1. users' = [users EXCEPT ![a] = row] /\ req' = [req EXCEPT ![q] = r]
        BY <1>3, <2>2 DEF Register
      <3>2. row \in UserRow
        BY DEF NoUser, UserRow, Personal
      <3>3. r \in Request /\ r.at = "issuing" /\ r.account # None
        BY NoneAssumption DEF Idle, Request, Operations, Places
      <3>4. UNCHANGED <<alerts, issued, expired, revoked, loggedOut, alone>>
        BY <1>3 DEF Register
      <3> HIDE DEF row, r
      <3>5. TablesTyped'
        BY <3>1, <3>2, <3>4 DEF Typed, TablesTyped
      <3> QED
        BY <3>1, <3>3, <3>4, <3>5, SlotTyped DEF Typed
    <2> QED
      BY <2>1, <2>2
  <1>4. ASSUME NEW q \in Slots, NEW a \in Accounts, NEW m \in Mails, Login(q, a, m)
        PROVE  Typed'
    <2> DEFINE r == [Idle EXCEPT !.op = "login", !.at = "issuing", !.account = a]
    <2>1. r \in Request /\ r.at = "issuing" /\ r.account # None
      BY NoneAssumption DEF Idle, Request, Operations, Places
    <2>2. req' = [req EXCEPT ![q] = r] /\ UNCHANGED issued
      BY <1>4 DEF Login
    <2>3. TablesTyped'
      BY <1>4 DEF Login, Typed, TablesTyped
    <2> HIDE DEF r
    <2> QED
      BY <2>1, <2>2, <2>3, SlotTyped DEF Typed
  <1>5. ASSUME NEW q \in Slots, NEW t \in Tokens, Issue(q, t) PROVE Typed'
    <2>1. req[q].account \in Accounts
      BY <1>5, AccountKnown DEF Issue, Serving
    <2>2. \A s \in Tokens : issued[s] # None => issued'[s] = issued[s]
      BY <1>5 DEF Issue, Typed, TablesTyped
    <2>3. TablesTyped'
      <3>1. issued' \in [Tokens -> Accounts \union {None}]
        BY <1>5, <2>1 DEF Issue, Typed, TablesTyped
      <3> QED
        BY <1>5, <2>2, <3>1 DEF Issue, Typed, TablesTyped
    <2> QED
      BY <1>5, <2>2, <2>3, EndTyped DEF Issue, Typed
  <1>6. ASSUME NEW q \in Slots, NEW t \in Tokens,
               NEW op \in Authenticated \union {"logout"}, Start(q, op, t)
        PROVE  Typed'
    <2> DEFINE r == [op |-> op, at |-> IF op = "logout" THEN "revoking" ELSE "checking",
                     token |-> t, account |-> issued[t], late |-> LateAt(t)]
    <2>1. r \in Request /\ r.at \in {"revoking", "checking"} /\ r.token = t /\ r.account = issued[t]
      <3>1. issued[t] \in Accounts \union {None}
        BY DEF Typed, TablesTyped
      <3>2. LateAt(t) \in {"no", "loggedOut", "removed"}
        BY DEF LateAt
      <3> QED
        BY <3>1, <3>2 DEF Request, Operations, Places
    <2>2. req' = [req EXCEPT ![q] = r] /\ UNCHANGED issued /\ issued[t] # None /\ t # None
      BY <1>6, NoneAssumption DEF Start
    <2>3. TablesTyped'
      BY <1>6 DEF Start, Typed, TablesTyped
    <2> HIDE DEF r
    <2> QED
      BY <2>1, <2>2, <2>3, SlotTyped DEF Typed
  <1>7. ASSUME NEW q \in Slots, CheckRevoked(q) \/ FindUser(q) \/ Answer(q)
        PROVE  Typed'
    <2>1. TablesTyped'
      <3>1. Serving(q) /\ req[q].at # "issuing"
        BY <1>7 DEF CheckRevoked, FindUser, Answer, Serving
      <3>2. req[q].token \in Tokens
        BY <3>1, AccountKnown
      <3> QED
        BY <1>7, <3>2 DEF CheckRevoked, FindUser, Answer, Typed, TablesTyped
    <2>2. PICK place \in Places \ {"issuing"} : Goto(q, place) \/ End(q)
      BY <1>7 DEF CheckRevoked, FindUser, Answer, FirstPlace, Places, Typed, Request, Operations, Authenticated
    <2>3. Serving(q) /\ req[q].at # "issuing" /\ UNCHANGED issued
      BY <1>7 DEF CheckRevoked, FindUser, Answer, Serving
    <2> QED
      BY <2>1, <2>2, <2>3, MoveTyped DEF Typed
  <1>8. ASSUME NEW q \in Slots, Fail(q) PROVE Typed'
    BY <1>8, EndTyped DEF Fail, Typed, TablesTyped
  <1>9. ASSUME NEW q \in Slots, Revoke(q) \/ InsertAlert(q) PROVE Typed'
    <2>1. Serving(q) /\ req[q].at # "issuing" /\ UNCHANGED issued /\ Goto(q, "answering")
      BY <1>9 DEF Revoke, InsertAlert, Serving
    <2>2. /\ req[q].account \in Accounts /\ req[q].token \in Tokens
          /\ issued[req[q].token] = req[q].account
      BY <2>1, AccountKnown
    <2>3. TablesTyped'
      BY <1>9, <2>2, NoneAssumption DEF Revoke, AfterRevoke, InsertAlert, Typed, TablesTyped
    <2> QED
      BY <2>1, <2>3, MoveTyped DEF Typed, Places
  <1>10. ASSUME NEW q \in Slots, Erase(q) PROVE Typed'
    <2>1. Serving(q) /\ req[q].at # "issuing" /\ UNCHANGED issued /\ (Goto(q, "revoking") \/ End(q))
      BY <1>10 DEF Erase, Serving
    <2>2. req[q].account \in Accounts
      BY <2>1, AccountKnown
    <2>3. TablesTyped'
      <3>1. users' \in [Accounts -> UserRow] /\ alerts' \subseteq Accounts /\ alone' \subseteq Accounts
        BY <1>10, <2>2, RowsTyped DEF Erase, Typed, TablesTyped
      <3> QED
        BY <1>10, <3>1 DEF Erase, Typed, TablesTyped
    <2> QED
      BY <2>1, <2>3, MoveTyped DEF Typed, Places
  <1>11. ASSUME NEW q \in Slots, NEW d \in Devices \union {None}, UpdateLocation(q, d)
         PROVE  Typed'
    <2>1. Serving(q) /\ req[q].at # "issuing" /\ UNCHANGED issued /\ (Goto(q, "nearby") \/ End(q))
      BY <1>11 DEF UpdateLocation, Serving
    <2>2. req[q].account \in Accounts /\ users[req[q].account] \in UserRow
      BY <2>1, AccountKnown DEF Typed, TablesTyped
    <2>3. users' \in [Accounts -> UserRow]
      BY <1>11, <2>2 DEF UpdateLocation, UserRow, Personal, Typed, TablesTyped
    <2>4. TablesTyped'
      BY <1>11, <2>3 DEF UpdateLocation, Typed, TablesTyped
    <2> QED
      BY <2>1, <2>4, MoveTyped DEF Typed, Places
  <1>12. ASSUME NEW q \in Slots, NEW chosen \in SUBSET {"categories"}, UpdatePreferences(q, chosen)
         PROVE  Typed'
    <2>1. Serving(q) /\ req[q].at # "issuing" /\ UNCHANGED issued /\ Goto(q, "answering")
      BY <1>12 DEF UpdatePreferences, Serving
    <2>2. req[q].account \in Accounts /\ users[req[q].account] \in UserRow
      BY <2>1, AccountKnown DEF Typed, TablesTyped
    <2>3. users' \in [Accounts -> UserRow]
      BY <1>12, <2>2 DEF UpdatePreferences, UserRow, Personal, Typed, TablesTyped
    <2>4. TablesTyped'
      BY <1>12, <2>3 DEF UpdatePreferences, Typed, TablesTyped
    <2> QED
      BY <2>1, <2>4, MoveTyped DEF Typed, Places
  <1>13. ASSUME NEW q \in Slots, NEW inReach \in BOOLEAN, Nearby(q, inReach) PROVE Typed'
    <2>1. /\ Serving(q) /\ req[q].at # "issuing" /\ UNCHANGED issued
          /\ Goto(q, "alerting") \/ Goto(q, "answering")
      BY <1>13 DEF Nearby, Serving
    <2>2. TablesTyped'
      BY <1>13 DEF Nearby, Typed, TablesTyped
    <2> QED
      BY <2>1, <2>2, MoveTyped DEF Typed, Places
  <1> QED
    BY <1>1, <1>2, <1>3, <1>4, <1>5, <1>6, <1>7, <1>8, <1>9, <1>10, <1>11, <1>12, <1>13, NextCases

LEMMA TypedAlways == Spec => []Typed
  BY InitTyped, StepTyped, PTL DEF Spec

\* Rows, sessions and requests stay well formed, and a request knows the account
\* its token was issued to, which no later registration or login changes.
THEOREM TypeCorrect == Spec => []TypeOK
  BY TypedAlways, TypeParts, PTL

-----------------------------------------------------------------------------
(* Sessions.                                                               *)

\* What the operation says about how far a request is.
Shape(q) ==
    /\ ~Serving(q) => req[q].late = "no"
    /\ Serving(q) => /\ req[q].op = "logout" => req[q].at \in {"revoking", "answering"}
                     /\ req[q].op \in {"register", "login"} => req[q].at = "issuing"

\* A token is dead for the checks of a request that is still to come.
Dead(t) == t \in revoked \union expired

\* What request q owes to what had ended when it began.
LateRefused(q) ==
    /\ req[q].late = "removed" => users[req[q].account].state = "removed" /\ ~Admitted(q)
    /\ req[q].late = "loggedOut" =>
         /\ req[q].token \in loggedOut
         /\ req[q].at = "looking" \/ Admitted(q) => req[q].token \in expired
    /\ req[q].op = "logout" /\ req[q].at = "answering" => Dead(req[q].token)

SessionInv ==
    /\ Typed
    /\ \A t \in loggedOut : Dead(t)
    /\ \A q \in Slots : Shape(q) /\ LateRefused(q)

LEMMA InitSession == Init => SessionInv
  <1> SUFFICES ASSUME Init PROVE SessionInv
    OBVIOUS
  <1>1. Typed
    BY InitTyped
  <1> QED
    BY <1>1, IdleTyped DEF Init, SessionInv, Shape, LateRefused, Serving

\* What no step takes back.
LEMMA Monotone ==
    ASSUME Typed, [Next]_vars
    PROVE  /\ expired \subseteq expired'
           /\ loggedOut \subseteq loggedOut'
           /\ \A t : Dead(t) => Dead(t)'
           /\ \A a \in Accounts : users[a].state = "removed" => users'[a].state = "removed"
  <1>1. CASE UNCHANGED vars
    BY <1>1 DEF vars, Dead
  <1>2. ASSUME NEW t \in Tokens, Expire(t) PROVE expired \subseteq expired' /\ UNCHANGED <<users, revoked, loggedOut>>
    BY <1>2 DEF Expire
  <1>3. ASSUME NEW q \in Slots, Revoke(q)
        PROVE  /\ UNCHANGED <<users, expired, loggedOut>>
               /\ \A t : Dead(t) => Dead(t)'
    BY <1>3 DEF Revoke, AfterRevoke, Dead
  <1>4. ASSUME NEW q \in Slots, Answer(q)
        PROVE  UNCHANGED <<users, expired, revoked>> /\ loggedOut \subseteq loggedOut'
    BY <1>4 DEF Answer
  <1>5. ASSUME NEW q \in Slots, Erase(q)
        PROVE  /\ UNCHANGED <<expired, revoked, loggedOut>>
               /\ \A a \in Accounts : users[a].state = "removed" => users'[a].state = "removed"
    BY <1>5, RowsTyped DEF Erase, Typed, TablesTyped
  <1>6. ASSUME NEW q \in Slots, NEW a \in Accounts, NEW m \in Mails,
               NEW position \in SUBSET {"position"}, Register(q, a, m, position)
        PROVE  /\ UNCHANGED <<expired, revoked, loggedOut>>
               /\ \A b \in Accounts : users[b].state = "removed" => users'[b].state = "removed"
    BY <1>6 DEF Register, Typed, TablesTyped
  <1>7. ASSUME NEW q \in Slots,
               \/ \E d \in Devices \union {None} : UpdateLocation(q, d)
               \/ \E chosen \in SUBSET {"categories"} : UpdatePreferences(q, chosen)
        PROVE  /\ UNCHANGED <<expired, revoked, loggedOut>>
               /\ \A b \in Accounts : users'[b].state = users[b].state
    <2>1. UNCHANGED <<expired, revoked, loggedOut>>
      BY <1>7 DEF UpdateLocation, UpdatePreferences
    <2>2. ASSUME NEW d \in Devices \union {None}, UpdateLocation(q, d), NEW b \in Accounts
          PROVE  users'[b].state = users[b].state
      BY <2>2 DEF UpdateLocation, Typed, TablesTyped, UserRow
    <2>3. ASSUME NEW chosen \in SUBSET {"categories"}, UpdatePreferences(q, chosen), NEW b \in Accounts
          PROVE  users'[b].state = users[b].state
      BY <2>3 DEF UpdatePreferences, Typed, TablesTyped, UserRow
    <2> QED
      BY <1>7, <2>1, <2>2, <2>3
  <1>8. ASSUME NEW q \in Slots,
               \/ \E a \in Accounts, m \in Mails : Login(q, a, m)
               \/ \E t \in Tokens : Issue(q, t)
               \/ \E t \in Tokens, op \in Authenticated \union {"logout"} : Start(q, op, t)
               \/ CheckRevoked(q) \/ FindUser(q) \/ InsertAlert(q) \/ Fail(q)
               \/ \E inReach \in BOOLEAN : Nearby(q, inReach)
        PROVE  UNCHANGED <<users, expired, revoked, loggedOut>>
    BY <1>8 DEF Login, Issue, Start, CheckRevoked, FindUser, InsertAlert, Fail, Nearby
  <1>9. CASE UNCHANGED <<users, expired, revoked, loggedOut>>
    BY <1>9 DEF Dead
  <1>10. CASE expired \subseteq expired' /\ UNCHANGED <<users, revoked, loggedOut>>
    BY <1>10 DEF Dead
  <1>11. CASE /\ UNCHANGED <<expired, revoked>> /\ loggedOut \subseteq loggedOut'
              /\ \A b \in Accounts : users[b].state = "removed" => users'[b].state = "removed"
    BY <1>11 DEF Dead
  <1> QED
    BY <1>1, <1>2, <1>3, <1>4, <1>5, <1>6, <1>7, <1>8, <1>9, <1>10, <1>11, NextCases

\* A request that does not move keeps its promises.
LEMMA OthersKept ==
    ASSUME SessionInv, [Next]_vars, NEW p \in Slots, req'[p] = req[p]
    PROVE  Shape(p)' /\ LateRefused(p)'
  <1>1. Shape(p) /\ LateRefused(p) /\ Typed
    BY DEF SessionInv
  <1>2. Shape(p)'
    BY <1>1 DEF Shape, Serving
  <1>3. Admitted(p)' <=> Admitted(p)
    BY DEF Admitted
  <1>4. req[p].late = "removed" => req[p].account \in Accounts
    <2>1. req[p].late = "removed" => users[req[p].account].state = "removed"
      BY <1>1 DEF LateRefused
    <2>2. CASE Serving(p)
      BY <1>1, <2>2, AccountKnown
    <2>3. CASE ~Serving(p)
      BY <1>1, <2>3 DEF Shape
    <2> QED
      BY <2>2, <2>3
  <1> QED
    BY <1>1, <1>2, <1>3, <1>4, Monotone DEF LateRefused

\* A request that ends owes nothing any more.
LEMMA EndKept ==
    ASSUME Typed, NEW q \in Slots, End(q)
    PROVE  Shape(q)' /\ LateRefused(q)'
  <1>1. req'[q] = Idle
    BY DEF End, Typed
  <1> QED
    BY <1>1, IdleTyped DEF Shape, LateRefused, Serving, Admitted

\* A step of a handler, to a place that is not the answer of a logout.
LEMMA HandlerKept ==
    ASSUME SessionInv, [Next]_vars, NEW q \in Slots, Admitted(q),
           NEW place \in Places \ {"idle", "issuing", "checking", "looking"}, Goto(q, place)
    PROVE  Shape(q)' /\ LateRefused(q)'
  <1>1. Shape(q) /\ LateRefused(q) /\ Typed
    BY DEF SessionInv
  <1>2. /\ req'[q].at = place /\ req'[q].op = req[q].op /\ req'[q].late = req[q].late
        /\ req'[q].token = req[q].token /\ req'[q].account = req[q].account
    BY <1>1 DEF Goto, Typed, Request
  <1>3. req[q].op \in Authenticated /\ req[q].late # "removed"
    BY <1>1 DEF Admitted, LateRefused
  <1> QED
    BY <1>1, <1>2, <1>3, Monotone DEF Shape, LateRefused, Serving, Admitted, Authenticated

LEMMA SlotSession ==
    ASSUME SessionInv, [Next]_vars, NEW q \in Slots,
           \/ \E a \in Accounts, m \in Mails, position \in SUBSET {"position"} :
                Register(q, a, m, position)
           \/ \E a \in Accounts, m \in Mails : Login(q, a, m)
           \/ \E t \in Tokens : Issue(q, t)
           \/ \E t \in Tokens, op \in Authenticated \union {"logout"} : Start(q, op, t)
           \/ CheckRevoked(q) \/ FindUser(q)
           \/ Erase(q) \/ Revoke(q) \/ InsertAlert(q) \/ Answer(q) \/ Fail(q)
           \/ \E d \in Devices \union {None} : UpdateLocation(q, d)
           \/ \E chosen \in SUBSET {"categories"} : UpdatePreferences(q, chosen)
           \/ \E inReach \in BOOLEAN : Nearby(q, inReach)
    PROVE  Shape(q)' /\ LateRefused(q)'
  <1>1. Shape(q) /\ LateRefused(q) /\ Typed /\ req \in [Slots -> Request]
    BY DEF SessionInv, Typed
  <1>2. CASE UNCHANGED req
    BY <1>2, OthersKept
  <1>3. CASE End(q)
    BY <1>1, <1>3, EndKept
  <1>4. ASSUME NEW a \in Accounts, NEW m \in Mails, NEW position \in SUBSET {"position"},
               Register(q, a, m, position), ~UNCHANGED req
        PROVE  Shape(q)' /\ LateRefused(q)'
    <2>1. req'[q] = [Idle EXCEPT !.op = "register", !.at = "issuing", !.account = a]
      BY <1>1, <1>4 DEF Register
    <2> QED
      BY <2>1 DEF Idle, Shape, LateRefused, Serving, Admitted
  <1>5. ASSUME NEW a \in Accounts, NEW m \in Mails, Login(q, a, m)
        PROVE  Shape(q)' /\ LateRefused(q)'
    <2>1. req'[q] = [Idle EXCEPT !.op = "login", !.at = "issuing", !.account = a]
      BY <1>1, <1>5 DEF Login
    <2> QED
      BY <2>1 DEF Idle, Shape, LateRefused, Serving, Admitted
  <1>6. ASSUME NEW t \in Tokens, NEW op \in Authenticated \union {"logout"}, Start(q, op, t)
        PROVE  Shape(q)' /\ LateRefused(q)'
    <2>1. /\ req'[q] = [op |-> op, at |-> IF op = "logout" THEN "revoking" ELSE "checking",
                        token |-> t, account |-> issued[t], late |-> LateAt(t)]
          /\ UNCHANGED <<users, loggedOut>>
      BY <1>1, <1>6 DEF Start
    <2>2. /\ LateAt(t) = "removed" => users[issued[t]].state = "removed"
          /\ LateAt(t) = "loggedOut" => t \in loggedOut
      BY DEF LateAt
    <2> QED
      BY <2>1, <2>2 DEF Shape, LateRefused, Serving, Admitted, Authenticated
  <1>7. ASSUME CheckRevoked(q), ~End(q) PROVE Shape(q)' /\ LateRefused(q)'
    <2>1. req[q].at = "checking" /\ req[q].token \notin revoked /\ Goto(q, "looking")
      BY <1>7 DEF CheckRevoked
    <2>2. /\ req'[q].at = "looking" /\ req'[q].op = req[q].op /\ req'[q].late = req[q].late
          /\ req'[q].token = req[q].token /\ req'[q].account = req[q].account
      BY <1>1, <2>1 DEF Goto, Request
    <2>3. UNCHANGED <<users, expired, loggedOut>>
      BY <1>7 DEF CheckRevoked
    <2>4. req[q].late = "loggedOut" => req[q].token \in expired
      BY <1>1, <2>1 DEF SessionInv, LateRefused, Dead
    <2> QED
      BY <1>1, <2>1, <2>2, <2>3, <2>4 DEF Shape, LateRefused, Serving, Admitted
  <1>8. ASSUME FindUser(q), ~End(q) PROVE Shape(q)' /\ LateRefused(q)'
    <2>1. req[q].at = "looking" /\ users[req[q].account].state = "active"
            /\ Goto(q, FirstPlace(req[q].op))
      BY <1>8 DEF FindUser, Found
    <2>2. /\ req'[q].at = FirstPlace(req[q].op) /\ req'[q].op = req[q].op
          /\ req'[q].late = req[q].late
          /\ req'[q].token = req[q].token /\ req'[q].account = req[q].account
      BY <1>1, <2>1 DEF Goto, Request
    <2>3. UNCHANGED <<users, expired, loggedOut>>
      BY <1>8 DEF FindUser
    <2>4. req[q].late # "removed"
      BY <1>1, <2>1 DEF LateRefused
    <2>5. Serving(q) /\ req[q].op \in Authenticated
      BY <1>1, <2>1 DEF Shape, Serving, Request, Operations
    <2> QED
      BY <1>1, <2>1, <2>2, <2>3, <2>4, <2>5 DEF Shape, LateRefused, Serving, Authenticated, FirstPlace
  <1>9. ASSUME Revoke(q) PROVE Shape(q)' /\ LateRefused(q)'
    <2>1. /\ req'[q].at = "answering" /\ req'[q].op = req[q].op /\ req'[q].late = req[q].late
          /\ req'[q].token = req[q].token /\ req'[q].account = req[q].account
      BY <1>1, <1>9 DEF Revoke, Goto, Request
    <2>2. req[q].token \in revoked' \union expired' /\ UNCHANGED <<users, expired, loggedOut>>
      BY <1>9 DEF Revoke, AfterRevoke, Dead
    <2>3. Admitted(q)' <=> Admitted(q)
      BY <1>9, <2>1 DEF Admitted, Revoke
    <2>4. Serving(q) /\ Serving(q)' /\ req[q].at = "revoking"
      BY <1>9, <2>1 DEF Revoke, Serving
    <2>5. Shape(q)'
      BY <1>1, <2>1, <2>4 DEF Shape
    <2> QED
      BY <1>1, <2>1, <2>2, <2>3, <2>5 DEF LateRefused, Dead
  <1>10. ASSUME \/ Erase(q) \/ InsertAlert(q) \/ \E inReach \in BOOLEAN : Nearby(q, inReach)
                \/ \E d \in Devices \union {None} : UpdateLocation(q, d)
                \/ \E chosen \in SUBSET {"categories"} : UpdatePreferences(q, chosen),
                ~End(q)
         PROVE  Shape(q)' /\ LateRefused(q)'
    <2>1. /\ req[q].at \in {"erasing", "updating", "nearby", "alerting"}
          /\ Goto(q, "revoking") \/ Goto(q, "nearby") \/ Goto(q, "alerting") \/ Goto(q, "answering")
      BY <1>10 DEF Erase, InsertAlert, Nearby, UpdateLocation, UpdatePreferences
    <2>2. Admitted(q)
      BY <1>1, <2>1 DEF Shape, Serving, Admitted, Request, Operations
    <2> QED
      BY <2>1, <2>2, HandlerKept DEF Places
  <1> QED
    BY <1>2, <1>3, <1>4, <1>5, <1>6, <1>7, <1>8, <1>9, <1>10 DEF Issue, Answer, Fail

LEMMA StepSession ==
    ASSUME SessionInv, [Next]_vars
    PROVE  SessionInv'
  <1>1. Typed /\ Typed'
    BY StepTyped DEF SessionInv
  <1>2. \A t \in loggedOut' : t \in revoked' \union expired'
    <2>1. CASE loggedOut' = loggedOut
      BY <1>1, <2>1, Monotone DEF SessionInv, Dead
    <2>2. ASSUME NEW q \in Slots, Answer(q)
          PROVE  \A t \in loggedOut' : t \in revoked' \union expired'
      <3>1. /\ UNCHANGED <<revoked, expired>>
            /\ loggedOut' = loggedOut
                 \/ (req[q].op = "logout" /\ loggedOut' = loggedOut \union {req[q].token})
        BY <2>2 DEF Answer
      <3>2. LateRefused(q) /\ req[q].at = "answering"
        BY <2>2 DEF SessionInv, Answer
      <3> QED
        BY <3>1, <3>2 DEF SessionInv, LateRefused, Dead
    <2>3. CASE UNCHANGED vars
      BY <2>1, <2>3 DEF vars
    <2>4. CASE Next
      BY <2>1, <2>2, <2>4, NextCases
         DEF Expire, Register, Login, Issue, Start, CheckRevoked, FindUser, Erase, Revoke,
             InsertAlert, Fail, UpdateLocation, UpdatePreferences, Nearby
    <2> QED
      BY <2>3, <2>4
  <1>3. ASSUME NEW p \in Slots PROVE Shape(p)' /\ LateRefused(p)'
    <2>1. CASE req'[p] = req[p]
      BY <2>1, OthersKept
    <2>2. CASE UNCHANGED req
      BY <2>1, <2>2
    <2>3. ASSUME NEW q \in Slots, \E r : req' = [req EXCEPT ![q] = r], p # q
          PROVE  req'[p] = req[p]
      BY <2>3, <1>1 DEF Typed
    <2>4. ASSUME NEW q \in Slots,
                 \/ \E a \in Accounts, m \in Mails, position \in SUBSET {"position"} :
                      Register(q, a, m, position)
                 \/ \E a \in Accounts, m \in Mails : Login(q, a, m)
                 \/ \E t \in Tokens : Issue(q, t)
                 \/ \E t \in Tokens, op \in Authenticated \union {"logout"} : Start(q, op, t)
                 \/ CheckRevoked(q) \/ FindUser(q)
                 \/ Erase(q) \/ Revoke(q) \/ InsertAlert(q) \/ Answer(q) \/ Fail(q)
                 \/ \E d \in Devices \union {None} : UpdateLocation(q, d)
                 \/ \E chosen \in SUBSET {"categories"} : UpdatePreferences(q, chosen)
                 \/ \E inReach \in BOOLEAN : Nearby(q, inReach)
          PROVE  UNCHANGED req \/ \E r : req' = [req EXCEPT ![q] = r]
      <3>1. \A place : Goto(q, place) => \E r : req' = [req EXCEPT ![q] = r]
        <4>1. ASSUME NEW place, Goto(q, place)
              PROVE  req' = [req EXCEPT ![q] = [req[q] EXCEPT !.at = place]]
          BY <1>1, <4>1 DEF Goto, Typed
        <4> QED
          BY <4>1
      <3>2. CASE \E a \in Accounts, m \in Mails, position \in SUBSET {"position"} :
                      Register(q, a, m, position)
        BY <3>2 DEF Register
      <3>3. CASE \E a \in Accounts, m \in Mails : Login(q, a, m)
        BY <3>3 DEF Login
      <3>4. CASE \E t \in Tokens, op \in Authenticated \union {"logout"} : Start(q, op, t)
        BY <3>4 DEF Start
      <3>5. \/ UNCHANGED req \/ \E place : Goto(q, place) \/ End(q)
            \/ \E a \in Accounts, m \in Mails, position \in SUBSET {"position"} :
                      Register(q, a, m, position)
            \/ \E a \in Accounts, m \in Mails : Login(q, a, m)
            \/ \E t \in Tokens, op \in Authenticated \union {"logout"} : Start(q, op, t)
        BY <2>4 DEF Issue, CheckRevoked, FindUser, Erase, Revoke,
             InsertAlert, Answer, Fail, UpdateLocation, UpdatePreferences, Nearby
      <3> QED
        BY <3>1, <3>2, <3>3, <3>4, <3>5 DEF End
    <2>5. CASE UNCHANGED vars
      BY <2>2, <2>5 DEF vars
    <2>6. ASSUME NEW t \in Tokens, Expire(t) PROVE UNCHANGED req
      BY <2>6 DEF Expire
    <2>7. CASE Next
      BY <2>1, <2>2, <2>3, <2>4, <2>6, <2>7, NextCases, SlotSession
    <2> QED
      BY <2>5, <2>7
  <1> QED
    BY <1>1, <1>2, <1>3 DEF SessionInv, Dead

LEMMA SessionAlways == Spec => []SessionInv
  BY InitSession, StepSession, PTL DEF Spec

\* No request that begins after its account was removed is admitted, and none
\* that begins after its logout was answered unless its token expires meanwhile.
THEOREM EndedRefused == Spec => []EndedSessionsRefused
  <1>1. SessionInv => EndedSessionsRefused
    BY DEF SessionInv, LateRefused, EndedSessionsRefused
  <1> QED
    BY <1>1, SessionAlways, PTL

-----------------------------------------------------------------------------
(* Erasure.                                                                *)

\* Of an account that was removed alone, what is left is anonymous, and the
\* requests that are still served write nothing of it any more.
ErasureInv ==
    /\ SessionInv
    /\ ErasureLasts
    /\ \A a \in alone, q \in Slots :
         Admitted(q) /\ req[q].account = a => req[q].at \in {"revoking", "answering"}

LEMMA InitErasure == Init => ErasureInv
  BY InitSession DEF Init, ErasureInv, ErasureLasts

\* A request that writes is admitted.
LEMMA WriterAdmitted ==
    ASSUME SessionInv, NEW q \in Slots, req[q].at \in {"erasing", "updating", "nearby", "alerting"}
    PROVE  Admitted(q) /\ req[q].account \in Accounts
  <1>1. Shape(q) /\ Typed
    BY DEF SessionInv
  <1> QED
    BY <1>1, AccountKnown DEF Shape, Serving, Admitted, Typed, Request, Operations

\* A step that erases nothing: the rows and alerts of the others stay, and only
\* who was admitted, or finds its account active, may be admitted.
LEMMA ErasureKept ==
    ASSUME ErasureInv, alone' = alone, [Next]_vars,
           \A a \in alone : users'[a] = users[a] /\ (a \in alerts' => a \in alerts),
           \A q \in Slots, a \in alone : Admitted(q)' /\ req'[q].account = a =>
              Admitted(q) /\ req[q].account = a
                /\ (req'[q].at = req[q].at \/ req'[q].at \in {"revoking", "answering"})
    PROVE  ErasureInv'
  <1>1. SessionInv'
    BY StepSession DEF ErasureInv
  <1>2. ErasureLasts'
    BY DEF ErasureInv, ErasureLasts
  <1>3. \A a \in alone', q \in Slots :
          Admitted(q)' /\ req'[q].account = a => req'[q].at \in {"revoking", "answering"}
    BY DEF ErasureInv
  <1> QED
    BY <1>1, <1>2, <1>3 DEF ErasureInv

\* Nobody is admitted by a step that ends a request or leaves it to be checked.
LEMMA NotAdmitted ==
    ASSUME Typed, NEW q \in Slots, NEW r,
           req' = [req EXCEPT ![q] = r],
           r.op \in Authenticated => r.at \in {"idle", "checking", "looking"}
    PROVE  \A p \in Slots, a \in alone : Admitted(p)' /\ req'[p].account = a =>
              Admitted(p) /\ req[p].account = a /\ req'[p].at = req[p].at
  BY DEF Typed, Admitted

\* A step of an admitted request that is not about an account removed alone,
\* or one to a place where it writes nothing any more.
LEMMA HandlerErasure ==
    ASSUME Typed, NEW q \in Slots, NEW place, Goto(q, place),
           Admitted(q),
           req[q].account \in alone => place \in {"revoking", "answering"}
    PROVE  \A p \in Slots, a \in alone : Admitted(p)' /\ req'[p].account = a =>
              Admitted(p) /\ req[p].account = a
                /\ (req'[p].at = req[p].at \/ req'[p].at \in {"revoking", "answering"})
  <1>1. req' = [req EXCEPT ![q].at = place]
    BY DEF Goto
  <1>2. req'[q].at = place /\ req'[q].account = req[q].account
    BY <1>1 DEF Typed, Request
  <1>3. \A p \in Slots \ {q} : req'[p] = req[p]
    BY <1>1 DEF Typed
  <1> QED
    BY <1>2, <1>3 DEF Admitted

LEMMA EraseErasure ==
    ASSUME ErasureInv, NEW q \in Slots, Erase(q), [Next]_vars
    PROVE  ErasureInv'
  <1> DEFINE a == req[q].account
  <1>1. SessionInv /\ SessionInv' /\ Typed /\ Typed'
    BY StepSession DEF ErasureInv, SessionInv
  <1>2. Admitted(q) /\ a \in Accounts /\ req[q].at = "erasing" /\ a \notin alone
    BY <1>1, WriterAdmitted DEF Erase, ErasureInv
  <1>3. \A p \in Slots \ {q} : req'[p] = req[p]
    BY <1>1 DEF Erase, Goto, End, Typed
  <1>4. req'[q].at \in {"idle", "revoking"} /\ (req'[q].at = "revoking" => req'[q].account = a)
    BY <1>1, IdleTyped DEF Erase, Goto, End, Typed, Request
  <1>5. CASE users[a].state = "active"
    <2>1. /\ users' = [users EXCEPT ![a] = Anonymous] /\ alerts' = alerts \ {a}
          /\ alone' = IF \E p \in Slots \ {q} : Admitted(p) /\ req[p].account = a
                       THEN alone ELSE alone \union {a}
      BY <1>5 DEF Erase
    <2>2. ErasureLasts'
      BY <1>1, <1>2, <2>1 DEF ErasureInv, ErasureLasts, Typed, TablesTyped
    <2>3. ASSUME NEW b \in alone', NEW p \in Slots, Admitted(p)', req'[p].account = b
          PROVE  req'[p].at \in {"revoking", "answering"}
      <3>1. CASE p = q
        BY <1>4, <2>3, <3>1 DEF Admitted
      <3>2. CASE p # q
        <4>1. Admitted(p) /\ req[p].account = b /\ req'[p].at = req[p].at
          BY <1>3, <2>3, <3>2 DEF Admitted
        <4>2. b \in alone
          BY <2>1, <2>3, <3>2, <4>1
        <4> QED
          BY <4>1, <4>2 DEF ErasureInv
      <3> QED
        BY <3>1, <3>2
    <2> QED
      BY <1>1, <2>2, <2>3 DEF ErasureInv
  <1>6. CASE users[a].state # "active"
    <2>1. UNCHANGED <<users, alerts, alone>>
      BY <1>6 DEF Erase
    <2>2. ASSUME NEW b \in alone', NEW p \in Slots, Admitted(p)', req'[p].account = b
          PROVE  req'[p].at \in {"revoking", "answering"}
      <3>1. CASE p = q
        BY <1>4, <2>2, <3>1 DEF Admitted
      <3>2. CASE p # q
        BY <1>3, <2>1, <2>2, <3>2 DEF ErasureInv, Admitted
      <3> QED
        BY <3>1, <3>2
    <2> QED
      BY <1>1, <2>1, <2>2 DEF ErasureInv, ErasureLasts
  <1> QED
    BY <1>5, <1>6

LEMMA StepErasure ==
    ASSUME ErasureInv, [Next]_vars
    PROVE  ErasureInv'
  <1>1. SessionInv /\ Typed /\ req \in [Slots -> Request]
    BY DEF ErasureInv, SessionInv, Typed
  <1>2. \A a \in alone : a \in Accounts /\ users[a].state = "removed" /\ users[a] = Anonymous
    BY <1>1, RowsTyped DEF ErasureInv, ErasureLasts, Typed, TablesTyped
  <1>3. CASE UNCHANGED <<users, alerts, req, alone>>
    BY <1>3, ErasureKept DEF Admitted
  <1>4. ASSUME NEW q \in Slots, End(q), UNCHANGED <<users, alerts, alone>> PROVE ErasureInv'
    <2>1. req' = [req EXCEPT ![q] = Idle]
      BY <1>4 DEF End
    <2> QED
      BY <1>1, <1>4, <2>1, IdleTyped, NotAdmitted, ErasureKept
  <1>5. ASSUME NEW q \in Slots, NEW a \in Accounts, NEW m \in Mails,
               NEW position \in SUBSET {"position"}, Register(q, a, m, position), ~UNCHANGED req
        PROVE  ErasureInv'
    <2> DEFINE r == [Idle EXCEPT !.op = "register", !.at = "issuing", !.account = a]
    <2>1. req' = [req EXCEPT ![q] = r] /\ r.op \notin Authenticated
      BY <1>5 DEF Register, Idle, Authenticated
    <2>2. UNCHANGED <<alerts, alone>> /\ \A b \in alone : users'[b] = users[b]
      BY <1>1, <1>2, <1>5 DEF Register, Typed, TablesTyped
    <2> HIDE DEF r
    <2> QED
      BY <1>1, <2>1, <2>2, NotAdmitted, ErasureKept
  <1>6. ASSUME NEW q \in Slots, NEW a \in Accounts, NEW m \in Mails, Login(q, a, m)
        PROVE  ErasureInv'
    <2> DEFINE r == [Idle EXCEPT !.op = "login", !.at = "issuing", !.account = a]
    <2>1. req' = [req EXCEPT ![q] = r] /\ r.op \notin Authenticated /\ UNCHANGED <<users, alerts, alone>>
      BY <1>6 DEF Login, Idle, Authenticated
    <2> HIDE DEF r
    <2> QED
      BY <1>1, <2>1, NotAdmitted, ErasureKept
  <1>7. ASSUME NEW q \in Slots, NEW t \in Tokens,
               NEW op \in Authenticated \union {"logout"}, Start(q, op, t)
        PROVE  ErasureInv'
    <2> DEFINE r == [op |-> op, at |-> IF op = "logout" THEN "revoking" ELSE "checking",
                     token |-> t, account |-> issued[t], late |-> LateAt(t)]
    <2>1. /\ req' = [req EXCEPT ![q] = r] /\ (r.op \in Authenticated => r.at = "checking")
          /\ UNCHANGED <<users, alerts, alone>>
      BY <1>7 DEF Start, Authenticated
    <2> HIDE DEF r
    <2> QED
      BY <1>1, <2>1, NotAdmitted, ErasureKept
  <1>8. ASSUME NEW q \in Slots, CheckRevoked(q), ~End(q) PROVE ErasureInv'
    <2>1. req' = [req EXCEPT ![q] = [req[q] EXCEPT !.at = "looking"]]
            /\ UNCHANGED <<users, alerts, alone>>
      BY <1>1, <1>8 DEF CheckRevoked, Goto
    <2>2. [req[q] EXCEPT !.at = "looking"].at = "looking"
      BY <1>1 DEF Request
    <2> QED
      BY <1>1, <2>1, <2>2, NotAdmitted, ErasureKept
  <1>9. ASSUME NEW q \in Slots, FindUser(q), ~End(q) PROVE ErasureInv'
    <2>1. /\ Goto(q, FirstPlace(req[q].op)) /\ users[req[q].account].state = "active"
          /\ UNCHANGED <<users, alerts, alone>>
      BY <1>9 DEF FindUser, Found
    <2>2. req'[q].account = req[q].account /\ \A p \in Slots \ {q} : req'[p] = req[p]
      BY <1>1, <2>1 DEF Goto, Request
    <2>3. req[q].account \notin alone
      BY <1>2, <2>1
    <2>4. \A p \in Slots, a \in alone : Admitted(p)' /\ req'[p].account = a =>
              Admitted(p) /\ req[p].account = a /\ req'[p].at = req[p].at
      BY <2>2, <2>3 DEF Admitted
    <2> QED
      BY <2>1, <2>4, ErasureKept
  <1>10. ASSUME NEW q \in Slots, Revoke(q) PROVE ErasureInv'
    <2>1. Goto(q, "answering") /\ req[q].at = "revoking" /\ UNCHANGED <<users, alerts, alone>>
      BY <1>10 DEF Revoke
    <2>2. /\ req'[q].at = "answering" /\ req'[q].op = req[q].op /\ req'[q].account = req[q].account
          /\ \A p \in Slots \ {q} : req'[p] = req[p]
      BY <1>1, <2>1 DEF Goto, Request
    <2>3. \A p \in Slots, a \in alone : Admitted(p)' /\ req'[p].account = a =>
              Admitted(p) /\ req[p].account = a
                /\ (req'[p].at = req[p].at \/ req'[p].at \in {"revoking", "answering"})
      BY <2>1, <2>2 DEF Admitted
    <2> QED
      BY <2>1, <2>3, ErasureKept
  <1>11. ASSUME NEW q \in Slots,
                \/ InsertAlert(q) \/ \E inReach \in BOOLEAN : Nearby(q, inReach)
                \/ \E d \in Devices \union {None} : UpdateLocation(q, d) /\ ~End(q)
                \/ \E chosen \in SUBSET {"categories"} : UpdatePreferences(q, chosen)
         PROVE  ErasureInv'
    <2>1. req[q].at \in {"updating", "nearby", "alerting"} /\ alone' = alone
      BY <1>11 DEF InsertAlert, Nearby, UpdateLocation, UpdatePreferences
    <2>2. Admitted(q) /\ req[q].account \in Accounts /\ req[q].account \notin alone
      BY <1>1, <2>1, WriterAdmitted DEF ErasureInv
    <2>3. \A a \in alone : users'[a] = users[a] /\ (a \in alerts' => a \in alerts)
      BY <1>1, <1>2, <1>11, <2>2
         DEF InsertAlert, Nearby, UpdateLocation, UpdatePreferences, Typed, TablesTyped
    <2>4. \E place : Goto(q, place)
      BY <1>11 DEF InsertAlert, Nearby, UpdateLocation, UpdatePreferences
    <2> QED
      BY <1>1, <2>1, <2>2, <2>3, <2>4, HandlerErasure, ErasureKept
  <1>12. CASE UNCHANGED vars
    BY <1>3, <1>12 DEF vars
  <1>13. ASSUME NEW t \in Tokens, Expire(t) PROVE ErasureInv'
    BY <1>3, <1>13 DEF Expire
  <1>14. ASSUME NEW q \in Slots,
                \/ \E t \in Tokens : Issue(q, t)
                \/ (CheckRevoked(q) /\ End(q)) \/ (FindUser(q) /\ End(q)) \/ Answer(q) \/ Fail(q)
                \/ \E d \in Devices \union {None} : UpdateLocation(q, d) /\ End(q)
                \/ \E a \in Accounts, m \in Mails, position \in SUBSET {"position"} :
                     Register(q, a, m, position) /\ UNCHANGED req
         PROVE  ErasureInv'
    <2>1. CASE \E a \in Accounts, m \in Mails, position \in SUBSET {"position"} :
                     Register(q, a, m, position) /\ UNCHANGED req
      <3>1. PICK a \in Accounts, m \in Mails, position \in SUBSET {"position"} :
                     Register(q, a, m, position) /\ UNCHANGED req
        BY <2>1
      <3>2. UNCHANGED <<alerts, alone>> /\ \A b \in alone : users'[b] = users[b]
        BY <1>1, <1>2, <3>1 DEF Register, Typed, TablesTyped
      <3> QED
        BY <3>1, <3>2, ErasureKept DEF Admitted
    <2>2. CASE \E d \in Devices \union {None} : UpdateLocation(q, d) /\ End(q)
      <3>1. /\ End(q) /\ alone' = alone
            /\ req[q].at = "updating" /\ alerts' = alerts
        BY <2>2 DEF UpdateLocation
      <3>2. req[q].account \in Accounts /\ req[q].account \notin alone
        BY <1>1, <3>1, WriterAdmitted DEF ErasureInv
      <3>3. \A a \in alone : users'[a] = users[a]
        BY <1>1, <1>2, <2>2, <3>2 DEF UpdateLocation, Typed, TablesTyped
      <3>4. req' = [req EXCEPT ![q] = Idle]
        BY <3>1 DEF End
      <3> QED
        BY <1>1, <3>1, <3>3, <3>4, IdleTyped, NotAdmitted, ErasureKept
    <2> QED
      BY <1>4, <1>14, <2>1, <2>2 DEF Issue, CheckRevoked, FindUser, Answer, Fail
  <1>15. ASSUME NEW q \in Slots, Erase(q) PROVE ErasureInv'
    BY <1>15, EraseErasure
  <1>16. CASE Next
    <2>1. CASE \E t \in Tokens : Expire(t)
      BY <2>1, <1>13
    <2>2. CASE ~\E t \in Tokens : Expire(t)
      <3>1. PICK q \in Slots :
                \/ \E a \in Accounts, m \in Mails, position \in SUBSET {"position"} :
                     Register(q, a, m, position)
                \/ \E a \in Accounts, m \in Mails : Login(q, a, m)
                \/ \E t \in Tokens : Issue(q, t)
                \/ \E t \in Tokens, op \in Authenticated \union {"logout"} : Start(q, op, t)
                \/ CheckRevoked(q) \/ FindUser(q)
                \/ Erase(q) \/ Revoke(q) \/ InsertAlert(q) \/ Answer(q) \/ Fail(q)
                \/ \E d \in Devices \union {None} : UpdateLocation(q, d)
                \/ \E chosen \in SUBSET {"categories"} : UpdatePreferences(q, chosen)
                \/ \E inReach \in BOOLEAN : Nearby(q, inReach)
        BY <1>16, <2>2, NextCases
      <3>2. CASE \E a \in Accounts, m \in Mails, position \in SUBSET {"position"} :
                     Register(q, a, m, position)
        BY <3>2, <1>5, <1>14
      <3>3. CASE \E d \in Devices \union {None} : UpdateLocation(q, d)
        BY <3>3, <1>11, <1>14
      <3>4. CASE CheckRevoked(q) \/ FindUser(q)
        BY <3>4, <1>8, <1>9, <1>14
      <3>5. CASE (\E t \in Tokens : Issue(q, t)) \/ Answer(q) \/ Fail(q)
        BY <3>5, <1>14
      <3> QED
        BY <3>1, <3>2, <3>3, <3>4, <3>5, <1>6, <1>7, <1>10, <1>11, <1>15
    <2> QED
      BY <2>1, <2>2
  <1> QED
    BY <1>12, <1>16

LEMMA ErasureAlways == Spec => []ErasureInv
  BY InitErasure, StepErasure, PTL DEF Spec

\* Nothing of an account that was removed alone comes back: no row, no push
\* token, no notification, for any requests that were or are still on their way.
THEOREM ErasureIsFinal == Spec => []ErasureLasts
  <1>1. ErasureInv => ErasureLasts
    BY DEF ErasureInv
  <1> QED
    BY <1>1, ErasureAlways, PTL
=============================================================================
