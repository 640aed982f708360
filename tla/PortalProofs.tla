---------------------------- MODULE PortalProofs ----------------------------
(***************************************************************************)
(* Proofs about Portal for any tabs, users, limit and window.              *)
(***************************************************************************)
EXTENDS PortalProperties, FiniteSetTheorems, TLAPS

-----------------------------------------------------------------------------
(* The inductive invariant *)

\* A request, as its page and the server see it.  The cookies are cleared by
\* logouts and only cleared by them, and only customers register.
AuthRequest ==
  [ n : 1 .. MaxRequests, tab : Tab, kind : {"login", "register", "logout"}, user : User,
    answer : {"none", "in", "no", "kept", "out", "limited", "lost"},
    live : BOOLEAN, form : BOOLEAN ]

RequestOK(r) ==
  /\ r \in AuthRequest
  /\ r.kind = "logout" => r.answer \in {"none", "out", "limited", "lost"}
  /\ r.kind = "register" => r.user \in Customer

Typed ==
  /\ PortalTypeOK
  /\ jar \in [ user : User \cup {NoOne}, age : 0 .. Quarter - 1 ]
  /\ \A r \in requests : RequestOK(r)

\* Where users wait, one thing is under way: a request, or the timer of a
\* customer whose token the browser already has; and while somebody may become
\* signed in, no page shows anybody.
OneThing ==
  careful =>
    /\ \A r, q \in requests : r = q
    /\ \A r \in requests : \A t \in Tab :
         due[t] = {} /\ (r.kind # "logout" => shown[t] = NoOne)
    /\ \A t \in Tab : \A u \in due[t] :
         /\ jar.user \in {u, NoOne}
         /\ \A s \in Tab : shown[s] = NoOne
         /\ \A s \in Tab : \A v \in due[s] : s = t /\ v = u
    /\ \A t \in Tab : shown[t] # NoOne => jar.user \in {shown[t], NoOne}

\* The requests of the window that is open, and those of the one before.
Current == { a \in recent : left > 0 /\ a.age + left <= Quarter }
Earlier == recent \ Current

\* What was let through in the open window is counted; its first request opened
\* it, so that when the window ends that one is a window's length ago.
Windows ==
  /\ IsFiniteSet(recent)
  /\ left = 0 => hits = 0 /\ \A a \in recent : a.age > 0
  /\ left > 0 => \E a \in recent : a.age + left = Quarter
  /\ Cardinality(Current) <= hits /\ Cardinality(Current) <= MaxAuth
  /\ Cardinality(Earlier) < MaxAuth

PortalInd == Typed /\ LoggedOutMeansOut /\ OneThing /\ Windows

-----------------------------------------------------------------------------
(* Requests *)

\* What a step does to a request that stays keeps it one of its kind.
LEMMA RequestKept ==
  ASSUME NEW r, RequestOK(r)
  PROVE  /\ RequestOK([ r EXCEPT !.form = FALSE ])
         /\ RequestOK([ r EXCEPT !.form = FALSE, !.live = FALSE ])
         /\ RequestOK([ r EXCEPT !.answer = IF @ = "none" THEN "lost" ELSE @ ])
         /\ RequestOK([ r EXCEPT !.answer = "lost" ])
         /\ \A answer \in Answers(r) \cup {"limited"} : RequestOK([ r EXCEPT !.answer = answer ])
<1>1. r \in AuthRequest
  BY DEF RequestOK
<1>2. \A answer \in Answers(r) \cup {"limited"} :
        /\ answer \in {"none", "in", "no", "kept", "out", "limited", "lost"}
        /\ r.kind = "logout" => answer \in {"out", "limited"}
  BY <1>1 DEF Answers, CustomerLoginAnswers, EmployeeLoginAnswers, RegisterAnswers, AuthRequest
<1> QED BY <1>1, <1>2 DEF RequestOK, AuthRequest

\* A page that sends a request makes it of the right shape, and a careful user
\* has no other one on its way.
LEMMA SendTyped ==
  ASSUME Typed, NEW t \in Tab, NEW kind \in {"login", "register", "logout"}, NEW u \in User,
         kind = "register" => u \in Customer, Send(t, kind, u)
  PROVE  /\ \A r \in requests' : RequestOK(r)
         /\ careful => /\ \A r, q \in requests' : r = q
                       /\ \A r \in requests' : r.kind = kind
<1>1. PICK n \in 1 .. MaxRequests : requests' = requests \cup
        {[ n |-> n, tab |-> t, kind |-> kind, user |-> u, answer |-> "none",
           live |-> TRUE, form |-> kind # "logout" ]}
  BY DEF Send
<1> DEFINE new == [ n |-> n, tab |-> t, kind |-> kind, user |-> u, answer |-> "none",
                    live |-> TRUE, form |-> kind # "logout" ]
<1>2. RequestOK(new) /\ new.kind = kind
  BY DEF RequestOK, AuthRequest
<1>3. careful => requests = {}
  BY DEF Send, Untroubled
<1> HIDE DEF new
<1> QED BY <1>1, <1>2, <1>3 DEF Typed, new

-----------------------------------------------------------------------------
(* Types *)

\* Every step keeps the state's types.
LEMMA TypedStep ==
  ASSUME Typed, [PortalNext]_portalVars
  PROVE  Typed'
<1> USE PortalAssumption
<1>1. ASSUME NEW t \in Tab, NEW u \in Customer, LoginCustomer(t, u) \/ Register(t, u)
      PROVE  Typed'
  <2>1. \A r \in requests' : RequestOK(r)
    BY <1>1, SendTyped DEF LoginCustomer, Register, User
  <2> QED BY <1>1, <2>1 DEF LoginCustomer, Register, limiter, Typed, PortalTypeOK, RequestOK, AuthRequest
<1>2. ASSUME NEW t \in Tab, NEW u \in Employee, LoginEmployee(t, u)
      PROVE  Typed'
  <2>1. \A r \in requests' : RequestOK(r)
    BY <1>2, SendTyped DEF LoginEmployee, User
  <2> QED BY <1>2, <2>1 DEF LoginEmployee, limiter, Typed, PortalTypeOK, RequestOK, AuthRequest
<1>4. ASSUME NEW t \in Tab, Logout(t)
      PROVE  Typed'
  <2>1. shown[t] \in User
    BY <1>4 DEF Logout, Typed, PortalTypeOK
  <2>2. \A r \in requests' : RequestOK(r)
    BY <1>4, <2>1, SendTyped DEF Logout
  <2> QED BY <1>4, <2>2 DEF Logout, page, limiter, Typed, PortalTypeOK, RequestOK, AuthRequest
<1>5. ASSUME NEW r \in requests, Handle(r)
      PROVE  Typed'
  <2>1. PICK answer \in Answers(r) \cup {"limited"} :
          /\ Count(answer)
          /\ UNCHANGED recent \/ LetThrough
          /\ requests' = (requests \ {r}) \cup {[ r EXCEPT !.answer = answer ]}
    BY <1>5 DEF Handle
  <2>2. \A q \in requests' : RequestOK(q)
    <3>1. RequestOK(r) /\ answer \in Answers(r) \cup {"limited"}
      BY DEF Typed
    <3>2. RequestOK([ r EXCEPT !.answer = answer ])
      BY <3>1, RequestKept
    <3> QED BY <2>1, <3>2 DEF Typed
  <2>3. hits' \in 0 .. MaxAuth + 1 /\ left' \in 0 .. Quarter
    BY <2>1 DEF Count, Typed, PortalTypeOK
  <2>4. recent' \subseteq [ age : 0 .. Quarter - 1, n : 1 .. 2 * MaxAuth ]
    BY <2>1 DEF LetThrough, Typed, PortalTypeOK
  <2> QED BY <1>5, <2>2, <2>3, <2>4 DEF Handle, page, Typed, PortalTypeOK, RequestOK, AuthRequest
<1>6. CASE Restart
  <2>1. \A q \in requests' : RequestOK(q)
    BY <1>6, RequestKept DEF Restart, Typed
  <2>2. NoToken \in [ user : User \cup {NoOne}, age : 0 .. Quarter - 1 ]
    BY DEF NoToken
  <2> QED BY <1>6, <2>1, <2>2 DEF Restart, page, Typed, PortalTypeOK, RequestOK, AuthRequest
<1>7. ASSUME NEW r \in requests,
             CustomerAnswered(r) \/ EmployeeAnswered(r) \/ RegisterAnswered(r) \/ LogoutAnswered(r)
      PROVE  Typed'
  <2>1. Arrive(r) /\ r \in AuthRequest
    BY <1>7 DEF CustomerAnswered, EmployeeAnswered, RegisterAnswered, LogoutAnswered, Typed, RequestOK
  <2>2. jar' \in [ user : User \cup {NoOne}, age : 0 .. Quarter - 1 ]
    BY <2>1 DEF Arrive, JarAfter, TokenOf, NoToken, Typed, AuthRequest
  <2>3. \A q \in requests' : RequestOK(q)
    BY <2>1 DEF Arrive, Typed
  <2>4. busy' \in [ Tab -> BOOLEAN ] /\ out' \in BOOLEAN
    BY <2>1 DEF Arrive, Typed, PortalTypeOK, AuthRequest
  <2>5. /\ shown' \in [ Tab -> User \cup {NoOne} ] /\ due' \in [ Tab -> SUBSET Customer ]
        /\ form' \in [ Tab -> {"login", "register"} ]
    BY <1>7, <2>1 DEF CustomerAnswered, EmployeeAnswered, RegisterAnswered, LogoutAnswered,
                      Typed, PortalTypeOK, AuthRequest
  <2> QED
    BY <2>1, <2>2, <2>3, <2>4, <2>5 DEF Arrive, limiter, Typed, PortalTypeOK, RequestOK, AuthRequest
<1>8. ASSUME NEW r \in requests, Lose(r)
      PROVE  Typed'
  <2>1. \A q \in requests' : RequestOK(q)
    BY <1>8, RequestKept DEF Lose, Typed
  <2> QED BY <1>8, <2>1 DEF Lose, page, limiter, Typed, PortalTypeOK, RequestOK, AuthRequest
<1>9. ASSUME NEW t \in Tab, NEW u \in Customer, ShowCustomer(t, u)
      PROVE  Typed'
  <2>1. \A q \in requests' : RequestOK(q)
    BY <1>9, RequestKept DEF ShowCustomer, Typed
  <2> QED BY <1>9, <2>1 DEF ShowCustomer, User, limiter, Typed, PortalTypeOK, RequestOK, AuthRequest
<1>10. ASSUME NEW t \in Tab, FormSwitches(t)
       PROVE  Typed'
  <2>1. \A q \in requests' : RequestOK(q)
    BY <1>10, RequestKept DEF FormSwitches, Typed
  <2>2. form' \in [ Tab -> {"login", "register"} ]
    BY <1>10 DEF FormSwitches, Typed, PortalTypeOK
  <2> QED BY <1>10, <2>1, <2>2 DEF FormSwitches, limiter, Typed, PortalTypeOK, RequestOK, AuthRequest
<1>11. ASSUME NEW t \in Tab, FollowLink(t)
       PROVE  Typed'
  <2>1. \A q \in requests' : RequestOK(q)
    BY <1>11, RequestKept DEF FollowLink, Typed
  <2> QED BY <1>11, <2>1 DEF FollowLink, Mount, limiter, Typed, PortalTypeOK, RequestOK, AuthRequest
<1>12. ASSUME NEW t \in Tab, Load(t)
       PROVE  Typed'
  BY <1>12 DEF Load, Mount, limiter, Typed, PortalTypeOK
<1>13. CASE Tick
  <2>1. jar' \in [ user : User \cup {NoOne}, age : 0 .. Quarter - 1 ]
    BY <1>13 DEF Tick, NoToken, Typed
  <2>2. hits' \in 0 .. MaxAuth + 1 /\ left' \in 0 .. Quarter
    BY <1>13 DEF Tick, Typed, PortalTypeOK
  <2>3. recent' \subseteq [ age : 0 .. Quarter - 1, n : 1 .. 2 * MaxAuth ]
    BY <1>13 DEF Tick, Typed, PortalTypeOK
  <2> QED BY <1>13, <2>1, <2>2, <2>3 DEF Tick, page, Typed, PortalTypeOK
<1>14. CASE UNCHANGED portalVars
  BY <1>14 DEF portalVars, page, limiter, Typed, PortalTypeOK
<1> QED
  BY <1>1, <1>2, <1>4, <1>5, <1>6, <1>7, <1>8, <1>9, <1>10, <1>11, <1>12, <1>13, <1>14
  DEF PortalNext

-----------------------------------------------------------------------------
(* Signed out *)

\* A step that brings a token into the browser is the answer that signs in.
LEMMA OutStep ==
  ASSUME Typed, LoggedOutMeansOut, [PortalNext]_portalVars
  PROVE  LoggedOutMeansOut'
<1>1. ASSUME NEW r \in requests, Arrive(r)
      PROVE  LoggedOutMeansOut'
  BY <1>1 DEF Arrive, JarAfter, LoggedOutMeansOut, Typed, PortalTypeOK
<1>2. CASE Tick
  BY <1>2 DEF Tick, NoToken, LoggedOutMeansOut
<1>3. CASE UNCHANGED out /\ jar' \in {jar, NoToken}
  BY <1>3 DEF LoggedOutMeansOut
<1> QED
  BY <1>1, <1>2, <1>3
  DEF PortalNext, portalVars, LoginCustomer, LoginEmployee, Register, Logout, Handle, Restart,
      CustomerAnswered, EmployeeAnswered, RegisterAnswered, LogoutAnswered, Lose,
      ShowCustomer, FormSwitches, FollowLink, Load, Mount

-----------------------------------------------------------------------------
(* One thing at a time *)

\* Nobody is shown while a login is under way, so whoever is shown next is whom
\* the token names.
LEMMA OneThingStep ==
  ASSUME Typed, Typed', OneThing, [PortalNext]_portalVars
  PROVE  OneThing'
<1> USE PortalAssumption
<1> SUFFICES ASSUME careful PROVE OneThing'
  BY DEF PortalNext, OneThing, portalVars, LoginCustomer, LoginEmployee, Register, Logout, Handle,
      Restart, Arrive, CustomerAnswered, EmployeeAnswered, RegisterAnswered, LogoutAnswered, Lose,
      ShowCustomer, FormSwitches, FollowLink, Load, Mount, Tick
<1>1. ASSUME NEW t \in Tab, NEW u \in Customer, LoginCustomer(t, u) \/ Register(t, u)
      PROVE  OneThing'
  <2>1. /\ Untroubled(t) /\ shown[t] = NoOne
        /\ UNCHANGED <<shown, due, jar, careful>>
    BY <1>1 DEF LoginCustomer, Register, LoginForm, RegisterForm, Send
  <2>2. \A r, q \in requests' : r = q
    BY <1>1, SendTyped DEF LoginCustomer, Register, User
  <2> QED BY <2>1, <2>2 DEF Untroubled, OneThing
<1>2. ASSUME NEW t \in Tab, NEW u \in Employee, LoginEmployee(t, u)
      PROVE  OneThing'
  <2>1. /\ Untroubled(t) /\ shown[t] = NoOne
        /\ UNCHANGED <<shown, due, jar, careful>>
    BY <1>2 DEF LoginEmployee, EmployeeLogin, Send
  <2>2. \A r, q \in requests' : r = q
    BY <1>2, SendTyped DEF LoginEmployee, User
  <2> QED BY <2>1, <2>2 DEF Untroubled, OneThing
<1>3. ASSUME NEW t \in Tab, Logout(t)
      PROVE  OneThing'
  <2>1. Untroubled(t) /\ UNCHANGED <<shown, due, jar, careful>>
    BY <1>3 DEF Logout, page, Send
  <2>2. /\ \A r, q \in requests' : r = q
        /\ \A r \in requests' : r.kind = "logout"
    BY <1>3, SendTyped DEF Logout, Typed, PortalTypeOK
  <2> QED BY <2>1, <2>2 DEF Untroubled, OneThing
<1>4. ASSUME NEW r \in requests, CustomerAnswered(r)
      PROVE  OneThing'
  <2>1. /\ requests' = {} /\ UNCHANGED <<shown, careful>>
        /\ \A t \in Tab : due[t] = {} /\ shown[t] = NoOne
    BY <1>4 DEF CustomerAnswered, Arrive, OneThing
  <2>2. CASE Welcomed(r)
    <3>1. jar'.user = r.user /\ r.tab \in Tab
      BY <1>4, <2>2 DEF CustomerAnswered, Arrive, Welcomed, JarAfter, TokenOf, Typed, PortalTypeOK
    <3>2. \A t \in Tab : due'[t] \subseteq IF t = r.tab THEN {r.user} ELSE {}
      BY <1>4, <2>1, <2>2, <3>1 DEF CustomerAnswered, Typed, PortalTypeOK
    <3> QED BY <2>1, <3>1, <3>2 DEF OneThing
  <2>3. CASE ~Welcomed(r)
    BY <1>4, <2>1, <2>3 DEF CustomerAnswered, OneThing
  <2> QED BY <2>2, <2>3
<1>5. ASSUME NEW r \in requests, EmployeeAnswered(r)
      PROVE  OneThing'
  <2>1. /\ requests' = {} /\ UNCHANGED <<due, careful>>
        /\ \A t \in Tab : due[t] = {} /\ shown[t] = NoOne
    BY <1>5 DEF EmployeeAnswered, Arrive, OneThing
  <2>2. CASE Welcomed(r)
    <3>1. jar'.user = r.user /\ r.tab \in Tab
      BY <1>5, <2>2 DEF EmployeeAnswered, Arrive, Welcomed, JarAfter, TokenOf, Typed, PortalTypeOK
    <3>2. \A t \in Tab : shown'[t] \in {r.user, NoOne}
      BY <1>5, <2>1, <2>2, <3>1 DEF EmployeeAnswered, Typed, PortalTypeOK
    <3> QED BY <2>1, <3>1, <3>2 DEF OneThing
  <2>3. CASE ~Welcomed(r)
    BY <1>5, <2>1, <2>3 DEF EmployeeAnswered, OneThing
  <2> QED BY <2>2, <2>3
<1>6. ASSUME NEW r \in requests, RegisterAnswered(r)
      PROVE  OneThing'
  <2>1. /\ requests' = {} /\ UNCHANGED <<shown, due, careful>>
        /\ \A t \in Tab : due[t] = {} /\ shown[t] = NoOne
    BY <1>6 DEF RegisterAnswered, Arrive, OneThing
  <2> QED BY <2>1 DEF OneThing
<1>7. ASSUME NEW r \in requests, LogoutAnswered(r)
      PROVE  OneThing'
  <2>1. /\ requests' = {} /\ UNCHANGED <<due, careful>>
        /\ \A t \in Tab : due[t] = {} /\ shown'[t] \in {shown[t], NoOne}
    BY <1>7 DEF LogoutAnswered, Arrive, OneThing, Typed, PortalTypeOK
  <2>2. jar' \in {jar, NoToken}
    BY <1>7 DEF LogoutAnswered, Arrive, JarAfter, Typed, RequestOK
  <2> QED BY <2>1, <2>2 DEF OneThing, NoToken
<1>8. ASSUME NEW t \in Tab, NEW u \in Customer, ShowCustomer(t, u)
      PROVE  OneThing'
  <2>1. /\ u \in due[t] /\ UNCHANGED <<jar, careful>>
        /\ due' = [due EXCEPT ![t] = due[t] \ {u}] /\ shown' = [shown EXCEPT ![t] = u]
        /\ requests' = { IF r.tab = t THEN [ r EXCEPT !.form = FALSE ] ELSE r : r \in requests }
    BY <1>8 DEF ShowCustomer
  <2>2. requests' = {}
    BY <2>1 DEF OneThing
  <2>3. \A s \in Tab : due'[s] = {}
    BY <2>1 DEF OneThing, Typed, PortalTypeOK
  <2>4. \A s \in Tab : shown'[s] \in {u, NoOne}
    BY <2>1 DEF OneThing, Typed, PortalTypeOK
  <2>5. jar.user \in {u, NoOne}
    BY <2>1 DEF OneThing
  <2> QED BY <2>1, <2>2, <2>3, <2>4, <2>5 DEF OneThing
<1>9. ASSUME jar' = jar \/ jar' = NoToken \/ jar'.user = jar.user,
             \A t \in Tab : due'[t] \in {due[t], {}} /\ shown'[t] \in {shown[t], NoOne},
             \A r, q \in requests' : r = q,
             \A r \in requests' : \E q \in requests : r.kind = q.kind,
             UNCHANGED careful
      PROVE  OneThing'
  BY <1>9 DEF OneThing, NoToken
<1>10. ASSUME NEW r \in requests, Handle(r) \/ Lose(r)
       PROVE  OneThing'
  <2>1. PICK answer : requests' = (requests \ {r}) \cup {[ r EXCEPT !.answer = answer ]}
    BY <1>10 DEF Handle, Lose
  <2>2. requests' = {[ r EXCEPT !.answer = answer ]}
    BY <2>1 DEF OneThing
  <2>3. [ r EXCEPT !.answer = answer ].kind = r.kind
    BY DEF Typed, RequestOK, AuthRequest
  <2> QED BY <1>9, <1>10, <2>2, <2>3 DEF Handle, Lose, page
<1>11. CASE Restart
  <2>1. requests' = { [ r EXCEPT !.answer = IF @ = "none" THEN "lost" ELSE @ ] : r \in requests }
    BY <1>11 DEF Restart
  <2>2. /\ \A r, q \in requests' : r = q
        /\ \A r \in requests' : \E q \in requests : r.kind = q.kind
    BY <2>1 DEF OneThing, Typed, RequestOK, AuthRequest
  <2> QED BY <1>9, <1>11, <2>2 DEF Restart, page
<1>12. ASSUME NEW t \in Tab, FormSwitches(t) \/ FollowLink(t) \/ Load(t)
       PROVE  OneThing'
  <2> DEFINE muted(r) == [ r EXCEPT !.form = FALSE ]
             gone(r) == [ r EXCEPT !.form = FALSE, !.live = FALSE ]
  <2>0. \A r \in requests : muted(r).kind = r.kind /\ gone(r).kind = r.kind
    BY DEF Typed, RequestOK, AuthRequest
  <2>1. CASE FormSwitches(t)
    <3>1. UNCHANGED <<jar, careful, shown, due>>
      BY <2>1 DEF FormSwitches
    <3>2. requests' = { IF r.tab = t THEN muted(r) ELSE r : r \in requests }
      BY <2>1 DEF FormSwitches
    <3> HIDE DEF muted
    <3>3. /\ \A r, q \in requests' : r = q
          /\ \A r \in requests' : \E q \in requests : r.kind = q.kind
      BY <2>0, <3>2 DEF OneThing
    <3> QED BY <1>9, <3>1, <3>3
  <2>2. CASE FollowLink(t)
    <3>1. /\ UNCHANGED <<jar, careful>>
          /\ due' = [due EXCEPT ![t] = {}] /\ shown' = [shown EXCEPT ![t] = NoOne]
      BY <2>2 DEF FollowLink, Mount
    <3>2. requests' = { IF r.tab = t THEN gone(r) ELSE r : r \in requests }
      BY <2>2 DEF FollowLink
    <3> HIDE DEF gone
    <3>3. /\ \A r, q \in requests' : r = q
          /\ \A r \in requests' : \E q \in requests : r.kind = q.kind
      BY <2>0, <3>2 DEF OneThing
    <3>4. \A s \in Tab : due'[s] \in {due[s], {}} /\ shown'[s] \in {shown[s], NoOne}
      BY <3>1 DEF Typed, PortalTypeOK
    <3> QED BY <1>9, <3>1, <3>3, <3>4
  <2>3. CASE Load(t)
    <3>1. /\ UNCHANGED <<jar, careful>>
          /\ due' = [due EXCEPT ![t] = {}] /\ shown' = [shown EXCEPT ![t] = NoOne]
      BY <2>3 DEF Load, Mount
    <3>2. requests' \subseteq requests
      BY <2>3 DEF Load
    <3>3. \A s \in Tab : due'[s] \in {due[s], {}} /\ shown'[s] \in {shown[s], NoOne}
      BY <3>1 DEF Typed, PortalTypeOK
    <3> QED BY <1>9, <3>1, <3>2, <3>3 DEF OneThing
  <2> QED BY <1>12, <2>1, <2>2, <2>3
<1>13. CASE Tick \/ UNCHANGED portalVars
  <2>1. /\ jar' = NoToken \/ jar'.user = jar.user
        /\ UNCHANGED <<shown, due, requests, careful>>
    BY <1>13 DEF Tick, portalVars, page, Typed
  <2> QED BY <1>9, <2>1 DEF OneThing
<1> QED
  BY <1>1, <1>2, <1>3, <1>4, <1>5, <1>6, <1>7, <1>8, <1>10, <1>11, <1>12, <1>13 DEF PortalNext

-----------------------------------------------------------------------------
(* The limiter's windows *)

\* What a tick makes of the requests let through.
Aged(a) == [ a EXCEPT !.age = @ + 1 ]
Older(S) == { Aged(a) : a \in S }

\* A tick makes no requests.
LEMMA OlderBound ==
  ASSUME NEW S, IsFiniteSet(S)
  PROVE  IsFiniteSet(Older(S)) /\ Cardinality(Older(S)) <= Cardinality(S)
<1> DEFINE f == [ a \in S |-> Aged(a) ]
<1>1. f \in Surjection(S, Older(S))
  BY DEF Surjection, Older
<1> QED BY <1>1, FS_Surjection

\* A set with one more element, and a smaller set.
LEMMA OneMore ==
  ASSUME NEW S, IsFiniteSet(S), NEW x
  PROVE  /\ Cardinality(S \cup {x}) \in Nat
         /\ Cardinality(S \cup {x}) <= Cardinality(S) + 1
<1>1. Cardinality(S) \in Nat
  BY FS_CardinalityType
<1> QED BY <1>1, FS_AddElement

\* A part of a finite set has no more members than the whole.
LEMMA SubsetBound ==
  ASSUME NEW S, IsFiniteSet(S), NEW T \in SUBSET S
  PROVE  /\ IsFiniteSet(T) /\ Cardinality(T) \in Nat /\ Cardinality(S) \in Nat
         /\ Cardinality(T) <= Cardinality(S)
BY FS_Subset, FS_CardinalityType

\* What becomes of the limiter: only requests, restarts and time move it.
LEMMA LimiterMoves ==
  ASSUME [PortalNext]_portalVars
  PROVE  UNCHANGED limiter \/ Tick \/ Restart \/ \E r \in requests : Handle(r)
BY DEF PortalNext, portalVars, limiter, LoginCustomer, LoginEmployee, Register, Logout,
       Arrive, CustomerAnswered, EmployeeAnswered, RegisterAnswered, LogoutAnswered, Lose,
       ShowCustomer, FormSwitches, FollowLink, Load, Mount

\* A request that is let through is counted in the open window, or opens one when
\* everything let through before belongs to an earlier one.
LEMMA WindowsStep ==
  ASSUME Typed, Typed', Windows, [PortalNext]_portalVars
  PROVE  Windows'
<1> USE PortalAssumption
<1>0. /\ IsFiniteSet(Current) /\ IsFiniteSet(Earlier)
      /\ Cardinality(Current) \in Nat /\ Cardinality(Earlier) \in Nat
  BY SubsetBound DEF Windows, Current, Earlier
<1>1. CASE UNCHANGED <<hits, left, recent>>
  BY <1>1 DEF Windows, Current, Earlier
<1>2. ASSUME NEW answer, hits < MaxAuth, Count(answer), LetThrough
      PROVE  Windows'
  <2>1. PICK n \in 1 .. 2 * MaxAuth :
          /\ [ age |-> 0, n |-> n ] \notin recent
          /\ recent' = recent \cup {[ age |-> 0, n |-> n ]}
    BY <1>2 DEF LetThrough
  <2> DEFINE new == [ age |-> 0, n |-> n ]
  <2>2. new.age = 0
    OBVIOUS
  <2>3. hits' = hits + 1 /\ left' = (IF left = 0 THEN Quarter ELSE left)
    BY <1>2 DEF Count, Typed, PortalTypeOK
  <2>4. /\ hits \in Nat /\ left \in 0 .. Quarter
        /\ \A a \in recent : a.age \in 0 .. Quarter - 1
    BY DEF Typed, PortalTypeOK
  <2> HIDE DEF new
  <2>5. recent' = recent \cup {new} /\ new \notin recent
    BY <2>1 DEF new
  <2>6. Current' = Current \cup {new} /\ Earlier' = Earlier
    <3>1. CASE left = 0
      BY <2>2, <2>3, <2>4, <2>5, <3>1 DEF Current, Earlier, Windows
    <3>2. CASE left # 0
      BY <2>2, <2>3, <2>4, <2>5, <3>2 DEF Current, Earlier
    <3> QED BY <3>1, <3>2
  <2>7. Cardinality(Current') <= hits' /\ Cardinality(Current') <= MaxAuth
    <3>1. /\ Cardinality(Current \cup {new}) <= Cardinality(Current) + 1
          /\ Cardinality(Current \cup {new}) \in Nat
      BY <1>0, OneMore
    <3>2. Cardinality(Current) <= hits
      BY DEF Windows
    <3> QED BY <1>0, <1>2, <2>3, <2>4, <2>6, <3>1, <3>2
  <2>8. IsFiniteSet(recent')
    BY <2>5, FS_AddElement DEF Windows
  <2>9. \E a \in recent' : a.age + left' = Quarter
    BY <2>2, <2>3, <2>4, <2>5 DEF Windows
  <2>10. left' > 0 /\ Cardinality(Earlier') < MaxAuth
    BY <2>3, <2>4, <2>6 DEF Windows
  <2> QED BY <2>7, <2>8, <2>9, <2>10 DEF Windows
<1>3. ASSUME NEW answer, hits >= MaxAuth, Count(answer), UNCHANGED recent
      PROVE  Windows'
  <2>1. left # 0 /\ left' = left /\ hits' \in Nat /\ hits' >= hits /\ hits \in Nat
    BY <1>3 DEF Count, Typed, PortalTypeOK, Windows
  <2>2. Current' = Current /\ Earlier' = Earlier
    BY <1>3, <2>1 DEF Current, Earlier
  <2> QED BY <1>0, <1>3, <2>1, <2>2 DEF Windows
<1>4. CASE hits' = 0 /\ left' = 0 /\ recent' = {}
  BY <1>4, FS_EmptySet DEF Windows, Current, Earlier
<1>5. CASE Tick
  <2> DEFINE Kept == { b \in recent : b.age + 1 < Quarter }
  <2>1. /\ recent' = Older(Kept)
        /\ left' = (IF left = 0 THEN 0 ELSE left - 1)
        /\ hits' = (IF left' = 0 THEN 0 ELSE hits)
    BY <1>5 DEF Tick, Older, Aged
  <2>2. /\ hits \in Nat /\ left \in 0 .. Quarter
        /\ \A a \in recent : a.age \in 0 .. Quarter - 1
        /\ \A a \in recent : Aged(a).age = a.age + 1
    BY DEF Typed, PortalTypeOK, Aged
  <2>3. IsFiniteSet(recent') /\ Cardinality(recent') <= Cardinality(Kept)
    BY <2>1, OlderBound, SubsetBound DEF Windows
  <2>4. Kept \in SUBSET recent /\ \A a \in recent' : a.age > 0
    BY <2>1, <2>2 DEF Older
  <2> HIDE DEF Kept
  <2>5. CASE left = 0
    <3>1. Earlier = recent /\ Earlier' = recent' /\ Current' = {}
      BY <2>1, <2>5 DEF Current, Earlier
    <3>2. Cardinality(recent') < MaxAuth
      BY <2>3, <2>4, <3>1, SubsetBound DEF Windows
    <3> QED BY <2>1, <2>3, <2>4, <2>5, <3>1, <3>2, FS_EmptySet DEF Windows
  <2>6. CASE left = 1
    <3>1. PICK first \in recent : first.age + left = Quarter
      BY <2>6 DEF Windows
    <3>2. Current = recent /\ Earlier' = recent' /\ Current' = {}
      BY <2>1, <2>2, <2>6 DEF Current, Earlier
    <3>3. Kept \in SUBSET (recent \ {first})
      BY <2>2, <2>6, <3>1 DEF Kept
    <3>4. /\ IsFiniteSet(recent \ {first})
          /\ Cardinality(recent \ {first}) = Cardinality(recent) - 1
      BY <3>1, FS_RemoveElement DEF Windows
    <3>5. Cardinality(recent') < MaxAuth
      BY <1>0, <2>3, <3>2, <3>3, <3>4, SubsetBound DEF Windows
    <3> QED BY <2>1, <2>3, <2>4, <2>6, <3>2, <3>5, FS_EmptySet DEF Windows
  <2>7. CASE left > 1
    <3>1. left' = left - 1 /\ left' > 0 /\ hits' = hits
      BY <2>1, <2>2, <2>7
    <3>2. Current' = Older(Current)
      BY <2>1, <2>2, <3>1 DEF Current, Older, Kept
    <3>3. Earlier' = Older(Earlier \cap Kept)
      BY <2>1, <2>2, <3>1 DEF Current, Earlier, Older, Kept
    <3>4. Cardinality(Current') <= hits' /\ Cardinality(Current') <= MaxAuth
      BY <1>0, <2>2, <3>1, <3>2, OlderBound, FS_CardinalityType DEF Windows
    <3>5. Cardinality(Earlier') < MaxAuth
      BY <1>0, <3>3, OlderBound, SubsetBound DEF Windows
    <3>6. \E a \in recent' : a.age + left' = Quarter
      <4>1. PICK first \in recent : first.age + left = Quarter
        BY <2>2, <2>7 DEF Windows
      <4>2. first \in Kept
        BY <2>2, <2>7, <4>1 DEF Kept
      <4> QED BY <2>1, <2>2, <3>1, <4>1, <4>2 DEF Older
    <3> QED BY <2>3, <3>1, <3>4, <3>5, <3>6 DEF Windows
  <2> QED BY <2>2, <2>5, <2>6, <2>7
<1>6. ASSUME NEW r \in requests, Handle(r)
      PROVE  Windows'
  <2>1. CASE hits < MaxAuth
    <3>1. PICK answer \in Answers(r) :
            Count(answer) /\ (IF answer = "limited" THEN UNCHANGED recent ELSE LetThrough)
      BY <1>6, <2>1 DEF Handle
    <3>2. answer # "limited"
      BY <3>1 DEF Answers, CustomerLoginAnswers, EmployeeLoginAnswers, RegisterAnswers,
                  Typed, RequestOK, AuthRequest
    <3> QED BY <1>2, <2>1, <3>1, <3>2
  <2>2. CASE hits >= MaxAuth
    <3>1. Count("limited") /\ UNCHANGED recent
      BY <1>6, <2>2 DEF Handle, Typed, PortalTypeOK
    <3> QED BY <1>3, <2>2, <3>1
  <2> QED BY <2>1, <2>2 DEF Typed, PortalTypeOK
<1> QED BY <1>1, <1>4, <1>5, <1>6, LimiterMoves DEF limiter, Restart

-----------------------------------------------------------------------------
(* The theorems *)

\* Nothing is sent, counted or shown at first.
LEMMA PortalIndInit == PortalInit => PortalInd
<1> SUFFICES ASSUME PortalInit PROVE PortalInd
  OBVIOUS
<1> USE PortalAssumption
<1>1. Typed
  <2>1. NoToken \in [ user : User \cup {NoOne}, age : 0 .. Quarter - 1 ]
    BY DEF NoToken
  <2>2. jar = NoToken /\ requests = {} /\ recent = {} /\ hits = 0 /\ left = 0
    BY DEF PortalInit
  <2>3. NoToken.user = NoOne /\ NoToken.age = 0
    BY DEF NoToken
  <2>4. PortalTypeOK
    <3>1. /\ path \in [ Tab -> {"/", "/employee"} ] /\ form \in [ Tab -> {"login", "register"} ]
          /\ shown \in [ Tab -> User \cup {NoOne} ]
          /\ busy \in [ Tab -> BOOLEAN ] /\ due \in [ Tab -> SUBSET Customer ]
          /\ careful \in BOOLEAN /\ out \in BOOLEAN
      BY DEF PortalInit
    <3>2. hits \in 0 .. MaxAuth + 1 /\ left \in 0 .. Quarter /\ 0 \in 0 .. Quarter - 1
      BY <2>2
    <3> QED BY <2>2, <2>3, <3>1, <3>2 DEF PortalTypeOK
  <2> QED BY <2>1, <2>2, <2>4 DEF Typed
<1>2. LoggedOutMeansOut /\ OneThing
  BY DEF PortalInit, LoggedOutMeansOut, OneThing
<1>3. Windows
  BY FS_EmptySet DEF PortalInit, Windows, Current, Earlier
<1> QED BY <1>1, <1>2, <1>3 DEF PortalInd

\* The lemmas of the parts together.
LEMMA PortalIndStep == PortalInd /\ [PortalNext]_portalVars => PortalInd'
BY TypedStep, OutStep, OneThingStep, WindowsStep DEF PortalInd

\* The invariant holds in every state of tabs, browser and server.
THEOREM PortalInductive == PortalSpec => []PortalInd
BY PortalIndInit, PortalIndStep, PTL DEF PortalSpec

\* The limiter lets fewer than twice its limit through in any span as long as
\* its window: the request that opened a window is out of the span before the
\* next window can open (authLimiter).
LEMMA FewerThanTwice == Typed /\ Windows => LimiterHolds
<1> SUFFICES ASSUME Typed, Windows PROVE LimiterHolds
  OBVIOUS
<1>1. /\ IsFiniteSet(Current) /\ IsFiniteSet(Earlier)
      /\ Cardinality(Current) \in Nat /\ Cardinality(Earlier) \in Nat
  BY SubsetBound DEF Windows, Current, Earlier
<1>2. recent = Current \cup Earlier /\ Current \cap Earlier = {}
  BY DEF Current, Earlier
<1>3. Cardinality(recent) = Cardinality(Current) + Cardinality(Earlier)
  <2>1. Cardinality(Current \cap Earlier) = 0
    BY <1>2, FS_EmptySet
  <2>2. Cardinality(recent) =
          Cardinality(Current) + Cardinality(Earlier) - Cardinality(Current \cap Earlier)
    BY <1>1, <1>2, FS_Union
  <2> QED BY <1>1, <2>1, <2>2
<1> QED BY <1>1, <1>3, PortalAssumption DEF Windows, LimiterHolds

\* The state keeps its types, and the limiter before the auth routes its
\* promise, for every limit and window.
THEOREM LimiterKeepsItsPromise == PortalSpec => []PortalInv
<1>1. PortalInd => PortalInv
  BY FewerThanTwice DEF PortalInd, Typed, PortalInv
<1> QED BY <1>1, PortalInductive, PTL

\* While requests are refused, a window is open; only its end, or a
\* restart, lets the client in again, nothing puts the end off, and each tick
\* brings it nearer.
RefusedInWindow == hits >= MaxAuth => left \in 1 .. Quarter
WaitShrinks ==
  hits >= MaxAuth =>
    /\ hits' >= MaxAuth => left' <= left
    /\ hits' < MaxAuth => hits' = 0 /\ left' = 0
    /\ Tick => left' = left - 1 /\ (left' = 0 => hits' = 0)

(* authLimiter: a client that is refused waits no longer than what is left of   *)
(* the open window, however often it asks meanwhile.  This is the safety half   *)
(* of LimitedServedAgain; that time passes is the other.                        *)
THEOREM RefusalsEnd == PortalSpec => []RefusedInWindow /\ [][WaitShrinks]_portalVars
<1> USE PortalAssumption
<1>1. PortalInd => RefusedInWindow
  BY DEF PortalInd, Typed, PortalTypeOK, Windows, RefusedInWindow
<1>2. PortalInd /\ [PortalNext]_portalVars => [WaitShrinks]_portalVars
  <2> SUFFICES ASSUME PortalInd, PortalNext, hits >= MaxAuth PROVE WaitShrinks
    BY DEF WaitShrinks
  <2>1. hits \in Nat /\ left \in 1 .. Quarter
    BY <1>1 DEF PortalInd, Typed, PortalTypeOK, RefusedInWindow
  <2>2. CASE Tick
    BY <2>1, <2>2 DEF Tick, WaitShrinks
  <2>3. CASE Restart
    BY <2>1, <2>3 DEF Restart, Tick, WaitShrinks
  <2>4. ASSUME NEW r \in requests, Handle(r) PROVE WaitShrinks
    BY <2>1, <2>4 DEF Handle, Count, Tick, WaitShrinks
  <2>5. CASE UNCHANGED limiter
    BY <2>1, <2>5 DEF limiter, Tick, WaitShrinks
  <2> QED BY <2>2, <2>3, <2>4, <2>5, LimiterMoves
<1> QED BY <1>1, <1>2, PortalInductive, PTL DEF PortalSpec

\* Once a logout is answered the browser holds no token until somebody signs in
\* (POST /logout, clearSecureCookies).
THEOREM LogoutsAreFinal == PortalSpec => []LoggedOutMeansOut
BY PortalInductive, PTL DEF PortalInd

\* Where users wait, a page is served as the user it shows, or refused (App,
\* LoginForm, EmployeeLogin and the token's cookie).
THEOREM PagesServeWhomTheyShow == PortalSpec => []ServedAsShown
<1>1. PortalInd => ServedAsShown
  BY PortalAssumption
  DEF PortalInd, OneThing, ServedAsShown, ServedAs, AsCustomer, AsEmployee
<1> QED BY <1>1, PortalInductive, PTL

-----------------------------------------------------------------------------
(* Credentials *)

\* How many places a text of some length has.
LEMMA UpTo ==
  ASSUME NEW top \in Nat
  PROVE  Cardinality(1 .. top) = top
BY FS_Interval

\* Where nothing is deleted a text stays.
LEMMA NothingDeleted ==
  ASSUME NEW top \in Nat, NEW text, text = [ i \in 1 .. top |-> text[i] ],
         NEW positions, positions \cap 1 .. top = {}
  PROVE  Without(text, positions) = text
<1>1. DOMAIN text = 1 .. top
  OBVIOUS
<1>2. DOMAIN text \ positions = 1 .. top
  BY <1>1
<1>3. Cardinality(1 .. top) = top
  BY UpTo
<1>4. \A i \in 1 .. top : Cardinality({ j \in 1 .. top : j <= i }) = i
  <2> SUFFICES ASSUME NEW i \in 1 .. top PROVE Cardinality({ j \in 1 .. top : j <= i }) = i
    OBVIOUS
  <2>1. { j \in 1 .. top : j <= i } = 1 .. i
    OBVIOUS
  <2>2. Cardinality(1 .. i) = i
    BY UpTo
  <2> QED BY <2>1, <2>2
<1>5. \A n \in 1 .. top : PlaceOf(1 .. top, n) = n
  BY <1>4 DEF PlaceOf
<1>6. Without(text, positions) = [ n \in 1 .. top |-> text[n] ]
  BY <1>2, <1>3, <1>5 DEF Without, Picked
<1> QED BY <1>1, <1>6

\* A password with no $ or & and no listed word is hashed as it was typed.
LEMMA PasswordStays ==
  ASSUME NEW text \in Seq(PasswordParts), \A i \in DOMAIN text : text[i] # "$" /\ ~KeywordAt(text, i)
  PROVE  sanitizePassword(text) = text
<1>1. PICK top \in Nat : DOMAIN text = 1 .. top /\ text = [ i \in 1 .. top |-> text[i] ]
  OBVIOUS
<1>2. DropKeywords(text) = text
  <2>1. { j \in DOMAIN text : KeywordAt(text, j) } = {}
    OBVIOUS
  <2>2. UNION { {i, i + 1} : i \in { j \in DOMAIN text : KeywordAt(text, j) } } = {}
    BY <2>1
  <2> QED BY <1>1, <2>2, NothingDeleted DEF DropKeywords
<1>3. DropSpecial(text) = text
  <2>1. { i \in DOMAIN text : text[i] = "$" } = {}
    OBVIOUS
  <2> QED BY <1>1, <2>1, NothingDeleted DEF DropSpecial
<1>4. Pass(DropKeywords, text) = text
  BY <1>2 DEF Pass
<1>5. Pass(DropSpecial, text) = text
  BY <1>3 DEF Pass
<1> QED BY <1>4, <1>5 DEF sanitizePassword

\* Where there is no = no event's attribute is found.
LEMMA NoHandlers ==
  ASSUME NEW top \in Nat, NEW text, text = [ i \in 1 .. top |-> text[i] ],
         \A i \in 1 .. top : text[i] # "="
  PROVE  Pass(DropHandlers, text) = text
<1>1. DOMAIN text = 1 .. top
  OBVIOUS
<1>2. \A i, end \in 1 .. top : ~HandlerAt(text, i, end)
  BY <1>1 DEF HandlerAt, PartAt
<1>3. { k \in DOMAIN text : \E i, end \in DOMAIN text : HandlerAt(text, i, end) /\ k \in i .. end } = {}
  BY <1>1, <1>2
<1>4. DropHandlers(text) = text
  BY <1>3, NothingDeleted DEF DropHandlers
<1> QED BY <1>4 DEF Pass

\* Whatever is deleted of a text, a text is left.
LEMMA TextLeft ==
  ASSUME NEW top \in Nat, NEW text, DOMAIN text = 1 .. top, NEW positions
  PROVE  \E size \in Nat :
           Without(text, positions) = [ n \in 1 .. size |-> Without(text, positions)[n] ]
<1>1. PICK places : places = DOMAIN text \ positions
  OBVIOUS
<1>2. IsFiniteSet(places)
  BY <1>1, FS_Interval, FS_Subset
<1>3. PICK size \in Nat : size = Cardinality(places)
  BY <1>2, FS_CardinalityType
<1>4. Without(text, positions) = [ n \in 1 .. size |-> text[PlaceOf(places, n)] ]
  BY <1>1, <1>3 DEF Without, Picked
<1> QED BY <1>4

\* An e-mail is cleaned to a text.
LEMMA CleanedIsText ==
  ASSUME NEW S, NEW local \in Seq(S)
  PROVE  \E size \in Nat : CleanedEmail(local) = [ n \in 1 .. size |-> CleanedEmail(local)[n] ]
<1>1. PICK top \in Nat : DOMAIN local = 1 .. top
  OBVIOUS
<1>2. PICK small : small = LowerCase(local)
  OBVIOUS
<1>3. DOMAIN small = 1 .. top
  BY <1>1, <1>2 DEF LowerCase
<1>4. PICK kept, gone : kept = DropHandlers(small) /\ kept = Without(small, gone)
  BY DEF DropHandlers
<1>5. PICK size \in Nat : DOMAIN kept = 1 .. size
  BY <1>3, <1>4, TextLeft
<1>6. PICK coded : coded = Encode(kept)
  OBVIOUS
<1>7. DOMAIN coded = 1 .. size
  BY <1>5, <1>6 DEF Encode
<1>8. PICK cleaned, rest : cleaned = DropHandlers(coded) /\ cleaned = Without(coded, rest)
  BY DEF DropHandlers
<1>9. cleaned = CleanedEmail(local)
  <2>1. Pass(DropHandlers, small) = kept
    BY <1>4 DEF Pass
  <2>2. sanitizeEmail(local) = coded
    BY <1>2, <1>6, <2>1 DEF sanitizeEmail
  <2> QED BY <1>8, <2>2 DEF CleanedEmail, Pass
<1>10. \E length \in Nat : cleaned = [ n \in 1 .. length |-> cleaned[n] ]
  BY <1>7, <1>8, TextLeft
<1> QED BY <1>8, <1>9, <1>10

\* Capitals make no difference to what an e-mail is cleaned to, and what the schema takes
\* has nothing left that the login would delete.
LEMMA EmailFound ==
  ASSUME NEW local \in Seq(LocalParts), NEW domain, EmailOutcome(local, domain) = "201", NEW places
  PROVE  EmailFinds(Recased(local, places), domain, CleanedEmail(local))
<1>1. PICK other, cleaned : other = Recased(local, places) /\ cleaned = CleanedEmail(local)
  OBVIOUS
<1>2. LowerCase(other) = LowerCase(local)
  <2>1. DOMAIN other = DOMAIN local
    BY <1>1 DEF Recased
  <2>2. \A i \in DOMAIN local :
          (IF other[i] = "U" THEN "w" ELSE other[i]) = (IF local[i] = "U" THEN "w" ELSE local[i])
    BY <1>1 DEF Recased
  <2> QED BY <2>1, <2>2 DEF LowerCase
<1>3. CleanedEmail(other) = cleaned
  BY <1>1, <1>2 DEF CleanedEmail, sanitizeEmail
<1>4. ~LosesAt(domain) /\ EmailMatches(cleaned, domain) /\ SchemaMatches(cleaned)
  BY <1>1 DEF EmailOutcome
<1>5. PICK size \in Nat : cleaned = [ n \in 1 .. size |-> cleaned[n] ]
  BY <1>1, CleanedIsText
<1>6. \A n \in 1 .. size : cleaned[n] # "="
  <2>1. DOMAIN cleaned = 1 .. size
    BY <1>5
  <2> QED BY <1>4, <2>1 DEF SchemaMatches, EmailLetters
<1>7. Pass(DropHandlers, cleaned) = cleaned
  BY <1>5, <1>6, NoHandlers
<1> QED BY <1>1, <1>3, <1>4, <1>7 DEF EmailFinds

\* An e-mail of letters, hyphens and full stops is stored in small letters and otherwise as
\* it is, so that the rules which took it as typed take it as cleaned.
LEMMA EmailStays ==
  ASSUME NEW local \in Seq(LocalParts), \A i \in DOMAIN local : local[i] \in EmailLetters \cup {"-", "."},
         NEW domain, domain[1] # "i", EmailMatches(local, domain), WellFormed(local, domain)
  PROVE  EmailOutcome(local, domain) = "201" /\ CleanedEmail(local) = LowerCase(local)
<1>1. PICK top \in Nat : top = Len(local) /\ DOMAIN local = 1 .. top /\ top > 0
  <2>1. local # << >>
    BY DEF EmailMatches
  <2> QED BY <2>1
<1>2. PICK small : small = LowerCase(local)
  OBVIOUS
<1>3. /\ small = [ i \in 1 .. top |-> small[i] ] /\ DOMAIN small = 1 .. top
      /\ \A i \in 1 .. top : small[i] = IF local[i] = "U" THEN "w" ELSE local[i]
  BY <1>1, <1>2 DEF LowerCase
<1>4. \A i \in 1 .. top : small[i] \in {"w", "o", "n", "-", "."} /\ (small[i] = "." <=> local[i] = ".")
  BY <1>1, <1>3 DEF EmailLetters
<1>5. Pass(DropHandlers, small) = small
  BY <1>3, <1>4, NoHandlers
<1>6. Encode(small) = small
  <2>1. Encode(small) = [ i \in 1 .. top |-> CASE small[i] = "'" -> Encoded
                                        [] small[i] = Encoded -> "#x27"
                                        [] OTHER -> small[i] ]
    BY <1>3 DEF Encode
  <2>2. \A i \in 1 .. top : small[i] # "'" /\ small[i] # Encoded
    BY <1>4 DEF Encoded
  <2> QED BY <1>3, <2>1, <2>2
<1>7. CleanedEmail(local) = small
  BY <1>2, <1>5, <1>6 DEF CleanedEmail, sanitizeEmail
<1>8. EmailMatches(small, domain)
  <2>1. small # << >>
    BY <1>1, <1>3
  <2> QED BY <1>3, <1>4, <2>1 DEF EmailMatches, LocalParts, EmailLetters
<1>9. WellFormed(small, domain)
  <2>1. \A i \in Int : PartAt(local, i) \notin {"", "."} => PartAt(small, i) \notin {"", "."}
    BY <1>1, <1>3, <1>4 DEF PartAt
  <2>2. \A i \in 1 .. top : i - 1 \in Int /\ i + 1 \in Int
    OBVIOUS
  <2>3. small \in [ 1 .. top -> {"w", "o", "n", "-", "."} ]
    BY <1>3, <1>4
  <2>4. Len(small) = Len(local)
    BY <1>1, <2>3
  <2>5. \A i \in DOMAIN small : small[i] = "." =>
          PartAt(small, i - 1) \notin {"", "."} /\ PartAt(small, i + 1) \notin {"", "."}
    BY <1>1, <1>3, <1>4, <2>1, <2>2 DEF WellFormed
  <2> QED BY <2>4, <2>5 DEF WellFormed
<1>10. SchemaMatches(small)
  BY <1>3, <1>4 DEF SchemaMatches, EmailLetters
<1> QED BY <1>2, <1>7, <1>8, <1>9, <1>10 DEF EmailOutcome, LosesAt

\* Passwords and e-mails of any number of parts, under the server's maxima (RegisterForm,
\* LoginForm, sanitizeRequestBody, globalSanitization, POST /register and /login): what was
\* registered logs in, though not always stored as typed, and ordinary credentials are taken
\* and kept as they are.
THEOREM CredentialsSurviveCleaning == PortalSpec => []CredentialsHold
<1>1. PasswordsForgotten = {}
  <2> SUFFICES ASSUME NEW text \in TypedPasswords, RegisterTakes(text)
               PROVE  LoginMatches(text, HashedPassword(text))
    BY DEF PasswordsForgotten
  <2>1. PICK cleaned : cleaned = sanitizePassword(text)
    OBVIOUS
  <2>2. Len(cleaned) >= 4 /\ Len(cleaned) <= MaxPassword
    BY <2>1 DEF RegisterTakes, StrongPassword
  <2>3. PICK size \in Nat : cleaned = [ n \in 1 .. size |-> cleaned[n] ]
    <3>1. PICK n \in 1 .. MaxText : text \in [ 1 .. n -> PasswordParts ]
      BY DEF TypedPasswords
    <3>2. n \in Nat /\ DOMAIN text = 1 .. n
      BY <3>1, TextAssumption
    <3>3. PICK words, gone : words = DropKeywords(text) /\ words = Without(text, gone)
      BY DEF DropKeywords
    <3>4. PICK m \in Nat : DOMAIN words = 1 .. m
      BY <3>2, <3>3, TextLeft
    <3>5. PICK rest : DropSpecial(words) = Without(words, rest)
      BY DEF DropSpecial
    <3>6. cleaned = Without(words, rest)
      BY <2>1, <3>3, <3>5 DEF sanitizePassword, Pass
    <3> QED BY <3>4, <3>6, TextLeft
  <2>4. DOMAIN cleaned = 1 .. size
    BY <2>3
  <2>5. Len(cleaned) = size
    BY <2>4
  <2> QED BY <2>1, <2>2, <2>5, LengthAssumption DEF LoginMatches, HashedPassword
<1>2. \A text \in TypedLocals : text \in Seq(LocalParts)
  <2> SUFFICES ASSUME NEW text \in TypedLocals PROVE text \in Seq(LocalParts)
    OBVIOUS
  <2>1. CASE \E n \in 1 .. MaxLabel : text \in [ 1 .. n -> LocalParts ]
    BY <2>1, TextAssumption
  <2>2. CASE \E n \in 1 .. MaxHandler : text \in [ 1 .. n -> {"o", "n", "w", "="} ]
    <3>1. PICK n \in 1 .. MaxHandler : text \in [ 1 .. n -> {"o", "n", "w", "="} ]
      BY <2>2
    <3>2. n \in Nat
      BY TextAssumption
    <3>3. {"o", "n", "w", "="} \subseteq LocalParts
      BY DEF LocalParts, EmailLetters
    <3>4. text \in [ 1 .. n -> LocalParts ]
      BY <3>1, <3>3
    <3> QED BY <3>2, <3>4
  <2> QED BY <2>1, <2>2 DEF TypedLocals
<1>3. EmailsForgotten = {}
  <2> SUFFICES ASSUME NEW e \in TypedEmails, EmailOutcome(e[1], e[2]) = "201", NEW places
               PROVE  EmailFinds(Recased(e[1], places), e[2], CleanedEmail(e[1]))
    BY DEF EmailsForgotten
  <2>1. PICK local, domain : local = e[1] /\ domain = e[2]
    OBVIOUS
  <2>2. local \in Seq(LocalParts)
    BY <1>2, <2>1 DEF TypedEmails
  <2> QED BY <2>1, <2>2, EmailFound
<1>4. PasswordsLost = {}
  <2> SUFFICES ASSUME NEW text \in TypedPasswords, Len(text) <= MaxPassword,
                      \A i \in DOMAIN text : text[i] # "$" /\ ~KeywordAt(text, i)
               PROVE  RegisterTakes(text) /\ HashedPassword(text) = text
    BY DEF PasswordsLost
  <2>1. PICK n \in 1 .. MaxText : text \in [ 1 .. n -> PasswordParts ]
    BY DEF TypedPasswords
  <2>2. n \in Nat
    BY TextAssumption
  <2>3. text \in Seq(PasswordParts)
    BY <2>1, <2>2
  <2>4. sanitizePassword(text) = text
    BY <2>3, PasswordStays
  <2>5. StrongPassword(text)
    BY DEF TypedPasswords
  <2> QED BY <2>4, <2>5 DEF RegisterTakes, HashedPassword
<1>5. EmailsLost = {}
  <2> SUFFICES ASSUME NEW e \in TypedEmails,
                      \A i \in DOMAIN e[1] : e[1][i] \in EmailLetters \cup {"-", "."},
                      e[2][1] # "i", WellFormed(e[1], e[2])
               PROVE  EmailOutcome(e[1], e[2]) = "201" /\ CleanedEmail(e[1]) = LowerCase(e[1])
    BY DEF EmailsLost
  <2>1. e[1] \in TypedLocals /\ EmailMatches(e[1], e[2])
    BY DEF TypedEmails
  <2>2. PICK local, domain : local = e[1] /\ domain = e[2]
    OBVIOUS
  <2>3. local \in Seq(LocalParts)
    BY <1>2, <2>1, <2>2
  <2> QED BY <2>1, <2>2, <2>3, EmailStays
<1>6. CredentialsHold
  BY <1>1, <1>3, <1>4, <1>5 DEF CredentialsHold, CredentialsStand, CredentialsSurvive
<1> QED BY <1>6, PTL
=============================================================================
