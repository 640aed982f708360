------------------------------- MODULE Portal -------------------------------
(***************************************************************************)
(* Who is signed in: a browser with several tabs of the portal, each with  *)
(* a page of its own that remembers whom it shows (App, LoginForm,         *)
(* RegisterForm, EmployeeLogin), one jar of cookies for all of them, the   *)
(* access token that ends after a quarter of an hour (jwtSecurity), and    *)
(* the limiter before the routes under /api/auth.                          *)
(*                                                                         *)
(* A request is served in one step and its answer, with the cookies it     *)
(* sets or clears, arrives in a later one.  Time passes in ticks, Quarter  *)
(* of them in fifteen minutes.                                             *)
(***************************************************************************)
EXTENDS Naturals, FiniteSets

CONSTANTS
  Tab,
  Customer, Employee,
  NoOne,
  MaxAuth,     \* requests the limiter lets through in a window, 5
  Quarter,     \* ticks in a window, and in the life of a token
  MaxRequests  \* bound: the requests under way at once

ASSUME PortalAssumption ==
  /\ NoOne \notin Customer \cup Employee
  /\ Customer \cap Employee = {}
  /\ MaxAuth \in Nat \ {0} /\ Quarter \in Nat \ {0} /\ MaxRequests \in Nat

User == Customer \cup Employee

VARIABLES
  path,     \* the tab's route: "/" or "/employee"
  form,     \* the form shown when nobody is: "login" or "register"
  shown,    \* whom the tab's page shows
  busy,     \* whether the form is waiting for an answer
  due,      \* customers whose timer in LoginForm will show them
  jar,      \* whose access token the browser holds, and its age
  requests, \* auth requests under way
  hits,     \* requests counted in the limiter's window
  left,     \* ticks until the window ends, 0 when none is open
  recent,   \* history: the requests let through in the last Quarter ticks, by
            \*   their age and by their number among those of that tick
  careful,  \* whether users send no request while one is under way, a timer
            \*   runs, or another tab shows someone
  out       \* history: a logout was answered, and nobody signed in since

page == <<path, form, shown, busy, due>>
limiter == <<hits, left, recent>>
portalVars == <<page, jar, requests, limiter, careful, out>>

NoToken == [ user |-> NoOne, age |-> 0 ]
TokenOf(u) == [ user |-> u, age |-> 0 ]

-----------------------------------------------------------------------------
(* What the token allows *)

\* authenticateToken and the role that the customers' routes want, and
\* authenticateEmployee.  NoOne: 401 or 403.
AsCustomer == IF jar.user \in Customer THEN jar.user ELSE NoOne
AsEmployee == IF jar.user \in Employee THEN jar.user ELSE NoOne

\* Whom a tab's requests are served as: whoever the browser's one token names.
ServedAs(t) == IF path[t] = "/" THEN AsCustomer ELSE AsEmployee

-----------------------------------------------------------------------------
(* Requests *)

Untroubled(t) ==
  /\ requests = {}
  /\ \A s \in Tab : due[s] = {} /\ (s # t => shown[s] = NoOne)

\* bound: where nobody waits, one tab is used, and one customer's account.
InUse(t) == ~careful => t = CHOOSE s \in Tab : TRUE
InBound(t, u) ==
  InUse(t) /\ (~careful => u \in Employee \cup {CHOOSE c \in Customer : TRUE})

\* live: the portal that sent it is still mounted; form: its form is.  n tells
\* the requests of a tab apart.
Send(t, kind, u) ==
  /\ careful => Untroubled(t)
  /\ InBound(t, u)
  /\ \E n \in 1 .. MaxRequests :
       /\ \A r \in requests : r.n # n
       /\ \A k \in 1 .. n - 1 : \E r \in requests : r.n = k
       /\ requests' = requests \cup
            {[ n |-> n, tab |-> t, kind |-> kind, user |-> u, answer |-> "none",
               live |-> TRUE, form |-> kind # "logout" ]}

\* The forms, whose buttons are disabled while they wait.
LoginForm(t) == path[t] = "/" /\ shown[t] = NoOne /\ form[t] = "login"
RegisterForm(t) == path[t] = "/" /\ shown[t] = NoOne /\ form[t] = "register"
EmployeeLogin(t) == path[t] = "/employee" /\ shown[t] = NoOne

\* handleSubmit of LoginForm
LoginCustomer(t, u) ==
  /\ LoginForm(t) /\ ~busy[t] /\ u \in Customer
  /\ busy' = [busy EXCEPT ![t] = TRUE]
  /\ Send(t, "login", u)
  /\ UNCHANGED <<path, form, shown, due, jar, limiter, careful, out>>

\* handleSubmit of EmployeeLogin
LoginEmployee(t, u) ==
  /\ EmployeeLogin(t) /\ ~busy[t] /\ u \in Employee
  /\ busy' = [busy EXCEPT ![t] = TRUE]
  /\ Send(t, "login", u)
  /\ UNCHANGED <<path, form, shown, due, jar, limiter, careful, out>>

\* handleSubmit of RegisterForm
Register(t, u) ==
  /\ RegisterForm(t) /\ ~busy[t] /\ u \in Customer
  /\ busy' = [busy EXCEPT ![t] = TRUE]
  /\ Send(t, "register", u)
  /\ UNCHANGED <<path, form, shown, due, jar, limiter, careful, out>>

\* handleLogout; nothing keeps the button from being pressed again.
Logout(t) ==
  /\ shown[t] # NoOne
  /\ Send(t, "logout", shown[t])
  /\ UNCHANGED <<page, jar, limiter, careful, out>>

-----------------------------------------------------------------------------
(* The server *)

\* Mutant: only requests that fail are counted.
CountFailures(answer) ==
  IF answer \in {"in", "out"} THEN UNCHANGED <<hits, left>>
  ELSE /\ hits' = IF hits > MaxAuth THEN hits ELSE hits + 1
       /\ left' = IF left = 0 THEN Quarter ELSE left

\* Mutant: every request opens the window anew.
CountAnew(answer) ==
  /\ hits' = IF hits > MaxAuth THEN hits ELSE hits + 1
  /\ left' = Quarter

\* authLimiter: the first request opens the window, and those it refuses are
\* counted too (how many is not told apart).
Count(answer) ==
  /\ hits' = IF hits > MaxAuth THEN hits ELSE hits + 1
  /\ left' = IF left = 0 THEN Quarter ELSE left

\* in: signed in; out: cookies cleared; no: a login that failed after its
\* handler had cleared the cookies; kept: refused or failed before that.
CustomerLoginAnswers == {"in", "no", "kept"}
EmployeeLoginAnswers == {"in", "no", "kept"}
RegisterAnswers == {"in", "kept"}

Answers(r) ==
  CASE r.kind = "login" -> IF r.user \in Customer THEN CustomerLoginAnswers ELSE EmployeeLoginAnswers
    [] r.kind = "register" -> RegisterAnswers
    [] r.kind = "logout" -> {"out"}

\* n is the next number of this tick.  bound: 2 * MaxAuth.
LetThrough ==
  \E n \in 1 .. 2 * MaxAuth :
    /\ \A k \in 1 .. n : [ age |-> 0, n |-> k ] \in recent <=> k < n
    /\ recent' = recent \cup {[ age |-> 0, n |-> n ]}

Handle(r) ==
  /\ r \in requests /\ r.answer = "none"
  /\ \E answer \in IF hits < MaxAuth THEN Answers(r) ELSE {"limited"} :
       /\ Count(answer)
       /\ IF answer = "limited" THEN UNCHANGED recent ELSE LetThrough
       /\ requests' = (requests \ {r}) \cup {[ r EXCEPT !.answer = answer ]}
  /\ UNCHANGED <<page, jar, careful, out>>

\* A restart empties the limiter's store, and unless JWT_SECRET is set no token
\* of before is valid any more; requests not yet served never will be.
Restart ==
  /\ jar' \in {jar, NoToken}
  /\ hits' = 0 /\ left' = 0 /\ recent' = {}
  /\ requests' = { [ r EXCEPT !.answer = IF @ = "none" THEN "lost" ELSE @ ] : r \in requests }
  /\ UNCHANGED <<page, careful, out>>

-----------------------------------------------------------------------------
(* Answers *)

\* Mutant: a login leaves a session alone that is still valid.
JarKept(r) ==
  CASE r.answer = "in" -> IF jar.user # NoOne THEN jar ELSE TokenOf(r.user)
    [] r.answer \in {"out", "no"} -> NoToken
    [] OTHER -> jar

\* Mutant: the options of clearCookie are not those the cookie was set with.
JarNotCleared(r) ==
  CASE r.answer = "in" -> TokenOf(r.user)
    [] r.answer = "no" -> NoToken
    [] OTHER -> jar

\* The cookies in the answer; the last of an answer's headers wins.
JarAfter(r) ==
  CASE r.answer = "in" -> TokenOf(r.user)
    [] r.answer \in {"out", "no"} -> NoToken
    [] OTHER -> jar

Arrive(r) ==
  /\ r \in requests /\ r.answer # "none"
  /\ requests' = requests \ {r}
  /\ jar' = JarAfter(r)
  /\ out' = (r.answer = "out" \/ (out /\ r.answer # "in"))
  /\ busy' = [busy EXCEPT ![r.tab] = @ /\ ~r.form]
  /\ UNCHANGED <<path, limiter, careful>>

\* Whether the answer signs its user in on a page that is still there.
Welcomed(r) == r.answer = "in" /\ r.live

\* LoginForm keeps its success message for a second and shows the customer then.
CustomerAnswered(r) ==
  /\ r.kind = "login" /\ r.user \in Customer /\ Arrive(r)
  /\ due' = IF Welcomed(r) THEN [due EXCEPT ![r.tab] = @ \cup {r.user}] ELSE due
  /\ UNCHANGED <<form, shown>>

\* EmployeeLogin shows the employee at once.
EmployeeAnswered(r) ==
  /\ r.kind = "login" /\ r.user \in Employee /\ Arrive(r)
  /\ shown' = IF Welcomed(r) THEN [shown EXCEPT ![r.tab] = r.user] ELSE shown
  /\ UNCHANGED <<form, due>>

\* The customer is signed in by now, and told to log in.  (The timer that goes
\* back to the login form is FormSwitches, as is the link.)
RegisterAnswered(r) ==
  /\ r.kind = "register" /\ Arrive(r)
  /\ UNCHANGED <<form, due, shown>>

\* Whatever the answer is, if there is one: the page forgets whom it showed.
LogoutAnswered(r) ==
  /\ r.kind = "logout" /\ Arrive(r)
  /\ IF r.live
     THEN shown' = [shown EXCEPT ![r.tab] = NoOne] /\ form' = [form EXCEPT ![r.tab] = "login"]
     ELSE UNCHANGED <<shown, form>>
  /\ UNCHANGED due

\* fetch rejects, before or after the server has served the request.
Lose(r) ==
  /\ r \in requests /\ r.answer \in {"none", "in", "no", "out"}
  /\ requests' = (requests \ {r}) \cup {[ r EXCEPT !.answer = "lost" ]}
  /\ UNCHANGED <<page, jar, limiter, careful, out>>

-----------------------------------------------------------------------------
(* The pages *)

\* The timer of LoginForm: onLoginSuccess, whatever has happened since.
ShowCustomer(t, u) ==
  /\ u \in due[t]
  /\ due' = [due EXCEPT ![t] = @ \ {u}]
  /\ shown' = [shown EXCEPT ![t] = u]
  /\ busy' = [busy EXCEPT ![t] = FALSE]
  /\ requests' = { IF r.tab = t THEN [ r EXCEPT !.form = FALSE ] ELSE r : r \in requests }
  /\ UNCHANGED <<path, form, jar, limiter, careful, out>>

\* switchToRegister, switchToLogin: another form is mounted.
FormSwitches(t) ==
  /\ InUse(t) /\ shown[t] = NoOne /\ path[t] = "/"
  /\ form' = [form EXCEPT ![t] = IF @ = "login" THEN "register" ELSE "login"]
  /\ busy' = [busy EXCEPT ![t] = FALSE]
  /\ requests' = { IF r.tab = t THEN [ r EXCEPT !.form = FALSE ] ELSE r : r \in requests }
  /\ UNCHANGED <<path, shown, due, jar, limiter, careful, out>>

\* The tab's page is mounted anew, with its first state.
Mount(t, p) ==
  /\ path' = [path EXCEPT ![t] = p]
  /\ form' = [form EXCEPT ![t] = "login"]
  /\ shown' = [shown EXCEPT ![t] = NoOne]
  /\ busy' = [busy EXCEPT ![t] = FALSE]
  /\ due' = [due EXCEPT ![t] = {}]
  /\ UNCHANGED <<jar, limiter, careful, out>>

\* The link to the employee portal: the page stays loaded, and so do its
\* requests.
FollowLink(t) ==
  /\ InUse(t) /\ shown[t] = NoOne /\ path[t] = "/"
  /\ Mount(t, "/employee")
  /\ requests' = { IF r.tab = t THEN [ r EXCEPT !.form = FALSE, !.live = FALSE ] ELSE r : r \in requests }

\* The page is loaded, or loaded again: its requests are given up.
Load(t) ==
  /\ InUse(t)
  /\ \E p \in {"/", "/employee"} : Mount(t, p)
  /\ requests' = { r \in requests : r.tab # t }

-----------------------------------------------------------------------------

\* The cookie and the token in it end together; the limiter's window ends.
Tick ==
  /\ jar' = IF jar.user = NoOne \/ jar.age + 1 = Quarter THEN NoToken ELSE [jar EXCEPT !.age = @ + 1]
  /\ left' = IF left = 0 THEN 0 ELSE left - 1
  /\ hits' = IF left' = 0 THEN 0 ELSE hits
  /\ recent' = { [ a EXCEPT !.age = @ + 1 ] : a \in { b \in recent : b.age + 1 < Quarter } }
  /\ UNCHANGED <<page, requests, careful, out>>

PortalInit ==
  /\ path \in [ Tab -> {"/", "/employee"} ]
  /\ form = [ t \in Tab |-> "login" ]
  /\ shown = [ t \in Tab |-> NoOne ]
  /\ busy = [ t \in Tab |-> FALSE ]
  /\ due = [ t \in Tab |-> {} ]
  /\ jar = NoToken /\ requests = {}
  /\ hits = 0 /\ left = 0 /\ recent = {}
  /\ careful \in BOOLEAN /\ out = FALSE

PortalNext ==
  \/ \E t \in Tab, u \in Customer : LoginCustomer(t, u)
  \/ \E t \in Tab, u \in Employee : LoginEmployee(t, u)
  \/ \E t \in Tab, u \in Customer : Register(t, u)
  \/ \E t \in Tab : Logout(t)
  \/ \E r \in requests : Handle(r)
  \/ Restart
  \/ \E r \in requests : CustomerAnswered(r)
  \/ \E r \in requests : EmployeeAnswered(r)
  \/ \E r \in requests : RegisterAnswered(r)
  \/ \E r \in requests : LogoutAnswered(r)
  \/ \E r \in requests : Lose(r)
  \/ \E t \in Tab, u \in Customer : ShowCustomer(t, u)
  \/ \E t \in Tab : FormSwitches(t)
  \/ \E t \in Tab : FollowLink(t)
  \/ \E t \in Tab : Load(t)
  \/ Tick

\* Time passes.
PortalSpec == PortalInit /\ [][PortalNext]_portalVars /\ WF_portalVars(Tick)
=============================================================================
