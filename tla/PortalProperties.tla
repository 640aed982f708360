-------------------------- MODULE PortalProperties --------------------------
(***************************************************************************)
(* What those who use the portal's pages, and its server, may rely on.     *)
(***************************************************************************)
EXTENDS Portal, Credentials

CONSTANTS
  MaxText,    \* bound: the parts of the passwords that are tried
  MaxLabel,   \* bound: the parts of the e-mails before the @,
  MaxHandler, \* bound: of those made of on, letters and =,
  MaxDomain   \* bound: and after the @

ASSUME TextAssumption ==
  MaxText \in Nat /\ MaxLabel \in Nat /\ MaxHandler \in Nat /\ MaxDomain \in Nat

(* The state's types. *)
PortalTypeOK ==
  /\ path \in [ Tab -> {"/", "/employee"} ]
  /\ form \in [ Tab -> {"login", "register"} ]
  /\ shown \in [ Tab -> User \cup {NoOne} ]
  /\ busy \in [ Tab -> BOOLEAN ] /\ due \in [ Tab -> SUBSET Customer ]
  /\ jar.user \in User \cup {NoOne} /\ jar.age \in 0 .. Quarter - 1
  /\ \A r \in requests : r.tab \in Tab /\ r.n \in 1 .. MaxRequests
  /\ hits \in 0 .. MaxAuth + 1 /\ left \in 0 .. Quarter
  /\ recent \subseteq [ age : 0 .. Quarter - 1, n : 1 .. 2 * MaxAuth ]
  /\ careful \in BOOLEAN /\ out \in BOOLEAN

(* App, LoginForm, EmployeeLogin and the cookies of the auth routes: where *)
(* users wait for each answer and show themselves in one tab at a time,    *)
(* every request of a page is served as the user it shows, or refused,     *)
(* also after failed logins, registrations, refused logouts, tokens that   *)
(* ended, reloads and restarts.                                            *)
ServedAsShown ==
  careful => \A t \in Tab : shown[t] # NoOne => ServedAs(t) \in {shown[t], NoOne}

(* POST /logout: once a logout has been answered no token is left in the   *)
(* browser until someone signs in or registers, whatever other tabs do.    *)
LoggedOutMeansOut == out => jar = NoToken

(* authLimiter: its windows are fixed, so that two of them can meet in one *)
(* span of fifteen minutes; fewer than twice the limit are let through.    *)
LimiterHolds == Cardinality(recent) < 2 * MaxAuth

(* authLimiter: a client that is refused is let through again, also when   *)
(* it keeps asking meanwhile.                                              *)
LimitedServedAgain == hits >= MaxAuth ~> hits < MaxAuth

TypedPasswords ==
  { text \in UNION { [ 1 .. n -> PasswordParts ] : n \in 1 .. MaxText } : StrongPassword(text) }
TypedLocals ==
  (UNION { [ 1 .. n -> LocalParts ] : n \in 1 .. MaxLabel })
    \cup UNION { [ 1 .. n -> {"o", "n", "w", "="} ] : n \in 1 .. MaxHandler }
TypedDomains == UNION { [ 1 .. n -> {"w", "U", ".", "i"} ] : n \in 1 .. MaxDomain }
TypedEmails == { e \in TypedLocals \X TypedDomains : EmailMatches(e[1], e[2]) }

\* An e-mail with some of its letters changed between small and capital ones.
Recased(text, places) ==
  [ i \in DOMAIN text |->
      IF i \in places /\ text[i] \in {"w", "U"} THEN (IF text[i] = "w" THEN "U" ELSE "w") ELSE text[i] ]

(* RegisterForm, LoginForm, sanitizeRequestBody, POST /register and /login: *)
(* whoever was registered can log in with the password that was typed, and *)
(* with the e-mail in capitals or small letters, though what is stored is  *)
(* not always what was typed, and POST /login cleans once more.            *)
PasswordsForgotten ==
  { text \in TypedPasswords : RegisterTakes(text) /\ ~LoginMatches(text, HashedPassword(text)) }
EmailsForgotten ==
  { e \in TypedEmails :
      /\ EmailOutcome(e[1], e[2]) = "201"
      /\ \E places \in SUBSET DOMAIN e[1] :
           ~EmailFinds(Recased(e[1], places), e[2], CleanedEmail(e[1])) }

CredentialsStand ==
  (\E t \in Tab : form[t] = "register") => PasswordsForgotten = {} /\ EmailsForgotten = {}

(* sanitizePassword, sanitizeEmail and the rules of three places: ordinary *)
(* credentials that the form accepts are accepted by the server and kept   *)
(* as they are, but for capitals in the e-mail.  Ordinary: no $ or & and   *)
(* no listed word standing alone in a password of 128 characters at the    *)
(* most; letters, hyphens and full stops between them before the @, a      *)
(* domain that does not begin with import, and lengths that isEmail and    *)
(* isLength take.                                                          *)
PasswordsLost ==
  { text \in TypedPasswords :
      /\ Len(text) <= MaxPassword
      /\ \A i \in DOMAIN text : text[i] # "$" /\ ~KeywordAt(text, i)
      /\ ~RegisterTakes(text) \/ HashedPassword(text) # text }
EmailsLost ==
  { e \in TypedEmails :
      /\ \A i \in DOMAIN e[1] : e[1][i] \in EmailLetters \cup {"-", "."}
      /\ e[2][1] # "i" /\ WellFormed(e[1], e[2])
      /\ EmailOutcome(e[1], e[2]) # "201" \/ CleanedEmail(e[1]) # LowerCase(e[1]) }

CredentialsSurvive ==
  (\E t \in Tab : form[t] = "register") => PasswordsLost = {} /\ EmailsLost = {}

(* The state keeps its shape, and the limiter its promise.                 *)
PortalInv == PortalTypeOK /\ LimiterHolds

(* Whatever is registered can log in, and ordinary credentials are neither *)
(* refused nor altered.                                                    *)
CredentialsHold == CredentialsStand /\ CredentialsSurvive
=============================================================================
