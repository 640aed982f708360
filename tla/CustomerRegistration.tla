------------------------ MODULE CustomerRegistration ------------------------
(***************************************************************************)
(* POST /api/auth/register over the Customer collection: the look-ups by   *)
(* e-mail and by account number, the hashing, the creation and the tokens, *)
(* each awaited, with other registrations in between.  What keeps two of   *)
(* them apart in the end is the collection's two unique indexes.           *)
(*                                                                         *)
(* E-mails are those the handler has turned to lower case.  Names,         *)
(* passwords and balances are left out: nothing branches on them after     *)
(* validation.  A customer is known by the request that created it, which  *)
(* stands for the document's _id.                                          *)
(***************************************************************************)
EXTENDS Naturals, FiniteSets

CONSTANTS
  Email,          \* the e-mails applicants give
  AccountNumber,  \* the account numbers they give
  Applicant,      \* the registration requests: each is handled once
  Nothing,        \* what a request has asked for before it arrives
  Faults          \* TRUE: a call may throw and the server may crash

ASSUME RegistrationAssumption ==
  /\ Nothing \notin Email \cup AccountNumber
  /\ Faults \in BOOLEAN

VARIABLES
  customers,  \* the Customer collection
  pc,         \* what each handler awaits
  asked,      \* what each request asks for
  code,       \* the status code it was answered with
  struck,     \* history: the requests a fault has struck
  signedIn    \* the requests whose answer set the cookies of a session

registration == <<customers, pc, asked, code, struck, signedIn>>

-----------------------------------------------------------------------------
(* The collection and the handlers *)

Customer == [ id : Applicant, email : Email, account : AccountNumber ]

\* What a request that has arrived would create.
Wanted(r) == [ id |-> r, email |-> asked[r].email, account |-> asked[r].account ]

EmailTaken(r) == \E c \in customers : c.email = asked[r].email
AccountTaken(r) == \E c \in customers : c.account = asked[r].account

Answer(r, c) ==
  /\ pc' = [pc EXCEPT ![r] = "done"]
  /\ code' = [code EXCEPT ![r] = c]

Await(r, next) == pc' = [pc EXCEPT ![r] = next] /\ UNCHANGED code

\* A request that passed validation.
Register(r, email, account) ==
  /\ pc[r] = "idle"
  /\ asked' = [asked EXCEPT ![r] = [ email |-> email, account |-> account ]]
  /\ Await(r, "email")
  /\ UNCHANGED <<customers, struck, signedIn>>

\* Mutant: the look-up is not awaited, and a promise is truthy.
FindEmailUnawaited(r) ==
  /\ pc[r] = "email"
  /\ Answer(r, "400")
  /\ UNCHANGED <<customers, asked, struck, signedIn>>

\* Customer.findOne({ email })
FindEmail(r) ==
  /\ pc[r] = "email"
  /\ IF EmailTaken(r) THEN Answer(r, "400") ELSE Await(r, "account")
  /\ UNCHANGED <<customers, asked, struck, signedIn>>

\* Mutant: a free account number is taken for one in use.
FindAccountInverted(r) ==
  /\ pc[r] = "account"
  /\ IF ~AccountTaken(r) THEN Answer(r, "400") ELSE Await(r, "create")
  /\ UNCHANGED <<customers, asked, struck, signedIn>>

\* Customer.findOne({ accountNumber })
FindAccount(r) ==
  /\ pc[r] = "account"
  /\ IF AccountTaken(r) THEN Answer(r, "400") ELSE Await(r, "create")
  /\ UNCHANGED <<customers, asked, struck, signedIn>>

\* Mutant: there is no unique index; what was found free is free.
CreateUnchecked(r) ==
  /\ pc[r] = "create"
  /\ customers' = customers \cup {Wanted(r)}
  /\ Await(r, "tokens")
  /\ UNCHANGED <<asked, struck, signedIn>>

\* Customer.create, once argon2.hash is done; both indexes are unique.
Create(r) ==
  /\ pc[r] = "create"
  /\ ~EmailTaken(r) /\ ~AccountTaken(r)
  /\ customers' = customers \cup {Wanted(r)}
  /\ Await(r, "tokens")
  /\ UNCHANGED <<asked, struck, signedIn>>

\* Mutant: the error of the unique index is swallowed.
CreateIgnored(r) ==
  /\ pc[r] = "create"
  /\ EmailTaken(r) \/ AccountTaken(r)
  /\ Await(r, "tokens")
  /\ UNCHANGED <<customers, asked, struck, signedIn>>

\* Another registration has come first: the catch answers 500.
CreateRefused(r) ==
  /\ pc[r] = "create"
  /\ EmailTaken(r) \/ AccountTaken(r)
  /\ Answer(r, "500")
  /\ UNCHANGED <<customers, asked, struck, signedIn>>

\* createAccessToken and createRefreshToken; the cookies go with the answer.
IssueTokens(r) ==
  /\ pc[r] = "tokens"
  /\ signedIn' = signedIn \cup {r}
  /\ Answer(r, "201")
  /\ UNCHANGED <<customers, asked, struck>>

\* A call throws.  "Registration failed. Please try again.": but the customer
\* is there if it was the tokens that failed, and may be if the creation did.
RegistrationError(r) ==
  /\ Faults
  /\ pc[r] \notin {"idle", "done"}
  /\ \/ UNCHANGED customers
     \/ /\ pc[r] = "create" /\ ~EmailTaken(r) /\ ~AccountTaken(r)
        /\ customers' = customers \cup {Wanted(r)}
  /\ Answer(r, "500")
  /\ struck' = struck \cup {r}
  /\ UNCHANGED <<asked, signedIn>>

\* The server is started again: requests under way are never answered.
Crash ==
  LET lost == {r \in Applicant : pc[r] \notin {"idle", "done"}}
  IN  /\ Faults
      /\ lost # {}
      /\ pc' = [r \in Applicant |-> IF r \in lost THEN "done" ELSE pc[r]]
      /\ struck' = struck \cup lost
      /\ UNCHANGED <<customers, asked, code, signedIn>>

RegistrationInit ==
  /\ customers = {}
  /\ pc = [r \in Applicant |-> "idle"]
  /\ asked = [r \in Applicant |-> [ email |-> Nothing, account |-> Nothing ]]
  /\ code = [r \in Applicant |-> "none"]
  /\ struck = {}
  /\ signedIn = {}

RegistrationStep(r) ==
  \/ FindEmail(r) \/ FindAccount(r) \/ Create(r) \/ CreateRefused(r) \/ IssueTokens(r)

RegistrationNext ==
  \/ \E r \in Applicant, email \in Email, account \in AccountNumber : Register(r, email, account)
  \/ \E r \in Applicant : FindEmail(r)
  \/ \E r \in Applicant : FindAccount(r)
  \/ \E r \in Applicant : Create(r)
  \/ \E r \in Applicant : CreateRefused(r)
  \/ \E r \in Applicant : IssueTokens(r)
  \/ \E r \in Applicant : RegistrationError(r)
  \/ Crash

\* Node's event loop serves every handler whose call has come back.
RegistrationSpec ==
  /\ RegistrationInit /\ [][RegistrationNext]_registration
  /\ \A r \in Applicant : WF_registration(RegistrationStep(r))
=============================================================================
