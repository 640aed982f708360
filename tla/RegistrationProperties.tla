----------------------- MODULE RegistrationProperties -----------------------
(***************************************************************************)
(* What registration keeps of the Customer collection, and what its        *)
(* answers may say, whatever registrations overlap.                        *)
(***************************************************************************)
EXTENDS CustomerRegistration

\* Documents and answers are of the schema, and no two customers share an
\* e-mail or an account number, whatever registrations overlap.
RegistrationTypeOK ==
  /\ customers \subseteq Customer
  /\ \A c1, c2 \in customers : c1.email = c2.email \/ c1.account = c2.account => c1 = c2
  /\ pc \in [Applicant -> {"idle", "email", "account", "create", "tokens", "done"}]
  /\ asked \in [Applicant -> [ email : Email \cup {Nothing}, account : AccountNumber \cup {Nothing} ]]
  /\ code \in [Applicant -> {"none", "201", "400", "500"}]
  /\ struck \subseteq Applicant /\ signedIn \subseteq Applicant

\* An applicant that no fault struck is refused only because another customer
\* has the e-mail or the account number: two applicants never refuse each
\* other and leave nobody registered.
RefusalHasWinner ==
  \A r \in Applicant : code[r] \in {"400", "500"} /\ r \notin struck =>
    \E c \in customers : /\ c.id # r
                         /\ c.email = asked[r].email \/ c.account = asked[r].account

\* Only a registered customer is signed in, and a welcome is never taken back:
\* the answer, the session and the document stand together.
WelcomeStands ==
  \A r \in Applicant :
    /\ code[r] = "201" <=> r \in signedIn
    /\ code[r] = "201" => Wanted(r) \in customers

\* POST /register: whatever overlaps, each registration takes effect at one moment, as if
\* it were handled alone: it enrols its customer, or is refused for the sake of one who
\* is enrolled by then; later steps change nothing of it.
Registry == INSTANCE CustomerRegistry WITH
  enrolled <- customers,
  welcomed <- { r \in Applicant : code[r] = "201" },
  turnedAway <- { r \in Applicant : code[r] \in {"400", "500"} /\ r \notin struck }

FollowsRegistry == Registry!Spec

\* Refusals have their winner, and welcomes their customer and session.
AnswersTrue == RefusalHasWinner /\ WelcomeStands

\* While the server runs, a registration that arrives comes to an end; if no
\* fault struck it, its e-mail or its account number is then registered.
RegistrationSettles ==
  \A r \in Applicant :
    pc[r] = "email" ~> pc[r] = "done" /\ (r \in struck \/ EmailTaken(r) \/ AccountTaken(r))
=============================================================================
