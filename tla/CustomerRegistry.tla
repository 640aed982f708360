-------------------------- MODULE CustomerRegistry --------------------------
(***************************************************************************)
(* What registration promises, as if each request were handled in one      *)
(* step: nobody is enrolled twice or beside a customer with the same       *)
(* e-mail or account number, nobody is turned away but for a customer who  *)
(* is enrolled, a welcome is for the enrolled only, and none of this is    *)
(* ever taken back.  A request that fails, or that a restart cuts off,     *)
(* gets no answer here; it may have enrolled its customer or not.          *)
(* RegistrationProperties maps CustomerRegistration to this module.        *)
(***************************************************************************)
CONSTANTS Email, AccountNumber, Applicant, Nothing

VARIABLES
  asked,       \* what each applicant has asked for
  enrolled,    \* the customers, by their applications
  welcomed,    \* the applicants who were signed in
  turnedAway   \* the applicants who were refused

registry == <<asked, enrolled, welcomed, turnedAway>>

Init ==
  /\ asked = [r \in Applicant |-> [ email |-> Nothing, account |-> Nothing ]]
  /\ enrolled = {} /\ welcomed = {} /\ turnedAway = {}

Apply(r, email, account) ==
  /\ asked[r] = [ email |-> Nothing, account |-> Nothing ]
  /\ asked' = [asked EXCEPT ![r] = [ email |-> email, account |-> account ]]
  /\ UNCHANGED <<enrolled, welcomed, turnedAway>>

\* The customer has what the applicant asks for.
Has(c, r) == c.email = asked[r].email \/ c.account = asked[r].account

Enrol(r) ==
  /\ asked[r].email # Nothing /\ r \notin turnedAway
  /\ \A c \in enrolled : c.id # r /\ ~Has(c, r)
  /\ enrolled' = enrolled \cup {[ id |-> r, email |-> asked[r].email, account |-> asked[r].account ]}
  /\ UNCHANGED <<asked, welcomed, turnedAway>>

Welcome(r) ==
  /\ r \notin welcomed /\ \E c \in enrolled : c.id = r
  /\ welcomed' = welcomed \cup {r}
  /\ UNCHANGED <<asked, enrolled, turnedAway>>

TurnAway(r) ==
  /\ r \notin turnedAway /\ \E c \in enrolled : Has(c, r)
  /\ \A c \in enrolled : c.id # r
  /\ turnedAway' = turnedAway \cup {r}
  /\ UNCHANGED <<asked, enrolled, welcomed>>

Next ==
  \E r \in Applicant :
    \/ \E email \in Email, account \in AccountNumber : Apply(r, email, account)
    \/ Enrol(r) \/ Welcome(r) \/ TurnAway(r)

Spec == Init /\ [][Next]_registry
=============================================================================
