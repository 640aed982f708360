------------------------- MODULE RegistrationProofs -------------------------
(***************************************************************************)
(* Proofs about CustomerRegistration for any number of requests, e-mails   *)
(* and account numbers, with and without faults, and about                 *)
(* CustomerDirectory for any number of employees and reads and any finite  *)
(* set of payments.                                                        *)
(***************************************************************************)
EXTENDS DirectoryProperties, FiniteSetTheorems, TLAPS

-----------------------------------------------------------------------------
(* The inductive invariant *)

\* What has arrived asks for an e-mail and an account number.
AskedInFull ==
  \A r \in Applicant : pc[r] # "idle" => Wanted(r) \in Customer

\* What has not arrived asks for nothing.
AskedOnArrival ==
  \A r \in Applicant : pc[r] = "idle" => asked[r] = [ email |-> Nothing, account |-> Nothing ]

\* A request is answered once, at its end, and signed in by its answer only; at
\* its end it has an answer, or a fault has struck it.
AnsweredAtEnd ==
  \A r \in Applicant :
    /\ pc[r] # "done" => code[r] = "none" /\ r \notin signedIn /\ r \notin struck
    /\ pc[r] = "done" => code[r] # "none" \/ r \in struck

\* A customer was created by a request that is past its creation, ...
CreatorIsPast ==
  \A c \in customers : pc[c.id] \in {"tokens", "done"}

\* ... and one that awaits its tokens has created its customer.
TokensForCustomer ==
  \A r \in Applicant : pc[r] = "tokens" => Wanted(r) \in customers

RegistrationInv ==
  /\ RegistrationTypeOK
  /\ AskedInFull
  /\ AskedOnArrival
  /\ AnsweredAtEnd
  /\ CreatorIsPast
  /\ TokensForCustomer
  /\ RefusalHasWinner
  /\ WelcomeStands

USE DEF Customer, Wanted, EmailTaken, AccountTaken

-----------------------------------------------------------------------------
(* Steps *)

\* No customers, no handlers.
LEMMA InitHolds == RegistrationInit => RegistrationInv
  BY DEF RegistrationInit, RegistrationInv, RegistrationTypeOK, AskedInFull, AskedOnArrival, AnsweredAtEnd,
     CreatorIsPast, TokensForCustomer, RefusalHasWinner, WelcomeStands

\* A request arrives.
LEMMA RegisterKeeps ==
  ASSUME RegistrationInv, NEW r \in Applicant, NEW email \in Email, NEW account \in AccountNumber,
         Register(r, email, account)
  PROVE  RegistrationInv'
  BY DEF Register, Await, RegistrationInv, RegistrationTypeOK, AskedInFull, AskedOnArrival, AnsweredAtEnd,
     CreatorIsPast, TokensForCustomer, RefusalHasWinner, WelcomeStands

\* The e-mail is looked up: who finds it taken is refused for its owner.
LEMMA FindEmailKeeps ==
  ASSUME RegistrationInv, NEW r \in Applicant, FindEmail(r)
  PROVE  RegistrationInv'
<1>1. pc[r] = "email" /\ UNCHANGED <<customers, asked, struck, signedIn>>
  BY DEF FindEmail
<1>2. CASE EmailTaken(r)
  <2>1. \E c \in customers : c.id # r /\ c.email = asked[r].email
    BY <1>1, <1>2 DEF RegistrationInv, CreatorIsPast
  <2>2. pc' = [pc EXCEPT ![r] = "done"] /\ code' = [code EXCEPT ![r] = "400"]
    BY <1>2 DEF FindEmail, Answer
  <2> QED
    BY <1>1, <2>1, <2>2 DEF RegistrationInv, RegistrationTypeOK, AskedInFull, AskedOnArrival,
       AnsweredAtEnd, CreatorIsPast, TokensForCustomer, RefusalHasWinner, WelcomeStands
<1>3. CASE ~EmailTaken(r)
  <2>1. pc' = [pc EXCEPT ![r] = "account"] /\ UNCHANGED code
    BY <1>3 DEF FindEmail, Await
  <2> QED
    BY <1>1, <2>1 DEF RegistrationInv, RegistrationTypeOK, AskedInFull, AskedOnArrival, AnsweredAtEnd,
       CreatorIsPast, TokensForCustomer, RefusalHasWinner, WelcomeStands
<1> QED
  BY <1>2, <1>3

\* The account number is looked up.
LEMMA FindAccountKeeps ==
  ASSUME RegistrationInv, NEW r \in Applicant, FindAccount(r)
  PROVE  RegistrationInv'
  BY DEF FindAccount, Answer, Await, RegistrationInv, RegistrationTypeOK, AskedInFull, AskedOnArrival, AnsweredAtEnd,
     CreatorIsPast, TokensForCustomer, RefusalHasWinner, WelcomeStands

\* A unique index refuses the document for that of a customer who exists.
LEMMA CreateRefusedKeeps ==
  ASSUME RegistrationInv, NEW r \in Applicant, CreateRefused(r)
  PROVE  RegistrationInv'
  BY DEF CreateRefused, Answer, RegistrationInv, RegistrationTypeOK, AskedInFull, AskedOnArrival, AnsweredAtEnd,
     CreatorIsPast, TokensForCustomer, RefusalHasWinner, WelcomeStands

\* The document is created where both indexes allow it.
LEMMA CreateKeeps ==
  ASSUME RegistrationInv, NEW r \in Applicant, Create(r)
  PROVE  RegistrationInv'
  BY DEF Create, Await, RegistrationInv, RegistrationTypeOK, AskedInFull, AskedOnArrival, AnsweredAtEnd,
     CreatorIsPast, TokensForCustomer, RefusalHasWinner, WelcomeStands

\* The tokens and the answer follow the document.
LEMMA IssueTokensKeeps ==
  ASSUME RegistrationInv, NEW r \in Applicant, IssueTokens(r)
  PROVE  RegistrationInv'
  BY DEF IssueTokens, Answer, RegistrationInv, RegistrationTypeOK, AskedInFull, AskedOnArrival, AnsweredAtEnd,
     CreatorIsPast, TokensForCustomer, RefusalHasWinner, WelcomeStands

\* A failed call leaves no more than the document it created.
LEMMA ErrorKeeps ==
  ASSUME RegistrationInv, NEW r \in Applicant, RegistrationError(r)
  PROVE  RegistrationInv'
  BY DEF RegistrationError, Answer, RegistrationInv, RegistrationTypeOK, AskedInFull, AskedOnArrival, AnsweredAtEnd,
     CreatorIsPast, TokensForCustomer, RefusalHasWinner, WelcomeStands

\* A restart ends the handlers in flight.
LEMMA CrashKeeps == RegistrationInv /\ Crash => RegistrationInv'
  BY DEF Crash, RegistrationInv, RegistrationTypeOK, AskedInFull, AskedOnArrival, AnsweredAtEnd,
     CreatorIsPast, TokensForCustomer, RefusalHasWinner, WelcomeStands

\* Steps of others.
LEMMA StutterKeeps == RegistrationInv /\ UNCHANGED registration => RegistrationInv'
  BY DEF registration, RegistrationInv, RegistrationTypeOK, AskedInFull, AskedOnArrival, AnsweredAtEnd,
     CreatorIsPast, TokensForCustomer, RefusalHasWinner, WelcomeStands

\* Every step, by the lemmas above.
LEMMA StepKeeps == RegistrationInv /\ [RegistrationNext]_registration => RegistrationInv'
  BY RegisterKeeps, FindEmailKeeps, FindAccountKeeps, CreateKeeps, CreateRefusedKeeps,
     IssueTokensKeeps, ErrorKeeps, CrashKeeps, StutterKeeps DEF RegistrationNext

-----------------------------------------------------------------------------
(* Theorems *)

\* The invariant holds of every behaviour.
LEMMA Invariance == RegistrationSpec => []RegistrationInv
  BY InitHolds, StepKeeps, PTL DEF RegistrationSpec

\* However many registrations overlap, whatever throws and whenever the server
\* is restarted, no two customers share an e-mail or an account number.
THEOREM RegistrationTypeCorrect == RegistrationSpec => []RegistrationTypeOK
<1>1. RegistrationInv => RegistrationTypeOK
  BY DEF RegistrationInv
<1> QED
  BY <1>1, Invariance, PTL

\* Overlapping applicants never refuse one another and leave nobody registered: a refusal
\* without a fault names a customer that exists; and answer, session and document of a
\* registration stand together.
THEOREM AnswersAreTrue == RegistrationSpec => []AnswersTrue
<1>1. RegistrationInv => AnswersTrue
  BY DEF RegistrationInv, AnswersTrue
<1> QED
  BY <1>1, Invariance, PTL

-----------------------------------------------------------------------------
(* Registration implements the registry *)

\* Those who were refused without a fault.
TurnedAway == { r \in Applicant : code[r] \in {"400", "500"} /\ r \notin struck }

\* Answering one request leaves the answers to the others.
LEMMA AnswerOne ==
  ASSUME RegistrationInv, NEW r \in Applicant, NEW c \in {"201", "400", "500"},
         Answer(r, c), UNCHANGED struck, pc[r] # "done"
  PROVE  /\ { q \in Applicant : code'[q] = "201" } =
              { q \in Applicant : code[q] = "201" } \cup (IF c = "201" THEN {r} ELSE {})
         /\ TurnedAway' = TurnedAway \cup (IF c = "201" THEN {} ELSE {r})
         /\ code[r] = "none" /\ r \notin struck
<1>1. code[r] = "none" /\ code' = [code EXCEPT ![r] = c] /\ r \notin struck
  BY DEF Answer, RegistrationInv, AnsweredAtEnd
<1>2. code \in [ Applicant -> {"none", "201", "400", "500"} ]
  BY DEF RegistrationInv, RegistrationTypeOK
<1> QED BY <1>1, <1>2 DEF TurnedAway

\* Steps that answer nobody.
LEMMA NobodyAnswered ==
  ASSUME UNCHANGED <<code, struck>>
  PROVE  TurnedAway' = TurnedAway /\ UNCHANGED { q \in Applicant : code[q] = "201" }
BY DEF TurnedAway

\* A refusal for the sake of a customer is the registry's.
LEMMA RefusalIsTurnAway ==
  ASSUME RegistrationInv, NEW r \in Applicant, NEW c \in {"400", "500"},
         pc[r] \in {"email", "account", "create"}, EmailTaken(r) \/ AccountTaken(r),
         Answer(r, c), UNCHANGED <<customers, asked, struck, signedIn>>
  PROVE  Registry!TurnAway(r)
<1>1. PICK c1 \in customers : c1.email = asked[r].email \/ c1.account = asked[r].account
  OBVIOUS
<1>2. \A c2 \in customers : c2.id # r
  BY DEF RegistrationInv, CreatorIsPast
<1>3. /\ UNCHANGED { q \in Applicant : code[q] = "201" }
      /\ TurnedAway' = TurnedAway \cup {r} /\ r \notin TurnedAway
  BY AnswerOne DEF TurnedAway
<1> QED BY <1>1, <1>2, <1>3 DEF Registry!TurnAway, Registry!Has, TurnedAway

\* The creation of a document is the registry's enrolment, also when it is the last
\* thing a request does before a fault strikes it.
LEMMA CreationIsEnrol ==
  ASSUME RegistrationInv, NEW r \in Applicant, pc[r] = "create",
         ~EmailTaken(r) /\ ~AccountTaken(r), customers' = customers \cup {Wanted(r)},
         UNCHANGED asked, UNCHANGED { q \in Applicant : code[q] = "201" }, UNCHANGED TurnedAway
  PROVE  Registry!Enrol(r)
<1>1. asked[r].email # Nothing
  BY RegistrationAssumption DEF RegistrationInv, AskedInFull
<1>2. \A c \in customers : c.id # r
  BY DEF RegistrationInv, CreatorIsPast
<1>3. r \notin TurnedAway
  BY DEF RegistrationInv, AnsweredAtEnd, TurnedAway
<1>4. \A c \in customers : ~Registry!Has(c, r)
  BY DEF Registry!Has
<1> QED BY <1>1, <1>2, <1>3, <1>4 DEF Registry!Enrol, TurnedAway

\* A fault answers with nothing the registry knows of.
LEMMA FaultAnswersNobody ==
  ASSUME RegistrationInv, NEW lost \in SUBSET Applicant, struck' = struck \cup lost,
         \A q \in Applicant \ lost : code'[q] = code[q],
         \A q \in lost : code[q] = "none" /\ code'[q] # "201"
  PROVE  UNCHANGED TurnedAway /\ UNCHANGED { q \in Applicant : code[q] = "201" }
<1>1. TurnedAway' = TurnedAway
  BY DEF TurnedAway
<1>2. { q \in Applicant : code'[q] = "201" } = { q \in Applicant : code[q] = "201" }
  OBVIOUS
<1> QED BY <1>1, <1>2

\* Each step of registration is one of the registry, or none.
LEMMA RegistryStep ==
  ASSUME RegistrationInv, [RegistrationNext]_registration
  PROVE  [Registry!Next]_(Registry!registry)
<1> DEFINE Quiet == UNCHANGED Registry!registry
<1>1. ASSUME NEW r \in Applicant, NEW email \in Email, NEW account \in AccountNumber,
             Register(r, email, account)
      PROVE  Registry!Apply(r, email, account)
  <2>1. asked[r] = [ email |-> Nothing, account |-> Nothing ]
    BY <1>1 DEF Register, RegistrationInv, AskedOnArrival
  <2>2. UNCHANGED { q \in Applicant : code[q] = "201" } /\ UNCHANGED TurnedAway
    BY <1>1, NobodyAnswered DEF Register, Await
  <2> QED BY <1>1, <2>1, <2>2 DEF Register, Registry!Apply, TurnedAway
<1>2. ASSUME NEW r \in Applicant, FindEmail(r) \/ FindAccount(r) \/ CreateRefused(r)
      PROVE  Registry!TurnAway(r) \/ Quiet
  <2>1. pc[r] \in {"email", "account", "create"} /\ UNCHANGED <<customers, asked, struck, signedIn>>
    BY <1>2 DEF FindEmail, FindAccount, CreateRefused
  <2>2. \/ \E c \in {"400", "500"} : Answer(r, c) /\ (EmailTaken(r) \/ AccountTaken(r))
        \/ UNCHANGED code
    BY <1>2 DEF FindEmail, FindAccount, CreateRefused, Await
  <2>3. CASE UNCHANGED code
    BY <2>1, <2>3, NobodyAnswered DEF Registry!registry, TurnedAway
  <2> QED BY <2>1, <2>2, <2>3, RefusalIsTurnAway
<1>3. ASSUME NEW r \in Applicant, Create(r)
      PROVE  Registry!Enrol(r)
  BY <1>3, NobodyAnswered, CreationIsEnrol DEF Create, Await
<1>4. ASSUME NEW r \in Applicant, IssueTokens(r)
      PROVE  Registry!Welcome(r)
  <2>1. Wanted(r) \in customers
    BY <1>4 DEF IssueTokens, RegistrationInv, TokensForCustomer
  <2>2. /\ { q \in Applicant : code'[q] = "201" } = { q \in Applicant : code[q] = "201" } \cup {r}
        /\ TurnedAway' = TurnedAway /\ code[r] = "none"
    BY <1>4, AnswerOne DEF IssueTokens
  <2> QED BY <1>4, <2>1, <2>2 DEF IssueTokens, Registry!Welcome, TurnedAway
<1>5. ASSUME NEW r \in Applicant, RegistrationError(r)
      PROVE  Registry!Enrol(r) \/ Quiet
  <2>1. /\ pc[r] \notin {"idle", "done"} /\ code' = [code EXCEPT ![r] = "500"]
        /\ struck' = struck \cup {r} /\ UNCHANGED asked
    BY <1>5 DEF RegistrationError, Answer
  <2>2. code[r] = "none" /\ code \in [ Applicant -> {"none", "201", "400", "500"} ]
    BY <2>1 DEF RegistrationInv, AnsweredAtEnd, RegistrationTypeOK
  <2>3. UNCHANGED TurnedAway /\ UNCHANGED { q \in Applicant : code[q] = "201" }
    <3>1. /\ {r} \in SUBSET Applicant /\ \A q \in Applicant \ {r} : code'[q] = code[q]
          /\ \A q \in {r} : code[q] = "none" /\ code'[q] # "201"
      BY <2>1, <2>2
    <3> QED BY <2>1, <3>1, FaultAnswersNobody
  <2>4. CASE UNCHANGED customers
    BY <2>1, <2>3, <2>4 DEF Registry!registry, TurnedAway
  <2>5. CASE /\ pc[r] = "create" /\ ~EmailTaken(r) /\ ~AccountTaken(r)
             /\ customers' = customers \cup {Wanted(r)}
    BY <2>1, <2>3, <2>5, CreationIsEnrol
  <2> QED BY <1>5, <2>4, <2>5 DEF RegistrationError
<1>6. ASSUME Crash
      PROVE  Quiet
  <2> DEFINE lost == { q \in Applicant : pc[q] \notin {"idle", "done"} }
  <2>1. struck' = struck \cup lost /\ UNCHANGED <<customers, asked, code>>
    BY <1>6 DEF Crash
  <2>2. \A q \in lost : code[q] = "none"
    BY DEF RegistrationInv, AnsweredAtEnd
  <2>3. UNCHANGED TurnedAway /\ UNCHANGED { q \in Applicant : code[q] = "201" }
    BY <2>1, <2>2, FaultAnswersNobody
  <2> QED BY <2>1, <2>3 DEF Registry!registry, TurnedAway
<1>7. ASSUME UNCHANGED registration
      PROVE  Quiet
  BY <1>7 DEF registration, Registry!registry
<1> QED
  BY <1>1, <1>2, <1>3, <1>4, <1>5, <1>6, <1>7 DEF RegistrationNext, Registry!Next

\* Nobody has applied.
LEMMA InitIsEmpty == RegistrationInit => Registry!Init
  BY DEF RegistrationInit, Registry!Init

\* However the look-ups, creations and answers of different requests interleave, and
\* whatever fails between them, each registration takes effect at one moment
\* (POST /register, Customer's unique indexes).
THEOREM ImplementsRegistry == RegistrationSpec => FollowsRegistry
  BY InitIsEmpty, RegistryStep, Invariance, PTL DEF RegistrationSpec, FollowsRegistry, Registry!Spec

-----------------------------------------------------------------------------
(* How a registration comes to its end *)

\* A request that is done and that no fault struck has its e-mail or its account number
\* in the collection ...
SettledIsRegistered ==
  \A r \in Applicant : pc[r] = "done" /\ r \notin struck => EmailTaken(r) \/ AccountTaken(r)

\* ... and what a handler still has to do becomes less with each of its steps, and more
\* with nobody's.
Remaining(r) ==
  CASE pc[r] = "idle" -> 5 [] pc[r] = "email" -> 4 [] pc[r] = "account" -> 3
    [] pc[r] = "create" -> 2 [] pc[r] = "tokens" -> 1 [] pc[r] = "done" -> 0

RemainingShrinks ==
  [][\A r \in Applicant : /\ Remaining(r)' <= Remaining(r)
                          /\ RegistrationStep(r) => Remaining(r)' < Remaining(r)]_registration

\* POST /register: without a fault no handler turns back or ends with nothing registered.
\* Together with the fairness that Node gives each handler this is why registration
\* settles.
THEOREM RegistrationMovesOn == RegistrationSpec => []SettledIsRegistered /\ RemainingShrinks
<1>1. RegistrationInv => SettledIsRegistered
  BY DEF RegistrationInv, AnsweredAtEnd, RegistrationTypeOK, RefusalHasWinner, WelcomeStands,
     SettledIsRegistered
<1>2. ASSUME RegistrationInv, [RegistrationNext]_registration
      PROVE  [\A r \in Applicant : /\ Remaining(r)' <= Remaining(r)
                                   /\ RegistrationStep(r) => Remaining(r)' < Remaining(r)]_registration
  <2>1. pc \in [ Applicant -> {"idle", "email", "account", "create", "tokens", "done"} ]
    BY <1>2 DEF RegistrationInv, RegistrationTypeOK
  <2> DEFINE Onward(q) ==
        \E next \in {"email", "account", "create", "tokens", "done"} :
          /\ pc' = [pc EXCEPT ![q] = next]
          /\ \/ pc[q] = "idle" /\ next = "email"
             \/ pc[q] = "email" /\ next = "account"
             \/ pc[q] = "account" /\ next = "create"
             \/ pc[q] = "create" /\ next = "tokens"
             \/ pc[q] # "done" /\ next = "done"
  <2>2. ASSUME NEW r \in Applicant, NEW q \in Applicant, Onward(q)
        PROVE  Remaining(r)' <= Remaining(r) /\ (r = q => Remaining(r)' < Remaining(r))
    BY <2>1, <2>2 DEF Remaining
  <2>3. ASSUME NEW q \in Applicant, RegistrationStep(q)
        PROVE  Onward(q)
    BY <2>3 DEF RegistrationStep, FindEmail, FindAccount, Create, CreateRefused, IssueTokens, Answer, Await
  <2>4. ASSUME NEW q \in Applicant, \/ RegistrationError(q)
                                    \/ \E email \in Email, account \in AccountNumber : Register(q, email, account)
        PROVE  Onward(q)
    BY <2>4 DEF RegistrationError, Register, Answer, Await
  <2>5. ASSUME NEW r \in Applicant, UNCHANGED pc
        PROVE  Remaining(r)' <= Remaining(r)
    BY <2>1, <2>5 DEF Remaining
  <2>6. ASSUME NEW r \in Applicant
        PROVE  /\ Remaining(r)' <= Remaining(r)
               /\ RegistrationStep(r) => Remaining(r)' < Remaining(r)
    <3>1. RegistrationStep(r) => Remaining(r)' < Remaining(r)
      BY <2>2, <2>3
    <3>2. Remaining(r)' <= Remaining(r)
      <4>1. CASE \E q \in Applicant : Onward(q)
        BY <4>1, <2>2
      <4>2. CASE Crash
        BY <4>2, <2>1 DEF Crash, Remaining
      <4>3. CASE UNCHANGED registration
        BY <4>3, <2>5 DEF registration
      <4> QED
        BY <1>2, <2>3, <2>4, <4>1, <4>2, <4>3 DEF RegistrationNext, RegistrationStep
    <3> QED BY <3>1, <3>2
  <2> QED BY <2>6
<1> QED
  BY <1>1, <1>2, Invariance, PTL DEF RegistrationSpec, RemainingShrinks

-----------------------------------------------------------------------------
(* The composition keeps what registration keeps *)

\* Payments and reads leave registration alone.
LEMMA AccountsRegisterOnly == [AccountsNext]_accounts => [RegistrationNext]_registration
  BY DEF AccountsNext, DirectoryNext, accounts, CreatePayment, Decide, Submit, Write, AskStats, Count,
     AskDetails, ReadDetails, AskCustomers, TallyCount, TallySum, ReadError

\* So its invariant holds beside them.
LEMMA AccountsKeepInv == RegistrationInv /\ [AccountsNext]_accounts => RegistrationInv'
  BY AccountsRegisterOnly, StepKeeps

-----------------------------------------------------------------------------
(* Payments and the numbers of those in some states *)

Known == Resident \cup Applicant

\* A payment is missing, awaits its decision, or has been decided by someone.
PaymentsOK ==
  /\ payments \in [ Payment -> [ customer : Known \cup {Nothing},
                                 status : {"absent", "pending", "verified", "rejected", "submitted_to_swift"},
                                 by : Verifier \cup {Nothing}, approved : BOOLEAN ] ]
  /\ \A p \in Payment :
       /\ payments[p].status = "absent" <=> payments[p] = NoPayment
       /\ payments[p].status = "absent" <=> payments[p].customer = Nothing
       /\ payments[p].status \in {"absent", "pending"} <=> payments[p].by = Nothing
       /\ payments[p].approved => payments[p].status \notin {"absent", "pending"}

\* The payments whose status is one of some.
In(some) == { p \in Payment : payments[p].status \in some }

\* There are finitely many payments, so each such number is one.
LEMMA InFinite ==
  ASSUME NEW some
  PROVE  IsFiniteSet(In(some)) /\ Cardinality(In(some)) \in Nat
<1>1. In(some) \subseteq Payment
  BY DEF In
<1> QED
  BY <1>1, DirectoryAssumption, FS_Subset, FS_CardinalityType

\* The numbers for statuses that exclude one another add up.
LEMMA InSplit ==
  ASSUME NEW S, NEW T, S \cap T = {}
  PROVE  Cardinality(In(S \cup T)) = Cardinality(In(S)) + Cardinality(In(T))
<1>1. In(S \cup T) = In(S) \cup In(T) /\ In(S) \cap In(T) = {}
  BY DEF In
<1>2. Cardinality(In(S) \cap In(T)) = 0
  BY <1>1, FS_EmptySet
<1> QED
  <2>1. Cardinality(In(S) \cup In(T)) = Cardinality(In(S)) + Cardinality(In(T)) - Cardinality(In(S) \cap In(T))
    BY InFinite, FS_Union
  <2>2. Cardinality(In(S)) \in Nat /\ Cardinality(In(T)) \in Nat
    BY InFinite
  <2> QED
    BY <1>1, <1>2, <2>1, <2>2

\* Sets of payments that differ in one of them at most differ by one in number.
LEMMA OneApart ==
  ASSUME NEW A, NEW B, NEW p, IsFiniteSet(A), IsFiniteSet(B), A \ {p} = B \ {p}
  PROVE  Cardinality(A) <= Cardinality(B) + 1 /\ Cardinality(B) <= Cardinality(A) + 1
<1>1. /\ Cardinality(A) \in Nat /\ Cardinality(B) \in Nat
      /\ Cardinality(A \ {p}) \in {Cardinality(A), Cardinality(A) - 1}
      /\ Cardinality(B \ {p}) \in {Cardinality(B), Cardinality(B) - 1}
  BY FS_RemoveElement, FS_CardinalityType
<1> QED
  BY <1>1

\* A write changes no such number by more than one.
LEMMA WriteShifts ==
  ASSUME PaymentsOK, NEW p \in Payment, NEW doc, Write(p, doc), NEW some
  PROVE  /\ Cardinality(In(some))' <= Cardinality(In(some)) + 1
         /\ Cardinality(In(some)) <= Cardinality(In(some))' + 1
<1>1. PICK A : A = In(some)
  OBVIOUS
<1>2. PICK B : B = In(some)'
  OBVIOUS
<1>3. B \subseteq Payment /\ A \subseteq Payment
  BY <1>1, <1>2 DEF In
<1>4. IsFiniteSet(A) /\ IsFiniteSet(B)
  BY <1>3, DirectoryAssumption, FS_Subset
<1>5. A \ {p} = B \ {p}
  BY <1>1, <1>2 DEF In, Write, PaymentsOK
<1>6. Cardinality(A) <= Cardinality(B) + 1 /\ Cardinality(B) <= Cardinality(A) + 1
  BY <1>4, <1>5, OneApart
<1> QED
  BY <1>1, <1>2, <1>6

-----------------------------------------------------------------------------
(* The statistics *)

Kept == {"pending", "verified", "rejected", "completed", "submitted_to_swift"}

Near(m, n, d) == m <= n + d /\ n <= m + d

\* What has been counted and what is still to be counted, as it is now, miss
\* the total by no more than the writes since it was taken.
StatsOK(r) ==
  /\ moved[r] \in Nat
  /\ rpc[r] \in DOMAIN After => answer[r].kind = "stats"
  /\ answer[r].kind = "stats" =>
       LET n == answer[r].counts
       IN  /\ answer[r] = [ kind |-> "stats", counts |-> n, submitted |-> answer[r].submitted ]
           /\ answer[r].submitted \in Nat /\ n = [ of \in DOMAIN After |-> n[of] ]
           /\ \A of \in DOMAIN After \ {"customers"} : n[of] \in Nat
           /\ rpc[r] = "pending" =>
                Near(Cardinality(In(Kept)), n.total, moved[r])
           /\ rpc[r] = "verified" =>
                Near(n.pending + Cardinality(In(Kept \ {"pending"})), n.total, moved[r])
           /\ rpc[r] = "rejected" =>
                Near(n.pending + n.verified + Cardinality(In({"rejected", "completed", "submitted_to_swift"})),
                     n.total, moved[r])
           /\ rpc[r] = "completed" =>
                Near(n.pending + n.verified + n.rejected + Cardinality(In({"completed", "submitted_to_swift"})),
                     n.total, moved[r])
           /\ rpc[r] = "answer" =>
                Near(n.pending + n.verified + n.rejected + n.completed + answer[r].submitted,
                     n.total, moved[r])

\* What the counts read.
LEMMA CountsRead ==
  ASSUME PaymentsOK
  PROVE  /\ Existing = In(Kept) /\ \A status : WithStatus(status) = In({status})
         /\ Cardinality(In(Kept)) = Cardinality(In({"pending"})) + Cardinality(In(Kept \ {"pending"}))
         /\ Cardinality(In(Kept \ {"pending"})) = Cardinality(In({"verified"}))
              + Cardinality(In({"rejected", "completed", "submitted_to_swift"}))
         /\ Cardinality(In({"rejected", "completed", "submitted_to_swift"})) = Cardinality(In({"rejected"}))
              + Cardinality(In({"completed", "submitted_to_swift"}))
         /\ Cardinality(In({"completed", "submitted_to_swift"})) = Cardinality(In({"completed"}))
              + Cardinality(In({"submitted_to_swift"}))
<1>1. Existing = In(Kept)
  BY DEF Existing, In, Kept, PaymentsOK
<1>2. \A status : WithStatus(status) = In({status})
  BY DEF WithStatus, In
<1>3. /\ Kept = {"pending"} \cup (Kept \ {"pending"})
      /\ Kept \ {"pending"} = {"verified"} \cup {"rejected", "completed", "submitted_to_swift"}
      /\ {"rejected", "completed", "submitted_to_swift"} = {"rejected"} \cup {"completed", "submitted_to_swift"}
      /\ {"completed", "submitted_to_swift"} = {"completed"} \cup {"submitted_to_swift"}
  BY DEF Kept
<1>4. Cardinality(In(Kept)) = Cardinality(In({"pending"})) + Cardinality(In(Kept \ {"pending"}))
  BY <1>3, InSplit
<1>5. Cardinality(In(Kept \ {"pending"})) = Cardinality(In({"verified"}))
        + Cardinality(In({"rejected", "completed", "submitted_to_swift"}))
  BY <1>3, InSplit
<1>6. Cardinality(In({"rejected", "completed", "submitted_to_swift"})) = Cardinality(In({"rejected"}))
        + Cardinality(In({"completed", "submitted_to_swift"}))
  BY <1>3, InSplit
<1>7. Cardinality(In({"completed", "submitted_to_swift"})) = Cardinality(In({"completed"}))
        + Cardinality(In({"submitted_to_swift"}))
  BY <1>3, InSplit
<1> QED
  BY <1>1, <1>2, <1>4, <1>5, <1>6, <1>7

\* A write costs the statistics one at most, and counts as one.
LEMMA WriteKeepsStats ==
  ASSUME PaymentsOK, NEW r \in Reader, StatsOK(r), moved \in [ Reader -> Nat ],
         NEW p \in Payment, NEW doc, Write(p, doc)
  PROVE  StatsOK(r)'
<1>1. /\ rpc' = rpc /\ answer' = answer /\ moved'[r] \in {moved[r], moved[r] + 1}
      /\ rpc[r] \in {"pending", "verified", "rejected", "completed"} => moved'[r] = moved[r] + 1
  BY DEF Write
<1>2. \A some : /\ Cardinality(In(some)) \in Nat /\ Cardinality(In(some))' \in Nat
                /\ Cardinality(In(some))' <= Cardinality(In(some)) + 1
                /\ Cardinality(In(some)) <= Cardinality(In(some))' + 1
  <2> SUFFICES ASSUME NEW some
               PROVE  /\ Cardinality(In(some)) \in Nat /\ Cardinality(In(some))' \in Nat
                      /\ Cardinality(In(some))' <= Cardinality(In(some)) + 1
                      /\ Cardinality(In(some)) <= Cardinality(In(some))' + 1
    OBVIOUS
  <2>1. IsFiniteSet(In(some)')
    BY DirectoryAssumption, FS_Subset DEF In
  <2>2. Cardinality(In(some))' \in Nat
    BY <2>1, FS_CardinalityType
  <2> QED
    BY <2>2, InFinite, WriteShifts
<1> QED
  BY <1>1, <1>2 DEF StatsOK, Near, After

\* What one count leaves of the answers.
LEMMA CountAnswer ==
  ASSUME DOMAIN answer = Reader, NEW r \in Reader, StatsOK(r), Count(r)
  PROVE  /\ answer'[r] = [ kind |-> "stats",
                           counts |-> [answer[r].counts EXCEPT ![rpc[r]] = Number(rpc[r])],
                           submitted |-> Cardinality(WithStatus("submitted_to_swift")) ]
         /\ \A q \in Reader \ {r} : answer'[q] = answer[q]
BY DEF Count, StatsOK

\* A count moves its number from what is still to be counted to what has been.
LEMMA CountKeepsStats ==
  ASSUME PaymentsOK, DOMAIN answer = Reader, DOMAIN rpc = Reader,
         NEW r \in Reader, StatsOK(r), Count(r)
  PROVE  StatsOK(r)'
<1>1. /\ rpc[r] \in DOMAIN After /\ rpc'[r] = After[rpc[r]]
      /\ UNCHANGED <<customers, payments, moved>> /\ answer[r].kind = "stats"
      /\ answer[r].counts = [ of \in DOMAIN After |-> answer[r].counts[of] ]
      /\ \A of \in DOMAIN After \ {"customers"} : answer[r].counts[of] \in Nat
      /\ moved[r] \in Nat
  BY DEF Count, registration, StatsOK
<1>2. PICK n : n = answer'[r].counts
  OBVIOUS
<1>3. /\ n = [answer[r].counts EXCEPT ![rpc[r]] = Number(rpc[r])]
      /\ answer'[r] = [ kind |-> "stats", counts |-> n, submitted |-> answer'[r].submitted ]
      /\ answer'[r].submitted = Cardinality(In({"submitted_to_swift"}))
  <2>1. answer'[r] = [ kind |-> "stats",
                       counts |-> [answer[r].counts EXCEPT ![rpc[r]] = Number(rpc[r])],
                       submitted |-> Cardinality(WithStatus("submitted_to_swift")) ]
    BY CountAnswer
  <2>2. WithStatus("submitted_to_swift") = In({"submitted_to_swift"})
    BY CountsRead
  <2> QED
    BY <1>2, <2>1, <2>2
<1>4. \A some : Cardinality(In(some)) \in Nat /\ Cardinality(In(some))' = Cardinality(In(some))
  BY <1>1, InFinite DEF In
<1>5. /\ Number("total") = Cardinality(In(Kept))
      /\ \A of \in DOMAIN After \ {"customers", "total"} : Number(of) = Cardinality(In({of}))
  BY CountsRead DEF Number, After
<1>6. rpc[r] # "customers" => Number(rpc[r]) \in Nat
  <2>1. CASE rpc[r] = "total"
    BY <1>4, <1>5, <2>1
  <2>2. CASE rpc[r] \in DOMAIN After \ {"customers", "total"}
    BY <1>4, <1>5, <2>2
  <2> QED
    BY <1>1, <2>1, <2>2
<1>7. /\ n = [ of \in DOMAIN After |-> n[of] ] /\ n[rpc[r]] = Number(rpc[r])
      /\ \A of \in DOMAIN After \ {"customers"} : n[of] \in Nat
      /\ \A of \in DOMAIN After \ {rpc[r]} : n[of] = answer[r].counts[of]
  BY <1>1, <1>3, <1>6
<1>8. /\ DOMAIN After = {"customers", "total", "pending", "verified", "rejected", "completed"}
      /\ After["customers"] = "total" /\ After["total"] = "pending" /\ After["pending"] = "verified"
      /\ After["verified"] = "rejected" /\ After["rejected"] = "completed" /\ After["completed"] = "answer"
  BY DEF After
<1>9. /\ rpc'[r] = "pending" => Near(Cardinality(In(Kept)), n.total, moved[r])
      /\ rpc'[r] = "verified" =>
           Near(n.pending + Cardinality(In(Kept \ {"pending"})), n.total, moved[r])
      /\ rpc'[r] = "rejected" =>
           Near(n.pending + n.verified + Cardinality(In({"rejected", "completed", "submitted_to_swift"})),
                n.total, moved[r])
  <2>1. /\ rpc'[r] = "pending" => rpc[r] = "total"
        /\ rpc'[r] = "verified" => rpc[r] = "pending"
        /\ rpc'[r] = "rejected" => rpc[r] = "verified"
    BY <1>1, <1>8
  <2>2. n.total \in Nat /\ n.pending \in Nat /\ n.verified \in Nat
    BY <1>7, <1>8
  <2>3. ASSUME rpc[r] = "total"
        PROVE  Near(Cardinality(In(Kept)), n.total, moved[r])
    <3>1. n.total = Cardinality(In(Kept))
      BY <1>5, <1>7, <2>3
    <3> QED
      BY <1>1, <2>2, <3>1 DEF Near
  <2>4. ASSUME rpc[r] = "pending"
        PROVE  Near(n.pending + Cardinality(In(Kept \ {"pending"})), n.total, moved[r])
    <3>1. n.pending = Cardinality(In({"pending"})) /\ n.total = answer[r].counts.total
      BY <1>5, <1>7, <1>8, <2>4
    <3>2. Near(Cardinality(In(Kept)), answer[r].counts.total, moved[r])
      BY <1>1, <2>4 DEF StatsOK
    <3> QED
      BY <1>4, <3>1, <3>2, CountsRead DEF Near
  <2>5. ASSUME rpc[r] = "verified"
        PROVE  Near(n.pending + n.verified + Cardinality(In({"rejected", "completed", "submitted_to_swift"})),
                    n.total, moved[r])
    <3>1. /\ n.verified = Cardinality(In({"verified"})) /\ n.total = answer[r].counts.total
          /\ n.pending = answer[r].counts.pending
      BY <1>5, <1>7, <1>8, <2>5
    <3>2. Near(answer[r].counts.pending + Cardinality(In(Kept \ {"pending"})), answer[r].counts.total, moved[r])
      BY <1>1, <2>5 DEF StatsOK
    <3> QED
      BY <1>4, <2>2, <3>1, <3>2, CountsRead DEF Near
  <2> QED
    BY <2>1, <2>3, <2>4, <2>5
<1>10. /\ rpc'[r] = "completed" =>
            Near(n.pending + n.verified + n.rejected + Cardinality(In({"completed", "submitted_to_swift"})),
                 n.total, moved[r])
       /\ rpc'[r] = "answer" =>
            Near(n.pending + n.verified + n.rejected + n.completed + answer'[r].submitted, n.total, moved[r])
  BY <1>1, <1>3, <1>4, <1>5, <1>7, <1>8, CountsRead DEF StatsOK, Near
<1> QED
  BY <1>1, <1>2, <1>3, <1>4, <1>7, <1>9, <1>10 DEF StatsOK

-----------------------------------------------------------------------------
(* The lists of customers *)

\* The numbers of a list are bounded by what they count, as it is now, but for the
\* writes that took a payment back from those submitted.
TallyOK(r) ==
  answer[r].kind = "customers" =>
    LET a == answer[r]
        ids == DOMAIN a.count
    IN  /\ a = [ kind |-> "customers", uncounted |-> a.uncounted, unsummed |-> a.unsummed,
                 count |-> a.count, transacted |-> a.transacted, floor |-> a.floor, held |-> a.held ]
        /\ ids \subseteq Known /\ a.uncounted \subseteq a.unsummed
        /\ a.count \in [ ids -> Nat ] /\ a.transacted \in [ ids -> Nat ] /\ a.floor \in [ ids -> Nat ]
        /\ a.held \in [ ids -> Nat ] /\ moved[r] \in Nat
        /\ \A id \in ids :
             /\ a.floor[id] <= Cardinality(Of(id))
             /\ id \notin a.uncounted => a.floor[id] <= a.count[id] /\ a.count[id] <= Cardinality(Of(id))
             /\ a.held[id] <= Cardinality(Submitted(id)) + moved[r]
             /\ a.transacted[id] <= Cardinality(Submitted(id)) + moved[r]
             /\ id \notin a.unsummed => a.held[id] <= a.transacted[id] + moved[r]
        /\ rpc[r] = "answer" => a.unsummed = {}

\* A customer has finitely many payments.
LEMMA OfFinite ==
  ASSUME NEW id
  PROVE  /\ IsFiniteSet(Of(id)) /\ Cardinality(Of(id)) \in Nat
         /\ IsFiniteSet(Submitted(id)) /\ Cardinality(Submitted(id)) \in Nat
<1>1. Of(id) \subseteq Payment /\ Submitted(id) \subseteq Payment
  BY DEF Of, Submitted
<1> QED
  BY <1>1, DirectoryAssumption, FS_Subset, FS_CardinalityType

\* A payment stays with its customer.
LEMMA PaymentWrites ==
  ASSUME PaymentsOK, RegistrationTypeOK,
         \/ \E p \in Payment, id \in CustomerId : CreatePayment(p, id)
         \/ \E p \in Payment, e \in Verifier : Decide(p, e)
         \/ \E p \in Payment : Submit(p)
  PROVE  /\ PaymentsOK'
         /\ \A id \in Known : Of(id) \subseteq Of(id)'
         /\ \E p \in Payment : \E doc :
              Write(p, doc) /\ (payments[p] = NoPayment \/ doc.customer = payments[p].customer)
<1>1. CASE \E p \in Payment, id \in CustomerId : CreatePayment(p, id)
  <2>1. PICK p \in Payment, id \in CustomerId : CreatePayment(p, id)
    BY <1>1
  <2>2. id \in Known /\ Nothing \notin Known
    BY DirectoryAssumption DEF CustomerId, RegistrationTypeOK, Known
  <2>3. PICK doc : doc = [ customer |-> id, status |-> "pending", by |-> Nothing, approved |-> FALSE ]
    OBVIOUS
  <2>4. payments' = [payments EXCEPT ![p] = doc] /\ payments[p] = NoPayment /\ Write(p, doc)
    BY <2>1, <2>3 DEF CreatePayment, Write
  <2>5. doc.customer = id /\ doc.status = "pending" /\ doc.by = Nothing /\ doc.approved = FALSE
        /\ doc # NoPayment
        /\ doc \in [ customer : Known \cup {Nothing},
                     status : {"absent", "pending", "verified", "rejected", "submitted_to_swift"},
                     by : Verifier \cup {Nothing}, approved : BOOLEAN ]
    BY <2>2, <2>3 DEF NoPayment
  <2>6. PaymentsOK'
    BY <2>2, <2>4, <2>5 DEF PaymentsOK, NoPayment
  <2>7. \A i \in Known : Of(i) \subseteq Of(i)'
    BY <2>2, <2>4, <2>5 DEF PaymentsOK, NoPayment, Of
  <2> QED
    BY <2>4, <2>6, <2>7
<1>2. ASSUME NEW p \in Payment, NEW doc, Write(p, doc),
             doc \in [ customer : Known, status : {"verified", "rejected", "submitted_to_swift"}, by : Verifier,
                      approved : BOOLEAN ],
             doc.customer = payments[p].customer
      PROVE  PaymentsOK' /\ \A id \in Known : Of(id) \subseteq Of(id)'
  <2>1. Nothing \notin Known \cup Verifier
    BY DirectoryAssumption DEF Known
  <2>2. payments' = [payments EXCEPT ![p] = doc]
    BY <1>2 DEF Write
  <2>3. PaymentsOK'
    <3>1. doc.customer # Nothing /\ doc.by # Nothing /\ doc.status \notin {"absent", "pending"} /\ doc # NoPayment
      BY <1>2, <2>1 DEF NoPayment
    <3>2. \A q \in Payment : payments'[q] = IF q = p THEN doc ELSE payments[q]
      BY <2>2 DEF PaymentsOK
    <3>3. payments' \in [ Payment -> [ customer : Known \cup {Nothing},
                                      status : {"absent", "pending", "verified", "rejected", "submitted_to_swift"},
                                      by : Verifier \cup {Nothing}, approved : BOOLEAN ] ]
      BY <1>2, <2>2 DEF PaymentsOK
    <3> QED
      BY <3>1, <3>2, <3>3 DEF PaymentsOK
  <2>4. \A id \in Known : Of(id) \subseteq Of(id)'
    BY <1>2, <2>2 DEF PaymentsOK, Of
  <2> QED
    BY <2>3, <2>4
<1>3. CASE \E p \in Payment, e \in Verifier : Decide(p, e)
  <2>1. PICK p \in Payment, e \in Verifier : Decide(p, e)
    BY <1>3
  <2>2. PICK status \in {"verified", "rejected"} :
          Write(p, [payments[p] EXCEPT !.status = status, !.by = e,
                                       !.approved = @ \/ status = "verified"])
    BY <2>1 DEF Decide
  <2>3. PICK doc : doc = [payments[p] EXCEPT !.status = status, !.by = e,
                                             !.approved = @ \/ status = "verified"]
    OBVIOUS
  <2>4. /\ doc \in [ customer : Known, status : {"verified", "rejected", "submitted_to_swift"}, by : Verifier,
                     approved : BOOLEAN ]
        /\ doc.customer = payments[p].customer
    <3>1. payments[p].customer \in Known /\ (payments[p].approved \/ status = "verified") \in BOOLEAN
      BY <2>1 DEF Decide, PaymentsOK
    <3> QED
      BY <2>3, <3>1 DEF PaymentsOK
  <2> QED
    BY <2>2, <2>3, <2>4, <1>2
<1>4. CASE \E p \in Payment : Submit(p)
  <2>1. PICK p \in Payment : Submit(p)
    BY <1>4
  <2>2. PICK doc : doc = [payments[p] EXCEPT !.status = "submitted_to_swift"]
    OBVIOUS
  <2>3. Write(p, doc) /\ payments[p].approved
    BY <2>1, <2>2 DEF Submit
  <2>4. /\ doc \in [ customer : Known, status : {"verified", "rejected", "submitted_to_swift"}, by : Verifier,
                     approved : BOOLEAN ]
        /\ doc.customer = payments[p].customer
    BY <2>2, <2>3 DEF PaymentsOK
  <2> QED
    BY <2>3, <2>4, <1>2
<1> QED
  BY <1>1, <1>3, <1>4

\* A write takes one payment at most from those submitted, and then it is counted.
LEMMA WriteTakesBack ==
  ASSUME PaymentsOK, NEW id \in Known, NEW p \in Payment, NEW doc, Write(p, doc),
         payments[p] = NoPayment \/ doc.customer = payments[p].customer
  PROVE  /\ Cardinality(Submitted(id)) \in Nat /\ Cardinality(Submitted(id))' \in Nat
         /\ Cardinality(Submitted(id)) <= Cardinality(Submitted(id))' + (IF Withdraws(p, doc) THEN 1 ELSE 0)
<1>1. PICK A : A = Submitted(id)
  OBVIOUS
<1>2. PICK B : B = Submitted(id)'
  OBVIOUS
<1>3. IsFiniteSet(A) /\ IsFiniteSet(B) /\ Cardinality(A) \in Nat /\ Cardinality(B) \in Nat
  <2>1. A \subseteq Payment /\ B \subseteq Payment
    BY <1>1, <1>2 DEF Submitted, Of
  <2> QED
    BY <2>1, DirectoryAssumption, FS_Subset, FS_CardinalityType
<1>4. \A q \in Payment : payments'[q] = IF q = p THEN doc ELSE payments[q]
  BY DEF Write, PaymentsOK
<1>5. CASE Withdraws(p, doc)
  <2>1. A \ {p} = B \ {p}
    BY <1>1, <1>2, <1>4 DEF Submitted, Of, WithStatus
  <2> QED
    BY <1>1, <1>2, <1>3, <1>5, <2>1, OneApart
<1>6. CASE ~Withdraws(p, doc)
  <2>1. A \subseteq B
    BY <1>1, <1>2, <1>4, <1>6 DEF Submitted, Of, WithStatus, Withdraws, NoPayment
  <2>2. Cardinality(A) <= Cardinality(B)
    BY <1>3, <2>1, FS_Subset
  <2> QED
    BY <1>1, <1>2, <1>3, <1>6, <2>2
<1> QED
  BY <1>5, <1>6

\* A write leaves the bounds of a list true.
LEMMA WriteKeepsTally ==
  ASSUME PaymentsOK, NEW r \in Reader, TallyOK(r), moved \in [ Reader -> Nat ],
         NEW p \in Payment, NEW doc, Write(p, doc),
         payments[p] = NoPayment \/ doc.customer = payments[p].customer,
         \A id \in Known : Of(id) \subseteq Of(id)'
  PROVE  TallyOK(r)'
<1>1. \A id \in Known : /\ Cardinality(Of(id)) <= Cardinality(Of(id))'
                        /\ Cardinality(Of(id)) \in Nat /\ Cardinality(Of(id))' \in Nat
  <2> SUFFICES ASSUME NEW id \in Known
               PROVE  Cardinality(Of(id)) <= Cardinality(Of(id))' /\ Cardinality(Of(id))' \in Nat
    BY OfFinite
  <2>1. IsFiniteSet(Of(id)')
    BY DirectoryAssumption, FS_Subset DEF Of
  <2> QED
    BY <2>1, FS_Subset, FS_CardinalityType
<1>2. \A id \in Known :
        /\ Cardinality(Submitted(id)) \in Nat /\ Cardinality(Submitted(id))' \in Nat
        /\ Cardinality(Submitted(id)) <= Cardinality(Submitted(id))' + (IF Withdraws(p, doc) THEN 1 ELSE 0)
  BY WriteTakesBack
<1>3. /\ rpc' = rpc /\ answer' = answer /\ moved[r] \in Nat /\ moved'[r] \in Nat /\ moved'[r] >= moved[r]
      /\ answer[r].kind = "customers" /\ Withdraws(p, doc) => moved'[r] = moved[r] + 1
  BY DEF Write
<1>4. \A id \in Known : answer[r].kind = "customers" =>
        Cardinality(Submitted(id)) + moved[r] <= Cardinality(Submitted(id))' + moved'[r]
  <2>1. CASE Withdraws(p, doc)
    BY <1>2, <1>3, <2>1
  <2>2. CASE ~Withdraws(p, doc)
    BY <1>2, <1>3, <2>2
  <2> QED
    BY <2>1, <2>2
<1> SUFFICES ASSUME answer[r].kind = "customers"
             PROVE  TallyOK(r)'
  BY <1>3 DEF TallyOK
<1>5. PICK a : a = answer[r]
  OBVIOUS
<1>6. \A id \in DOMAIN a.count :
        /\ a.floor[id] <= Cardinality(Of(id))'
        /\ id \notin a.uncounted => a.floor[id] <= a.count[id] /\ a.count[id] <= Cardinality(Of(id))'
        /\ a.held[id] <= Cardinality(Submitted(id))' + moved'[r]
        /\ a.transacted[id] <= Cardinality(Submitted(id))' + moved'[r]
        /\ id \notin a.unsummed => a.held[id] <= a.transacted[id] + moved'[r]
  <2> SUFFICES ASSUME NEW id \in DOMAIN a.count
               PROVE  /\ a.floor[id] <= Cardinality(Of(id))'
                      /\ id \notin a.uncounted => a.floor[id] <= a.count[id] /\ a.count[id] <= Cardinality(Of(id))'
                      /\ a.held[id] <= Cardinality(Submitted(id))' + moved'[r]
                      /\ a.transacted[id] <= Cardinality(Submitted(id))' + moved'[r]
                      /\ id \notin a.unsummed => a.held[id] <= a.transacted[id] + moved'[r]
    OBVIOUS
  <2>1. /\ id \in Known /\ a.floor[id] \in Nat /\ a.count[id] \in Nat
        /\ a.held[id] \in Nat /\ a.transacted[id] \in Nat
        /\ a.floor[id] <= Cardinality(Of(id))
        /\ id \notin a.uncounted => a.floor[id] <= a.count[id] /\ a.count[id] <= Cardinality(Of(id))
        /\ a.held[id] <= Cardinality(Submitted(id)) + moved[r]
        /\ a.transacted[id] <= Cardinality(Submitted(id)) + moved[r]
        /\ id \notin a.unsummed => a.held[id] <= a.transacted[id] + moved[r]
    BY <1>5 DEF TallyOK
  <2>2. /\ Cardinality(Of(id)) <= Cardinality(Of(id))'
        /\ Cardinality(Of(id)) \in Nat /\ Cardinality(Of(id))' \in Nat
        /\ Cardinality(Submitted(id)) \in Nat /\ Cardinality(Submitted(id))' \in Nat
        /\ Cardinality(Submitted(id)) + moved[r] <= Cardinality(Submitted(id))' + moved'[r]
    BY <1>1, <1>2, <1>4, <2>1
  <2> QED
    BY <1>3, <2>1, <2>2
<1> QED
  BY <1>3, <1>5, <1>6 DEF TallyOK

\* A list is asked for: nothing is counted yet.
LEMMA AskCustomersTally ==
  ASSUME RegistrationTypeOK, DOMAIN answer = Reader, DOMAIN rpc = Reader, NEW r \in Reader,
         moved[r] \in Nat, AskCustomers(r)
  PROVE  TallyOK(r)' /\ answer'[r].kind = "customers"
<1>1. answer'[r] = [ kind |-> "customers", uncounted |-> CustomerId, unsummed |-> CustomerId,
         count |-> [ id \in CustomerId |-> 0 ], transacted |-> [ id \in CustomerId |-> 0 ],
         floor |-> [ id \in CustomerId |-> Cardinality(Of(id)) ],
         held |-> [ id \in CustomerId |-> Cardinality(Submitted(id)) ] ]
  BY DEF AskCustomers
<1>2. /\ rpc'[r] = "answer" => CustomerId = {}
      /\ moved' = moved
      /\ \A id : Of(id)' = Of(id) /\ Submitted(id)' = Submitted(id)
  BY DEF AskCustomers, Of, Submitted, WithStatus
<1>3. CustomerId \subseteq Known
  BY DEF CustomerId, RegistrationTypeOK, Known
<1>4. \A id : Cardinality(Of(id)) \in Nat /\ Cardinality(Submitted(id)) \in Nat
  BY OfFinite
<1>5. PICK a : a = answer'[r]
  OBVIOUS
<1>6. /\ a.kind = "customers" /\ a.uncounted = CustomerId /\ a.unsummed = CustomerId
      /\ a.count = [ id \in CustomerId |-> 0 ] /\ a.transacted = [ id \in CustomerId |-> 0 ]
      /\ a.floor = [ id \in CustomerId |-> Cardinality(Of(id)) ]
      /\ a.held = [ id \in CustomerId |-> Cardinality(Submitted(id)) ]
      /\ a = [ kind |-> "customers", uncounted |-> a.uncounted, unsummed |-> a.unsummed,
               count |-> a.count, transacted |-> a.transacted, floor |-> a.floor, held |-> a.held ]
  BY <1>1, <1>5
<1>7. /\ DOMAIN a.count = CustomerId
      /\ a.count \in [ CustomerId -> Nat ] /\ a.transacted \in [ CustomerId -> Nat ]
      /\ a.floor \in [ CustomerId -> Nat ] /\ a.held \in [ CustomerId -> Nat ]
      /\ \A id \in CustomerId : /\ a.floor[id] = Cardinality(Of(id)) /\ a.transacted[id] = 0
                                /\ a.held[id] = Cardinality(Submitted(id))
  BY <1>4, <1>6
<1> QED
  BY <1>2, <1>3, <1>4, <1>5, <1>6, <1>7 DEF TallyOK

\* One number of a list is counted ...
LEMMA TallyCountKeeps ==
  ASSUME DOMAIN answer = Reader, DOMAIN rpc = Reader, NEW r \in Reader, NEW id,
         answer[r].kind = "customers", TallyOK(r), TallyCount(r, id)
  PROVE  TallyOK(r)' /\ answer'[r].kind = "customers"
<1>1. PICK a : a = answer[r]
  OBVIOUS
<1>2. PICK b : b = answer'[r]
  OBVIOUS
<1>3. /\ b.kind = "customers" /\ b.uncounted = a.uncounted \ {id} /\ b.unsummed = a.unsummed
      /\ b.count = [a.count EXCEPT ![id] = Cardinality(Of(id))]
      /\ b.transacted = a.transacted /\ b.floor = a.floor /\ b.held = a.held
      /\ b = [ kind |-> "customers", uncounted |-> b.uncounted, unsummed |-> b.unsummed,
               count |-> b.count, transacted |-> b.transacted, floor |-> b.floor, held |-> b.held ]
  BY <1>1, <1>2 DEF TallyCount, TallyOK
<1>4. /\ rpc'[r] = IF b.unsummed = {} THEN "answer" ELSE "tally"
      /\ \A i : Of(i)' = Of(i) /\ Submitted(i)' = Submitted(i)
  BY <1>2 DEF TallyCount, TallyOn, Of, Submitted, WithStatus
<1>5. \A i : Cardinality(Of(i)) \in Nat
  BY OfFinite
<1>6. /\ DOMAIN a.count \subseteq Known /\ a.uncounted \subseteq a.unsummed
      /\ a.count \in [ DOMAIN a.count -> Nat ] /\ a.transacted \in [ DOMAIN a.count -> Nat ]
      /\ a.floor \in [ DOMAIN a.count -> Nat ] /\ a.held \in [ DOMAIN a.count -> Nat ]
      /\ moved[r] \in Nat /\ moved' = moved
      /\ \A i \in DOMAIN a.count :
           /\ a.floor[i] <= Cardinality(Of(i))
           /\ i \notin a.uncounted => a.floor[i] <= a.count[i] /\ a.count[i] <= Cardinality(Of(i))
           /\ a.held[i] <= Cardinality(Submitted(i)) + moved[r]
           /\ a.transacted[i] <= Cardinality(Submitted(i)) + moved[r]
           /\ i \notin a.unsummed => a.held[i] <= a.transacted[i] + moved[r]
  BY <1>1 DEF TallyOK, TallyCount
<1>7. /\ DOMAIN b.count = DOMAIN a.count
      /\ b.count \in [ DOMAIN a.count -> Nat ] /\ b.transacted \in [ DOMAIN a.count -> Nat ]
  <2>1. PICK n \in Nat : n = Cardinality(Of(id))
    BY <1>5
  <2>2. PICK ids : ids = DOMAIN a.count
    OBVIOUS
  <2>3. b.count = [a.count EXCEPT ![id] = n] /\ a.count \in [ ids -> Nat ]
    BY <1>3, <1>6, <2>1, <2>2
  <2>4. b.count \in [ ids -> Nat ] /\ DOMAIN b.count = ids
    BY <2>3
  <2> QED
    BY <1>3, <1>6, <2>2, <2>4
<1>8. \A i \in DOMAIN a.count : b.count[i] = IF i = id THEN Cardinality(Of(id)) ELSE a.count[i]
  BY <1>3, <1>6
<1>9. \A i \in DOMAIN b.count :
        /\ b.floor[i] <= Cardinality(Of(i))
        /\ i \notin b.uncounted => b.floor[i] <= b.count[i] /\ b.count[i] <= Cardinality(Of(i))
        /\ b.held[i] <= Cardinality(Submitted(i)) + moved[r]
        /\ b.transacted[i] <= Cardinality(Submitted(i)) + moved[r]
        /\ i \notin b.unsummed => b.held[i] <= b.transacted[i] + moved[r]
  BY <1>3, <1>4, <1>5, <1>6, <1>7, <1>8
<1> QED
  BY <1>2, <1>3, <1>4, <1>6, <1>7, <1>9 DEF TallyOK

\* ... or summed.
LEMMA TallySumKeeps ==
  ASSUME DOMAIN answer = Reader, DOMAIN rpc = Reader, NEW r \in Reader, NEW id,
         answer[r].kind = "customers", TallyOK(r), TallySum(r, id)
  PROVE  TallyOK(r)' /\ answer'[r].kind = "customers"
<1>1. PICK a : a = answer[r]
  OBVIOUS
<1>2. PICK b : b = answer'[r]
  OBVIOUS
<1>3. /\ b.kind = "customers" /\ b.uncounted = a.uncounted /\ b.unsummed = a.unsummed \ {id}
      /\ b.transacted = [a.transacted EXCEPT ![id] = Cardinality(Submitted(id))]
      /\ b.count = a.count /\ b.floor = a.floor /\ b.held = a.held
      /\ b = [ kind |-> "customers", uncounted |-> b.uncounted, unsummed |-> b.unsummed,
               count |-> b.count, transacted |-> b.transacted, floor |-> b.floor, held |-> b.held ]
  BY <1>1, <1>2 DEF TallySum, TallyOK, Submitted
<1>4. /\ rpc'[r] = IF b.unsummed = {} THEN "answer" ELSE "tally"
      /\ \A i : Of(i)' = Of(i) /\ Submitted(i)' = Submitted(i)
      /\ id \notin a.uncounted
  BY <1>1, <1>2 DEF TallySum, TallyOn, Of, Submitted, WithStatus
<1>5. \A i : Cardinality(Submitted(i)) \in Nat
  BY OfFinite
<1>6. /\ DOMAIN a.count \subseteq Known /\ a.uncounted \subseteq a.unsummed
      /\ a.count \in [ DOMAIN a.count -> Nat ] /\ a.transacted \in [ DOMAIN a.count -> Nat ]
      /\ a.floor \in [ DOMAIN a.count -> Nat ] /\ a.held \in [ DOMAIN a.count -> Nat ]
      /\ moved[r] \in Nat /\ moved' = moved
      /\ \A i \in DOMAIN a.count :
           /\ a.floor[i] <= Cardinality(Of(i))
           /\ i \notin a.uncounted => a.floor[i] <= a.count[i] /\ a.count[i] <= Cardinality(Of(i))
           /\ a.held[i] <= Cardinality(Submitted(i)) + moved[r]
           /\ a.transacted[i] <= Cardinality(Submitted(i)) + moved[r]
           /\ i \notin a.unsummed => a.held[i] <= a.transacted[i] + moved[r]
  BY <1>1 DEF TallyOK, TallySum
<1>7. /\ DOMAIN b.count = DOMAIN a.count
      /\ b.count \in [ DOMAIN a.count -> Nat ] /\ b.transacted \in [ DOMAIN a.count -> Nat ]
  <2>1. PICK n \in Nat : n = Cardinality(Submitted(id))
    BY <1>5
  <2>2. PICK ids : ids = DOMAIN a.count
    OBVIOUS
  <2>3. b.transacted = [a.transacted EXCEPT ![id] = n] /\ a.transacted \in [ ids -> Nat ]
    BY <1>3, <1>6, <2>1, <2>2
  <2>4. b.transacted \in [ ids -> Nat ] /\ DOMAIN b.transacted = ids
    BY <2>3
  <2> QED
    BY <1>3, <1>6, <2>2, <2>4
<1>8. \A i \in DOMAIN a.count : b.transacted[i] = IF i = id THEN Cardinality(Submitted(id)) ELSE a.transacted[i]
  BY <1>3, <1>6
<1>9. \A i \in DOMAIN b.count :
        /\ b.floor[i] <= Cardinality(Of(i))
        /\ i \notin b.uncounted => b.floor[i] <= b.count[i] /\ b.count[i] <= Cardinality(Of(i))
        /\ b.held[i] <= Cardinality(Submitted(i)) + moved[r]
        /\ b.transacted[i] <= Cardinality(Submitted(i)) + moved[r]
        /\ i \notin b.unsummed => b.held[i] <= b.transacted[i] + moved[r]
  BY <1>3, <1>4, <1>5, <1>6, <1>7, <1>8
<1> QED
  BY <1>2, <1>3, <1>4, <1>6, <1>7, <1>9 DEF TallyOK

-----------------------------------------------------------------------------
(* The details of a customer *)

\* f adds up, one employee at a time, the numbers that per has for a set of
\* employees: what FoldSet does.
AddsUp(per, S, f) ==
  f = [ s \in SUBSET S |->
          IF s = {} THEN 0
          ELSE LET e == CHOOSE e \in s : TRUE IN f[s \ {e}] + per[e].accepted + per[e].rejected ]

\* There is one such function.  (Were there two, they would differ on a smallest
\* set, but agree when one of its members is taken away.)
LEMMA SumUnique ==
  ASSUME NEW per, NEW S, IsFiniteSet(S), NEW f, NEW g, AddsUp(per, S, f), AddsUp(per, S, g)
  PROVE  f = g
<1>1. PICK T : T = { s \in SUBSET S : f[s] # g[s] }
  OBVIOUS
<1>2. \A s \in SUBSET S :
        /\ f[s] = IF s = {} THEN 0
                  ELSE LET e == CHOOSE e \in s : TRUE IN f[s \ {e}] + per[e].accepted + per[e].rejected
        /\ g[s] = IF s = {} THEN 0
                  ELSE LET e == CHOOSE e \in s : TRUE IN g[s \ {e}] + per[e].accepted + per[e].rejected
  BY Zenon DEF AddsUp
<1>3. ASSUME T # {}
      PROVE  FALSE
  <2>1. PICK s \in T : \A u \in T : <<u, s>> \notin StrictSubsetOrdering(S)
    <3>1. IsWellFoundedOn(StrictSubsetOrdering(S), SUBSET S)
      BY FS_StrictSubsetOrderingWellFounded, FS_FiniteSubsetsOfFinite
    <3> QED
      BY <1>1, <1>3, <3>1, WFMin
  <2>2. s \in SUBSET S /\ f[s] # g[s] /\ s # {}
    BY <1>1, <1>2, <2>1
  <2>3. PICK e : e = CHOOSE x \in s : TRUE
    OBVIOUS
  <2>4. e \in s
    BY <2>2, <2>3
  <2>5. <<s \ {e}, s>> \in StrictSubsetOrdering(S)
    BY <2>2, <2>4 DEF StrictSubsetOrdering
  <2>6. f[s \ {e}] = g[s \ {e}]
    BY <1>1, <2>1, <2>2, <2>5
  <2>7. /\ f[s] = f[s \ {e}] + per[e].accepted + per[e].rejected
        /\ g[s] = g[s \ {e}] + per[e].accepted + per[e].rejected
    BY <1>2, <2>2, <2>3
  <2> QED
    BY <2>2, <2>6, <2>7
<1>4. \A s \in SUBSET S : f[s] = g[s]
  BY <1>1, <1>3
<1> QED
  BY <1>4 DEF AddsUp

Sum(per, S) == FoldSet(LAMBDA e, sum : sum + per[e].accepted + per[e].rejected, 0, S)

\* What FoldSet returns is what any function that adds up has for the whole set.
LEMMA FoldAddsUp ==
  ASSUME NEW per, NEW S, IsFiniteSet(S), NEW g, AddsUp(per, S, g)
  PROVE  Sum(per, S) = g[S]
<1> DEFINE iter == CHOOSE f : AddsUp(per, S, f)
<1>1. AddsUp(per, S, iter)
  OBVIOUS
<1>2. Sum(per, S) = iter[S]
  BY DEF Sum, FoldSet, MapThenFoldSet, AddsUp
<1> HIDE DEF iter
<1>3. iter = g
  BY <1>1, SumUnique
<1> QED
  BY <1>2, <1>3

\* A finite set in two parts.
LEMMA TwoParts ==
  ASSUME NEW A, NEW B, NEW C, IsFiniteSet(A), A = B \cup C, B \cap C = {}
  PROVE  /\ Cardinality(A) = Cardinality(B) + Cardinality(C)
         /\ Cardinality(A) \in Nat /\ Cardinality(B) \in Nat /\ Cardinality(C) \in Nat
<1>1. IsFiniteSet(B) /\ IsFiniteSet(C)
  BY FS_Subset
<1>2. Cardinality(B \cap C) = 0
  BY FS_EmptySet
<1>3. Cardinality(B \cup C) = Cardinality(B) + Cardinality(C) - Cardinality(B \cap C)
  BY <1>1, FS_Union
<1>4. Cardinality(A) \in Nat /\ Cardinality(B) \in Nat /\ Cardinality(C) \in Nat
  BY <1>1, FS_CardinalityType
<1> QED
  BY <1>2, <1>3, <1>4

DecidedBy(found, some) == { p \in found : payments[p].by \in some }
AcceptedBy(found, e) == { p \in found : payments[p].status \in Accepted /\ payments[p].by = e }
RejectedBy(found, e) == { p \in found : payments[p].status = "rejected" /\ payments[p].by = e }
PendingIn(found) == { p \in found : payments[p].status = "pending" }

\* One employee's payments among those of several.
LEMMA OneEmployee ==
  ASSUME PaymentsOK, NEW found \in SUBSET { p \in Payment : payments[p].status # "absent" },
         NEW some, NEW e \in some, e # Nothing
  PROVE  /\ Cardinality(DecidedBy(found, some)) = Cardinality(DecidedBy(found, some \ {e}))
              + Cardinality(AcceptedBy(found, e)) + Cardinality(RejectedBy(found, e))
         /\ Cardinality(DecidedBy(found, some \ {e})) \in Nat
         /\ Cardinality(AcceptedBy(found, e)) \in Nat /\ Cardinality(RejectedBy(found, e)) \in Nat
<1>1. IsFiniteSet(found)
  BY DirectoryAssumption, FS_Subset
<1>2. \A p \in found : /\ payments[p].status \in {"pending", "verified", "rejected", "submitted_to_swift"}
                       /\ payments[p].status = "pending" <=> payments[p].by = Nothing
  BY DEF PaymentsOK
<1>3. /\ DecidedBy(found, {e}) = AcceptedBy(found, e) \cup RejectedBy(found, e)
      /\ AcceptedBy(found, e) \cap RejectedBy(found, e) = {}
  BY <1>2 DEF Accepted, DecidedBy, AcceptedBy, RejectedBy
<1>4. /\ DecidedBy(found, some) = DecidedBy(found, some \ {e}) \cup DecidedBy(found, {e})
      /\ DecidedBy(found, some \ {e}) \cap DecidedBy(found, {e}) = {}
  BY DEF DecidedBy
<1>5. DecidedBy(found, some) \subseteq found /\ DecidedBy(found, {e}) \subseteq found
  BY DEF DecidedBy
<1>6. IsFiniteSet(DecidedBy(found, some)) /\ IsFiniteSet(DecidedBy(found, {e}))
  BY <1>1, <1>5, FS_Subset
<1>7. /\ Cardinality(DecidedBy(found, {e})) = Cardinality(AcceptedBy(found, e)) + Cardinality(RejectedBy(found, e))
      /\ Cardinality(AcceptedBy(found, e)) \in Nat /\ Cardinality(RejectedBy(found, e)) \in Nat
  <2>1. PICK one : one = DecidedBy(found, {e})
    OBVIOUS
  <2>2. IsFiniteSet(one)
    BY <1>6, <2>1
  <2>3. /\ one = AcceptedBy(found, e) \cup RejectedBy(found, e)
        /\ AcceptedBy(found, e) \cap RejectedBy(found, e) = {}
    BY <1>3, <2>1
  <2>4. /\ Cardinality(one) = Cardinality(AcceptedBy(found, e)) + Cardinality(RejectedBy(found, e))
        /\ Cardinality(AcceptedBy(found, e)) \in Nat /\ Cardinality(RejectedBy(found, e)) \in Nat
    BY <2>2, <2>3, TwoParts
  <2> QED
    BY <2>1, <2>4
<1>8. /\ Cardinality(DecidedBy(found, some)) = Cardinality(DecidedBy(found, some \ {e}))
            + Cardinality(DecidedBy(found, {e}))
      /\ Cardinality(DecidedBy(found, some \ {e})) \in Nat
  BY <1>4, <1>6, TwoParts
<1> QED
  BY <1>7, <1>8

\* stats and employeeStats: every payment of the customer is pending or was
\* decided by one of the employees.
LEMMA DetailsSum ==
  ASSUME PaymentsOK, NEW found \in SUBSET { p \in Payment : payments[p].status # "absent" },
         NEW d, d = Details(found)
  PROVE  d.total = d.pending + Sum(d.perEmployee, DOMAIN d.perEmployee)
<1>1. PICK E : E = { payments[p].by : p \in found } \ {Nothing}
  OBVIOUS
<1>2. IsFiniteSet(found)
  BY DirectoryAssumption, FS_Subset
<1>3. IsFiniteSet(E)
  <2>1. PICK f : f = [ p \in found |-> payments[p].by ]
    OBVIOUS
  <2>2. f \in Surjection(found, { payments[p].by : p \in found })
    BY <2>1 DEF Surjection
  <2>3. IsFiniteSet({ payments[p].by : p \in found })
    BY <1>2, <2>2, FS_Surjection
  <2> QED
    BY <1>1, <2>3, FS_Difference
<1>4. /\ d.total = Cardinality(found) /\ d.pending = Cardinality(PendingIn(found))
      /\ DOMAIN d.perEmployee = E
      /\ \A e \in E : /\ d.perEmployee[e].accepted = Cardinality(AcceptedBy(found, e))
                      /\ d.perEmployee[e].rejected = Cardinality(RejectedBy(found, e))
  <2>1. \A e : /\ { p \in { q \in found : payments[q].status \in Accepted } : payments[p].by = e }
                    = AcceptedBy(found, e)
               /\ { p \in { q \in found : payments[q].status \in {"rejected"} } : payments[p].by = e }
                    = RejectedBy(found, e)
    BY DEF AcceptedBy, RejectedBy
  <2>2. { p \in found : payments[p].status \in {"pending"} } = PendingIn(found)
    BY DEF PendingIn
  <2> QED
    BY <1>1, <2>1, <2>2 DEF Details
<1>5. PICK per : per = d.perEmployee
  OBVIOUS
<1>6. PICK g : g = [ s \in SUBSET E |-> Cardinality(DecidedBy(found, s)) ]
  OBVIOUS
<1>7. \A s \in SUBSET E : g[s] = Cardinality(DecidedBy(found, s))
  BY <1>6
<1>8. ASSUME NEW s \in SUBSET E
      PROVE  g[s] = IF s = {} THEN 0
                    ELSE LET e == CHOOSE e \in s : TRUE
                         IN  g[s \ {e}] + per[e].accepted + per[e].rejected
  <2>1. CASE s = {}
    <3>1. DecidedBy(found, s) = {}
      BY <2>1 DEF DecidedBy
    <3>2. g[s] = 0
      BY <1>7, <3>1, FS_EmptySet
    <3> QED
      BY <2>1, <3>2
  <2>2. CASE s # {}
    <3>1. PICK e : e = CHOOSE x \in s : TRUE
      OBVIOUS
    <3>2. e \in s /\ e \in E /\ e # Nothing /\ s \ {e} \in SUBSET E
      BY <1>1, <2>2, <3>1
    <3>3. Cardinality(DecidedBy(found, s)) = Cardinality(DecidedBy(found, s \ {e}))
            + Cardinality(AcceptedBy(found, e)) + Cardinality(RejectedBy(found, e))
      BY <3>2, OneEmployee
    <3>4. g[s] = g[s \ {e}] + per[e].accepted + per[e].rejected
      BY <1>4, <1>5, <1>7, <3>2, <3>3
    <3> QED
      BY <2>2, <3>1, <3>4
  <2> QED
    BY <2>1, <2>2
<1>9. AddsUp(per, E, g)
  BY <1>6, <1>7, <1>8, Zenon DEF AddsUp
<1>10. Sum(per, E) = g[E]
  BY <1>3, <1>9, FoldAddsUp
<1>11. /\ found = PendingIn(found) \cup DecidedBy(found, E)
       /\ PendingIn(found) \cap DecidedBy(found, E) = {}
  BY <1>1 DEF PaymentsOK, PendingIn, DecidedBy
<1>12. Cardinality(found) = Cardinality(PendingIn(found)) + Cardinality(DecidedBy(found, E))
  BY <1>2, <1>11, TwoParts
<1>13. d.total = d.pending + Sum(d.perEmployee, DOMAIN d.perEmployee)
  BY <1>4, <1>5, <1>7, <1>10, <1>12
<1> QED
  BY <1>13

-----------------------------------------------------------------------------
(* What every reader holds *)

\* The numbers in a customer's details add up.
DetailsOK(r) ==
  answer[r].kind = "details" =>
    LET d == answer[r].of
    IN  d.total = d.pending + Sum(d.perEmployee, DOMAIN d.perEmployee)

\* Who awaits payments has found a customer, and who awaits numbers has a list.
AwaitedOK(r) ==
  /\ rpc[r] = "payments" => answer[r].kind = "asked" /\ answer[r].id \in Known
  /\ rpc[r] = "tally" => answer[r].kind = "customers"

ReaderOK(r) == StatsOK(r) /\ TallyOK(r) /\ DetailsOK(r) /\ AwaitedOK(r)

Awaits == {"idle", "customers", "total", "pending", "verified", "rejected", "completed",
           "payments", "tally", "answer"}

ReadersOK ==
  /\ rpc \in [ Reader -> Awaits ] /\ DOMAIN answer = Reader /\ moved \in [ Reader -> Nat ]
  /\ \A r \in Reader : ReaderOK(r)

\* A step of one reader.
Reads(r) == UNCHANGED <<payments, moved>> /\ \A q \in Reader \ {r} : UNCHANGED <<rpc[q], answer[q]>>

\* What a reader holds does not depend on other readers.
LEMMA ReaderRests ==
  ASSUME NEW r, ReaderOK(r), UNCHANGED <<payments, moved[r], rpc[r], answer[r]>>
  PROVE  ReaderOK(r)'
<1>1. /\ \A some : In(some)' = In(some)
      /\ \A id : Of(id)' = Of(id) /\ Submitted(id)' = Submitted(id)
  BY DEF In, Of, Submitted, WithStatus
<1>2. StatsOK(r)'
  BY <1>1 DEF ReaderOK, StatsOK
<1>3. TallyOK(r)'
  BY <1>1 DEF ReaderOK, TallyOK
<1>4. DetailsOK(r)'
  BY DEF ReaderOK, DetailsOK
<1>5. AwaitedOK(r)'
  BY DEF ReaderOK, AwaitedOK
<1> QED
  BY <1>2, <1>3, <1>4, <1>5 DEF ReaderOK

\* The statistics are asked for.
LEMMA AskStatsKeeps ==
  ASSUME ReadersOK, NEW r \in Reader, AskStats(r)
  PROVE  ReaderOK(r)' /\ Reads(r) /\ rpc' \in [ Reader -> Awaits ] /\ DOMAIN answer' = Reader
<1>1. /\ answer'[r] = [ kind |-> "stats", counts |-> NoCounts, submitted |-> 0 ]
      /\ rpc'[r] = "customers" /\ moved' = moved
      /\ Reads(r) /\ rpc' \in [ Reader -> Awaits ] /\ DOMAIN answer' = Reader
  BY DEF AskStats, ReadersOK, Reads, Awaits
<1>2. moved[r] \in Nat
  BY DEF ReadersOK
<1>3. NoCounts = [ of \in DOMAIN After |-> NoCounts[of] ] /\ \A of \in DOMAIN After : NoCounts[of] \in Nat
  BY DEF NoCounts
<1>4. StatsOK(r)'
  BY <1>1, <1>2, <1>3 DEF StatsOK
<1> QED
  BY <1>1, <1>4 DEF ReaderOK, TallyOK, DetailsOK, AwaitedOK

\* One of the six counts.
LEMMA CountKeeps ==
  ASSUME PaymentsOK, ReadersOK, NEW r \in Reader, Count(r)
  PROVE  ReaderOK(r)' /\ Reads(r) /\ rpc' \in [ Reader -> Awaits ] /\ DOMAIN answer' = Reader
<1>1. StatsOK(r) /\ DOMAIN answer = Reader /\ DOMAIN rpc = Reader
  BY DEF ReadersOK, ReaderOK
<1>2. StatsOK(r)'
  BY <1>1, CountKeepsStats
<1>3. answer'[r].kind = "stats" /\ \A q \in Reader \ {r} : answer'[q] = answer[q]
  <2>1. /\ answer'[r] = [ kind |-> "stats",
                          counts |-> [answer[r].counts EXCEPT ![rpc[r]] = Number(rpc[r])],
                          submitted |-> Cardinality(WithStatus("submitted_to_swift")) ]
        /\ \A q \in Reader \ {r} : answer'[q] = answer[q]
    BY <1>1, CountAnswer
  <2> QED
    BY <2>1
<1>4. After[rpc[r]] \in Awaits \ {"payments", "tally"}
  BY DEF Count, After, Awaits
<1>5. /\ rpc' = [rpc EXCEPT ![r] = After[rpc[r]]] /\ UNCHANGED <<payments, moved>>
      /\ DOMAIN answer' = DOMAIN answer
  BY DEF Count
<1>6. Reads(r) /\ rpc' \in [ Reader -> Awaits ] /\ DOMAIN answer' = Reader /\ rpc'[r] \notin {"payments", "tally"}
  BY <1>1, <1>3, <1>4, <1>5 DEF ReadersOK, Reads
<1> QED
  BY <1>2, <1>3, <1>6 DEF ReaderOK, TallyOK, DetailsOK, AwaitedOK

\* A reader whose answer is not of a kind with numbers, and who awaits none.
LEMMA PlainAnswer ==
  ASSUME ReadersOK, NEW r \in Reader, NEW next \in Awaits \ DOMAIN After, NEW a,
         rpc' = [rpc EXCEPT ![r] = next], answer' = [answer EXCEPT ![r] = a],
         UNCHANGED <<payments, moved>>, a.kind \notin {"stats", "customers", "details"},
         next # "tally", next = "payments" => a.kind = "asked" /\ a.id \in Known
  PROVE  ReaderOK(r)' /\ Reads(r) /\ rpc' \in [ Reader -> Awaits ] /\ DOMAIN answer' = Reader
<1>1. /\ rpc'[r] = next /\ answer'[r] = a /\ moved'[r] \in Nat
      /\ Reads(r) /\ rpc' \in [ Reader -> Awaits ] /\ DOMAIN answer' = Reader
  BY DEF ReadersOK, Reads
<1> QED
  BY <1>1 DEF ReaderOK, StatsOK, TallyOK, DetailsOK, AwaitedOK

\* A customer is looked for.
LEMMA AskDetailsKeeps ==
  ASSUME RegistrationTypeOK, ReadersOK, NEW r \in Reader, NEW id, AskDetails(r, id)
  PROVE  ReaderOK(r)' /\ Reads(r) /\ rpc' \in [ Reader -> Awaits ] /\ DOMAIN answer' = Reader
<1>1. CustomerId \subseteq Known
  BY DEF CustomerId, RegistrationTypeOK, Known
<1>2. {"payments", "answer"} \subseteq Awaits \ DOMAIN After
  BY DEF After, Awaits
<1>3. CASE id \in CustomerId
  <2>1. PICK a : a = [ kind |-> "asked", id |-> id ]
    OBVIOUS
  <2>2. a.kind = "asked" /\ a.id \in Known
    BY <1>1, <1>3, <2>1
  <2> QED
    BY <1>2, <1>3, <2>1, <2>2, PlainAnswer DEF AskDetails
<1>4. CASE id \notin CustomerId
  <2>1. PICK a : a = [ kind |-> "404" ]
    OBVIOUS
  <2>2. a.kind = "404"
    BY <2>1
  <2> QED
    BY <1>2, <1>4, <2>1, <2>2, PlainAnswer DEF AskDetails
<1> QED
  BY <1>3, <1>4

\* A query throws.
LEMMA ReadErrorKeeps ==
  ASSUME ReadersOK, NEW r \in Reader, ReadError(r)
  PROVE  ReaderOK(r)' /\ Reads(r) /\ rpc' \in [ Reader -> Awaits ] /\ DOMAIN answer' = Reader
<1>1. "answer" \in Awaits \ DOMAIN After
  BY DEF After, Awaits
<1>2. PICK a : a = [ kind |-> "500" ]
  OBVIOUS
<1>3. a.kind = "500"
  BY <1>2
<1> QED
  BY <1>1, <1>2, <1>3, PlainAnswer DEF ReadError

\* The payments of a customer are read and counted.
LEMMA ReadDetailsKeeps ==
  ASSUME PaymentsOK, ReadersOK, NEW r \in Reader, ReadDetails(r)
  PROVE  ReaderOK(r)' /\ Reads(r) /\ rpc' \in [ Reader -> Awaits ] /\ DOMAIN answer' = Reader
<1>1. answer[r].id \in Known /\ Nothing \notin Known
  BY DirectoryAssumption DEF ReadersOK, ReaderOK, AwaitedOK, ReadDetails, Known
<1>2. PICK found : found = Of(answer[r].id)
  OBVIOUS
<1>3. found \in SUBSET { p \in Payment : payments[p].status # "absent" }
  BY <1>1, <1>2 DEF PaymentsOK, Of
<1>4. PICK d : d = Details(found)
  OBVIOUS
<1>5. d.total = d.pending + Sum(d.perEmployee, DOMAIN d.perEmployee)
  BY <1>3, <1>4, DetailsSum
<1>6. /\ answer' = [answer EXCEPT ![r] = [ kind |-> "details", of |-> d ]]
      /\ rpc' = [rpc EXCEPT ![r] = "answer"] /\ UNCHANGED <<payments, moved>>
  BY <1>2, <1>4 DEF ReadDetails
<1>7. /\ answer'[r].kind = "details" /\ answer'[r].of = d /\ rpc'[r] = "answer" /\ moved'[r] \in Nat
      /\ Reads(r) /\ rpc' \in [ Reader -> Awaits ] /\ DOMAIN answer' = Reader
  BY <1>6 DEF ReadersOK, Reads, Awaits
<1>8. DetailsOK(r)'
  BY <1>5, <1>7 DEF DetailsOK
<1>9. rpc'[r] \notin DOMAIN After
  BY <1>7 DEF After
<1> QED
  BY <1>7, <1>8, <1>9 DEF ReaderOK, StatsOK, TallyOK, AwaitedOK

\* A list is asked for, or one of its numbers read.
LEMMA ListKeeps ==
  ASSUME RegistrationTypeOK, ReadersOK, NEW r \in Reader, NEW id,
         AskCustomers(r) \/ TallyCount(r, id) \/ TallySum(r, id)
  PROVE  ReaderOK(r)' /\ Reads(r) /\ rpc' \in [ Reader -> Awaits ] /\ DOMAIN answer' = Reader
<1>1. DOMAIN answer = Reader /\ DOMAIN rpc = Reader /\ TallyOK(r) /\ moved[r] \in Nat
  BY DEF ReadersOK, ReaderOK
<1>2. rpc[r] = "tally" => answer[r].kind = "customers"
  BY DEF ReadersOK, ReaderOK, AwaitedOK
<1>3. TallyOK(r)' /\ answer'[r].kind = "customers"
  <2>1. CASE AskCustomers(r)
    BY <1>1, <2>1, AskCustomersTally
  <2>2. CASE TallyCount(r, id)
    <3>1. answer[r].kind = "customers"
      BY <1>2, <2>2 DEF TallyCount
    <3> QED
      BY <1>1, <2>2, <3>1, TallyCountKeeps
  <2>3. CASE TallySum(r, id)
    <3>1. answer[r].kind = "customers"
      BY <1>2, <2>3 DEF TallySum
    <3> QED
      BY <1>1, <2>3, <3>1, TallySumKeeps
  <2> QED
    BY <2>1, <2>2, <2>3
<1>4. /\ \E next \in {"answer", "tally"} : rpc' = [rpc EXCEPT ![r] = next]
      /\ DOMAIN answer' = Reader /\ \A q \in Reader \ {r} : answer'[q] = answer[q]
      /\ UNCHANGED <<payments, moved>>
  <2>1. CASE AskCustomers(r)
    BY <1>1, <2>1 DEF AskCustomers
  <2>2. CASE TallyCount(r, id)
    BY <1>1, <2>2 DEF TallyCount, TallyOn
  <2>3. CASE TallySum(r, id)
    BY <1>1, <2>3 DEF TallySum, TallyOn
  <2> QED
    BY <2>1, <2>2, <2>3
<1>5. /\ rpc'[r] \in {"answer", "tally"} /\ moved'[r] \in Nat
      /\ Reads(r) /\ rpc' \in [ Reader -> Awaits ] /\ DOMAIN answer' = Reader
  BY <1>1, <1>4 DEF ReadersOK, Reads, Awaits
<1>6. rpc'[r] \notin DOMAIN After
  BY <1>5 DEF After
<1> QED
  BY <1>3, <1>5, <1>6 DEF ReaderOK, StatsOK, DetailsOK, AwaitedOK

\* A payment is written: it is counted for the statistics under way.
LEMMA WriteKeeps ==
  ASSUME RegistrationTypeOK, PaymentsOK, ReadersOK,
         \/ \E p \in Payment, id \in CustomerId : CreatePayment(p, id)
         \/ \E p \in Payment, e \in Verifier : Decide(p, e)
         \/ \E p \in Payment : Submit(p)
  PROVE  PaymentsOK' /\ ReadersOK'
<1>1. PaymentsOK' /\ \A id \in Known : Of(id) \subseteq Of(id)'
  BY PaymentWrites
<1>2. PICK p \in Payment :
        \E doc : Write(p, doc) /\ (payments[p] = NoPayment \/ doc.customer = payments[p].customer)
  BY PaymentWrites
<1>3. PICK doc : Write(p, doc) /\ (payments[p] = NoPayment \/ doc.customer = payments[p].customer)
  BY <1>2
<1>4. UNCHANGED <<rpc, answer>> /\ moved' \in [ Reader -> Nat ]
  BY <1>3 DEF Write, ReadersOK
<1>5. ASSUME NEW r \in Reader
      PROVE  ReaderOK(r)'
  <2>1. StatsOK(r) /\ TallyOK(r) /\ DetailsOK(r) /\ AwaitedOK(r) /\ moved \in [ Reader -> Nat ]
    BY <1>5 DEF ReadersOK, ReaderOK
  <2>2. StatsOK(r)'
    BY <1>3, <2>1, WriteKeepsStats
  <2>3. TallyOK(r)'
    BY <1>1, <1>3, <2>1, WriteKeepsTally
  <2>4. DetailsOK(r)' /\ AwaitedOK(r)'
    BY <1>4, <2>1 DEF DetailsOK, AwaitedOK
  <2> QED
    BY <2>2, <2>3, <2>4 DEF ReaderOK
<1> QED
  BY <1>1, <1>4, <1>5 DEF ReadersOK

\* A step of one reader leaves the payments and the others alone.
LEMMA ReadKeeps ==
  ASSUME RegistrationTypeOK, PaymentsOK, ReadersOK, NEW r \in Reader,
         \/ AskStats(r) \/ Count(r) \/ ReadDetails(r) \/ ReadError(r) \/ AskCustomers(r)
         \/ \E id \in Known : AskDetails(r, id) \/ TallyCount(r, id) \/ TallySum(r, id)
  PROVE  PaymentsOK' /\ ReadersOK'
<1>1. ReaderOK(r)' /\ Reads(r) /\ rpc' \in [ Reader -> Awaits ] /\ DOMAIN answer' = Reader
  BY AskStatsKeeps, CountKeeps, ReadDetailsKeeps, ReadErrorKeeps, AskDetailsKeeps, ListKeeps
<1>2. \A q \in Reader \ {r} : ReaderOK(q)'
  BY <1>1, ReaderRests DEF Reads, ReadersOK
<1>3. PaymentsOK'
  BY <1>1 DEF Reads, PaymentsOK
<1> QED
  BY <1>1, <1>2, <1>3 DEF ReadersOK, Reads

\* Registrations leave payments and readers alone.
LEMMA DirectoryRests ==
  ASSUME PaymentsOK, ReadersOK, UNCHANGED directory
  PROVE  PaymentsOK' /\ ReadersOK'
<1>1. UNCHANGED <<payments, rpc, answer, moved>>
  BY DEF directory
<1>2. PaymentsOK'
  BY <1>1 DEF PaymentsOK
<1>3. \A r \in Reader : ReaderOK(r)'
  BY <1>1, ReaderRests DEF ReadersOK
<1> QED
  BY <1>1, <1>2, <1>3 DEF ReadersOK

-----------------------------------------------------------------------------
(* Registration, payments and reads together *)

AccountsInd == RegistrationInv /\ PaymentsOK /\ ReadersOK

\* No payments, and no read under way.
LEMMA AccountsInitHolds == AccountsInit => AccountsInd
<1> SUFFICES ASSUME AccountsInit
             PROVE  AccountsInd
  OBVIOUS
<1>1. PaymentsOK
  BY DEF AccountsInit, DirectoryInit, PaymentsOK, NoPayment
<1>2. ReadersOK
  <2>1. ASSUME NEW r \in Reader
        PROVE  answer[r].kind = "none" /\ rpc[r] = "idle" /\ moved[r] = 0
    BY <2>1 DEF AccountsInit, DirectoryInit
  <2>2. "idle" \notin DOMAIN After
    BY DEF After
  <2>3. \A r \in Reader : ReaderOK(r)
    BY <2>1, <2>2 DEF ReaderOK, StatsOK, TallyOK, DetailsOK, AwaitedOK
  <2> QED
    BY <2>3 DEF AccountsInit, DirectoryInit, ReadersOK, Awaits
<1> QED
  BY <1>1, <1>2, InitHolds DEF AccountsInit, AccountsInd

\* Every step of whoever keeps the invariant.
LEMMA AccountsStep ==
  ASSUME AccountsInd, [AccountsNext]_accounts
  PROVE  AccountsInd'
<1>1. RegistrationInv' /\ RegistrationTypeOK
  BY AccountsKeepInv DEF AccountsInd, RegistrationInv
<1>2. CASE DirectoryNext
  <2>1. CASE \/ \E p \in Payment, id \in CustomerId : CreatePayment(p, id)
             \/ \E p \in Payment, e \in Verifier : Decide(p, e)
             \/ \E p \in Payment : Submit(p)
    BY <1>1, <2>1, WriteKeeps DEF AccountsInd
  <2>2. CASE \E r \in Reader :
               \/ AskStats(r) \/ Count(r) \/ ReadDetails(r) \/ ReadError(r) \/ AskCustomers(r)
               \/ \E id \in Known : AskDetails(r, id) \/ TallyCount(r, id) \/ TallySum(r, id)
    BY <1>1, <2>2, ReadKeeps DEF AccountsInd
  <2> QED
    BY <1>2, <2>1, <2>2 DEF DirectoryNext, Known
<1>3. CASE UNCHANGED directory
  BY <1>1, <1>3, DirectoryRests DEF AccountsInd
<1> QED
  BY <1>1, <1>2, <1>3 DEF AccountsNext, accounts, AccountsInd

\* customers.js and payments.js beside auth.js: the invariant of registrations, payments
\* and reads together.
THEOREM AccountsInductive == AccountsSpec => []AccountsInd
<1>1. AccountsInit => AccountsInd
  BY AccountsInitHolds
<1>2. AccountsInd /\ [AccountsNext]_accounts => AccountsInd'
  BY AccountsStep
<1> QED
  BY <1>1, <1>2, PTL DEF AccountsSpec

\* With payments and reads beside it registration keeps what it keeps alone.
THEOREM AccountsRegister == AccountsSpec => [](RegistrationTypeOK /\ AnswersTrue) /\ FollowsRegistry
<1>1. AccountsInd => RegistrationInv /\ RegistrationTypeOK /\ AnswersTrue
  BY DEF AccountsInd, RegistrationInv, AnswersTrue
<1>2. AccountsInit => Registry!Init
  BY InitIsEmpty DEF AccountsInit
<1> QED
  BY <1>1, <1>2, AccountsInductive, AccountsRegisterOnly, RegistryStep, PTL
  DEF AccountsSpec, FollowsRegistry, Registry!Spec

\* Statistics, details and lists say what may be said of payments that are written while
\* they are read, by handlers that overlap in any number: off by the writes at most, adding
\* up, and between then and now but for one per write that withdrew a submission.
THEOREM ReadsSayWhatHolds == AccountsSpec => []ReadsHold
<1>1. AccountsInd => StatsWithinWrites
  <2> SUFFICES ASSUME AccountsInd, NEW r \in Reader, rpc[r] = "answer", answer[r].kind = "stats"
               PROVE  LET n == answer[r].counts
                      IN  Distance(n.pending + n.verified + n.rejected + n.completed + answer[r].submitted,
                                   n.total) <= moved[r]
    BY DEF StatsWithinWrites
  <2>1. StatsOK(r)
    BY DEF AccountsInd, ReadersOK, ReaderOK
  <2>2. PICK n : n = answer[r].counts
    OBVIOUS
  <2>3. /\ moved[r] \in Nat /\ answer[r].submitted \in Nat
        /\ Near(n.pending + n.verified + n.rejected + n.completed + answer[r].submitted, n.total, moved[r])
        /\ \A of \in DOMAIN After \ {"customers"} : n[of] \in Nat
    BY <2>1, <2>2 DEF StatsOK
  <2>4. n.pending \in Nat /\ n.verified \in Nat /\ n.rejected \in Nat /\ n.completed \in Nat /\ n.total \in Nat
    BY <2>3 DEF After
  <2> QED
    BY <2>2, <2>3, <2>4 DEF Near, Distance
<1>2. AccountsInd => DetailsAddUp
  BY DEF AccountsInd, ReadersOK, ReaderOK, DetailsOK, DetailsAddUp, Sum
<1>3. AccountsInd => TalliesWithinRead
  <2> SUFFICES ASSUME AccountsInd, NEW r \in Reader, rpc[r] = "answer", answer[r].kind = "customers",
                      NEW id \in DOMAIN answer[r].count
               PROVE  /\ answer[r].floor[id] <= answer[r].count[id]
                      /\ answer[r].count[id] <= Cardinality(Of(id))
                      /\ answer[r].held[id] <= answer[r].transacted[id] + moved[r]
                      /\ answer[r].transacted[id] <= Cardinality(Submitted(id)) + moved[r]
    BY DEF TalliesWithinRead
  <2>1. TallyOK(r)
    BY DEF AccountsInd, ReadersOK, ReaderOK
  <2>2. id \notin answer[r].uncounted /\ id \notin answer[r].unsummed
    BY <2>1 DEF TallyOK
  <2> QED
    BY <2>1, <2>2 DEF TallyOK
<1>4. AccountsInd => ReadsHold
  BY <1>1, <1>2, <1>3 DEF ReadsHold
<1> QED
  BY <1>4, AccountsInductive, PTL
=============================================================================
