------------------------- MODULE CustomerDirectory -------------------------
(***************************************************************************)
(* What employees read about customers: the routes of                      *)
(* server/routes/customers.js and the two customer routes of               *)
(* server/routes/payments.js.  Each answers from one or several queries    *)
(* while customers register and payments are created, decided and          *)
(* submitted between them.  The handlers that decide and submit overlap in *)
(* any number: each looks at a payment's status before its awaits and      *)
(* saves by _id, whatever the status is by then.                           *)
(*                                                                         *)
(* Of a payment the routes tell apart its customer, its status and the     *)
(* employee who decided it; an amount is one for each payment.  The limits *)
(* of 200 and 10 documents are beyond the instances.  All customers are    *)
(* active: nothing changes the status they are created with.               *)
(***************************************************************************)
EXTENDS CustomerRegistration, FiniteSetsExt

CONSTANTS
  Resident,   \* the customers of earlier days: no applicant shares anything with them
  Payment,    \* the documents the Payment collection may come to hold
  Verifier,   \* the e-mails of the employees who decide
  Reader,     \* the reading requests: each is handled once
  Beside,     \* bound: the requests to register that may come beside payments and reads
  MaxMoved    \* bound: the writes that are counted for one read

VARIABLES
  payments,   \* the Payment collection
  rpc,        \* what each reading handler awaits
  answer,     \* what it has read, and in the end answers
  moved       \* history: the writes to payments that its numbers may disagree by

ASSUME DirectoryAssumption ==
  /\ Beside \subseteq Applicant
  /\ Resident \cap (Applicant \cup {Nothing}) = {}
  /\ Nothing \notin Applicant \cup Verifier
  /\ IsFiniteSet(Payment)
  /\ MaxMoved \in Nat

directory == <<payments, rpc, answer, moved>>
accounts == <<registration, directory>>

-----------------------------------------------------------------------------
(* Customers, and payments as other handlers write them *)

CustomerId == Resident \cup { c.id : c \in customers }

\* approved (history): an approval has been saved.
NoPayment == [ customer |-> Nothing, status |-> "absent", by |-> Nothing, approved |-> FALSE ]

\* The document is no longer submitted once doc is written.
Withdraws(p, doc) ==
  payments[p].status = "submitted_to_swift" /\ doc.status # "submitted_to_swift"

\* Every write is counted for the statistics that are being read, and one that
\* takes a payment back from those submitted for the lists, to this day.
Write(p, doc) ==
  /\ payments' = [payments EXCEPT ![p] = doc]
  /\ moved' = [r \in Reader |->
       IF \/ rpc[r] \in {"pending", "verified", "rejected", "completed"}
          \/ answer[r].kind = "customers" /\ Withdraws(p, doc)
       THEN moved[r] + 1 ELSE moved[r]]
  /\ UNCHANGED <<registration, rpc, answer>>

CreatePayment(p, id) ==
  /\ payments[p] = NoPayment
  /\ Write(p, [ customer |-> id, status |-> "pending", by |-> Nothing, approved |-> FALSE ])

\* payment.verify, of a handler that found the payment pending, now or earlier.
Decide(p, e) ==
  /\ payments[p] # NoPayment
  /\ \E status \in {"verified", "rejected"} :
       Write(p, [payments[p] EXCEPT !.status = status, !.by = e,
                                    !.approved = @ \/ status = "verified"])

\* payment.submitToSwift, of a handler that found the payment verified, now or
\* earlier.
Submit(p) ==
  /\ payments[p].approved
  /\ Write(p, [payments[p] EXCEPT !.status = "submitted_to_swift"])

Existing == { p \in Payment : payments[p] # NoPayment }
WithStatus(status) == { p \in Payment : payments[p].status = status }
Of(id) == { p \in Payment : payments[p].customer = id }
Submitted(id) == Of(id) \cap WithStatus("submitted_to_swift")

-----------------------------------------------------------------------------
(* GET /api/customers/employee/stats *)

\* The six counts, in the order they are awaited.
After == [ customers |-> "total", total |-> "pending", pending |-> "verified",
           verified |-> "rejected", rejected |-> "completed", completed |-> "answer" ]

Number(of) ==
  CASE of = "customers" -> Cardinality(CustomerId)
    [] of = "total" -> Cardinality(Existing)
    [] OTHER -> Cardinality(WithStatus(of))

NoCounts == [ of \in DOMAIN After |-> 0 ]

AskStats(r) ==
  /\ rpc[r] = "idle"
  /\ rpc' = [rpc EXCEPT ![r] = "customers"]
  /\ answer' = [answer EXCEPT ![r] = [ kind |-> "stats", counts |-> NoCounts, submitted |-> 0 ]]
  /\ UNCHANGED <<registration, payments, moved>>

\* Mutant: the count of the rejected repeats that of the verified.
CountVerifiedTwice(r) ==
  /\ rpc[r] \in DOMAIN After
  /\ answer' = [answer EXCEPT ![r].counts[rpc[r]] =
                  Number(IF rpc[r] = "rejected" THEN "verified" ELSE rpc[r]),
                ![r].submitted = Cardinality(WithStatus("submitted_to_swift"))]
  /\ rpc' = [rpc EXCEPT ![r] = After[rpc[r]]]
  /\ UNCHANGED <<registration, payments, moved>>

\* One countDocuments.  The submitted payments, which no count covers, are
\* remembered as they are at that moment (history only).
Count(r) ==
  /\ rpc[r] \in DOMAIN After
  /\ answer' = [answer EXCEPT ![r].counts[rpc[r]] = Number(rpc[r]),
                ![r].submitted = Cardinality(WithStatus("submitted_to_swift"))]
  /\ rpc' = [rpc EXCEPT ![r] = After[rpc[r]]]
  /\ UNCHANGED <<registration, payments, moved>>

-----------------------------------------------------------------------------
(* GET /api/customers/employee/:id and GET /api/payments/employee/customer/:id *)

Accepted == {"verified", "completed", "submitted_to_swift"}

\* stats and employeeStats, from the documents that one query returned.
Details(found) ==
  LET among(statuses) == { p \in found : payments[p].status \in statuses }
  IN  [ total    |-> Cardinality(found),
        pending  |-> Cardinality(among({"pending"})),
        verified |-> Cardinality(among({"verified"})),
        rejected |-> Cardinality(among({"rejected"})),
        perEmployee |->
          [ e \in { payments[p].by : p \in found } \ {Nothing} |->
             [ accepted |-> Cardinality({ p \in among(Accepted) : payments[p].by = e }),
               rejected |-> Cardinality({ p \in among({"rejected"}) : payments[p].by = e }) ] ] ]

\* Customer.findById
AskDetails(r, id) ==
  /\ rpc[r] = "idle"
  /\ IF id \in CustomerId
     THEN /\ rpc' = [rpc EXCEPT ![r] = "payments"]
          /\ answer' = [answer EXCEPT ![r] = [ kind |-> "asked", id |-> id ]]
     ELSE /\ rpc' = [rpc EXCEPT ![r] = "answer"]
          /\ answer' = [answer EXCEPT ![r] = [ kind |-> "404" ]]
  /\ UNCHANGED <<registration, payments, moved>>

\* Payment.find({ customerId })
ReadDetails(r) ==
  /\ rpc[r] = "payments"
  /\ answer' = [answer EXCEPT ![r] = [ kind |-> "details", of |-> Details(Of(answer[r].id)) ]]
  /\ rpc' = [rpc EXCEPT ![r] = "answer"]
  /\ UNCHANGED <<registration, payments, moved>>

-----------------------------------------------------------------------------
(* GET /api/customers/employee/all and GET /api/payments/employee/customers *)

\* Customer.find; the numbers follow, for all customers side by side.  What they
\* would be at this moment is remembered (history only).
AskCustomers(r) ==
  /\ rpc[r] = "idle"
  /\ rpc' = [rpc EXCEPT ![r] = IF CustomerId = {} THEN "answer" ELSE "tally"]
  /\ answer' = [answer EXCEPT ![r] =
       [ kind |-> "customers", uncounted |-> CustomerId, unsummed |-> CustomerId,
         count |-> [ id \in CustomerId |-> 0 ], transacted |-> [ id \in CustomerId |-> 0 ],
         floor |-> [ id \in CustomerId |-> Cardinality(Of(id)) ],
         held |-> [ id \in CustomerId |-> Cardinality(Submitted(id)) ] ]]
  /\ UNCHANGED <<registration, payments, moved>>

TallyOn(r) == rpc' = [rpc EXCEPT ![r] = IF answer'[r].unsummed = {} THEN "answer" ELSE "tally"]

\* countDocuments for one of the customers ...
TallyCount(r, id) ==
  /\ rpc[r] = "tally"
  /\ id \in answer[r].uncounted
  /\ answer' = [answer EXCEPT ![r].uncounted = @ \ {id}, ![r].count[id] = Cardinality(Of(id))]
  /\ TallyOn(r)
  /\ UNCHANGED <<registration, payments, moved>>

\* ... and then the aggregate over what was submitted.
TallySum(r, id) ==
  /\ rpc[r] = "tally"
  /\ id \in answer[r].unsummed \ answer[r].uncounted
  /\ answer' = [answer EXCEPT ![r].unsummed = @ \ {id},
                ![r].transacted[id] = Cardinality(Submitted(id))]
  /\ TallyOn(r)
  /\ UNCHANGED <<registration, payments, moved>>

-----------------------------------------------------------------------------

\* A query throws: 500.
ReadError(r) ==
  /\ Faults
  /\ rpc[r] \notin {"idle", "answer"}
  /\ rpc' = [rpc EXCEPT ![r] = "answer"]
  /\ answer' = [answer EXCEPT ![r] = [ kind |-> "500" ]]
  /\ UNCHANGED <<registration, payments, moved>>

DirectoryInit ==
  /\ payments = [p \in Payment |-> NoPayment]
  /\ rpc = [r \in Reader |-> "idle"]
  /\ answer = [r \in Reader |-> [ kind |-> "none" ]]
  /\ moved = [r \in Reader |-> 0]

DirectoryNext ==
  \/ \E p \in Payment, id \in CustomerId : CreatePayment(p, id)
  \/ \E p \in Payment, e \in Verifier : Decide(p, e)
  \/ \E p \in Payment : Submit(p)
  \/ \E r \in Reader : AskStats(r)
  \/ \E r \in Reader : Count(r)
  \/ \E r \in Reader, id \in Resident \cup Applicant : AskDetails(r, id)
  \/ \E r \in Reader : ReadDetails(r)
  \/ \E r \in Reader : AskCustomers(r)
  \/ \E r \in Reader, id \in Resident \cup Applicant : TallyCount(r, id)
  \/ \E r \in Reader, id \in Resident \cup Applicant : TallySum(r, id)
  \/ \E r \in Reader : ReadError(r)

AccountsInit == RegistrationInit /\ DirectoryInit

\* The bound on what one behaviour combines; beside payments and reads one wish is
\* as good as another.
OneWish == CHOOSE wish \in [ email : Email, account : AccountNumber ] : TRUE

Room ==
  /\ \/ /\ struck = {}
        /\ \A r \in Applicant : pc[r] # "idle" => r \in Beside /\ asked[r] = OneWish
     \/ Existing = {} /\ \A r \in Reader : rpc[r] = "idle"
  /\ \A r \in Reader : moved[r] <= MaxMoved

AccountsNext ==
  /\ \/ RegistrationNext /\ UNCHANGED directory
     \/ DirectoryNext
  /\ Room'

AccountsSpec ==
  /\ AccountsInit /\ [][AccountsNext]_accounts
  /\ \A r \in Applicant : WF_accounts(RegistrationStep(r) /\ UNCHANGED directory)
=============================================================================
