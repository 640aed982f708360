--------------------------- MODULE EmployeePages ---------------------------
(***************************************************************************)
(* An employee's browser, apart from the payments queue that               *)
(* EmployeeDashboard models: the directory of customers with the details   *)
(* of the one selected (CustomerListView, AnimatedList), and the archive   *)
(* of the payments this employee has accepted (AcceptedPaymentsView).      *)
(* Their answers arrive in any order, fail, or find the view gone.         *)
(*                                                                         *)
(* Whose details are shown is kept, not what they say: CustomerDirectory   *)
(* has the numbers, those of the statistics above the list among them.     *)
(***************************************************************************)
EXTENDS PortalData, SequencesExt, FiniteSetsExt

CONSTANTS
  Limit,      \* how many payments the list for employees holds, 200
  MaxMounts,  \* bound: how often a view is opened
  MaxAsks     \* bound: the details asked for in one visit of the directory

ASSUME StaffPagesAssumption == /\ Limit \in Nat \ {0}
                               /\ MaxMounts \in Nat
                               /\ MaxAsks \in Nat
                               /\ IsFiniteSet(Customer)

VARIABLES
  staff,      \* whom the page shows; NoOne: the login form is shown
  page,       \* currentView
  mount,      \* counts the views opened
  customers,  \* of CustomerListView: the customers listed
  listing,    \*   its loading
  cursor,     \*   selectedIndex of its AnimatedList, from 0; -1 at first
  selected,   \*   selectedCustomer
  details,    \*   whose details customerDetails holds
  detailing,  \*   loadingDetails
  accepted,   \* of AcceptedPaymentsView: the payments listed
  archiving,  \*   its loading
  opened,     \*   selectedPayment, 0 for none
  toast,      \* whether a view that is open has shown an error
  asks,       \* requests under way
  sent,       \* counts the details asked for since the directory was opened
  crossed,    \* history: one of these came after a later one, or failed
  archived    \* history: what the archive has shown to each employee

directory == <<customers, listing, cursor, selected, details, detailing, sent, crossed>>
archive == <<accepted, archiving, opened, archived>>
employeePage == <<staff, page, mount, directory, archive, toast, asks>>
employeeVars == <<db, employeePage>>

Directory == SetToSeq(Customer)

-----------------------------------------------------------------------------
(* Requests *)

Ask(kind, mounted, customer, n) ==
  [ kind |-> kind, mount |-> mounted, customer |-> customer, n |-> n,
    answer |-> "none", list |-> {} ]

\* The view that sent the request is still mounted.
Seen(a) == staff # NoOne /\ page # "payments" /\ a.mount = mount

DirectoryMounts ==
  /\ customers' = << >> /\ listing' = TRUE /\ cursor' = 0 - 1
  /\ selected' = NoOne /\ details' = NoOne /\ detailing' = FALSE
  /\ sent' = 0 /\ crossed' = FALSE

ArchiveMounts ==
  /\ accepted' = {} /\ archiving' = TRUE /\ opened' = 0
  /\ UNCHANGED archived

-----------------------------------------------------------------------------
(* EmployeeDashboard's navigation *)

StaffSignIn(e) ==
  /\ staff = NoOne
  /\ staff' = e /\ page' = "payments"
  /\ UNCHANGED <<db, mount, directory, archive, toast, asks>>

StaffLeave ==
  /\ staff # NoOne
  /\ staff' = NoOne
  /\ UNCHANGED <<db, page, mount, directory, archive, toast, asks>>

\* The view shown before is unmounted; opening the one that is shown already
\* does nothing.  Each view asks for what it shows as it is mounted.
Open(view) ==
  /\ staff # NoOne /\ page # view
  /\ mount < MaxMounts
  /\ page' = view /\ mount' = mount + 1
  /\ toast' = FALSE
  /\ DirectoryMounts /\ ArchiveMounts
  /\ asks' = asks \cup
       CASE view = "customers" -> {Ask("customers", mount', NoOne, 0)}
         [] view = "accepted" -> {Ask("accepted", mount', NoOne, 0)}
         [] OTHER -> {}
  /\ UNCHANGED <<db, staff>>

-----------------------------------------------------------------------------
(* CustomerListView *)

InDirectory == staff # NoOne /\ page = "customers" /\ ~listing

\* Mutant: the customer is read from the state that was set just before.
FetchFor(customer) == selected

\* fetchCustomerDetails
AskedOf(customer) == customer

Select(customer, times) ==
  /\ sent + times <= MaxAsks
  /\ selected' = customer
  /\ detailing' = TRUE
  /\ sent' = sent + times
  /\ asks' = asks \cup { Ask("details", mount, AskedOf(customer), n) : n \in sent + 1 .. sent + times }

\* A click reaches handleCustomerSelect twice: from the entry itself and from
\* the list's item around it.
Click(i) ==
  /\ InDirectory /\ i \in DOMAIN customers
  /\ cursor' = i - 1
  /\ Select(customers[i], 2)
  /\ UNCHANGED <<db, staff, page, mount, customers, listing, details, crossed, archive, toast>>

\* Enter.
Choose ==
  /\ InDirectory /\ cursor + 1 \in DOMAIN customers
  /\ Select(customers[cursor + 1], 1)
  /\ UNCHANGED <<db, staff, page, mount, customers, listing, cursor, details, crossed>>
  /\ UNCHANGED <<archive, toast>>

\* The arrow keys, Tab, and the pointer over an item.
Point ==
  /\ InDirectory
  /\ cursor' \in {Min({cursor + 1, Len(customers) - 1}), Max({cursor - 1, 0})}
                 \cup { i - 1 : i \in DOMAIN customers }
  /\ UNCHANGED <<db, staff, page, mount, customers, listing, selected, details, detailing>>
  /\ UNCHANGED <<sent, crossed, archive, toast, asks>>

\* The panel beside the list: a spinner, or the details it has.
Panel == IF selected = NoOne \/ detailing THEN NoOne ELSE details

-----------------------------------------------------------------------------
(* AcceptedPaymentsView: its table and its modal *)

ArchiveShown == IF archiving THEN {} ELSE accepted

ShowPayment(p) ==
  /\ staff # NoOne /\ page = "accepted"
  /\ p \in ArchiveShown \cup {0}
  /\ opened' = p
  /\ UNCHANGED <<db, staff, page, mount, directory, accepted, archiving, archived, toast, asks>>

-----------------------------------------------------------------------------
(* The server *)

Reply(a, answer, list) == asks' = (asks \ {a}) \cup {[ a EXCEPT !.answer = answer, !.list = list ]}

\* GET /employee/all: the newest payments, as they are now.
Newest ==
  { [ p |-> p, status |-> db[p].status, by |-> db[p].by ] : p \in { q \in DOMAIN db : q + Limit > Len(db) } }

\* The other two routes only read what is not kept here.
ServeAsk(a) ==
  /\ a \in asks /\ a.answer = "none"
  /\ Reply(a, "200", IF a.kind = "accepted" THEN Newest ELSE {})
  /\ UNCHANGED <<db, staff, page, mount, directory, archive, toast>>

\* The request is refused or lost, or its handler throws.
FailAsk(a) ==
  /\ a \in asks /\ a.answer = "none"
  /\ Reply(a, "500", {})
  /\ UNCHANGED <<db, staff, page, mount, directory, archive, toast>>

-----------------------------------------------------------------------------
(* Answers *)

Taken(a, kind) == a \in asks /\ a.kind = kind /\ a.answer # "none" /\ Seen(a) /\ asks' = asks \ {a}

CustomersAnswered(a) ==
  /\ Taken(a, "customers")
  /\ customers' = IF a.answer = "200" THEN Directory ELSE customers
  /\ listing' = FALSE
  /\ toast' = (toast \/ a.answer = "500")
  /\ UNCHANGED <<db, staff, page, mount, cursor, selected, details, detailing, sent, crossed>>
  /\ UNCHANGED archive

\* The first answer ends the spinner, whichever request it answers, and the
\* details of the customer before stay when a request fails.
DetailsAnswered(a) ==
  /\ Taken(a, "details")
  /\ details' = IF a.answer = "200" THEN a.customer ELSE details
  /\ detailing' = FALSE
  /\ toast' = (toast \/ a.answer = "500")
  /\ crossed' = (crossed \/ a.answer = "500" \/ \E b \in asks' : b.kind = "details" /\ b.mount = mount /\ b.n < a.n)
  /\ UNCHANGED <<db, staff, page, mount, customers, listing, cursor, selected, sent, archive>>

\* Mutant: what has been submitted to SWIFT leaves the archive.
VerifiedByMe(list) == { x.p : x \in { y \in list : y.status = "verified" /\ y.by = staff } }

\* The filter of fetchAcceptedPayments: a payment's status and verifiedByEmail.
MyAccepted(list) == { x.p : x \in { y \in list : y.status \in Accepted /\ y.by = staff } }

AcceptedAnswered(a) ==
  /\ Taken(a, "accepted")
  /\ accepted' = IF a.answer = "200" THEN MyAccepted(a.list) ELSE accepted
  /\ archiving' = FALSE
  /\ archived' = [archived EXCEPT ![staff] = @ \cup accepted']
  /\ toast' = (toast \/ a.answer = "500")
  /\ UNCHANGED <<db, staff, page, mount, directory, opened>>

AskUnseen(a) ==
  /\ a \in asks /\ a.answer # "none" /\ ~Seen(a)
  /\ asks' = asks \ {a}
  /\ UNCHANGED <<db, staff, page, mount, directory, archive, toast>>

-----------------------------------------------------------------------------

EmployeeInit ==
  /\ staff = NoOne /\ page = "payments" /\ mount = 0
  /\ customers = << >> /\ listing = TRUE /\ cursor = 0 - 1
  /\ selected = NoOne /\ details = NoOne /\ detailing = FALSE /\ sent = 0 /\ crossed = FALSE
  /\ accepted = {} /\ archiving = TRUE /\ opened = 0 /\ archived = [ e \in Employee |-> {} ]
  /\ toast = FALSE /\ asks = {}

EmployeeNext ==
  \/ \E e \in Employee : StaffSignIn(e)
  \/ StaffLeave
  \/ \E view \in {"payments", "customers", "accepted"} : Open(view)
  \/ \E i \in DOMAIN customers : Click(i)
  \/ Choose
  \/ Point
  \/ \E p \in accepted \cup {0} : ShowPayment(p)
  \/ \E a \in asks : ServeAsk(a)
  \/ \E a \in asks : FailAsk(a)
  \/ \E a \in asks : CustomersAnswered(a)
  \/ \E a \in asks : DetailsAnswered(a)
  \/ \E a \in asks : AcceptedAnswered(a)
  \/ \E a \in asks : AskUnseen(a)
=============================================================================
