---------------------------- MODULE PortalPages ----------------------------
(***************************************************************************)
(* One browser and the portal: that of a customer, while employees decide  *)
(* and submit the payments, or that of an employee, while customers pay    *)
(* and employees work, this one included.  An employee's browser uses the  *)
(* archive or the table of payments while payments move, or the directory, *)
(* which none of them concerns, and then there are none.                   *)
(***************************************************************************)
EXTENDS CustomerPages, EmployeePages, PaymentTable

VARIABLE side  \* whose browser it is

pagesVars == <<db, customerPage, employeePage, table, side>>

\* Where nothing depends on who it is.
OneOfThem == CHOOSE e \in Employee : TRUE
OnePayer == CHOOSE c \in Customer : TRUE

\* Employees act from other browsers or on the page EmployeeDashboard models;
\* only the archive tells one from another.
\* bound: of their writes, those the browser can show: to a customer invoices, to
\* an employee decisions and submissions; one payment at most is decided again.
EmployeesWork ==
  /\ EmployeesAct(IF side = "archive" THEN Employee ELSE {OneOfThem})
  /\ IF side = "customer"
     THEN \E p \in DOMAIN db : db'[p].invoice # db[p].invoice
     ELSE \A p \in DOMAIN db : db'[p].invoice # "issued"
  /\ \A p, q \in DOMAIN db' : db'[p].again /\ db'[q].again => p = q
  /\ UNCHANGED <<customerPage, employeePage, table, side>>

\* The customers pay, one as well as another.
CustomersPay ==
  /\ side = "archive"
  /\ \E c \in Customer : Add(c, << >>)
  /\ db'[Len(db')].customer = OnePayer
  /\ UNCHANGED <<customerPage, employeePage, table, side>>

PagesInit ==
  /\ DataInit /\ CustomerInit /\ EmployeeInit /\ TableInit
  /\ side \in {"customer", "directory", "archive", "queue"}

\* bound: the first visit is always the same customer's; another one's would do.
CustomerStep ==
  /\ side = "customer" /\ CustomerNext
  /\ visit' = 1 => user' \in {OnePayer, NoOne}
  /\ UNCHANGED <<employeePage, table, side>>
EmployeeStep ==
  /\ side \in {"directory", "archive"} /\ EmployeeNext
  /\ side = "archive" => page' # "customers"
  /\ side = "directory" => staff' \in {OneOfThem, NoOne}
  /\ UNCHANGED <<customerPage, table, side>>

TableStep ==
  /\ side = "queue" /\ TableNext
  /\ db' # db => db'[Len(db')].customer = OnePayer
  /\ UNCHANGED <<customerPage, employeePage, side>>

PagesNext == CustomerStep \/ EmployeeStep \/ TableStep \/ EmployeesWork \/ CustomersPay

ServeSome == (\E c \in calls : Serve(c)) /\ UNCHANGED <<employeePage, table, side>>
ArriveSome == (\E c \in calls : Arrive(c)) /\ UNCHANGED <<employeePage, table, side>>

\* A customer's request that is not lost is served, and its answer arrives.
PagesSpec ==
  /\ PagesInit /\ [][PagesNext]_pagesVars
  /\ WF_pagesVars(ServeSome) /\ WF_pagesVars(ArriveSome)
=============================================================================
