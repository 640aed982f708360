-------------------------- MODULE PagesProperties --------------------------
(***************************************************************************)
(* What customers and employees may rely on when they look at a page.      *)
(***************************************************************************)
EXTENDS PortalPages

Form == Name \cup {<< >>}

(* The state's types. *)
PagesTypeOK ==
  /\ side \in {"customer", "directory", "archive", "queue"}
  /\ \A p \in DOMAIN db :
       /\ db[p].customer \in Customer /\ db[p].status \in Status
       /\ db[p].invoice \in {"none", "due", "issued"} /\ db[p].again \in BOOLEAN
  /\ user \in Customer \cup {NoOne} /\ visit \in 0 .. MaxVisits
  /\ view \in {"dashboard", "invoices"}
  /\ form \in Form /\ notice \in {"", "invalid", "success", "refused", "network"}
  /\ submitting \in BOOLEAN /\ loading \in BOOLEAN
  /\ chosen \in invoices \cup {0}
  /\ invoices \subseteq DOMAIN db /\ missed \subseteq DOMAIN db
  /\ Cardinality(calls) <= MaxCalls
  /\ staff \in Employee \cup {NoOne} /\ mount \in 0 .. MaxMounts
  /\ page \in {"payments", "customers", "accepted"}
  /\ cursor \in -1 .. Max({Cardinality(Customer) - 1, 0})
  /\ selected \in Customer \cup {NoOne} /\ details \in Customer \cup {NoOne}
  /\ opened \in accepted \cup {0} /\ archived \in [ Employee -> SUBSET DOMAIN db ]
  /\ sent \in 0 .. MaxAsks
  /\ Range(filtered) \subseteq Range(rows) /\ Range(rows) \subseteq DOMAIN db
  /\ currentPage \in 1 .. MaxQueue /\ spinner \in BOOLEAN
  /\ tab \in Status /\ reading.state \in {"idle", "asked", "200"}

(* handlePaymentComplete, TransactionHistory: the transactions on a page   *)
(* are payments of the customer it shows and none of them twice, also when *)
(* an answer arrives after another customer has signed in; the folder's    *)
(* badge counts exactly these.                                             *)
HistoryIsTrue ==
  user # NoOne =>
    /\ \A i \in DOMAIN HistoryShown : db[HistoryShown[i]].customer = user
    /\ IsInjective(HistoryShown)
    /\ badge = Len(history)

(* InvoicesView and GET /invoices: the invoices on a page were issued for  *)
(* payments of the customer it shows, whoever was signed in when they were *)
(* asked for.                                                              *)
InvoicesAreTheirs ==
  user # NoOne /\ view = "invoices" =>
    \A p \in InvoicesShown : db[p].customer = user /\ db[p].invoice = "issued"

(* handleSubmit, isSubmitting: of one visit at most one payment is under   *)
(* way that its page still waits for, also across a lost answer and a      *)
(* retry.                                                                  *)
OnePostAtATime ==
  \A c, d \in calls :
    c.kind = "post" /\ d.kind = "post" /\ c.visit = d.visit /\ c.visit # 0 => c = d

(* isSubmitting, InvoicesView: the form is shut exactly while a payment of *)
(* its visit is under way, and the invoices' spinner turns only while an   *)
(* answer is to come: each is asked for once, and every way in which a     *)
(* request may end opens the form and stops the spinner.                   *)
CustomerWaits ==
  user # NoOne =>
    /\ view = "dashboard" => (submitting <=> \E c \in calls : c.kind = "post" /\ c.visit = visit)
    /\ view = "invoices" /\ loading => \E c \in calls : c.kind = "invoices" /\ c.visit = visit

(* POST /api/payments and handleSubmit: a payment that was stored has been *)
(* reported to the customer, or its answer is under way to the page, or    *)
(* the answer was lost or the page left before it came.                    *)
EveryPaymentReported ==
  side = "customer" => \A p \in DOMAIN db :
    \/ p \in told \/ p \in missed
    \/ \E c \in calls : c.kind = "post" /\ c.answer = "201" /\ c.payment = p

(* sanitizeRequestBody twice around validatePaymentInput: an ordinary name *)
(* that the form accepts is accepted by the server and stored unchanged.   *)
(* Ordinary: three characters or more, letters, single hyphens, spaces, a  *)
(* letter at both ends, no word of the sanitizer's lists standing alone,   *)
(* and neither waitfor nor delay before a space.                           *)
Ordinary(text) ==
  /\ text # << >> /\ text # <<"x">>
  /\ \A i \in DOMAIN text : text[i] \in Letters \cup {" ", "-"}
  /\ text[1] \in Letters /\ text[Len(text)] \in Letters
  /\ \A i \in DOMAIN text :
       /\ ~KeywordAt(text, i) /\ ~LateWordAt(text, i) /\ ~DelayAt(text, i)
       /\ ~(text[i] = "-" /\ PartAt(text, i + 1) = "-")

\* All short texts, and longer ones in which one deletion makes room for another.
Texts ==
  (UNION { [ 1 .. n -> FormParts ] : n \in 1 .. MaxText })
    \cup UNION { [ 1 .. n -> parts ] : n \in 1 .. MaxKnot,
                                      parts \in {{"a", "b", "-"}, {"a", "c", "d", "-"}} }
OrdinaryNames == { text \in Texts : Ordinary(text) /\ FormAccepts(text) }
NamesLost == { text \in OrdinaryNames : Outcome(text) # "201" \/ Stored(text) # text }

(* Whatever is typed, what comes to be stored are letters, spaces and      *)
(* hyphens with no space at an end, and it is what was typed with parts    *)
(* left out: no pass adds or moves anything that a later one lets through. *)
(* (Two hyphens side by side may be among it: Jo-ca-cat-t-Lee.)            *)
Clean(text) ==
  /\ \A i \in DOMAIN text : text[i] \in Letters \cup {" ", "-"}
  /\ text[1] # " " /\ text[Len(text)] # " "

PartsOf(stored, text) ==
  \E from \in [ DOMAIN stored -> DOMAIN text ] :
    /\ \A n \in DOMAIN stored : stored[n] = text[from[n]]
    /\ \A m, n \in DOMAIN stored : m < n => from[m] < from[n]

NamesSpoilt ==
  { text \in Texts : Outcome(text) = "201" /\ ~(Clean(Stored(text)) /\ PartsOf(Stored(text), text)) }

NamesSurvive == user # NoOne => NamesLost = {} /\ NamesSpoilt = {}

(* InvoicesView, PaymentForm: once the requests are no longer lost, a form *)
(* that is sending a payment can be used again.                            *)
FormComesBack == (user # NoOne /\ submitting) ~> (user = NoOne \/ ~submitting)

(* CustomerListView: a spinner is shown only while an answer that will end *)
(* it is under way; a refused or lost request ends it too.                 *)
SpinnerMeansFetch ==
  staff # NoOne =>
    /\ page = "customers" /\ listing => \E a \in asks : a.kind = "customers" /\ Seen(a)
    /\ page = "customers" /\ detailing => \E a \in asks : a.kind = "details" /\ Seen(a)
    /\ page = "accepted" /\ archiving => \E a \in asks : a.kind = "accepted" /\ Seen(a)

(* handleCustomerSelect, fetchCustomerDetails: when no details are under   *)
(* way any more, those shown are the selected customer's, unless an answer *)
(* was overtaken by one to a later request, or a request failed.           *)
DetailsFollowSelection ==
  staff # NoOne /\ page = "customers" /\ selected # NoOne /\ ~crossed
    /\ ~(\E a \in asks : a.kind = "details" /\ Seen(a))
    => Panel = selected

(* AcceptedPaymentsView: the payments in the archive are accepted ones     *)
(* that the employee shown has verified, whoever else used the browser,    *)
(* but for those that were decided again since.                            *)
AcceptedAreMine ==
  staff # NoOne /\ page = "accepted" =>
    \A p \in ArchiveShown :
      db[p].again \/ (db[p].by = staff /\ db[p].status \in Accepted)

(* AcceptedPaymentsView and GET /employee/all: what the archive has shown  *)
(* to an employee is there when it is opened again, unless as many newer   *)
(* payments as the list holds have been made, or a decision of a handler   *)
(* that overlapped was saved over the employee's.                          *)
ArchiveKeeps ==
  staff # NoOne /\ page = "accepted" /\ ~archiving /\ ~toast =>
    \A p \in archived[staff] :
      p \in ArchiveShown \/ p + Limit <= Len(db) \/ db[p].again

(* EmployeeDashboard's effects and its pagination: the table says that     *)
(* there are no transactions only when none of those listed passes the     *)
(* filters: a page is never left behind by a list that has become shorter. *)
PageHasRows ==
  ~spinner /\ (\E i \in DOMAIN rows : Passes(db[rows[i]].name, filter)) => TableShown # << >>

(* indexOfFirstItem, indexOfLastItem: every row that passes the filters is *)
(* on one page, which the buttons reach.                                   *)
PageOf(i) == (i + PerPage - 1) \div PerPage

EveryRowOnOnePage ==
  ~spinner => \A i \in DOMAIN filtered :
    /\ filtered[i] \in Range(TableShown) <=> PageOf(i) = currentPage
    /\ PageOf(i) # currentPage => PageOf(i) \in 1 .. TotalPages

(* The four views and the form keep their shape and wait for nothing but   *)
(* requests that are under way, one payment of a visit at most.            *)
PagesInv == PagesTypeOK /\ SpinnerMeansFetch /\ CustomerWaits /\ OnePostAtATime

(* Whatever answers come late, all that a page shows belongs to whom the   *)
(* page shows.                                                             *)
ShownIsTheirs == HistoryIsTrue /\ InvoicesAreTheirs /\ AcceptedAreMine

(* The pages of the table are exactly the rows that pass the filters, and  *)
(* the page that is shown is one of them.                                  *)
PagesCoverRows == PageHasRows /\ EveryRowOnOnePage
=============================================================================
