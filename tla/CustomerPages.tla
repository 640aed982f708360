--------------------------- MODULE CustomerPages ---------------------------
(***************************************************************************)
(* A customer's browser: the page that PaymentDashboard shows once someone *)
(* is signed in, with the payment form, the transactions of this visit and *)
(* the invoices, and its requests, which the server serves and the network *)
(* answers in any order, late or never.                                    *)
(*                                                                         *)
(* Of the form's fields the recipient's name stands for all; that one is   *)
(* looked at part by part because the server alters it (InputPipeline).    *)
(* Who sends a request is who the page shows: Portal has the cookies.      *)
(***************************************************************************)
EXTENDS PortalData, InputPipeline

CONSTANTS
  Name,        \* the names typed, as texts
  MaxVisits,   \* bound: how often someone signs in
  MaxCalls,    \* bound: the requests under way at once
  MaxText,     \* bound: the parts of the texts that NamesSurvive tries,
  MaxKnot      \* bound: and of those of hyphens and halves of listed words

ASSUME PagesAssumption == MaxVisits \in Nat /\ MaxCalls \in Nat /\ MaxText \in Nat /\ MaxKnot \in Nat

VARIABLES
  user,        \* whom the page shows; NoOne: the login form is shown
  visit,       \* counts the times PaymentDashboard was mounted
  view,        \* currentView
  history,     \* transactions: the payments it has been told of
  badge,       \* invoiceCount, on the folder
  form,        \* what is typed; an empty text at first
  notice,      \* message of the form
  submitting,  \* isSubmitting
  invoices,    \* the invoices listed
  loading,     \* loading of InvoicesView
  chosen,      \* selectedInvoice of InvoicesView, by its payment; 0 for none
  calls,       \* requests under way
  told,        \* history: the payments whose success a page has shown
  missed       \* history: the payments whose answer no page will see

dashboard == <<user, visit, view, history, badge, form, notice, submitting, invoices, loading, chosen>>
customerPage == <<dashboard, calls, told, missed>>
customerVars == <<db, customerPage>>

-----------------------------------------------------------------------------
(* Requests *)

\* visit: the visit that awaits the answer, 0 if none does any more; n tells
\* requests apart that are under way at once.
Call(kind, name) ==
  [ kind |-> kind, visit |-> visit, by |-> user, name |-> name, answer |-> "none",
    payment |-> 0, list |-> {},
    n |-> CHOOSE n \in 1 .. MaxCalls + 1 :
            /\ \A c \in calls : c.n # n
            /\ \A k \in 1 .. n - 1 : \E c \in calls : c.n = k ]

Calls(c, d) == calls' = (calls \ d) \cup c /\ Cardinality(calls') <= MaxCalls

\* PaymentDashboard, the InvoicesView or the PaymentForm that sent it is still
\* mounted: the state set by its answer is seen.
Awaited(c) == user # NoOne /\ c.visit = visit

FormMounted == user # NoOne /\ view = "dashboard"

\* bound: every payment that is sent can be stored.
Room == Len(db) + Cardinality({ c \in calls : c.kind = "post" /\ c.answer = "none" }) < MaxPayments

-----------------------------------------------------------------------------
(* Signing in and out *)

\* PaymentDashboard is mounted, and with it the form; its effect asks for the
\* customer's payments.
SignIn(u) ==
  /\ user = NoOne
  /\ visit < MaxVisits
  /\ user' = u /\ visit' = visit + 1
  /\ view' = "dashboard" /\ history' = << >> /\ badge' = 0
  /\ form' = << >> /\ notice' = "" /\ submitting' = FALSE
  /\ invoices' = {} /\ loading' = TRUE /\ chosen' = 0
  /\ Calls({[ Call("count", << >>) EXCEPT !.visit = visit', !.by = u ]}, {})
  /\ UNCHANGED <<db, told, missed>>

\* Logout, or the page is closed or loaded again.
Leave ==
  /\ user # NoOne
  /\ user' = NoOne
  /\ UNCHANGED <<db, visit, view, history, badge, form, notice, submitting, invoices, loading, chosen>>
  /\ UNCHANGED <<calls, told, missed>>

\* The folder under the transactions; nothing leads back from the invoices.
ShowInvoices ==
  /\ FormMounted
  /\ view' = "invoices"
  /\ form' = << >> /\ notice' = "" /\ submitting' = FALSE
  /\ Calls({Call("invoices", << >>)}, {})
  /\ UNCHANGED <<db, user, visit, history, badge, invoices, loading, chosen, told, missed>>

\* The table of InvoicesView: a spinner, or the rows.
InvoicesShown == IF loading THEN {} ELSE invoices

\* A row's button, and the modal's that closes it.
ChooseInvoice(p) ==
  /\ user # NoOne /\ view = "invoices"
  /\ p \in InvoicesShown \cup {0}
  /\ chosen' = p
  /\ UNCHANGED <<db, user, visit, view, history, badge, form, notice, submitting, invoices, loading>>
  /\ UNCHANGED <<calls, told, missed>>

\* TransactionHistory
HistoryShown == IF FormMounted THEN history ELSE << >>

-----------------------------------------------------------------------------
(* PaymentForm *)

\* handleChange; the fields stay open while a payment is being sent.
Type(name) ==
  /\ FormMounted
  /\ form' = name
  /\ notice' = ""
  /\ UNCHANGED <<db, user, visit, view, history, badge, submitting, invoices, loading, chosen>>
  /\ UNCHANGED <<calls, told, missed>>

\* Mutant: the button is not disabled while a payment is being sent.
SubmitAgain ==
  /\ FormMounted /\ Room /\ form # << >> /\ FormAccepts(form)
  /\ submitting' = TRUE
  /\ notice' = ""
  /\ Calls({Call("post", form)}, {})
  /\ UNCHANGED <<db, user, visit, view, history, badge, form, invoices, loading, chosen, told, missed>>

\* handleSubmit; the button is disabled while a payment is being sent and
\* while a field that was touched has an error.
SubmitPayment ==
  /\ FormMounted /\ ~submitting /\ Room
  /\ form = << >> \/ FormAccepts(form)
  /\ IF form = << >>
     THEN notice' = "invalid" /\ UNCHANGED <<submitting, calls>>
     ELSE /\ submitting' = TRUE
          /\ notice' = ""
          /\ Calls({Call("post", form)}, {})
  /\ UNCHANGED <<db, user, visit, view, history, badge, form, invoices, loading, chosen, told, missed>>

-----------------------------------------------------------------------------
(* The server *)

Answered(c, answer) == Calls({[ c EXCEPT !.answer = answer ]}, {c})

\* What becomes of each name, worked out once.
OutcomeOf == [ name \in Name |-> Outcome(name) ]
StoredAs == [ name \in Name |-> Stored(name) ]

\* Mutant: the payment is created before the name is looked at.
CreateFirst(c) ==
  /\ c \in calls /\ c.kind = "post" /\ c.answer = "none"
  /\ Add(c.by, StoredAs[c.name])
  /\ Answered(c, OutcomeOf[c.name])
  /\ UNCHANGED <<dashboard, told, missed>>

\* POST /api/payments.  Should nobody await the answer, nobody will be told.
ServePost(c) ==
  /\ c \in calls /\ c.kind = "post" /\ c.answer = "none"
  /\ IF OutcomeOf[c.name] = "201"
     THEN /\ Add(c.by, StoredAs[c.name])
          /\ missed' = IF c.visit = 0 THEN missed \cup {Len(db')} ELSE missed
          /\ calls' = (calls \ {c}) \cup
               (IF c.visit = 0 THEN {} ELSE {[ c EXCEPT !.answer = "201", !.payment = Len(db') ]})
     ELSE /\ Answered(c, OutcomeOf[c.name])
          /\ UNCHANGED <<db, missed>>
  /\ UNCHANGED <<dashboard, told>>

\* GET /api/payments and GET /api/payments/invoices.
ServeRead(c) ==
  /\ c \in calls /\ c.kind \in {"count", "invoices"} /\ c.answer = "none"
  /\ Calls({[ c EXCEPT !.answer = "200",
                       !.list = IF c.kind = "invoices" THEN InvoicesOf(c.by) ELSE {} ]}, {c})
  /\ UNCHANGED <<db, dashboard, told, missed>>

\* A request is refused before its handler, or the handler throws.
ServeError(c) ==
  /\ c \in calls /\ c.answer = "none"
  /\ Answered(c, "500")
  /\ UNCHANGED <<db, dashboard, told, missed>>

-----------------------------------------------------------------------------
(* Answers *)

\* The form's state once a request has come back; an unmounted form has none.
FormEnds(text, message) ==
  IF FormMounted
  THEN form' = text /\ notice' = message /\ submitting' = FALSE
  ELSE UNCHANGED <<form, notice, submitting>>

\* Mutant: the transactions outlive the page that was told of them.
PostAnsweredLate(c) ==
  /\ c \in calls /\ c.kind = "post" /\ c.answer = "201" /\ user # NoOne
  /\ history' = <<c.payment>> \o history
  /\ badge' = badge + 1
  /\ told' = told \cup {c.payment}
  /\ FormEnds(<< >>, "success")
  /\ Calls({}, {c})
  /\ UNCHANGED <<db, user, visit, view, invoices, loading, chosen, missed>>

\* handlePaymentComplete and the form emptied, even of what was typed since.
PostAnswered(c) ==
  /\ c \in calls /\ c.kind = "post" /\ c.answer = "201" /\ Awaited(c)
  /\ history' = <<c.payment>> \o history
  /\ badge' = badge + 1
  /\ told' = told \cup {c.payment}
  /\ FormEnds(<< >>, "success")
  /\ Calls({}, {c})
  /\ UNCHANGED <<db, user, visit, view, invoices, loading, chosen, missed>>

\* Mutant: no finally, so that only a success opens the form again.
PostRefusedShut(c) ==
  /\ c \in calls /\ c.kind = "post" /\ c.answer \in {"400", "500"} /\ Awaited(c)
  /\ notice' = "refused"
  /\ Calls({}, {c})
  /\ UNCHANGED <<db, user, visit, view, history, badge, form, submitting, invoices, loading, chosen, told, missed>>

PostRefused(c) ==
  /\ c \in calls /\ c.kind = "post" /\ c.answer \in {"400", "500"} /\ Awaited(c)
  /\ FormEnds(form, "refused")
  /\ Calls({}, {c})
  /\ UNCHANGED <<db, user, visit, view, history, badge, invoices, loading, chosen, told, missed>>

\* fetchInvoiceCount: the server sends transactions and the page looks for
\* payments, so nothing is counted.
CountAnswered(c) ==
  /\ c \in calls /\ c.kind = "count" /\ c.answer # "none" /\ Awaited(c)
  /\ Calls({}, {c})
  /\ UNCHANGED <<db, dashboard, told, missed>>

\* fetchInvoices; a refusal is a toast.
InvoicesAnswered(c) ==
  /\ c \in calls /\ c.kind = "invoices" /\ c.answer # "none" /\ Awaited(c)
  /\ invoices' = IF c.answer = "200" THEN c.list ELSE invoices
  /\ loading' = FALSE
  /\ Calls({}, {c})
  /\ UNCHANGED <<db, user, visit, view, history, badge, form, notice, submitting, chosen, told, missed>>

\* The page that awaited it is gone: nothing is shown.
AnswerUnseen(c) ==
  /\ c \in calls /\ c.answer # "none" /\ ~Awaited(c)
  /\ missed' = IF c.answer = "201" THEN missed \cup {c.payment} ELSE missed
  /\ Calls({}, {c})
  /\ UNCHANGED <<db, dashboard, told>>

\* fetch rejects.  The request may have been served, or may be served yet.
Lose(c) ==
  /\ c \in calls /\ Awaited(c)
  /\ \/ Calls({}, {c})
     \/ c.kind = "post" /\ c.answer = "none" /\ Calls({[ c EXCEPT !.visit = 0 ]}, {c})
  /\ missed' = IF c.answer = "201" THEN missed \cup {c.payment} ELSE missed
  /\ IF c.kind = "post" THEN FormEnds(form, "network") ELSE UNCHANGED <<form, notice, submitting>>
  /\ loading' = IF c.kind = "invoices" THEN FALSE ELSE loading
  /\ UNCHANGED <<db, user, visit, view, history, badge, invoices, chosen, told>>

-----------------------------------------------------------------------------

CustomerInit ==
  /\ user = NoOne /\ visit = 0 /\ view = "dashboard" /\ history = << >> /\ badge = 0
  /\ form = << >> /\ notice = "" /\ submitting = FALSE /\ invoices = {} /\ loading = TRUE /\ chosen = 0
  /\ calls = {} /\ told = {} /\ missed = {}

Serve(c) == ServePost(c) \/ ServeRead(c)

Arrive(c) ==
  PostAnswered(c) \/ PostRefused(c) \/ CountAnswered(c) \/ InvoicesAnswered(c) \/ AnswerUnseen(c)

CustomerNext ==
  \/ \E u \in Customer : SignIn(u)
  \/ Leave
  \/ ShowInvoices
  \/ \E p \in invoices \cup {0} : ChooseInvoice(p)
  \/ \E name \in Name : Type(name)
  \/ SubmitPayment
  \/ \E c \in calls : ServePost(c)
  \/ \E c \in calls : ServeRead(c)
  \/ \E c \in calls : ServeError(c)
  \/ \E c \in calls : PostAnswered(c)
  \/ \E c \in calls : PostRefused(c)
  \/ \E c \in calls : CountAnswered(c)
  \/ \E c \in calls : InvoicesAnswered(c)
  \/ \E c \in calls : AnswerUnseen(c)
  \/ \E c \in calls : Lose(c)
=============================================================================
