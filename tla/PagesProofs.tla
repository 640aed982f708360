---------------------------- MODULE PagesProofs ----------------------------
(***************************************************************************)
(* Proofs about the pages of customers and employees, for any people,      *)
(* names, limits and bounds, and about what the server's cleaning makes of *)
(* the text of a name, for texts of any length.                            *)
(***************************************************************************)
EXTENDS PagesProperties, FiniteSetTheorems, SequenceTheorems, TLAPS

-----------------------------------------------------------------------------
(* The payments *)

\* A document: its name is what the server made of a name that was typed, or
\* what the table's filters look at.
Doc == { doc \in [ customer : Customer,
                   name : Kind \cup {<< >>} \cup { StoredAs[name] : name \in Name },
                   status : Status, by : Employee \cup {OneOfThem, NoOne},
                   invoice : {"none", "due", "issued"}, again : BOOLEAN ] :
         ~doc.again /\ doc.invoice # "none" => doc.status \in Accepted }

\* Nothing disappears of a payment: its customer, its name, its invoice, that it
\* was decided again, and, if it was not, its acceptance.
Forward(old, new) ==
  /\ new.customer = old.customer /\ new.name = old.name
  /\ old.invoice = "issued" => new.invoice = "issued"
  /\ old.again => new.again
  /\ old.status \in Accepted =>
       new.again \/ (new.status \in Accepted /\ new.by = old.by)

Onward ==
  /\ Len(db) <= Len(db')
  /\ \A p \in DOMAIN db : p \in DOMAIN db' /\ Forward(db[p], db'[p])

\* A new payment is a document, and takes nothing from the others.
LEMMA AddStep ==
  ASSUME db \in Seq(Doc), NEW customer \in Customer, NEW name,
         name \in Kind \cup {<< >>} \cup { StoredAs[n] : n \in Name },
         db' = Append(db, NewPayment(customer, name))
  PROVE  db' \in Seq(Doc) /\ Onward /\ Len(db') = Len(db) + 1
         /\ DOMAIN db' = DOMAIN db \cup {Len(db')} /\ db'[Len(db')].customer = customer
<1> PICK doc : doc = NewPayment(customer, name)
  OBVIOUS
<1>1. doc \in Doc /\ db' = Append(db, doc) /\ doc.customer = customer
  BY DEF Doc, Status, NewPayment
<1>2. /\ db' \in Seq(Doc) /\ Len(db') = Len(db) + 1
      /\ DOMAIN db' = DOMAIN db \cup {Len(db')} /\ db'[Len(db')] = doc
      /\ \A p \in DOMAIN db : db'[p] = db[p]
  BY <1>1
<1>3. Onward
  BY <1>2 DEF Onward, Forward
<1> QED BY <1>1, <1>2, <1>3

\* One document is replaced by one that keeps what a payment keeps.
LEMMA ChangeStep ==
  ASSUME db \in Seq(Doc), NEW p \in DOMAIN db, NEW doc \in Doc,
         db' = [db EXCEPT ![p] = doc], Forward(db[p], doc)
  PROVE  db' \in Seq(Doc) /\ Onward /\ DOMAIN db' = DOMAIN db
<1>1. db' \in Seq(Doc) /\ Len(db') = Len(db) /\ DOMAIN db' = DOMAIN db
  OBVIOUS
<1>2. \A q \in DOMAIN db : db'[q] = IF q = p THEN doc ELSE db[q]
  OBVIOUS
<1>3. \A q \in DOMAIN db : Forward(db[q], db'[q])
  BY <1>2 DEF Forward
<1> QED BY <1>1, <1>3 DEF Onward, Forward

\* Decisions, submissions and invoices keep the payments and their customers,
\* whichever handlers overlap.
LEMMA ActStep ==
  ASSUME db \in Seq(Doc), NEW some \in SUBSET (Employee \cup {OneOfThem}), EmployeesAct(some)
  PROVE  db' \in Seq(Doc) /\ Onward /\ DOMAIN db' = DOMAIN db
<1>0. \A p \in DOMAIN db : db[p] \in Doc
  OBVIOUS
<1>1. ASSUME NEW p \in DOMAIN db, Submit(p)
      PROVE  db' \in Seq(Doc) /\ Onward /\ DOMAIN db' = DOMAIN db
  <2> PICK doc : doc = [db[p] EXCEPT !.status = "submitted_to_swift"]
    OBVIOUS
  <2>1. doc \in Doc /\ Forward(db[p], doc)
    BY <1>0 DEF Doc, Status, Accepted, Forward
  <2>2. db' = [db EXCEPT ![p] = doc]
    BY <1>1 DEF Submit
  <2> QED BY <2>1, <2>2, ChangeStep
<1>2. ASSUME NEW p \in DOMAIN db, IssueInvoice(p)
      PROVE  db' \in Seq(Doc) /\ Onward /\ DOMAIN db' = DOMAIN db
  <2> PICK doc : doc = [db[p] EXCEPT !.invoice = "issued"]
    OBVIOUS
  <2>1. doc \in Doc /\ Forward(db[p], doc)
    BY <1>0, <1>2 DEF Doc, IssueInvoice, Forward
  <2>2. db' = [db EXCEPT ![p] = doc]
    BY <1>2 DEF IssueInvoice
  <2> QED BY <2>1, <2>2, ChangeStep
<1>3. ASSUME NEW p \in DOMAIN db, NEW e \in some, Decide(p, e)
      PROVE  db' \in Seq(Doc) /\ Onward /\ DOMAIN db' = DOMAIN db
  <2>1. PICK status \in {"verified", "rejected"} :
          db' = [db EXCEPT ![p].status = status, ![p].by = e,
                           ![p].invoice = IF status = "verified" /\ @ = "none" THEN "due" ELSE @,
                           ![p].again = @ \/ db[p].status # "pending"]
    BY <1>3 DEF Decide
  <2> PICK doc :
        doc = [db[p] EXCEPT !.status = status, !.by = e,
                            !.invoice = IF status = "verified" /\ @ = "none" THEN "due" ELSE @,
                            !.again = @ \/ db[p].status # "pending"]
    OBVIOUS
  <2>2. /\ doc.customer = db[p].customer /\ doc.name = db[p].name
        /\ doc.status = status /\ doc.by = e
        /\ doc.invoice = IF status = "verified" /\ db[p].invoice = "none" THEN "due" ELSE db[p].invoice
        /\ doc.again = (db[p].again \/ db[p].status # "pending")
    BY <1>0 DEF Doc
  <2>3. doc = [ customer |-> doc.customer, name |-> doc.name, status |-> doc.status,
                by |-> doc.by, invoice |-> doc.invoice, again |-> doc.again ]
    BY <1>0 DEF Doc
  <2>4. ~doc.again /\ doc.invoice # "none" => doc.status \in Accepted
    BY <1>0, <2>2 DEF Doc, Accepted
  <2>5. doc \in Doc
    <3>1. db[p].invoice \in {"none", "due", "issued"} /\ e \in Employee \cup {OneOfThem}
          /\ db[p].customer \in Customer
          /\ db[p].name \in Kind \cup {<< >>} \cup { StoredAs[name] : name \in Name }
      BY <1>0 DEF Doc
    <3>2. doc.status \in Status /\ doc.by \in Employee \cup {OneOfThem, NoOne}
      BY <2>2, <3>1 DEF Status
    <3>3. doc.invoice \in {"none", "due", "issued"} /\ doc.again \in BOOLEAN
      BY <2>2, <3>1
    <3> QED BY <2>2, <2>3, <2>4, <3>1, <3>2, <3>3 DEF Doc
  <2>6. Forward(db[p], doc)
    BY <1>0, <2>2 DEF Forward, Accepted, Doc
  <2>7. db' = [db EXCEPT ![p] = doc]
    BY <2>1
  <2> QED BY <2>5, <2>6, <2>7, ChangeStep
<1> QED BY <1>1, <1>2, <1>3 DEF EmployeesAct

-----------------------------------------------------------------------------
(* A customer's page: the inductive invariant *)

PageTyped ==
  /\ user \in Customer \cup {NoOne} /\ visit \in Nat /\ (user # NoOne => visit > 0)
  /\ form \in Form

\* A request.
Shape(c) == [ kind |-> c.kind, visit |-> c.visit, by |-> c.by, name |-> c.name,
              answer |-> c.answer, payment |-> c.payment, list |-> c.list, n |-> c.n ]

\* A request, and what its answer carries: the payment it created, which no page
\* has shown yet, or the invoices of whoever asked for them.
CallOK(c) ==
  /\ c = Shape(c)
  /\ c.visit \in 0 .. visit /\ c.by \in Customer
  /\ user # NoOne /\ c.visit = visit => c.by = user
  /\ c.kind = "post" => c.name \in Name
  /\ c.answer = "201" =>
       /\ c.visit # 0 /\ c.kind = "post"
       /\ c.payment \in DOMAIN db \ told /\ db[c.payment].customer = c.by
  /\ c.kind = "invoices" /\ c.answer = "200" =>
       \A p \in c.list : /\ p \in DOMAIN db /\ db[p].customer = c.by
                         /\ db[p].invoice = "issued"

\* A payment is reported by one answer.
OneReport ==
  \A c, d \in calls : c.answer = "201" /\ d.answer = "201" /\ c.payment = d.payment => c = d

HistoryTrue ==
  /\ told \subseteq DOMAIN db
  /\ history \in Seq(told) /\ badge = Len(history)
  /\ user # NoOne => \A i \in DOMAIN history : db[history[i]].customer = user
  /\ \A i, j \in DOMAIN history : history[i] = history[j] => i = j

ListTrue ==
  user # NoOne =>
    \A p \in invoices : /\ p \in DOMAIN db /\ db[p].customer = user
                        /\ db[p].invoice = "issued"

\* A form that can be sent has no payment under way.
FormFree ==
  FormMounted /\ ~submitting => \A c \in calls : c.kind = "post" => c.visit # visit

CustomerInd ==
  /\ PageTyped /\ (\A c \in calls : CallOK(c)) /\ OneReport
  /\ HistoryTrue /\ ListTrue /\ OnePostAtATime /\ FormFree

-----------------------------------------------------------------------------
(* A customer's page: what steps keep *)

\* A request stays what it is while payments go on.
LEMMA CallStays ==
  ASSUME NEW c, CallOK(c), Onward, visit \in Nat, visit' \in Nat, visit <= visit',
         c.answer = "201" => c.payment \notin told',
         user' # NoOne /\ c.visit = visit' => c.by = user'
  PROVE  CallOK(c)'
<1>1. c.visit \in 0 .. visit'
  BY DEF CallOK
<1>2. c.answer = "201" => /\ c.payment \in DOMAIN db' \ told'
                          /\ db'[c.payment].customer = c.by
  BY DEF CallOK, Onward, Forward
<1>3. c.kind = "invoices" /\ c.answer = "200" =>
        \A p \in c.list : /\ p \in DOMAIN db' /\ db'[p].customer = c.by
                          /\ db'[p].invoice = "issued"
  BY DEF CallOK, Onward, Forward
<1> QED BY <1>1, <1>2, <1>3 DEF CallOK

\* What the page shows stays true while payments go on.
LEMMA ShownStays ==
  ASSUME HistoryTrue, ListTrue, Onward, UNCHANGED <<user, history, badge, told, invoices>>
  PROVE  HistoryTrue' /\ ListTrue'
<1>1. told' \subseteq DOMAIN db' /\ \A p \in told : db'[p].customer = db[p].customer
  BY DEF HistoryTrue, Onward, Forward
<1>2. \A i \in DOMAIN history : history[i] \in told
  BY DEF HistoryTrue
<1>3. HistoryTrue'
  BY <1>1, <1>2 DEF HistoryTrue
<1>4. ListTrue'
  BY DEF ListTrue, Onward, Forward
<1> QED BY <1>3, <1>4

\* Requests may end, and fields of the form change.
LEMMA QuietStep ==
  ASSUME CustomerInd, Onward, UNCHANGED <<user, visit, view, history, badge, invoices, told>>,
         calls' \subseteq calls, form' \in Form,
         \/ submitting' = submitting
         \/ \A c \in calls' : c.kind = "post" => c.visit # visit
  PROVE  CustomerInd'
<1>1. \A c \in calls' : CallOK(c)'
  <2> SUFFICES ASSUME NEW c \in calls' PROVE CallOK(c)'
    OBVIOUS
  <2>1. CallOK(c)
    BY DEF CustomerInd
  <2>2. /\ visit \in Nat /\ visit' = visit /\ visit <= visit'
        /\ c.answer = "201" => c.payment \notin told'
        /\ user' # NoOne /\ c.visit = visit' => c.by = user'
    BY <2>1 DEF CustomerInd, PageTyped, CallOK
  <2> QED BY <2>1, <2>2, CallStays
<1>2. PageTyped' /\ OneReport' /\ OnePostAtATime' /\ FormFree'
  BY DEF CustomerInd, PageTyped, OneReport, OnePostAtATime, FormFree, FormMounted
<1> QED BY <1>1, <1>2, ShownStays DEF CustomerInd

\* One request is served, refused or given up.
LEMMA AnswerStep ==
  ASSUME CustomerInd, Onward, UNCHANGED <<user, visit, view, history, badge, invoices, told>>,
         form' \in Form,
         NEW c \in calls, NEW d, calls' \subseteq (calls \ {c}) \cup {d}, CallOK(d)',
         d.kind = c.kind, d.visit \in {c.visit, 0},
         d.answer = "201" => \A e \in calls \ {c} : e.answer = "201" => e.payment # d.payment,
         \/ submitting' = submitting
         \/ \A e \in calls' : e.kind = "post" => e.visit # visit
  PROVE  CustomerInd'
<1>1. \A e \in calls' : CallOK(e)'
  <2> SUFFICES ASSUME NEW e \in calls \ {c} PROVE CallOK(e)'
    OBVIOUS
  <2>1. CallOK(e)
    BY DEF CustomerInd
  <2>2. /\ visit \in Nat /\ visit' = visit /\ visit <= visit'
        /\ e.answer = "201" => e.payment \notin told'
        /\ user' # NoOne /\ e.visit = visit' => e.by = user'
    BY <2>1 DEF CustomerInd, PageTyped, CallOK
  <2> QED BY <2>1, <2>2, CallStays
<1>2. PageTyped' /\ OneReport' /\ OnePostAtATime'
  BY DEF CustomerInd, PageTyped, OneReport, OnePostAtATime
<1>3. FormFree'
  BY DEF CustomerInd, PageTyped, FormFree, FormMounted
<1> QED BY <1>1, <1>2, <1>3, ShownStays DEF CustomerInd

\* All requests stay what they are when someone signs in or leaves.
LEMMA CallsStay ==
  ASSUME CustomerInd, Onward, told' = told, visit' \in Nat,
         \/ user' = user /\ visit' = visit
         \/ visit' = visit + 1
         \/ user' = NoOne /\ visit' = visit
  PROVE  \A c \in calls : CallOK(c)'
<1> SUFFICES ASSUME NEW c \in calls PROVE CallOK(c)'
  OBVIOUS
<1>1. CallOK(c) /\ visit \in Nat
  BY DEF CustomerInd, PageTyped
<1>2. c.visit \in 0 .. visit
  BY <1>1 DEF CallOK
<1>3. /\ visit <= visit'
      /\ c.answer = "201" => c.payment \notin told'
      /\ user' # NoOne /\ c.visit = visit' => c.by = user'
  BY <1>1, <1>2 DEF CallOK
<1> QED BY <1>1, <1>3, CallStays

\* A request just sent.
LEMMA CallShape ==
  ASSUME NEW kind, NEW name
  PROVE  \E n : Call(kind, name) =
           [ kind |-> kind, visit |-> visit, by |-> user, name |-> name, answer |-> "none",
             payment |-> 0, list |-> {}, n |-> n ]
BY DEF Call

\* A request just sent is one of the user's, and has no answer.
LEMMA NewCallOK ==
  ASSUME NEW d, NEW kind, NEW by \in Customer, NEW name, NEW n, visit' \in Nat,
         d = [ kind |-> kind, visit |-> visit', by |-> by, name |-> name, answer |-> "none",
               payment |-> 0, list |-> {}, n |-> n ],
         user' = by, kind = "post" => name \in Name
  PROVE  CallOK(d)'
BY DEF CallOK, Shape

\* A page that is opened starts empty, and no request under way is awaited by it.
LEMMA SignInStep ==
  ASSUME CustomerInd, Onward, NEW u \in Customer, SignIn(u)
  PROVE  CustomerInd'
<1>0. /\ u # NoOne /\ user' = u /\ visit' = visit + 1 /\ visit \in Nat /\ visit' \in Nat
      /\ view' = "dashboard" /\ history' = << >> /\ badge' = 0 /\ form' = << >>
      /\ submitting' = FALSE /\ invoices' = {} /\ UNCHANGED <<db, told>>
  <2>1. visit \in Nat /\ u # NoOne
    BY DataAssumption DEF CustomerInd, PageTyped
  <2>2. /\ user' = u /\ visit' = visit + 1 /\ view' = "dashboard" /\ history' = << >> /\ badge' = 0
        /\ form' = << >> /\ submitting' = FALSE /\ invoices' = {} /\ db' = db /\ told' = told
    BY DEF SignIn
  <2> QED BY <2>1, <2>2
<1>1. PICK blank : blank = Call("count", << >>)
  OBVIOUS
<1>2. PICK n : blank = [ kind |-> "count", visit |-> visit, by |-> user, name |-> << >>, answer |-> "none",
                         payment |-> 0, list |-> {}, n |-> n ]
  BY <1>1, CallShape
<1>3. PICK d : d = [ blank EXCEPT !.visit = visit', !.by = u ]
  OBVIOUS
<1>4. /\ d.kind = "count" /\ d.visit = visit' /\ d.by = u /\ d.name = << >> /\ d.answer = "none"
       /\ d.payment = 0 /\ d.list = {} /\ d.n = n
  BY <1>2, <1>3
<1>5. d = Shape(d)
  BY <1>2, <1>3 DEF Shape
<1>6. calls' = calls \cup {d}
  BY <1>1, <1>3 DEF SignIn, Calls
<1>7. CallOK(d)'
  BY <1>0, <1>5, <1>4 DEF CallOK
<1>8. \A c \in calls : CallOK(c)' /\ c.visit <= visit
  BY <1>0, CallsStay DEF CustomerInd, CallOK
<1>9. PageTyped' /\ (\A c \in calls' : CallOK(c)')
  <2>1. visit' > 0 /\ form' \in Form
    BY <1>0 DEF Form
  <2> QED BY <1>0, <1>6, <1>7, <1>8, <2>1 DEF PageTyped
<1>10. OneReport' /\ OnePostAtATime'
  BY <1>6, <1>4 DEF CustomerInd, OneReport, OnePostAtATime
<1>11. FormFree'
  BY <1>0, <1>6, <1>8, <1>4 DEF FormFree
<1>12. HistoryTrue' /\ ListTrue'
  BY <1>0 DEF CustomerInd, HistoryTrue, ListTrue
<1> QED BY <1>9, <1>10, <1>11, <1>12 DEF CustomerInd

\* When the user leaves, the requests under way find nobody.
LEMMA LeaveStep ==
  ASSUME CustomerInd, Onward, Leave
  PROVE  CustomerInd'
<1>0. user' = NoOne /\ UNCHANGED <<db, visit, history, badge, form, calls, told>> /\ visit \in Nat
  BY DEF Leave, CustomerInd, PageTyped
<1>1. \A c \in calls' : CallOK(c)'
  BY <1>0, CallsStay
<1>2. PageTyped' /\ OneReport' /\ OnePostAtATime' /\ HistoryTrue' /\ ListTrue'
  BY <1>0 DEF CustomerInd, PageTyped, OneReport, OnePostAtATime, HistoryTrue, ListTrue
<1>3. FormFree'
  BY <1>0 DEF FormFree, FormMounted
<1> QED BY <1>1, <1>2, <1>3 DEF CustomerInd

\* The form goes when the invoices are shown, with a payment perhaps under way.
LEMMA ShowInvoicesStep ==
  ASSUME CustomerInd, Onward, ShowInvoices
  PROVE  CustomerInd'
<1>0. /\ user \in Customer /\ visit \in Nat /\ view' = "invoices" /\ form' = << >>
      /\ UNCHANGED <<db, user, visit, history, badge, invoices, told>>
  BY DEF ShowInvoices, FormMounted, CustomerInd, PageTyped
<1> PICK d : d = Call("invoices", << >>)
  OBVIOUS
<1>1. PICK n : d = [ kind |-> "invoices", visit |-> visit, by |-> user, name |-> << >>, answer |-> "none",
             payment |-> 0, list |-> {}, n |-> n ]
  BY CallShape
<1>2. calls' = calls \cup {d}
  BY DEF ShowInvoices, Calls
<1>3. CallOK(d)' /\ \A c \in calls : CallOK(c)'
  BY <1>0, <1>1, NewCallOK, CallsStay
<1>4. PageTyped' /\ OneReport' /\ OnePostAtATime'
  BY <1>0, <1>1, <1>2 DEF CustomerInd, PageTyped, Form, OneReport, OnePostAtATime
<1>5. FormFree'
  BY <1>0 DEF FormFree, FormMounted
<1> QED BY <1>0, <1>2, <1>3, <1>4, <1>5, ShownStays DEF CustomerInd

\* A payment is sent only while none of this visit's is under way.
LEMMA SubmitPaymentStep ==
  ASSUME CustomerInd, Onward, SubmitPayment
  PROVE  CustomerInd'
<1>0. /\ user \in Customer /\ visit \in Nat /\ FormMounted /\ ~submitting
      /\ UNCHANGED <<db, user, visit, view, form, history, badge, invoices, told>>
  BY DEF SubmitPayment, FormMounted, CustomerInd, PageTyped
<1>1. CASE form = << >>
  <2>1. UNCHANGED <<submitting, calls>>
    BY <1>1 DEF SubmitPayment
  <2> QED BY <1>0, <2>1, QuietStep DEF CustomerInd, PageTyped
<1>2. CASE form # << >>
  <2> PICK d : d = Call("post", form)
    OBVIOUS
  <2>1. PICK n : d = [ kind |-> "post", visit |-> visit, by |-> user, name |-> form, answer |-> "none",
               payment |-> 0, list |-> {}, n |-> n ]
    BY CallShape
  <2>2. calls' = calls \cup {d} /\ submitting' = TRUE
    BY <1>2 DEF SubmitPayment, Calls
  <2>3. form \in Name
    BY <1>2 DEF CustomerInd, PageTyped, Form
  <2>4. CallOK(d)' /\ \A c \in calls : CallOK(c)'
    BY <1>0, <2>1, <2>3, NewCallOK, CallsStay
  <2>5. \A c \in calls : c.kind = "post" => c.visit # visit
    BY <1>0 DEF CustomerInd, FormFree
  <2>6. PageTyped' /\ OneReport' /\ OnePostAtATime'
    BY <1>0, <2>1, <2>2, <2>5 DEF CustomerInd, PageTyped, OneReport, OnePostAtATime
  <2>7. FormFree'
    BY <2>2 DEF FormFree
  <2> QED BY <1>0, <2>2, <2>4, <2>6, <2>7, ShownStays DEF CustomerInd
<1> QED BY <1>1, <1>2

\* Names are answered with one of three codes.
LEMMA CodeKnown ==
  ASSUME NEW name \in Name
  PROVE  OutcomeOf[name] \in {"201", "400", "500"} /\ StoredAs[name] \in { StoredAs[n] : n \in Name }
BY DEF OutcomeOf, Outcome

\* POST /api/payments: the payment it stores is new, so that no page has shown it and
\* no other answer carries it.
LEMMA ServePostStep ==
  ASSUME CustomerInd, db \in Seq(Doc), NEW c \in calls, ServePost(c)
  PROVE  db' \in Seq(Doc) /\ Onward /\ CustomerInd'
<1>0. /\ CallOK(c) /\ c.kind = "post" /\ c.name \in Name /\ c.by \in Customer /\ c = Shape(c)
      /\ c.answer = "none" /\ form \in Form
      /\ UNCHANGED <<user, visit, view, history, badge, invoices, told, form, submitting>>
  BY DEF CustomerInd, PageTyped, CallOK, ServePost, dashboard
<1>1. CASE OutcomeOf[c.name] = "201"
  <2>1. Add(c.by, StoredAs[c.name])
    BY <1>1 DEF ServePost
  <2>2. /\ db' \in Seq(Doc) /\ Onward /\ Len(db') = Len(db) + 1
        /\ DOMAIN db' = DOMAIN db \cup {Len(db')} /\ db'[Len(db')].customer = c.by
    <3>1. StoredAs[c.name] \in Kind \cup {<< >>} \cup { StoredAs[n] : n \in Name }
      BY <1>0, CodeKnown
    <3> QED BY <1>0, <2>1, <3>1, AddStep DEF Add
  <2>3. CASE c.visit = 0
    <3>1. calls' \subseteq calls
      BY <1>1, <2>3 DEF ServePost
    <3> QED BY <1>0, <2>2, <3>1, QuietStep
  <2>4. CASE c.visit # 0
    <3>1. PICK d : d = [ c EXCEPT !.answer = "201", !.payment = Len(db') ]
      OBVIOUS
    <3>2. /\ d = Shape(d) /\ d.kind = c.kind /\ d.visit = c.visit /\ d.by = c.by
          /\ d.name = c.name /\ d.answer = "201" /\ d.payment = Len(db')
      BY <1>0, <3>1 DEF Shape
    <3>3. calls' \subseteq (calls \ {c}) \cup {d}
      BY <1>1, <2>4, <3>1 DEF ServePost
    <3>4. told \subseteq DOMAIN db /\ Len(db') \notin DOMAIN db
      BY <2>2 DEF CustomerInd, HistoryTrue
    <3>5. CallOK(d)'
      BY <1>0, <2>2, <2>4, <3>2, <3>4 DEF CallOK
    <3>6. \A e \in calls \ {c} : e.answer = "201" => e.payment # d.payment
      BY <3>2, <3>4 DEF CustomerInd, CallOK
    <3> QED BY <1>0, <2>2, <3>2, <3>3, <3>5, <3>6, AnswerStep
  <2> QED BY <2>3, <2>4
<1>2. CASE OutcomeOf[c.name] # "201"
  <2>1. PICK d : d = [ c EXCEPT !.answer = OutcomeOf[c.name] ]
    OBVIOUS
  <2>2. /\ d = Shape(d) /\ d.kind = c.kind /\ d.visit = c.visit /\ d.by = c.by
        /\ d.name = c.name /\ d.answer = OutcomeOf[c.name]
    BY <1>0, <2>1 DEF Shape
  <2>3. calls' \subseteq (calls \ {c}) \cup {d} /\ db' = db
    BY <1>2, <2>1 DEF ServePost, Answered, Calls
  <2>4. Onward
    BY <2>3 DEF Onward, Forward
  <2>5. CallOK(d)' /\ d.answer # "201"
    BY <1>0, <1>2, <2>2, <2>3 DEF CallOK
  <2> QED BY <1>0, <2>2, <2>3, <2>4, <2>5, AnswerStep
<1> QED BY <1>1, <1>2

\* Steps that answer a request in another way.
LEMMA ServeReadStep ==
  ASSUME CustomerInd, Onward, NEW c \in calls, ServeRead(c)
  PROVE  CustomerInd'
<1>0. /\ CallOK(c) /\ c.kind \in {"count", "invoices"} /\ c.by \in Customer /\ c = Shape(c)
      /\ c.answer = "none" /\ form \in Form /\ db' = db
      /\ UNCHANGED <<user, visit, view, history, badge, invoices, told, form, submitting>>
  BY DEF CustomerInd, PageTyped, CallOK, ServeRead, dashboard
<1>1. PICK list : list = IF c.kind = "invoices" THEN InvoicesOf(c.by) ELSE {}
  OBVIOUS
<1>2. PICK d : d = [ c EXCEPT !.answer = "200", !.list = list ]
  OBVIOUS
<1>3. /\ d = Shape(d) /\ d.kind = c.kind /\ d.visit = c.visit /\ d.by = c.by
      /\ d.name = c.name /\ d.answer = "200" /\ d.list = list
  BY <1>0, <1>2 DEF Shape
<1>4. calls' \subseteq (calls \ {c}) \cup {d}
  BY <1>1, <1>2 DEF ServeRead, Calls
<1>5. CallOK(d)'
  BY <1>0, <1>1, <1>3 DEF CallOK, InvoicesOf
<1> QED BY <1>0, <1>3, <1>4, <1>5, AnswerStep

\* A request that is refused or fails carries nothing.
LEMMA ServeErrorStep ==
  ASSUME CustomerInd, Onward, NEW c \in calls, ServeError(c)
  PROVE  CustomerInd'
<1>0. /\ CallOK(c) /\ c = Shape(c) /\ form \in Form /\ db' = db
      /\ UNCHANGED <<user, visit, view, history, badge, invoices, told, form, submitting>>
  BY DEF CustomerInd, PageTyped, CallOK, ServeError, dashboard
<1>1. PICK d : d = [ c EXCEPT !.answer = "500" ]
  OBVIOUS
<1>2. /\ d = Shape(d) /\ d.kind = c.kind /\ d.visit = c.visit /\ d.by = c.by
      /\ d.name = c.name /\ d.answer = "500"
  BY <1>0, <1>1 DEF Shape
<1>3. calls' \subseteq (calls \ {c}) \cup {d}
  BY <1>1 DEF ServeError, Answered, Calls
<1>4. CallOK(d)'
  BY <1>0, <1>2 DEF CallOK
<1> QED BY <1>0, <1>2, <1>3, <1>4, AnswerStep

\* A payment is put before those a page has shown.
LEMMA Prepend ==
  ASSUME NEW S, NEW s \in Seq(S), NEW x
  PROVE  /\ <<x>> \o s \in Seq(S \cup {x}) /\ Len(<<x>> \o s) = Len(s) + 1
         /\ DOMAIN (<<x>> \o s) = 1 .. Len(s) + 1
         /\ \A i \in 1 .. Len(s) + 1 : (<<x>> \o s)[i] = IF i = 1 THEN x ELSE s[i - 1]
<1>1. <<x>> \in Seq(S \cup {x}) /\ s \in Seq(S \cup {x}) /\ Len(<<x>>) = 1
  OBVIOUS
<1>2. /\ <<x>> \o s \in Seq(S \cup {x}) /\ Len(<<x>> \o s) = Len(s) + 1
      /\ \A i \in 1 .. Len(s) + 1 : (<<x>> \o s)[i] = IF i <= 1 THEN <<x>>[i] ELSE s[i - 1]
  BY <1>1
<1> QED BY <1>1, <1>2

\* handlePaymentComplete: what joins the transactions is the user's, and not among them.
LEMMA PostAnsweredStep ==
  ASSUME CustomerInd, Onward, NEW c \in calls, PostAnswered(c)
  PROVE  CustomerInd'
<1>0. /\ CallOK(c) /\ c.kind = "post" /\ c.answer = "201" /\ c.visit = visit
      /\ user # NoOne /\ c.by = user /\ visit \in Nat /\ visit > 0
      /\ c.payment \in DOMAIN db \ told /\ db[c.payment].customer = user
      /\ calls' = calls \ {c} /\ told' = told \cup {c.payment} /\ badge' = badge + 1
      /\ history' = <<c.payment>> \o history
      /\ UNCHANGED <<db, user, visit, view, invoices>>
  BY DEF CustomerInd, PageTyped, CallOK, PostAnswered, Awaited, Calls
<1>1. \A e \in calls' : e # c /\ CallOK(e) /\ (e.answer = "201" => e.payment \notin told')
  BY <1>0 DEF CustomerInd, CallOK, OneReport
<1>2. \A e \in calls' : CallOK(e)'
  <2> SUFFICES ASSUME NEW e \in calls' PROVE CallOK(e)'
    OBVIOUS
  <2>1. /\ visit <= visit' /\ visit' \in Nat
        /\ user' # NoOne /\ e.visit = visit' => e.by = user'
    BY <1>0, <1>1 DEF CallOK
  <2> QED BY <1>0, <1>1, <2>1, CallStays
<1>3. form' \in Form /\ (FormMounted => submitting' = FALSE)
  BY DEF PostAnswered, FormEnds, CustomerInd, PageTyped, Form
<1>4. PageTyped' /\ OneReport' /\ OnePostAtATime'
  BY <1>0, <1>3 DEF CustomerInd, PageTyped, OneReport, OnePostAtATime
<1>5. FormFree'
  BY <1>0 DEF FormFree, CustomerInd, OnePostAtATime
<1>6. ListTrue'
  BY <1>0 DEF CustomerInd, ListTrue
<1>7. HistoryTrue'
  <2>1. /\ told \subseteq DOMAIN db /\ history \in Seq(told) /\ badge = Len(history)
        /\ \A i \in DOMAIN history : db[history[i]].customer = user
        /\ \A i, j \in DOMAIN history : history[i] = history[j] => i = j
    BY <1>0 DEF CustomerInd, HistoryTrue
  <2>2. /\ history' \in Seq(told') /\ Len(history') = Len(history) + 1
        /\ DOMAIN history' = 1 .. Len(history) + 1
        /\ \A i \in 1 .. Len(history) + 1 : history'[i] = IF i = 1 THEN c.payment ELSE history[i - 1]
    BY <1>0, <2>1, Prepend
  <2>3. \A i \in 1 .. Len(history) + 1 : i # 1 =>
          i - 1 \in DOMAIN history /\ history[i - 1] \in told /\ history[i - 1] # c.payment
    BY <1>0, <2>1
  <2>4. \A i \in DOMAIN history' : db'[history'[i]].customer = user'
    BY <1>0, <2>1, <2>2, <2>3
  <2>5. \A i, j \in DOMAIN history' : history'[i] = history'[j] => i = j
    <3> SUFFICES ASSUME NEW i \in DOMAIN history', NEW j \in DOMAIN history', history'[i] = history'[j]
                 PROVE  i = j
      OBVIOUS
    <3>1. CASE i = 1 \/ j = 1
      BY <2>2, <2>3, <3>1
    <3>2. CASE i # 1 /\ j # 1
      <4>1. i - 1 \in DOMAIN history /\ j - 1 \in DOMAIN history /\ history[i - 1] = history[j - 1]
        BY <2>2, <2>3, <3>2
      <4>2. i - 1 = j - 1
        BY <2>1, <4>1
      <4> QED BY <2>2, <4>2
    <3> QED BY <3>1, <3>2
  <2>6. told' \subseteq DOMAIN db' /\ badge' = Len(history')
    BY <1>0, <2>1, <2>2
  <2> QED BY <2>2, <2>4, <2>5, <2>6 DEF HistoryTrue
<1> QED BY <1>2, <1>4, <1>5, <1>6, <1>7 DEF CustomerInd

\* A form that is opened again has no payment under way.
LEMMA FormEnded ==
  ASSUME CustomerInd, NEW c \in calls, c.kind = "post", Awaited(c), NEW text, NEW message,
         FormEnds(text, message), text \in Form, visit' = visit
  PROVE  /\ form' \in Form
         /\ \/ submitting' = submitting
            \/ \A e \in calls \ {c} : e.kind = "post" => e.visit # visit
BY DEF CustomerInd, PageTyped, FormEnds, OnePostAtATime, Awaited

\* A refusal opens the form again, and no payment of the visit is left under way.
LEMMA PostRefusedStep ==
  ASSUME CustomerInd, Onward, NEW c \in calls, PostRefused(c)
  PROVE  CustomerInd'
<1>1. /\ c.kind = "post" /\ Awaited(c) /\ FormEnds(form, "refused") /\ calls' = calls \ {c}
      /\ UNCHANGED <<user, visit, view, history, badge, invoices, told>>
  BY DEF PostRefused, Calls
<1>2. form \in Form /\ visit' = visit
  BY <1>1 DEF CustomerInd, PageTyped
<1>3. /\ form' \in Form
      /\ \/ submitting' = submitting
         \/ \A e \in calls' : e.kind = "post" => e.visit # visit
  BY <1>1, <1>2, FormEnded
<1> QED BY <1>1, <1>3, QuietStep

\* fetchInvoices: the list is that of whoever asked, who is still there.
LEMMA InvoicesAnsweredStep ==
  ASSUME CustomerInd, Onward, NEW c \in calls, InvoicesAnswered(c)
  PROVE  CustomerInd'
<1>0. /\ CallOK(c) /\ c.kind = "invoices" /\ c.visit = visit /\ user # NoOne /\ c.by = user
      /\ calls' = calls \ {c} /\ invoices' = (IF c.answer = "200" THEN c.list ELSE invoices)
      /\ UNCHANGED <<db, user, visit, view, history, badge, form, submitting, told>>
  BY DEF CustomerInd, CallOK, InvoicesAnswered, Awaited, Calls
<1>1. \A e \in calls' : CallOK(e)'
  BY <1>0, CallsStay DEF CustomerInd, PageTyped
<1>2. ListTrue'
  BY <1>0 DEF ListTrue, CallOK, CustomerInd
<1>3. HistoryTrue' /\ PageTyped' /\ OneReport' /\ OnePostAtATime' /\ FormFree'
  BY <1>0 DEF CustomerInd, HistoryTrue, PageTyped, OneReport, OnePostAtATime, FormFree, FormMounted
<1> QED BY <1>1, <1>2, <1>3 DEF CustomerInd

\* A lost answer opens the form again; what may still be served is awaited by nobody.
LEMMA LoseStep ==
  ASSUME CustomerInd, Onward, NEW c \in calls, Lose(c)
  PROVE  CustomerInd'
<1>0. /\ CallOK(c) /\ c = Shape(c) /\ Awaited(c) /\ form \in Form /\ visit' = visit /\ visit \in Nat
      /\ UNCHANGED <<db, user, visit, view, history, badge, invoices, told>>
  BY DEF CustomerInd, PageTyped, CallOK, Lose
<1>1. /\ form' \in Form
      /\ \/ submitting' = submitting
         \/ \A e \in calls \ {c} : e.kind = "post" => e.visit # visit
  <2>1. CASE c.kind = "post"
    BY <1>0, <2>1, FormEnded DEF Lose
  <2>2. CASE c.kind # "post"
    BY <1>0, <2>2 DEF Lose
  <2> QED BY <2>1, <2>2
<1>2. CASE calls' = calls \ {c}
  BY <1>0, <1>1, <1>2, QuietStep
<1>3. CASE c.kind = "post" /\ c.answer = "none" /\ Calls({[ c EXCEPT !.visit = 0 ]}, {c})
  <2>1. PICK d : d = [ c EXCEPT !.visit = 0 ]
    OBVIOUS
  <2>2. /\ d = Shape(d) /\ d.kind = c.kind /\ d.visit = 0 /\ d.by = c.by
        /\ d.name = c.name /\ d.answer = c.answer
    BY <1>0, <2>1 DEF Shape
  <2>3. calls' = (calls \ {c}) \cup {d}
    BY <1>3, <2>1 DEF Calls
  <2>4. user # NoOne => visit > 0
    BY DEF CustomerInd, PageTyped
  <2>5. CallOK(d)' /\ d.answer # "201"
    BY <1>0, <1>3, <2>2, <2>4 DEF CallOK
  <2>6. d.visit # visit
    BY <1>0, <2>2, <2>4 DEF Awaited
  <2>7. \/ submitting' = submitting
        \/ \A e \in calls' : e.kind = "post" => e.visit # visit
    BY <1>1, <2>3, <2>6
  <2> QED BY <1>0, <1>1, <2>2, <2>3, <2>5, <2>7, AnswerStep
<1> QED BY <1>2, <1>3 DEF Lose, Calls

\* Steps after which the page shows no payment that it did not show before.
LEMMA QuietSteps ==
  ASSUME CustomerInd, Onward,
         \/ \E p \in invoices \cup {0} : ChooseInvoice(p)
         \/ \E name \in Name : Type(name)
         \/ \E c \in calls : CountAnswered(c)
         \/ \E c \in calls : AnswerUnseen(c)
         \/ UNCHANGED customerPage
  PROVE  CustomerInd'
<1>0. form \in Form
  BY DEF CustomerInd, PageTyped
<1>1. CASE \E p \in invoices \cup {0} : ChooseInvoice(p)
  BY <1>0, <1>1, QuietStep DEF ChooseInvoice
<1>2. CASE \E name \in Name : Type(name)
  BY <1>2, QuietStep DEF Type, Form
<1>3. CASE \E c \in calls : CountAnswered(c)
  BY <1>0, <1>3, QuietStep DEF CountAnswered, Calls, dashboard
<1>4. CASE \E c \in calls : AnswerUnseen(c)
  BY <1>0, <1>4, QuietStep DEF AnswerUnseen, Calls, dashboard
<1>5. CASE UNCHANGED customerPage
  BY <1>0, <1>5, QuietStep DEF customerPage, dashboard
<1> QED BY <1>1, <1>2, <1>3, <1>4, <1>5

\* Every step of a customer's page and its server keeps the invariant.
LEMMA CustomerKeeps ==
  ASSUME CustomerInd, db \in Seq(Doc), CustomerNext
  PROVE  db' \in Seq(Doc) /\ Onward /\ CustomerInd'
<1>1. CASE \E c \in calls : ServePost(c)
  BY <1>1, ServePostStep
<1>2. CASE ~ \E c \in calls : ServePost(c)
  <2>1. db' = db
    BY <1>2 DEF CustomerNext, SignIn, Leave, ShowInvoices, ChooseInvoice, Type, SubmitPayment, ServeRead,
         ServeError, PostAnswered, PostRefused, CountAnswered, InvoicesAnswered, AnswerUnseen, Lose
  <2>2. Onward
    BY <2>1 DEF Onward, Forward
  <2>3. CustomerInd'
    BY <1>2, <2>2, SignInStep, LeaveStep, ShowInvoicesStep, SubmitPaymentStep, ServeReadStep, ServeErrorStep,
       PostAnsweredStep, PostRefusedStep, InvoicesAnsweredStep, LoseStep, QuietSteps DEF CustomerNext
  <2> QED BY <2>1, <2>2, <2>3
<1> QED BY <1>1, <1>2

\* Everyone else's steps, as the payments show them.
LEMMA OthersKeep ==
  ASSUME db \in Seq(Doc), EmployeeStep \/ TableStep \/ EmployeesWork \/ CustomersPay \/ UNCHANGED pagesVars
  PROVE  /\ db' \in Seq(Doc) /\ Onward /\ UNCHANGED <<customerPage, side>>
         /\ side = "customer" => DOMAIN db' = DOMAIN db
<1>1. CASE EmployeeStep \/ UNCHANGED pagesVars
  <2>1. db' = db /\ UNCHANGED <<customerPage, side>>
    BY <1>1 DEF EmployeeStep, pagesVars, EmployeeNext, StaffSignIn, StaffLeave, Open, Click, Choose, Point,
         ShowPayment, ServeAsk, FailAsk, CustomersAnswered, DetailsAnswered, AcceptedAnswered, AskUnseen
  <2> QED BY <2>1 DEF Onward, Forward
<1>2. CASE TableStep
  <2>1. CASE \E customer \in Customer, kind \in Kind : QueuePayment(customer, kind)
    <3>1. PICK customer \in Customer, kind \in Kind : QueuePayment(customer, kind)
      BY <2>1
    <3>2. db' \in Seq(Doc) /\ Onward
      BY <3>1, AddStep DEF QueuePayment
    <3> QED BY <1>2, <3>2 DEF TableStep
  <2>2. CASE ~ \E customer \in Customer, kind \in Kind : QueuePayment(customer, kind)
    <3>1. db' = db
      BY <1>2, <2>2 DEF TableStep, TableNext, SelectTab, RefreshTable, SetFilter, clearFilters, NextPage,
           PreviousPage, Turn, ServeList, ListAnswered, ListRefused
    <3> QED BY <1>2, <3>1 DEF TableStep, Onward, Forward
  <2> QED BY <2>1, <2>2
<1>3. CASE EmployeesWork
  <2>1. PICK some : some = IF side = "archive" THEN Employee ELSE {OneOfThem}
    OBVIOUS
  <2>2. some \in SUBSET (Employee \cup {OneOfThem}) /\ EmployeesAct(some)
    BY <1>3, <2>1 DEF EmployeesWork
  <2> QED BY <1>3, <2>2, ActStep DEF EmployeesWork
<1>4. CASE CustomersPay
  <2>1. PICK c \in Customer : Add(c, << >>)
    BY <1>4 DEF CustomersPay
  <2>2. db' \in Seq(Doc) /\ Onward
    BY <2>1, AddStep DEF Add
  <2> QED BY <1>4, <2>2 DEF CustomersPay
<1> QED BY <1>1, <1>2, <1>3, <1>4

-----------------------------------------------------------------------------
(* A customer's page: the invariant holds *)

\* Whom a payment is known to, apart from the side it is about.
Reported ==
  \A p \in DOMAIN db :
    \/ p \in told \/ p \in missed
    \/ \E c \in calls : c.kind = "post" /\ c.answer = "201" /\ c.payment = p

\* A payment stays reported while no successful answer is dropped in silence.
LEMMA ReportStays ==
  ASSUME Reported, DOMAIN db' = DOMAIN db, told \subseteq told', missed \subseteq missed',
         \A c \in calls : c.kind = "post" /\ c.answer = "201" =>
           c \in calls' \/ c.payment \in told' \cup missed'
  PROVE  Reported'
BY DEF Reported

\* No step of a customer's page and its server leaves a stored payment unreported.
LEMMA ReportStep ==
  ASSUME CustomerInd, db \in Seq(Doc), Reported, CustomerNext
  PROVE  Reported'
<1>1. CASE (\E u \in Customer : SignIn(u)) \/ Leave \/ ShowInvoices \/ SubmitPayment
  BY <1>1, ReportStays DEF SignIn, Leave, ShowInvoices, SubmitPayment, Calls
<1>2. CASE (\E p \in invoices \cup {0} : ChooseInvoice(p)) \/ \E name \in Name : Type(name)
  BY <1>2, ReportStays DEF ChooseInvoice, Type
<1>3. ASSUME NEW c \in calls, ServePost(c)
      PROVE  Reported'
  <2>0. c.answer = "none" /\ told' = told /\ missed \subseteq missed'
    BY <1>3 DEF ServePost, Answered, dashboard
  <2>1. CASE OutcomeOf[c.name] = "201"
    <3>1. /\ DOMAIN db' = DOMAIN db \cup {Len(db')}
      BY <1>3, <2>1 DEF ServePost, Add
    <3>2. \A d \in calls : d.answer = "201" => d \in calls'
      BY <1>3, <2>0, <2>1 DEF ServePost
    <3>3. \/ Len(db') \in missed'
          \/ \E d \in calls' : d.kind = "post" /\ d.answer = "201" /\ d.payment = Len(db')
      <4>1. CASE c.visit = 0
        BY <1>3, <2>1, <4>1 DEF ServePost
      <4>2. CASE c.visit # 0
        <5>1. PICK d : d = [ c EXCEPT !.answer = "201", !.payment = Len(db') ]
          OBVIOUS
        <5>2. d \in calls'
          BY <1>3, <2>1, <4>2, <5>1 DEF ServePost
        <5>3. c = Shape(c) /\ c.kind = "post"
          BY <1>3 DEF CustomerInd, CallOK, ServePost
        <5>4. d.kind = "post" /\ d.answer = "201" /\ d.payment = Len(db')
          BY <5>1, <5>3 DEF Shape
        <5> QED BY <5>2, <5>4
      <4> QED BY <4>1, <4>2
    <3> QED BY <2>0, <3>1, <3>2, <3>3 DEF Reported
  <2>2. CASE OutcomeOf[c.name] # "201"
    BY <1>3, <2>0, <2>2, ReportStays DEF ServePost, Answered, Calls
  <2> QED BY <2>1, <2>2
<1>4. ASSUME NEW c \in calls, ServeRead(c) \/ ServeError(c)
      PROVE  Reported'
  BY <1>4, ReportStays DEF ServeRead, ServeError, Answered, Calls
<1>5. ASSUME NEW c \in calls, PostAnswered(c) \/ PostRefused(c) \/ CountAnswered(c) \/ InvoicesAnswered(c)
      PROVE  Reported'
  BY <1>5, ReportStays DEF PostAnswered, PostRefused, CountAnswered, InvoicesAnswered, Calls
<1>6. ASSUME NEW c \in calls, AnswerUnseen(c) \/ Lose(c)
      PROVE  Reported'
  <2>1. db' = db /\ told' = told
    BY <1>6 DEF AnswerUnseen, Lose
  <2>2. missed' = IF c.answer = "201" THEN missed \cup {c.payment} ELSE missed
    BY <1>6 DEF AnswerUnseen, Lose
  <2>3. calls \ {c} \subseteq calls'
    BY <1>6 DEF AnswerUnseen, Lose, Calls
  <2> QED BY <2>1, <2>2, <2>3, ReportStays
<1> QED BY <1>1, <1>2, <1>3, <1>4, <1>5, <1>6 DEF CustomerNext

CustomerSide == db \in Seq(Doc) /\ CustomerInd /\ (side = "customer" => Reported)

\* An empty portal satisfies the invariant.
LEMMA CustomerSideInit ==
  ASSUME PagesInit
  PROVE  CustomerSide
<1>1. db = << >> /\ db \in Seq(Doc)
  BY DEF PagesInit, DataInit
<1>2. /\ user = NoOne /\ visit = 0 /\ history = << >> /\ badge = 0 /\ form = << >>
      /\ calls = {} /\ told = {}
  BY DEF PagesInit, CustomerInit
<1>3. PageTyped /\ (\A c \in calls : CallOK(c)) /\ OneReport /\ OnePostAtATime /\ FormFree /\ ListTrue
  BY <1>2 DEF PageTyped, Form, OneReport, ListTrue, OnePostAtATime, FormFree
<1>4. HistoryTrue
  BY <1>2 DEF HistoryTrue
<1> QED BY <1>1, <1>3, <1>4 DEF CustomerSide, CustomerInd, Reported

\* Every step, of whoever, keeps the invariant of the customer's page and takes
\* nothing from the payments.
LEMMA CustomerSideStep ==
  ASSUME CustomerSide, [PagesNext]_pagesVars
  PROVE  CustomerSide' /\ Onward
<1>1. CASE CustomerStep
  <2>1. CustomerNext /\ side' = side
    BY <1>1 DEF CustomerStep
  <2>2. side = "customer"
    BY <1>1 DEF CustomerStep
  <2> QED BY <2>1, <2>2, CustomerKeeps, ReportStep DEF CustomerSide
<1>2. CASE EmployeeStep \/ TableStep \/ EmployeesWork \/ CustomersPay \/ UNCHANGED pagesVars
  <2>1. /\ db' \in Seq(Doc) /\ Onward /\ UNCHANGED <<customerPage, side>>
        /\ side = "customer" => DOMAIN db' = DOMAIN db
    BY <1>2, OthersKeep DEF CustomerSide
  <2>2. CustomerInd'
    BY <2>1, QuietSteps DEF CustomerSide
  <2>3. side = "customer" => Reported'
    BY <2>1, ReportStays DEF CustomerSide, customerPage
  <2> QED BY <2>1, <2>2, <2>3 DEF CustomerSide
<1> QED BY <1>1, <1>2 DEF PagesNext

-----------------------------------------------------------------------------
(* An employee's page: the inductive invariant *)

AskShape(a) == [ kind |-> a.kind, mount |-> a.mount, customer |-> a.customer, n |-> a.n,
                 answer |-> a.answer, list |-> a.list ]

\* A request, and what the list of payments that answers it says.
AskOK(a) ==
  /\ a = AskShape(a)
  /\ a.mount \in 0 .. mount /\ a.answer \in {"none", "200", "500"}
  /\ a.kind = "accepted" /\ a.answer = "200" =>
       \A x \in a.list : x.p \in DOMAIN db /\ (x.status \in Accepted =>
                           db[x.p].again \/ (db[x.p].status \in Accepted /\ db[x.p].by = x.by))

\* A view asks for the archive once.
OneArchiveAsk ==
  \A a, b \in asks : a.kind = "accepted" /\ b.kind = "accepted" /\ a.mount = b.mount => a = b

AsksOK ==
  /\ staff \in Employee \cup {NoOne} /\ mount \in Nat /\ sent \in Nat
  /\ (\A a \in asks : AskOK(a)) /\ OneArchiveAsk

\* The details asked for last are those of the customer selected; once they have
\* come and nothing was overtaken, no others are under way.
Viewed == staff # NoOne /\ page = "customers"
Due(a) == a.kind = "details" /\ a.mount = mount

DetailsOK ==
  Viewed =>
    /\ \A a \in asks : Due(a) => a.n \in 1 .. sent /\ (a.n = sent => a.customer = selected)
    /\ \A a, b \in asks : Due(a) /\ Due(b) /\ a.n = b.n => a = b
    /\ selected # NoOne /\ ~crossed /\ (\A a \in asks : Due(a) => a.n # sent) =>
         details = selected /\ \A a \in asks : ~Due(a)

\* What the archive has shown stays the employee's, unless it is decided again.
Mine(e, p) == p \in DOMAIN db /\ (db[p].again \/ (db[p].by = e /\ db[p].status \in Accepted))

ArchivedOK ==
  /\ archived \in [ Employee -> SUBSET Nat ]
  /\ \A e \in Employee : \A p \in archived[e] : Mine(e, p)
  /\ staff # NoOne /\ page # "payments" => \A p \in accepted : Mine(staff, p)

\* It is in the list shown, and in an answer under way, or too old for them.
Excused(p) == p + Limit <= Len(db) \/ (p \in DOMAIN db /\ db[p].again)

CoveredOK ==
  staff # NoOne /\ page = "accepted" =>
    /\ ~archiving /\ ~toast => \A p \in archived[staff] : p \in accepted \/ Excused(p)
    /\ \A a \in asks : a.kind = "accepted" /\ a.mount = mount /\ a.answer = "200" =>
         \A p \in archived[staff] : p \in MyAccepted(a.list) \/ Excused(p)

EmployeeInd == AsksOK /\ SpinnerMeansFetch /\ DetailsOK /\ ArchivedOK /\ CoveredOK

EmployeeSide == db \in Seq(Doc) /\ EmployeeInd

-----------------------------------------------------------------------------
(* An employee's page: what steps keep *)

\* An answer that lists an approval stays true of what is not decided again.
LEMMA AskStays ==
  ASSUME NEW a, AskOK(a), Onward, mount \in Nat, mount' \in Nat, mount <= mount'
  PROVE  AskOK(a)'
BY DEF AskOK, Onward, Forward

\* An approval stays with the employee who gave it, or was decided over.
LEMMA MineStays ==
  ASSUME NEW e, NEW p, Mine(e, p), Onward
  PROVE  Mine(e, p)'
BY DEF Mine, Onward, Forward

\* What has dropped out of the newest payments does not come back.
LEMMA OldStays ==
  ASSUME NEW p \in Nat, Excused(p), Onward, db \in Seq(Doc), db' \in Seq(Doc)
  PROVE  Excused(p)'
<1>1. Len(db) \in Nat /\ Len(db') \in Nat /\ Len(db) <= Len(db')
  BY DEF Onward
<1>2. CASE p + Limit <= Len(db)
  BY <1>1, <1>2, StaffPagesAssumption DEF Excused
<1>3. CASE p \in DOMAIN db /\ db[p].again
  <2>1. p \in DOMAIN db' /\ db'[p].again
    BY <1>3 DEF Onward, Forward
  <2> QED BY <2>1 DEF Excused
<1> QED BY <1>2, <1>3 DEF Excused

\* Payments go on while the page rests.
LEMMA PageRests ==
  ASSUME EmployeeSide, db' \in Seq(Doc), Onward, UNCHANGED employeePage
  PROVE  EmployeeSide'
<1>0. UNCHANGED <<staff, page, mount, customers, listing, cursor, selected, details, detailing, sent, crossed,
                  accepted, archiving, opened, archived, toast, asks>>
  BY DEF employeePage, directory, archive
<1>1. AsksOK'
  <2>1. \A a \in asks : AskOK(a)'
    BY <1>0, AskStays DEF EmployeeSide, EmployeeInd, AsksOK
  <2> QED BY <1>0, <2>1 DEF EmployeeSide, EmployeeInd, AsksOK, OneArchiveAsk
<1>2. SpinnerMeansFetch' /\ DetailsOK'
  BY <1>0 DEF EmployeeSide, EmployeeInd, SpinnerMeansFetch, DetailsOK, Viewed, Due, Seen
<1>3. ArchivedOK'
  BY <1>0, MineStays DEF EmployeeSide, EmployeeInd, ArchivedOK
<1>4. CoveredOK'
  <2> SUFFICES ASSUME staff # NoOne, page = "accepted" PROVE CoveredOK'
    BY <1>0 DEF CoveredOK
  <2>1. \A p \in archived[staff] : p \in Nat
    BY DEF EmployeeSide, EmployeeInd, ArchivedOK, AsksOK
  <2>2. \A p \in archived[staff] : Excused(p) => Excused(p)'
    BY <2>1, OldStays DEF EmployeeSide
  <2>3. \A a \in asks : MyAccepted(a.list)' = MyAccepted(a.list)
    BY <1>0 DEF MyAccepted
  <2> QED BY <1>0, <2>2, <2>3 DEF EmployeeSide, EmployeeInd, CoveredOK
<1> QED BY <1>1, <1>2, <1>3, <1>4 DEF EmployeeSide, EmployeeInd

\* What is kept while the payments rest.
LEMMA Rests ==
  ASSUME db' = db
  PROVE  /\ \A e, p : Mine(e, p)' <=> Mine(e, p)
         /\ \A p : Excused(p)' <=> Excused(p)
BY DEF Mine, Excused

\* Nobody is shown a view that was left open by someone else.
LEMMA SignInOrLeave ==
  ASSUME EmployeeSide, (\E e \in Employee : StaffSignIn(e)) \/ StaffLeave
  PROVE  EmployeeSide'
<1>0. /\ staff' \in Employee \cup {NoOne} /\ (staff' = NoOne \/ page' = "payments")
      /\ UNCHANGED <<db, mount, sent, accepted, archived, asks>>
  BY DEF StaffSignIn, StaffLeave, directory, archive
<1>1. AsksOK'
  BY <1>0 DEF EmployeeSide, EmployeeInd, AsksOK, AskOK, OneArchiveAsk
<1>2. SpinnerMeansFetch' /\ DetailsOK' /\ ArchivedOK' /\ CoveredOK'
  BY <1>0 DEF EmployeeSide, EmployeeInd, SpinnerMeansFetch, DetailsOK, Viewed, ArchivedOK, CoveredOK, Mine
<1> QED BY <1>0, <1>1, <1>2 DEF EmployeeSide, EmployeeInd

\* A view that is opened is empty, and waits for one request of its own.
LEMMA OpenStep ==
  ASSUME EmployeeSide, NEW which \in {"payments", "customers", "accepted"}, Open(which)
  PROVE  EmployeeSide'
<1>0. /\ staff # NoOne /\ mount \in Nat /\ page' = which /\ mount' = mount + 1 /\ toast' = FALSE
      /\ selected' = NoOne /\ detailing' = FALSE /\ sent' = 0 /\ listing' = TRUE
      /\ accepted' = {} /\ archiving' = TRUE
      /\ UNCHANGED <<db, staff, archived>>
  BY DEF Open, DirectoryMounts, ArchiveMounts, EmployeeSide, EmployeeInd, AsksOK
<1>1. PICK d : d = Ask(which, mount', NoOne, 0)
  OBVIOUS
<1>2. /\ d = AskShape(d) /\ d.kind = which /\ d.mount = mount' /\ d.answer = "none"
  BY <1>1 DEF Ask, AskShape
<1>3. asks' = asks \cup (IF which = "payments" THEN {} ELSE {d})
  BY <1>1 DEF Open
<1>4. \A a \in asks : AskOK(a) /\ a.mount # mount'
  BY <1>0 DEF EmployeeSide, EmployeeInd, AsksOK, AskOK
<1>5. AsksOK'
  <2>1. \A a \in asks : AskOK(a)'
    BY <1>0, <1>4 DEF AskOK
  <2>2. AskOK(d)'
    BY <1>0, <1>2 DEF AskOK
  <2>3. OneArchiveAsk'
    BY <1>2, <1>3, <1>4 DEF EmployeeSide, EmployeeInd, AsksOK, OneArchiveAsk
  <2> QED BY <1>0, <1>3, <2>1, <2>2, <2>3 DEF EmployeeSide, EmployeeInd, AsksOK
<1>6. SpinnerMeansFetch'
  BY <1>0, <1>2, <1>3 DEF SpinnerMeansFetch, Seen
<1>7. DetailsOK'
  BY <1>0, <1>2, <1>3, <1>4 DEF DetailsOK, Viewed, Due
<1>8. ArchivedOK' /\ CoveredOK'
  BY <1>0, <1>2, <1>3, <1>4 DEF EmployeeSide, EmployeeInd, ArchivedOK, CoveredOK, Mine
<1> QED BY <1>0, <1>5, <1>6, <1>7, <1>8 DEF EmployeeSide, EmployeeInd

\* Details are asked for, once or twice.
LEMMA SelectStep ==
  ASSUME EmployeeSide, Viewed, NEW customer, NEW times \in {1, 2}, Select(customer, times),
         UNCHANGED <<db, staff, page, mount, listing, crossed, details, accepted, archiving, archived, toast>>
  PROVE  EmployeeSide'
<1>0. /\ selected' = customer /\ detailing' = TRUE /\ sent' = sent + times /\ sent \in Nat /\ mount \in Nat
      /\ asks' = asks \cup { Ask("details", mount, customer, n) : n \in sent + 1 .. sent + times }
      /\ page = "customers"
  BY DEF Select, AskedOf, EmployeeSide, EmployeeInd, AsksOK, Viewed
<1>1. \A a \in asks' \ asks :
        /\ a = AskShape(a) /\ a.kind = "details" /\ a.mount = mount /\ a.customer = customer
        /\ a.answer = "none" /\ a.n \in sent + 1 .. sent + times
  BY <1>0 DEF Ask, AskShape
<1>2. \A a, b \in asks' \ asks : a.n = b.n => a = b
  BY <1>0 DEF Ask
<1>3. \E a \in asks' : a.kind = "details" /\ a.mount = mount /\ a.n = sent'
  <2>1. PICK a : a = Ask("details", mount, customer, sent + times)
    OBVIOUS
  <2>2. a \in asks'
    BY <1>0, <2>1
  <2> QED BY <1>0, <2>1, <2>2 DEF Ask
<1>4. AsksOK'
  <2>1. \A a \in asks : AskOK(a)'
    BY DEF EmployeeSide, EmployeeInd, AsksOK, AskOK
  <2>2. \A a \in asks' \ asks : AskOK(a)'
    BY <1>0, <1>1 DEF AskOK
  <2>3. OneArchiveAsk'
    BY <1>0, <1>1 DEF EmployeeSide, EmployeeInd, AsksOK, OneArchiveAsk
  <2>4. staff' \in Employee \cup {NoOne} /\ mount' \in Nat /\ sent' \in Nat
    BY <1>0 DEF EmployeeSide, EmployeeInd, AsksOK
  <2> QED BY <2>1, <2>2, <2>3, <2>4 DEF AsksOK
<1>5. SpinnerMeansFetch'
  BY <1>0, <1>3 DEF SpinnerMeansFetch, Seen, EmployeeSide, EmployeeInd
<1>6. DetailsOK'
  <2>1. \A a \in asks : Due(a) => a.n \in 1 .. sent
    BY DEF EmployeeSide, EmployeeInd, DetailsOK
  <2>2. \A a \in asks' : Due(a) => a.n \in 1 .. sent' /\ (a.n = sent' => a.customer = selected')
    BY <1>0, <1>1, <2>1
  <2>3. \A a, b \in asks' : Due(a) /\ Due(b) /\ a.n = b.n => a = b
    BY <1>0, <1>1, <1>2, <2>1 DEF EmployeeSide, EmployeeInd, DetailsOK
  <2>4. \E a \in asks' : Due(a) /\ a.n = sent'
    BY <1>3 DEF Due
  <2> QED BY <2>2, <2>3, <2>4 DEF DetailsOK, Due
<1>7. ArchivedOK' /\ CoveredOK'
  BY <1>0 DEF EmployeeSide, EmployeeInd, ArchivedOK, CoveredOK, Mine
<1> QED BY <1>4, <1>5, <1>6, <1>7 DEF EmployeeSide, EmployeeInd

\* Steps that only look, and answers that come for a view that is gone.
LEMMA PageQuiet ==
  ASSUME EmployeeSide,
         Point \/ (\E p \in accepted \cup {0} : ShowPayment(p)) \/ (\E a \in asks : AskUnseen(a))
  PROVE  EmployeeSide'
<1>0. /\ asks' \subseteq asks /\ \A a \in asks \ asks' : ~Seen(a)
      /\ UNCHANGED <<db, staff, page, mount, listing, selected, details, detailing, sent, crossed,
                     accepted, archiving, archived, toast>>
  BY DEF Point, ShowPayment, AskUnseen, directory, archive
<1>1. AsksOK'
  BY <1>0 DEF EmployeeSide, EmployeeInd, AsksOK, AskOK, OneArchiveAsk
<1>2. SpinnerMeansFetch'
  BY <1>0 DEF EmployeeSide, EmployeeInd, SpinnerMeansFetch, Seen
<1>3. DetailsOK'
  BY <1>0 DEF EmployeeSide, EmployeeInd, DetailsOK, Viewed, Due, Seen
<1>4. ArchivedOK' /\ CoveredOK'
  <2>1. \A a : MyAccepted(a.list)' = MyAccepted(a.list)
    BY <1>0 DEF MyAccepted
  <2> QED BY <1>0, <2>1, Rests DEF EmployeeSide, EmployeeInd, ArchivedOK, CoveredOK
<1> QED BY <1>0, <1>1, <1>2, <1>3, <1>4 DEF EmployeeSide, EmployeeInd

\* A request is served or fails.
LEMMA ReplyStep ==
  ASSUME EmployeeSide, NEW a \in asks, a.answer = "none", NEW d, d = AskShape(d),
         d.kind = a.kind, d.mount = a.mount, d.customer = a.customer, d.n = a.n,
         asks' = (asks \ {a}) \cup {d}, AskOK(d)',
         d.kind = "accepted" /\ d.answer = "200" =>
           \A p : Mine(staff, p) => p \in MyAccepted(d.list) \/ Excused(p),
         UNCHANGED <<db, staff, page, mount, listing, selected, details, detailing, sent, crossed,
                     accepted, archiving, archived, toast>>
  PROVE  EmployeeSide'
<1>1. AsksOK'
  <2>1. \A b \in asks : AskOK(b)'
    BY DEF EmployeeSide, EmployeeInd, AsksOK, AskOK
  <2>2. OneArchiveAsk'
    BY DEF EmployeeSide, EmployeeInd, AsksOK, OneArchiveAsk
  <2> QED BY <2>1, <2>2 DEF EmployeeSide, EmployeeInd, AsksOK
<1>2. SpinnerMeansFetch'
  BY DEF EmployeeSide, EmployeeInd, SpinnerMeansFetch, Seen
<1>3. DetailsOK'
  BY DEF EmployeeSide, EmployeeInd, DetailsOK, Viewed, Due
<1>4. \A b : MyAccepted(b.list)' = MyAccepted(b.list)
  BY DEF MyAccepted
<1>5. ArchivedOK'
  BY Rests DEF EmployeeSide, EmployeeInd, ArchivedOK
<1>6. CoveredOK'
  <2> SUFFICES ASSUME staff # NoOne, page = "accepted" PROVE CoveredOK'
    BY DEF CoveredOK
  <2>1. \A p \in archived[staff] : Mine(staff, p)
    BY DEF EmployeeSide, EmployeeInd, ArchivedOK, AsksOK
  <2>2. \A b \in asks' : b.kind = "accepted" /\ b.mount = mount /\ b.answer = "200" =>
          \A p \in archived[staff] : p \in MyAccepted(b.list) \/ Excused(p)
    BY <2>1 DEF EmployeeSide, EmployeeInd, CoveredOK
  <2>3. ~archiving /\ ~toast => \A p \in archived[staff] : p \in accepted \/ Excused(p)
    BY DEF EmployeeSide, EmployeeInd, CoveredOK
  <2> QED BY <2>2, <2>3, <1>4, Rests DEF CoveredOK
<1> QED BY <1>1, <1>2, <1>3, <1>5, <1>6 DEF EmployeeSide, EmployeeInd

\* The newest payments: each as it is, and none left out that is not too old.
LEMMA NewestTrue ==
  ASSUME db \in Seq(Doc)
  PROVE  /\ \A x \in Newest : x.p \in DOMAIN db /\ x.status = db[x.p].status /\ x.by = db[x.p].by
         /\ \A p : Mine(staff, p) => p \in MyAccepted(Newest) \/ Excused(p)
<1>1. \A x \in Newest : x.p \in DOMAIN db /\ x.status = db[x.p].status /\ x.by = db[x.p].by
  BY DEF Newest
<1>2. ASSUME NEW p, Mine(staff, p), ~Excused(p)
      PROVE  p \in MyAccepted(Newest)
  <2>1. PICK x : x = [ p |-> p, status |-> db[p].status, by |-> db[p].by ]
    OBVIOUS
  <2>2. p \in DOMAIN db /\ p \in Nat /\ Len(db) \in Nat
    BY <1>2 DEF Mine
  <2>3. p + Limit > Len(db)
    BY <1>2, <2>2, StaffPagesAssumption DEF Excused
  <2>4. x \in Newest
    BY <2>1, <2>2, <2>3 DEF Newest
  <2>5. x.p = p /\ x.status \in Accepted /\ x.by = staff
    BY <1>2, <2>1 DEF Mine, Excused
  <2> QED BY <2>4, <2>5 DEF MyAccepted
<1> QED BY <1>1, <1>2

\* GET /employee/all and the two routes of customers, served or failing.
LEMMA ServeAskStep ==
  ASSUME EmployeeSide, NEW a \in asks, ServeAsk(a) \/ FailAsk(a)
  PROVE  EmployeeSide'
<1>0. /\ a.answer = "none" /\ AskOK(a) /\ a = AskShape(a) /\ mount \in Nat
      /\ UNCHANGED <<db, staff, page, mount, listing, selected, details, detailing, sent, crossed,
                     accepted, archiving, archived, toast>>
  BY DEF ServeAsk, FailAsk, directory, archive, EmployeeSide, EmployeeInd, AsksOK, AskOK
<1>1. PICK answer, list :
        /\ Reply(a, answer, list)
        /\ \/ answer = "200" /\ list = IF a.kind = "accepted" THEN Newest ELSE {}
           \/ answer = "500"
  BY DEF ServeAsk, FailAsk
<1>2. PICK d : d = [ a EXCEPT !.answer = answer, !.list = list ]
  OBVIOUS
<1>3. /\ d = AskShape(d) /\ d.kind = a.kind /\ d.mount = a.mount /\ d.customer = a.customer
      /\ d.n = a.n /\ d.answer = answer /\ d.list = list
  BY <1>0, <1>2 DEF AskShape
<1>4. asks' = (asks \ {a}) \cup {d}
  BY <1>1, <1>2 DEF Reply
<1>5. d.kind = "accepted" /\ d.answer = "200" => d.list = Newest
  BY <1>1, <1>3
<1>6. AskOK(d)'
  <2>1. \A x \in Newest : x.p \in DOMAIN db /\ x.status = db[x.p].status /\ x.by = db[x.p].by
    BY NewestTrue DEF EmployeeSide
  <2>2. answer \in {"200", "500"} /\ a.mount \in 0 .. mount
    BY <1>0, <1>1 DEF AskOK
  <2> QED BY <1>0, <1>3, <1>5, <2>1, <2>2 DEF AskOK
<1>7. d.kind = "accepted" /\ d.answer = "200" =>
        \A p : Mine(staff, p) => p \in MyAccepted(d.list) \/ Excused(p)
  BY <1>5, NewestTrue DEF EmployeeSide
<1> QED BY <1>0, <1>3, <1>4, <1>6, <1>7, ReplyStep

\* The list of customers has come, or a refusal.
LEMMA CustomersAnsweredStep ==
  ASSUME EmployeeSide, NEW a \in asks, CustomersAnswered(a)
  PROVE  EmployeeSide'
<1>0. /\ asks' = asks \ {a} /\ a.kind = "customers" /\ listing' = FALSE /\ (toast => toast')
      /\ UNCHANGED <<db, staff, page, mount, selected, details, detailing, sent, crossed,
                     accepted, archiving, archived>>
  BY DEF CustomersAnswered, Taken, archive
<1>1. AsksOK'
  BY <1>0 DEF EmployeeSide, EmployeeInd, AsksOK, AskOK, OneArchiveAsk
<1>2. SpinnerMeansFetch'
  BY <1>0 DEF EmployeeSide, EmployeeInd, SpinnerMeansFetch, Seen
<1>3. DetailsOK'
  BY <1>0 DEF EmployeeSide, EmployeeInd, DetailsOK, Viewed, Due
<1>4. ArchivedOK' /\ CoveredOK'
  <2>1. \A b : MyAccepted(b.list)' = MyAccepted(b.list)
    BY <1>0 DEF MyAccepted
  <2> QED BY <1>0, <2>1, Rests DEF EmployeeSide, EmployeeInd, ArchivedOK, CoveredOK
<1> QED BY <1>0, <1>1, <1>2, <1>3, <1>4 DEF EmployeeSide, EmployeeInd

\* fetchCustomerDetails: the details that come last of those asked for are the selected
\* customer's, unless they overtook others.
LEMMA DetailsAnsweredStep ==
  ASSUME EmployeeSide, NEW a \in asks, DetailsAnswered(a)
  PROVE  EmployeeSide'
<1>0. /\ asks' = asks \ {a} /\ a.kind = "details" /\ a.mount = mount /\ a.answer # "none"
      /\ detailing' = FALSE /\ (toast => toast')
      /\ details' = (IF a.answer = "200" THEN a.customer ELSE details)
      /\ crossed' = (crossed \/ a.answer = "500" 
                     \/ \E b \in asks' : b.kind = "details" /\ b.mount = mount /\ b.n < a.n)
      /\ UNCHANGED <<db, staff, page, mount, listing, selected, sent, accepted, archiving, archived>>
  BY DEF DetailsAnswered, Taken, archive, Seen
<1>10. a.answer \in {"200", "500"}
  BY <1>0 DEF EmployeeSide, EmployeeInd, AsksOK, AskOK
<1>1. AsksOK'
  BY <1>0 DEF EmployeeSide, EmployeeInd, AsksOK, AskOK, OneArchiveAsk
<1>2. SpinnerMeansFetch'
  BY <1>0 DEF EmployeeSide, EmployeeInd, SpinnerMeansFetch, Seen
<1>3. DetailsOK'
  <2> SUFFICES ASSUME Viewed PROVE DetailsOK'
    BY <1>0 DEF DetailsOK, Viewed
  <2>0. /\ sent \in Nat
        /\ \A b \in asks : Due(b) => b.n \in 1 .. sent /\ (b.n = sent => b.customer = selected)
        /\ \A b, c \in asks : Due(b) /\ Due(c) /\ b.n = c.n => b = c
        /\ selected # NoOne /\ ~crossed /\ (\A b \in asks : Due(b) => b.n # sent) =>
             details = selected /\ \A b \in asks : ~Due(b)
    BY DEF EmployeeSide, EmployeeInd, AsksOK, DetailsOK
  <2>1. Due(a)
    BY <1>0 DEF Due
  <2>2. ASSUME selected # NoOne, ~crossed', \A b \in asks' : Due(b) => b.n # sent
        PROVE  details' = selected /\ \A b \in asks' : ~Due(b)
    <3>1. a.n = sent
      BY <1>0, <2>0, <2>1, <2>2
    <3>2. a.answer = "200" => details' = selected
      BY <1>0, <2>0, <2>1, <3>1
    <3>3. \A b \in asks' : Due(b) => b.n < a.n
      BY <1>0, <2>0, <2>2, <3>1
    <3> QED BY <1>0, <1>10, <2>2, <3>2, <3>3 DEF Due
  <2> QED BY <1>0, <2>0, <2>2 DEF DetailsOK, Due
<1>4. ArchivedOK' /\ CoveredOK'
  <2>1. \A b : MyAccepted(b.list)' = MyAccepted(b.list)
    BY <1>0 DEF MyAccepted
  <2> QED BY <1>0, <2>1, Rests DEF EmployeeSide, EmployeeInd, ArchivedOK, CoveredOK
<1> QED BY <1>0, <1>1, <1>2, <1>3, <1>4 DEF EmployeeSide, EmployeeInd

\* fetchAcceptedPayments: what the list leaves out of what was shown is too old for it.
LEMMA AcceptedAnsweredStep ==
  ASSUME EmployeeSide, NEW a \in asks, AcceptedAnswered(a)
  PROVE  EmployeeSide'
<1>0. /\ asks' = asks \ {a} /\ a.kind = "accepted" /\ a.mount = mount /\ a.answer # "none"
      /\ staff \in Employee /\ page # "payments" /\ archiving' = FALSE
      /\ accepted' = (IF a.answer = "200" THEN MyAccepted(a.list) ELSE accepted)
      /\ archived' = [archived EXCEPT ![staff] = @ \cup accepted']
      /\ toast' = (toast \/ a.answer = "500")
      /\ UNCHANGED <<db, staff, page, mount, listing, selected, details, detailing, sent, crossed>>
  BY DEF AcceptedAnswered, Taken, directory, Seen, EmployeeSide, EmployeeInd, AsksOK
<1>10. a.answer \in {"200", "500"}
  BY <1>0 DEF EmployeeSide, EmployeeInd, AsksOK, AskOK
<1>1. AsksOK'
  BY <1>0 DEF EmployeeSide, EmployeeInd, AsksOK, AskOK, OneArchiveAsk
<1>2. SpinnerMeansFetch'
  BY <1>0 DEF EmployeeSide, EmployeeInd, SpinnerMeansFetch, Seen
<1>3. DetailsOK'
  BY <1>0 DEF EmployeeSide, EmployeeInd, DetailsOK, Viewed, Due
<1>11. staff # NoOne
  BY <1>0, DataAssumption
<1>4. \A p \in accepted' : Mine(staff, p)
  <2>1. a.answer = "200" => \A p \in MyAccepted(a.list) : Mine(staff, p)
    BY <1>0 DEF MyAccepted, Mine, EmployeeSide, EmployeeInd, AsksOK, AskOK
  <2> QED BY <1>0, <1>11, <2>1 DEF EmployeeSide, EmployeeInd, ArchivedOK
<1>5. ArchivedOK'
  <2>1. archived \in [ Employee -> SUBSET Nat ] /\ \A e \in Employee : \A p \in archived[e] : Mine(e, p)
    BY DEF EmployeeSide, EmployeeInd, ArchivedOK
  <2>2. accepted' \subseteq Nat
    BY <1>4 DEF Mine, EmployeeSide
  <2>3. \A e \in Employee : archived'[e] = IF e = staff THEN archived[e] \cup accepted' ELSE archived[e]
    BY <1>0, <2>1
  <2>4. archived' \in [ Employee -> SUBSET Nat ]
    BY <1>0, <2>1, <2>2
  <2>5. \A e \in Employee : \A p \in archived'[e] : Mine(e, p)
    BY <1>4, <2>1, <2>3
  <2> QED BY <1>0, <1>4, <2>4, <2>5, Rests DEF ArchivedOK
<1>6. CoveredOK'
  <2> SUFFICES ASSUME page = "accepted" PROVE CoveredOK'
    BY <1>0 DEF CoveredOK
  <2>1. archived'[staff] = archived[staff] \cup accepted'
    BY <1>0 DEF EmployeeSide, EmployeeInd, ArchivedOK
  <2>2. \A b \in asks' : ~(b.kind = "accepted" /\ b.mount = mount)
    BY <1>0 DEF EmployeeSide, EmployeeInd, AsksOK, OneArchiveAsk
  <2>4. a.answer = "200" => \A p \in archived[staff] : p \in accepted' \/ Excused(p)
    BY <1>0, <1>11 DEF EmployeeSide, EmployeeInd, CoveredOK
  <2>5. a.answer \in {"200", "500"} => (~toast' => \A p \in archived'[staff] : p \in accepted' \/ Excused(p))
    BY <1>0, <2>1, <2>4
  <2> QED BY <1>0, <1>10, <2>2, <2>5, Rests DEF CoveredOK
<1> QED BY <1>0, <1>1, <1>2, <1>3, <1>5, <1>6 DEF EmployeeSide, EmployeeInd

-----------------------------------------------------------------------------
(* The table: lists, and the rows kept of them *)

\* The n-th place, for n up to their number, is a place; each is one of these; no two of
\* these are the same, and they come in their order.
LEMMA PlacesInOrder ==
  ASSUME NEW top \in Nat, NEW places \in SUBSET (1 .. top)
  PROVE  /\ Cardinality(places) \in 0 .. top
         /\ \A n \in 1 .. Cardinality(places) : PlaceOf(places, n) \in places
         /\ \A i \in places : \E n \in 1 .. Cardinality(places) : PlaceOf(places, n) = i
         /\ \A m, n \in 1 .. Cardinality(places) : PlaceOf(places, m) = PlaceOf(places, n) => m = n
         /\ \A m, n \in 1 .. Cardinality(places) : m < n => PlaceOf(places, m) < PlaceOf(places, n)
<1> DEFINE UpTo(i) == { j \in places : j <= i }
           Rank == [ i \in places |-> Cardinality(UpTo(i)) ]
<1>1. IsFiniteSet(places) /\ Cardinality(places) \in 0 .. top
  <2>1. IsFiniteSet(1 .. top) /\ Cardinality(1 .. top) = top
    BY FS_Interval
  <2>2. IsFiniteSet(places) /\ Cardinality(places) <= top
    BY <2>1, FS_Subset
  <2> QED BY <2>2, FS_CardinalityType
<1>2. \A i \in places : UpTo(i) \in SUBSET places /\ i \in UpTo(i)
  OBVIOUS
<1>3. \A i \in places : IsFiniteSet(UpTo(i)) /\ Cardinality(UpTo(i)) \in 1 .. Cardinality(places)
  <2> SUFFICES ASSUME NEW i \in places
               PROVE  IsFiniteSet(UpTo(i)) /\ Cardinality(UpTo(i)) \in 1 .. Cardinality(places)
    OBVIOUS
  <2>1. IsFiniteSet(UpTo(i)) /\ Cardinality(UpTo(i)) <= Cardinality(places)
    BY <1>1, <1>2, FS_Subset
  <2>2. Cardinality(UpTo(i)) \in Nat /\ Cardinality(UpTo(i)) # 0
    BY <1>2, <2>1, FS_CardinalityType, FS_EmptySet
  <2> HIDE DEF UpTo
  <2> QED BY <1>1, <2>1, <2>2
<1>4. \A i, k \in places : Cardinality(UpTo(i)) = Cardinality(UpTo(k)) => i = k
  <2>0. \A i \in places : i \in Int
    OBVIOUS
  <2>1. ASSUME NEW i \in places, NEW k \in places, i <= k, Cardinality(UpTo(i)) = Cardinality(UpTo(k))
        PROVE  i = k
    <3>0. i \in Int /\ k \in Int /\ i <= k /\ \A j \in places : j \in Int
      BY <2>0, <2>1
    <3>1. \A j \in places : j <= i => j <= k
      BY <3>0
    <3>2. UpTo(i) \in SUBSET UpTo(k)
      BY <3>1
    <3>3. UpTo(i) = UpTo(k)
      BY <1>3, <2>1, <3>2, FS_Subset
    <3> QED BY <1>2, <2>1, <3>3
  <2> HIDE DEF UpTo
  <2> QED BY <2>0, <2>1
<1>5. Rank \in Injection(places, 1 .. Cardinality(places))
  <2> HIDE DEF UpTo
  <2> QED BY <1>3, <1>4 DEF Injection, IsInjective
<1>6. Rank \in Surjection(places, 1 .. Cardinality(places))
  <2>1. /\ IsFiniteSet(1 .. Cardinality(places))
        /\ Cardinality(1 .. Cardinality(places)) = Cardinality(places)
    BY <1>1, FS_Interval
  <2> QED BY <1>5, <2>1, FS_Injection
<1>7. \A n \in 1 .. Cardinality(places) : \E i \in places : Cardinality(UpTo(i)) = n
  <2> HIDE DEF UpTo
  <2> QED BY <1>6 DEF Surjection
<1>8. \A n \in 1 .. Cardinality(places) :
        PlaceOf(places, n) \in places /\ Cardinality(UpTo(PlaceOf(places, n))) = n
  BY <1>7 DEF PlaceOf
<1>9. \A i \in places : PlaceOf(places, Cardinality(UpTo(i))) = i
  <2> SUFFICES ASSUME NEW i \in places PROVE PlaceOf(places, Cardinality(UpTo(i))) = i
    OBVIOUS
  <2>1. Cardinality(UpTo(i)) \in 1 .. Cardinality(places)
    BY <1>3
  <2> HIDE DEF UpTo
  <2> QED BY <1>4, <1>8, <2>1
<1>10. \A m, n \in 1 .. Cardinality(places) : m < n => PlaceOf(places, m) < PlaceOf(places, n)
  <2> SUFFICES ASSUME NEW m \in 1 .. Cardinality(places), NEW n \in 1 .. Cardinality(places), m < n
               PROVE  PlaceOf(places, m) < PlaceOf(places, n)
    OBVIOUS
  <2>1. PICK i \in places, k \in places : i = PlaceOf(places, m) /\ k = PlaceOf(places, n)
    BY <1>8
  <2>2. Cardinality(UpTo(i)) = m /\ Cardinality(UpTo(k)) = n
    BY <1>8, <2>1
  <2>3. i \in Int /\ k \in Int /\ \A j \in places : j \in Int
    OBVIOUS
  <2>4. k <= i => UpTo(k) \in SUBSET UpTo(i)
    <3>1. k <= i => \A j \in places : j <= k => j <= i
      BY <2>3
    <3> QED BY <3>1
  <2>5. k <= i => Cardinality(UpTo(k)) <= Cardinality(UpTo(i))
    BY <1>3, <2>4, FS_Subset
  <2> HIDE DEF UpTo
  <2> QED BY <1>1, <2>1, <2>2, <2>3, <2>5
<1> HIDE DEF UpTo
<1> QED BY <1>1, <1>3, <1>8, <1>9, <1>10

\* A list of different payments, no longer than there are payments.
Listing(list) ==
  /\ list \in Seq(DOMAIN db) /\ Len(list) <= Len(db)
  /\ \A i, j \in DOMAIN list : list[i] = list[j] => i = j

\* What is kept of a list: its entries that are in the set, none of them twice.
LEMMA KeptOf ==
  ASSUME db \in Seq(Doc), NEW list, Listing(list), NEW S
  PROVE  /\ Listing(Kept(list, S)) /\ Len(Kept(list, S)) <= Len(list)
         /\ \A i \in DOMAIN Kept(list, S) : Kept(list, S)[i] \in S /\ \E j \in DOMAIN list : list[j] = Kept(list, S)[i]
         /\ \A j \in DOMAIN list : list[j] \in S => \E i \in DOMAIN Kept(list, S) : Kept(list, S)[i] = list[j]
<1> DEFINE places == { i \in DOMAIN list : list[i] \in S }
<1>1. Len(list) \in Nat /\ places \in SUBSET (1 .. Len(list)) /\ Len(list) <= Len(db) /\ Len(db) \in Nat
  BY DEF Listing
<1>2. \A i \in places : i \in DOMAIN list /\ list[i] \in DOMAIN db \cap S
  BY DEF Listing
<1>3. \A j \in DOMAIN list : list[j] \in S => j \in places
  OBVIOUS
<1>4. /\ Cardinality(places) \in 0 .. Len(list)
      /\ \A n \in 1 .. Cardinality(places) : PlaceOf(places, n) \in places
      /\ \A i \in places : \E n \in 1 .. Cardinality(places) : PlaceOf(places, n) = i
      /\ \A m, n \in 1 .. Cardinality(places) : PlaceOf(places, m) = PlaceOf(places, n) => m = n
  <2> HIDE DEF places
  <2> QED BY <1>1, PlacesInOrder
<1>5. Kept(list, S) = [ n \in 1 .. Cardinality(places) |-> list[PlaceOf(places, n)] ]
  BY DEF Kept, Picked
<1> HIDE DEF places
<1> PICK kept : kept = Kept(list, S)
  OBVIOUS
<1>6. /\ kept \in Seq(DOMAIN db) /\ Len(kept) = Cardinality(places) /\ DOMAIN kept = 1 .. Cardinality(places)
      /\ \A n \in 1 .. Cardinality(places) : kept[n] = list[PlaceOf(places, n)]
  <2>1. Cardinality(places) \in Nat
    BY <1>1, <1>4
  <2>2. kept \in [ 1 .. Cardinality(places) -> DOMAIN db ]
    BY <1>2, <1>4, <1>5
  <2> QED BY <1>5, <2>1, <2>2
<1>7. \A m, n \in DOMAIN kept : kept[m] = kept[n] => m = n
  BY <1>2, <1>4, <1>6 DEF Listing
<1>8. Listing(kept) /\ Len(kept) <= Len(list)
  BY <1>1, <1>4, <1>6, <1>7 DEF Listing
<1>9. \A i \in DOMAIN kept : kept[i] \in S /\ \E j \in DOMAIN list : list[j] = kept[i]
  BY <1>2, <1>4, <1>6
<1>10. \A j \in DOMAIN list : list[j] \in S => \E i \in DOMAIN kept : kept[i] = list[j]
  BY <1>3, <1>4, <1>6
<1> QED BY <1>8, <1>9, <1>10

-----------------------------------------------------------------------------
(* What the passes of the sanitizer leave of a text *)

\* The places that are left, and the one an entry comes from.
Left(text, positions) == DOMAIN text \ positions
CameFrom(text, positions, n) == PlaceOf(Left(text, positions), n)

\* What is left are entries of the text, in their order, and all that are not deleted.
LEMMA WithoutOf ==
  ASSUME NEW S, NEW text \in Seq(S), NEW positions
  PROVE  /\ Without(text, positions) \in Seq(S) /\ Len(Without(text, positions)) <= Len(text)
         /\ \A n \in DOMAIN Without(text, positions) :
              /\ CameFrom(text, positions, n) \in Left(text, positions)
              /\ Without(text, positions)[n] = text[CameFrom(text, positions, n)]
         /\ \A i \in Left(text, positions) :
              \E n \in DOMAIN Without(text, positions) : CameFrom(text, positions, n) = i
         /\ \A m, n \in DOMAIN Without(text, positions) :
              m < n => CameFrom(text, positions, m) < CameFrom(text, positions, n)
<1>1. PICK places : places = Left(text, positions)
  OBVIOUS
<1>2. Len(text) \in Nat /\ places \in SUBSET (1 .. Len(text)) /\ \A i \in places : text[i] \in S
  BY <1>1 DEF Left
<1>3. /\ Cardinality(places) \in 0 .. Len(text)
      /\ \A n \in 1 .. Cardinality(places) : PlaceOf(places, n) \in places
      /\ \A i \in places : \E n \in 1 .. Cardinality(places) : PlaceOf(places, n) = i
      /\ \A m, n \in 1 .. Cardinality(places) : m < n => PlaceOf(places, m) < PlaceOf(places, n)
  BY <1>2, PlacesInOrder
<1>4. PICK rest : rest = Without(text, positions)
  OBVIOUS
<1>5. rest = [ n \in 1 .. Cardinality(places) |-> text[PlaceOf(places, n)] ]
  BY <1>1, <1>4 DEF Without, Picked, Left
<1>6. rest \in [ 1 .. Cardinality(places) -> S ]
  BY <1>2, <1>3, <1>5
<1>7. rest \in Seq(S) /\ Len(rest) = Cardinality(places) /\ DOMAIN rest = 1 .. Cardinality(places)
  BY <1>3, <1>6
<1>8. \A n \in DOMAIN rest : rest[n] = text[PlaceOf(places, n)]
  BY <1>5, <1>7
<1>9. Len(rest) <= Len(text)
  BY <1>2, <1>3, <1>7
<1>10. \A n : CameFrom(text, positions, n) = PlaceOf(places, n)
  BY <1>1 DEF CameFrom
<1>11. \A n \in DOMAIN rest :
         CameFrom(text, positions, n) \in places /\ rest[n] = text[CameFrom(text, positions, n)]
  BY <1>3, <1>7, <1>8, <1>10
<1>12. \A i \in places : \E n \in DOMAIN rest : CameFrom(text, positions, n) = i
  BY <1>3, <1>7, <1>10
<1>13. \A m, n \in DOMAIN rest :
         m < n => CameFrom(text, positions, m) < CameFrom(text, positions, n)
  BY <1>3, <1>7, <1>10
<1> QED BY <1>1, <1>4, <1>7, <1>9, <1>11, <1>12, <1>13

\* Where nothing is deleted the text stays.
LEMMA NothingDeleted ==
  ASSUME NEW S, NEW text \in Seq(S), NEW positions, positions \cap DOMAIN text = {}
  PROVE  Without(text, positions) = text
<1>1. PICK top \in Nat : top = Len(text) /\ DOMAIN text = 1 .. top
  OBVIOUS
<1>2. DOMAIN text \ positions = 1 .. top
  BY <1>1
<1>3. Cardinality(1 .. top) = top
  BY FS_Interval
<1>4. \A i \in 1 .. top : Cardinality({ j \in 1 .. top : j <= i }) = i
  <2> SUFFICES ASSUME NEW i \in 1 .. top PROVE Cardinality({ j \in 1 .. top : j <= i }) = i
    OBVIOUS
  <2>1. { j \in 1 .. top : j <= i } = 1 .. i
    OBVIOUS
  <2>2. Cardinality(1 .. i) = i
    BY FS_Interval
  <2> QED BY <2>1, <2>2
<1>5. \A n \in 1 .. top : PlaceOf(1 .. top, n) = n
  BY <1>4 DEF PlaceOf
<1>6. Without(text, positions) = [ n \in 1 .. top |-> text[PlaceOf(1 .. top, n)] ]
  BY <1>2, <1>3 DEF Without, Picked
<1>7. Without(text, positions) = [ n \in 1 .. top |-> text[n] ]
  BY <1>5, <1>6
<1> QED BY <1>1, <1>7

\* What is left when something is deleted, once and again.
LEMMA WithoutParts ==
  ASSUME NEW S, NEW text \in Seq(S), NEW positions
  PROVE  Without(text, positions) \in Seq(S) /\ PartsOf(Without(text, positions), text)
<1>1. PICK rest, from : /\ rest = Without(text, positions)
                        /\ from = [ n \in DOMAIN rest |-> CameFrom(text, positions, n) ]
  OBVIOUS
<1>2. /\ rest \in Seq(S)
      /\ \A n \in DOMAIN rest : from[n] \in DOMAIN text /\ rest[n] = text[from[n]]
      /\ \A m, n \in DOMAIN rest : m < n => from[m] < from[n]
  BY <1>1, WithoutOf DEF Left
<1>3. from \in [ DOMAIN rest -> DOMAIN text ]
  BY <1>1, <1>2
<1> QED BY <1>1, <1>2, <1>3 DEF PartsOf

LEMMA PartsOfParts ==
  ASSUME NEW first, NEW second, NEW third, PartsOf(first, second), PartsOf(second, third)
  PROVE  PartsOf(first, third)
<1>1. PICK f \in [ DOMAIN first -> DOMAIN second ] :
        /\ \A n \in DOMAIN first : first[n] = second[f[n]]
        /\ \A m, n \in DOMAIN first : m < n => f[m] < f[n]
  BY DEF PartsOf
<1>2. PICK g \in [ DOMAIN second -> DOMAIN third ] :
        /\ \A n \in DOMAIN second : second[n] = third[g[n]]
        /\ \A m, n \in DOMAIN second : m < n => g[m] < g[n]
  BY DEF PartsOf
<1>3. PICK h : h = [ n \in DOMAIN first |-> g[f[n]] ]
  OBVIOUS
<1>4. h \in [ DOMAIN first -> DOMAIN third ]
  BY <1>1, <1>2, <1>3
<1>5. \A n \in DOMAIN first : first[n] = third[h[n]]
  BY <1>1, <1>2, <1>3
<1>6. \A m, n \in DOMAIN first : m < n => h[m] < h[n]
  BY <1>1, <1>2, <1>3
<1> QED BY <1>4, <1>5, <1>6 DEF PartsOf

\* One pass after the other.
LEMMA InTurn ==
  ASSUME NEW text
  PROVE  /\ sanitizeInput(text) =
              Trim(Encode(DropLateWords(DropDelays(DropDashPairs(DropKeywords(text))))))
         /\ Validated(text) = Trim(sanitizeInput(text))
<1>1. PICK words : words = DropKeywords(text)
  OBVIOUS
<1>2. PICK dashes : dashes = DropDashPairs(words)
  OBVIOUS
<1>3. PICK delays : delays = DropDelays(dashes)
  OBVIOUS
<1>4. PICK late : late = DropLateWords(delays)
  OBVIOUS
<1>5. PICK encoded : encoded = Encode(late)
  OBVIOUS
<1>6. PICK cleaned : cleaned = sanitizeInput(text)
  OBVIOUS
<1>7. /\ Pass(DropKeywords, text) = words /\ Pass(DropDashPairs, words) = dashes
      /\ Pass(DropDelays, dashes) = delays /\ Pass(DropLateWords, delays) = late
  BY <1>1, <1>2, <1>3, <1>4 DEF Pass
<1>8. /\ Pass(Encode, late) = encoded /\ Pass(Trim, encoded) = Trim(encoded)
      /\ Pass(Trim, cleaned) = Trim(cleaned)
  BY <1>5 DEF Pass
<1>9. sanitizeInput(text) = Trim(encoded)
  BY <1>7, <1>8 DEF sanitizeInput
<1> QED BY <1>1, <1>2, <1>3, <1>4, <1>5, <1>6, <1>8, <1>9 DEF Validated

\* What the passes that only delete make of a text.
LEMMA Shortened ==
  ASSUME NEW S, NEW text \in Seq(S)
  PROVE  /\ DropKeywords(text) \in Seq(S) /\ PartsOf(DropKeywords(text), text)
         /\ DropDashPairs(text) \in Seq(S) /\ PartsOf(DropDashPairs(text), text)
         /\ DropDelays(text) \in Seq(S) /\ PartsOf(DropDelays(text), text)
         /\ DropLateWords(text) \in Seq(S) /\ PartsOf(DropLateWords(text), text)
         /\ Trim(text) \in Seq(S) /\ PartsOf(Trim(text), text)
BY WithoutParts DEF DropKeywords, DropDashPairs, DropDelays, DropLateWords, Trim

\* All that is deleted before a text is encoded.
Deleted(text) == DropLateWords(DropDelays(DropDashPairs(DropKeywords(text))))

LEMMA DeletedParts ==
  ASSUME NEW S, NEW text \in Seq(S)
  PROVE  Deleted(text) \in Seq(S) /\ PartsOf(Deleted(text), text)
<1>1. PICK words : words = DropKeywords(text)
  OBVIOUS
<1>2. PICK dashes : dashes = DropDashPairs(words)
  OBVIOUS
<1>3. PICK delays : delays = DropDelays(dashes)
  OBVIOUS
<1>4. PICK late : late = DropLateWords(delays)
  OBVIOUS
<1>5. words \in Seq(S) /\ PartsOf(words, text)
  BY <1>1, Shortened
<1>6. dashes \in Seq(S) /\ PartsOf(dashes, words)
  BY <1>2, <1>5, Shortened
<1>7. delays \in Seq(S) /\ PartsOf(delays, dashes)
  BY <1>3, <1>6, Shortened
<1>8. late \in Seq(S) /\ PartsOf(late, delays)
  BY <1>4, <1>7, Shortened
<1>9. PartsOf(dashes, text)
  BY <1>5, <1>6, PartsOfParts
<1>10. PartsOf(delays, text)
  BY <1>7, <1>9, PartsOfParts
<1>11. PartsOf(late, text)
  BY <1>8, <1>10, PartsOfParts
<1> QED BY <1>1, <1>2, <1>3, <1>4, <1>8, <1>11 DEF Deleted

\* Encoding leaves no apostrophe, and letters, spaces and hyphens as they are.
Plain == Letters \cup {" ", "-"}

LEMMA Encoding ==
  ASSUME NEW S, NEW text \in Seq(S)
  PROVE  /\ Len(Encode(text)) = Len(text)
         /\ Encode(text) \in Seq((S \cup {Encoded, "#x27"}) \ {"'"})
         /\ \A n \in DOMAIN text : Encode(text)[n] \in Plain => Encode(text)[n] = text[n]
         /\ S \subseteq Plain => Encode(text) = text
<1>1. PICK top \in Nat : top = Len(text) /\ DOMAIN text = 1 .. top
  OBVIOUS
<1>2. PICK coded : coded = Encode(text)
  OBVIOUS
<1>3. coded = [ i \in 1 .. top |-> CASE text[i] = "'" -> Encoded
                                    [] text[i] = Encoded -> "#x27"
                                    [] OTHER -> text[i] ]
  BY <1>1, <1>2 DEF Encode
<1>4. \A i \in 1 .. top : text[i] \in S
  BY <1>1
<1>5. \A i \in 1 .. top : coded[i] \in (S \cup {Encoded, "#x27"}) \ {"'"}
  BY <1>3, <1>4 DEF Encoded
<1>6. coded \in [ 1 .. top -> (S \cup {Encoded, "#x27"}) \ {"'"} ]
  BY <1>3, <1>5
<1>7. coded \in Seq((S \cup {Encoded, "#x27"}) \ {"'"}) /\ Len(coded) = top
  BY <1>6
<1>8. ASSUME S \subseteq Plain PROVE coded = text
  <2>1. \A i \in 1 .. top : text[i] # "'" /\ text[i] # Encoded
    BY <1>4, <1>8 DEF Plain, Letters, Encoded
  <2>2. \A i \in 1 .. top : coded[i] = text[i]
    BY <1>3, <2>1
  <2>3. coded = [ i \in 1 .. top |-> coded[i] ] /\ text = [ i \in 1 .. top |-> text[i] ]
    BY <1>1, <1>3
  <2> QED BY <2>2, <2>3
<1>9. \A n \in 1 .. top : coded[n] \in Plain => coded[n] = text[n]
  <2>1. Encoded \notin Plain /\ "#x27" \notin Plain
    BY DEF Plain, Letters, Encoded
  <2> QED BY <1>3, <2>1
<1> QED BY <1>1, <1>2, <1>7, <1>8, <1>9

\* Trimming leaves no space at an end.
LEMMA Trimmed ==
  ASSUME NEW S, NEW text \in Seq(S), Trim(text) # << >>
  PROVE  Trim(text)[1] # " " /\ Trim(text)[Len(Trim(text))] # " "
<1>1. PICK gone : gone = { i \in DOMAIN text : \/ \A j \in 1 .. i : text[j] = " "
                                              \/ \A j \in i .. Len(text) : text[j] = " " }
  OBVIOUS
<1>2. PICK rest, from : /\ rest = Without(text, gone)
                        /\ from = [ n \in DOMAIN rest |-> CameFrom(text, gone, n) ]
  OBVIOUS
<1>3. Trim(text) = rest
  BY <1>1, <1>2 DEF Trim
<1>4. /\ rest \in Seq(S)
      /\ \A n \in DOMAIN rest : from[n] \in DOMAIN text /\ from[n] \notin gone /\ rest[n] = text[from[n]]
      /\ \A i \in DOMAIN text : i \notin gone => \E n \in DOMAIN rest : from[n] = i
      /\ \A m, n \in DOMAIN rest : m < n => from[m] < from[n]
  BY <1>2, WithoutOf DEF Left
<1>5. PICK top \in Nat, size \in Nat : /\ DOMAIN text = 1 .. top /\ top = Len(text)
                                      /\ DOMAIN rest = 1 .. size /\ size = Len(rest) /\ size > 0
  BY <1>3, <1>4
<1>6. \A i \in 1 .. top : i \notin gone <=> /\ \E j \in 1 .. i : text[j] # " "
                                           /\ \E j \in i .. top : text[j] # " "
  BY <1>1, <1>5
<1>7. PICK first \in 1 .. top, last \in 1 .. top :
        /\ first = from[1] /\ first \notin gone /\ rest[1] = text[first]
        /\ last = from[size] /\ last \notin gone /\ rest[size] = text[last]
  <2>1. 1 \in DOMAIN rest /\ size \in DOMAIN rest
    BY <1>5
  <2> QED BY <1>4, <1>5, <2>1
<1>8. \A i \in 1 .. top : i \notin gone => first <= i /\ i <= last
  <2> SUFFICES ASSUME NEW i \in 1 .. top, i \notin gone PROVE first <= i /\ i <= last
    OBVIOUS
  <2>1. PICK n \in 1 .. size : from[n] = i
    BY <1>4, <1>5
  <2>2. n \in 1 .. size /\ 1 \in 1 .. size /\ size \in 1 .. size /\ (n = 1 \/ 1 < n) /\ (n = size \/ n < size)
    <3>1. size > 0
      BY <1>5
    <3> QED BY <3>1
  <2>3. n = 1 \/ first < i
    BY <1>4, <1>5, <1>7, <2>1, <2>2
  <2>4. n = size \/ i < last
    BY <1>4, <1>5, <1>7, <2>1, <2>2
  <2> QED BY <1>7, <2>1, <2>3, <2>4
<1>9. text[first] # " " /\ text[last] # " "
  <2>1. ASSUME NEW i \in 1 .. top, NEW j \in 1 .. top, i <= j, text[i] # " ", text[j] # " "
        PROVE  i \notin gone /\ j \notin gone
    <3>1. i <= j
      BY <2>1
    <3>2. i \in 1 .. i /\ j \in i .. top /\ i \in 1 .. j /\ j \in j .. top
      BY <3>1
    <3> QED BY <1>6, <2>1, <3>2
  <2>2. PICK j \in 1 .. first, k \in first .. top : text[j] # " " /\ text[k] # " "
    BY <1>6, <1>7
  <2>3. j \in 1 .. top /\ k \in 1 .. top /\ j <= k
    OBVIOUS
  <2>4. first <= j
    BY <1>8, <2>1, <2>2, <2>3
  <2>5. j = first
    BY <2>4
  <2>6. PICK m \in 1 .. last, l \in last .. top : text[m] # " " /\ text[l] # " "
    BY <1>6, <1>7
  <2>7. m \in 1 .. top /\ l \in 1 .. top /\ m <= l
    OBVIOUS
  <2>8. l <= last
    BY <1>8, <2>1, <2>6, <2>7
  <2>9. l = last
    BY <2>8
  <2> QED BY <2>2, <2>5, <2>6, <2>9
<1> QED BY <1>3, <1>5, <1>7, <1>9

\* An ordinary name goes through every pass as it is.
LEMMA OrdinaryStays ==
  ASSUME NEW text \in Seq(Plain), Ordinary(text)
  PROVE  sanitizeInput(text) = text /\ Trim(text) = text
<1>1. PICK top \in Nat : top = Len(text) /\ DOMAIN text = 1 .. top
  OBVIOUS
<1>2. /\ top > 0 /\ text[1] # " " /\ text[top] # " "
      /\ \A i \in 1 .. top : ~KeywordAt(text, i) /\ ~LateWordAt(text, i) /\ ~DelayAt(text, i)
      /\ \A i \in 1 .. top : ~(text[i] = "-" /\ PartAt(text, i + 1) = "-")
  <2>1. text # << >> /\ text[1] \in Letters /\ text[top] \in Letters
    BY <1>1 DEF Ordinary
  <2>2. top > 0
    BY <1>1, <2>1
  <2>3. text[1] # " " /\ text[top] # " "
    BY <2>1 DEF Letters
  <2>4. /\ \A i \in 1 .. top : ~KeywordAt(text, i) /\ ~LateWordAt(text, i) /\ ~DelayAt(text, i)
        /\ \A i \in 1 .. top : ~(text[i] = "-" /\ PartAt(text, i + 1) = "-")
    BY <1>1 DEF Ordinary
  <2> QED BY <2>2, <2>3, <2>4
<1>3. DropKeywords(text) = text
  <2>1. { j \in DOMAIN text : KeywordAt(text, j) } = {}
    BY <1>1, <1>2
  <2>2. UNION { {i, i + 1} : i \in { j \in DOMAIN text : KeywordAt(text, j) } } = {}
    BY <2>1
  <2> QED BY <2>2, NothingDeleted DEF DropKeywords
<1>4. DropDashPairs(text) = text
  <2>1. ASSUME NEW i \in 1 .. top, text[i] = "-", DashesBefore(text, i) % 2 = 1
        PROVE  FALSE
    <3>1. PICK before : before = { j \in 1 .. i - 1 : \A k \in j .. i - 1 : text[k] = "-" }
      OBVIOUS
    <3>2. Cardinality(before) # 0
      BY <2>1, <3>1 DEF DashesBefore
    <3>3. PICK j \in 1 .. i - 1 : \A k \in j .. i - 1 : text[k] = "-"
      BY <3>1, <3>2, FS_EmptySet
    <3>4. i - 1 \in 1 .. top /\ i - 1 \in j .. i - 1 /\ (i - 1) + 1 = i
      OBVIOUS
    <3>5. text[i - 1] = "-" /\ PartAt(text, i) = "-"
      BY <1>1, <2>1, <3>3, <3>4 DEF PartAt
    <3> QED BY <1>2, <3>4, <3>5
  <2>2. { i \in DOMAIN text :
          /\ text[i] = "-"
          /\ \/ DashesBefore(text, i) % 2 = 1
             \/ DashesBefore(text, i) % 2 = 0 /\ PartAt(text, i + 1) = "-" } = {}
    BY <1>1, <1>2, <2>1
  <2> QED BY <2>2, NothingDeleted DEF DropDashPairs
<1>5. DropDelays(text) = text
  <2>1. { k \in DOMAIN text : \E i \in DOMAIN text :
            /\ DelayAt(text, i) /\ i <= k
            /\ \A j \in i + 2 .. k : text[j] = " " } = {}
    BY <1>1, <1>2
  <2> QED BY <2>1, NothingDeleted DEF DropDelays
<1>6. DropLateWords(text) = text
  <2>1. { j \in DOMAIN text : LateWordAt(text, j) } = {}
    BY <1>1, <1>2
  <2>2. UNION { {i, i + 1} : i \in { j \in DOMAIN text : LateWordAt(text, j) } } = {}
    BY <2>1
  <2> QED BY <2>2, NothingDeleted DEF DropLateWords
<1>7. Encode(text) = text
  BY Encoding
<1>8. Trim(text) = text
  <2>1. ASSUME NEW i \in 1 .. top
        PROVE  /\ ~\A j \in 1 .. i : text[j] = " "
               /\ ~\A j \in i .. Len(text) : text[j] = " "
    <3>1. 1 \in 1 .. i /\ top \in i .. top
      OBVIOUS
    <3> QED BY <1>1, <1>2, <3>1
  <2>2. { i \in DOMAIN text : \/ \A j \in 1 .. i : text[j] = " "
                              \/ \A j \in i .. Len(text) : text[j] = " " } = {}
    BY <1>1, <2>1
  <2> QED BY <2>2, NothingDeleted DEF Trim
<1> QED BY <1>3, <1>4, <1>5, <1>6, <1>7, <1>8, InTurn

\* What the server validates has no apostrophe left, so that only letters, spaces and
\* hyphens pass, each of which was typed.
LEMMA ValidatedIsPlain ==
  ASSUME NEW S, NEW text \in Seq(S), ServerAccepts(Validated(text))
  PROVE  Validated(text) \in Seq(Plain) /\ PartsOf(Validated(text), text)
<1>1. PICK noQuote : noQuote = (S \cup {Encoded, "#x27"}) \ {"'"}
  OBVIOUS
<1>2. PICK left : left = Deleted(text)
  OBVIOUS
<1>3. PICK coded : coded = Encode(left)
  OBVIOUS
<1>4. PICK once : once = Trim(coded)
  OBVIOUS
<1>5. PICK checked : checked = Validated(text)
  OBVIOUS
<1>6. left \in Seq(S) /\ PartsOf(left, text)
  BY <1>2, DeletedParts
<1>7. /\ coded \in Seq(noQuote) /\ DOMAIN coded = DOMAIN left
      /\ \A n \in DOMAIN left : coded[n] \in Plain => coded[n] = left[n]
  <2>1. Len(coded) = Len(left) /\ coded \in Seq(noQuote)
    BY <1>1, <1>3, <1>6, Encoding
  <2>2. \A n \in DOMAIN left : coded[n] \in Plain => coded[n] = left[n]
    BY <1>3, <1>6, Encoding
  <2> QED BY <1>6, <2>1, <2>2
<1>8. once \in Seq(noQuote) /\ PartsOf(once, coded)
  BY <1>4, <1>7, Shortened
<1>9. checked = Trim(once)
  BY <1>2, <1>3, <1>4, <1>5, InTurn DEF Deleted
<1>10. checked \in Seq(noQuote) /\ PartsOf(checked, once)
  BY <1>8, <1>9, Shortened
<1>11. PartsOf(checked, coded)
  BY <1>8, <1>10, PartsOfParts
<1>12. \A n \in DOMAIN checked : checked[n] \in Plain
  <2>1. \A n \in DOMAIN checked : checked[n] \in Letters \cup {" ", "-", "'"}
    BY <1>5 DEF ServerAccepts
  <2>2. \A n \in DOMAIN checked : checked[n] # "'"
    BY <1>1, <1>10
  <2> QED BY <2>1, <2>2 DEF Plain
<1>13. checked \in Seq(Plain)
  <2>1. PICK top \in Nat : DOMAIN checked = 1 .. top /\ checked = [ n \in 1 .. top |-> checked[n] ]
    BY <1>10
  <2>2. checked \in [ 1 .. top -> Plain ]
    BY <1>12, <2>1
  <2> QED BY <2>1, <2>2
<1>14. PartsOf(checked, left)
  <2>1. PICK from \in [ DOMAIN checked -> DOMAIN coded ] :
          /\ \A n \in DOMAIN checked : checked[n] = coded[from[n]]
          /\ \A m, n \in DOMAIN checked : m < n => from[m] < from[n]
    BY <1>11 DEF PartsOf
  <2>2. \A n \in DOMAIN checked : checked[n] = left[from[n]]
    BY <1>7, <1>12, <2>1
  <2>3. from \in [ DOMAIN checked -> DOMAIN left ]
    BY <1>7, <2>1
  <2> QED BY <2>1, <2>2, <2>3 DEF PartsOf
<1> QED BY <1>5, <1>6, <1>13, <1>14, PartsOfParts

\* What is stored of it is clean, and nothing but parts of what was typed.
LEMMA StoredIsClean ==
  ASSUME NEW S, NEW text \in Seq(S), Outcome(text) = "201"
  PROVE  Clean(Stored(text)) /\ PartsOf(Stored(text), text)
<1>1. PICK checked : checked = Validated(text)
  OBVIOUS
<1>2. PICK left : left = Deleted(checked)
  OBVIOUS
<1>3. PICK stored : stored = Stored(text)
  OBVIOUS
<1>4. ServerAccepts(checked) /\ stored # << >>
  BY <1>1, <1>3 DEF Outcome
<1>5. checked \in Seq(Plain) /\ PartsOf(checked, text)
  BY <1>1, <1>4, ValidatedIsPlain
<1>6. left \in Seq(Plain) /\ PartsOf(left, checked)
  BY <1>2, <1>5, DeletedParts
<1>7. stored = Trim(left)
  <2>1. Encode(left) = left
    BY <1>6, Encoding
  <2> QED BY <1>1, <1>2, <1>3, <2>1, InTurn DEF Stored, Deleted
<1>8. stored \in Seq(Plain) /\ PartsOf(stored, left)
  BY <1>6, <1>7, Shortened
<1>9. stored[1] # " " /\ stored[Len(stored)] # " "
  BY <1>4, <1>6, <1>7, Trimmed
<1>10. \A i \in DOMAIN stored : stored[i] \in Letters \cup {" ", "-"}
  <2>1. \A i \in DOMAIN stored : stored[i] \in Plain
    BY <1>8
  <2> QED BY <2>1 DEF Plain
<1>11. PartsOf(stored, checked)
  BY <1>6, <1>8, PartsOfParts
<1>12. PartsOf(stored, text)
  BY <1>5, <1>11, PartsOfParts
<1> QED BY <1>3, <1>9, <1>10, <1>12 DEF Clean

-----------------------------------------------------------------------------
(* The table: the pages of a list *)

\* How many pages of PerPage rows a number of rows fills.
Pages(n) == (n + PerPage - 1) \div PerPage

\* The last page, perhaps not full, begins before the last row and ends after it.
LEMMA PagesFit ==
  ASSUME NEW n \in Nat
  PROVE  /\ Pages(n) \in 0 .. n
         /\ n <= Pages(n) * PerPage
         /\ n > 0 => Pages(n) > 0 /\ (Pages(n) - 1) * PerPage < n
<1>1. PerPage \in Nat /\ PerPage > 0
  BY TableAssumption
<1> PICK m \in Nat : m = n + PerPage - 1
  BY <1>1
<1> PICK q : q = m \div PerPage
  OBVIOUS
<1>2. q \in Nat /\ q * PerPage <= m /\ m < (q + 1) * PerPage
  BY <1>1
<1>3. (q + 1) * PerPage = q * PerPage + PerPage /\ (q - 1) * PerPage = q * PerPage - PerPage
      /\ q * PerPage \in Nat
  BY <1>1, <1>2
<1>4. n <= q * PerPage
  BY <1>1, <1>2, <1>3
<1>5. n > 0 => q > 0 /\ (q - 1) * PerPage < n
  BY <1>1, <1>2, <1>3
<1>6. q <= n
  <2>1. q > n => q * PerPage >= (n + 1) * PerPage /\ (n + 1) * PerPage >= n + PerPage
    BY <1>1, <1>2
  <2> QED BY <1>1, <1>2, <2>1
<1> QED BY <1>2, <1>4, <1>5, <1>6 DEF Pages

-----------------------------------------------------------------------------
(* The table: the inductive invariant *)

\* What is shown is always what the filters leave of the list that was read last, and
\* the page shown is the first one or one of its pages.
TableOK ==
  /\ tab \in Status /\ spinner \in BOOLEAN /\ reading.state \in {"idle", "asked", "200"}
  /\ Listing(rows) /\ Listing(reading.list)
  /\ filtered = Kept(rows, Passing(filter))
  /\ currentPage \in Nat \ {0} /\ (currentPage = 1 \/ currentPage <= TotalPages)
  /\ IF side = "queue" THEN Len(db) <= MaxQueue ELSE currentPage = 1

TableSide == db \in Seq(Doc) /\ TableOK

\* A list stays one while payments go on, and the filters leave the same of it.
LEMMA ListingStays ==
  ASSUME db \in Seq(Doc), db' \in Seq(Doc), Onward, NEW list, Listing(list), NEW f
  PROVE  /\ Listing(list)' /\ Kept(list, Passing(f)') = Kept(list, Passing(f))
<1>1. Len(db) \in Nat /\ Len(db') \in Nat /\ Len(list) \in Nat /\ Len(list) <= Len(db) /\ Len(db) <= Len(db')
  BY DEF Listing, Onward, Forward
<1>2. /\ DOMAIN db \subseteq DOMAIN db' /\ \A i \in DOMAIN list : list[i] \in DOMAIN db
      /\ \A p \in DOMAIN db : db'[p].name = db[p].name
  BY DEF Onward, Forward, Listing
<1>3. Listing(list)'
  <2>1. list \in Seq(DOMAIN db')
    BY <1>2 DEF Listing
  <2> QED BY <1>1, <2>1 DEF Listing
<1>4. { i \in DOMAIN list : list[i] \in Passing(f)' } = { i \in DOMAIN list : list[i] \in Passing(f) }
  BY <1>2 DEF Passing, Passes
<1>5. Kept(list, Passing(f)') = Kept(list, Passing(f))
  BY <1>4 DEF Kept, Picked
<1> QED BY <1>3, <1>5

\* Payments go on while the table rests.
LEMMA TableRests ==
  ASSUME TableSide, db' \in Seq(Doc), Onward, side' = side, side = "queue" => Len(db') <= MaxQueue,
         UNCHANGED <<rows, filter, filtered>>,
         tab' \in Status, spinner' \in BOOLEAN, reading.state' \in {"idle", "asked", "200"},
         Listing(reading.list)', currentPage' = currentPage \/ (side = "queue" /\ currentPage' = 1)
  PROVE  TableSide'
<1>1. Listing(rows)' /\ filtered' = Kept(rows', Passing(filter)')
  <2>1. Listing(rows) /\ filtered = Kept(rows, Passing(filter))
    BY DEF TableSide, TableOK
  <2>2. PICK list, f : list = rows /\ f = filter
    OBVIOUS
  <2>3. Listing(list)' /\ Kept(list, Passing(f)') = Kept(list, Passing(f))
    BY <2>1, <2>2, ListingStays DEF TableSide
  <2>4. rows' = list /\ filter' = f /\ filtered' = filtered
    BY <2>2
  <2>5. Listing(rows)'
    BY <2>3, <2>4 DEF Listing
  <2>6. Passing(filter)' = Passing(f)'
    BY <2>4 DEF Passing
  <2> QED BY <2>1, <2>2, <2>3, <2>4, <2>5, <2>6
<1>2. /\ currentPage' \in Nat \ {0} /\ (currentPage' = 1 \/ currentPage' <= TotalPages')
      /\ IF side' = "queue" THEN Len(db') <= MaxQueue ELSE currentPage' = 1
  BY DEF TableSide, TableOK, TotalPages
<1> QED BY <1>1, <1>2 DEF TableSide, TableOK

-----------------------------------------------------------------------------
(* The table: steps *)

\* The smaller and the larger of two numbers.
LEMMA OfTwo ==
  ASSUME NEW a \in Int, NEW b \in Int
  PROVE  /\ Min({a, b}) = (IF a <= b THEN a ELSE b)
         /\ Max({a, b}) = (IF a <= b THEN b ELSE a)
<1>1. PICK x : x = IF a <= b THEN a ELSE b
  OBVIOUS
<1>2. x \in {a, b} /\ \A y \in {a, b} : x <= y
  BY <1>1
<1>3. Min({a, b}) = x
  BY <1>2 DEF Min
<1>4. PICK z : z = IF a <= b THEN b ELSE a
  OBVIOUS
<1>5. z \in {a, b} /\ \A y \in {a, b} : z >= y
  BY <1>4
<1>6. Max({a, b}) = z
  BY <1>5 DEF Max
<1> QED BY <1>1, <1>3, <1>4, <1>6

\* All payments, the newest first.
LEMMA Reversed ==
  ASSUME db \in Seq(Doc)
  PROVE  Listing(Reverse([ p \in DOMAIN db |-> p ]))
<1> PICK top \in Nat : top = Len(db)
  OBVIOUS
<1>1. DOMAIN db = 1 .. top
  OBVIOUS
<1>2. PICK all : all = [ p \in 1 .. top |-> p ]
  OBVIOUS
<1>3. Len(all) = top
  BY <1>2
<1>4. PICK newest : newest = [ i \in 1 .. top |-> all[top - i + 1] ]
  OBVIOUS
<1>5. newest = Reverse([ p \in DOMAIN db |-> p ])
  BY <1>1, <1>2, <1>3, <1>4 DEF Reverse
<1>6. \A i \in 1 .. top : top - i + 1 \in 1 .. top
  OBVIOUS
<1>7. newest \in [ 1 .. top -> 1 .. top ] /\ \A i \in 1 .. top : newest[i] = top - i + 1
  BY <1>2, <1>4, <1>6
<1>8. newest \in Seq(1 .. top) /\ Len(newest) = top /\ DOMAIN newest = 1 .. top
  BY <1>7
<1>9. \A i, j \in 1 .. top : newest[i] = newest[j] => i = j
  BY <1>7
<1>10. Listing(newest)
  BY <1>1, <1>8, <1>9 DEF Listing
<1> QED BY <1>5, <1>10

\* The first entries of a list.
LEMMA FirstOf ==
  ASSUME db \in Seq(Doc), NEW list, Listing(list), NEW n \in 0 .. Len(list)
  PROVE  Listing(SubSeq(list, 1, n))
<1>1. list \in Seq(DOMAIN db) /\ Len(list) \in Nat /\ Len(list) <= Len(db) /\ Len(db) \in Nat
  BY DEF Listing
<1>2. n \in Nat /\ n <= Len(list) /\ \A i \in 1 .. n : i \in DOMAIN list
  BY <1>1
<1>3. \A i \in 1 .. n : list[i] \in DOMAIN db
  BY <1>1, <1>2
<1>4. PICK part : part = SubSeq(list, 1, n)
  OBVIOUS
<1>5. /\ part \in Seq(DOMAIN db) /\ Len(part) = (IF 1 <= n THEN n - 1 + 1 ELSE 0)
      /\ \A i \in 1 .. n - 1 + 1 : part[i] = list[1 + i - 1]
  BY <1>2, <1>3, <1>4, SubSeqProperties
<1>6. Len(part) = n /\ Len(part) <= Len(db) /\ \A i \in 1 .. n : part[i] = list[i]
  BY <1>1, <1>2, <1>5
<1>7. \A i, j \in DOMAIN part : part[i] = part[j] => i = j
  BY <1>2, <1>5, <1>6 DEF Listing
<1>8. Listing(part)
  BY <1>5, <1>6, <1>7 DEF Listing
<1> QED BY <1>4, <1>8

\* GET /employee/pending, GET /employee/all: an answer lists payments, none of them twice.
LEMMA ListedIs ==
  ASSUME db \in Seq(Doc), NEW status
  PROVE  Listing(Listed(status))
<1>1. PICK newest : newest = Reverse([ p \in DOMAIN db |-> p ])
  OBVIOUS
<1>2. PICK found : found = Kept(newest, { p \in DOMAIN db : db[p].status = status })
  OBVIOUS
<1>3. PICK n : n = Min({Len(found), TableLimit})
  OBVIOUS
<1>4. Listing(newest)
  BY <1>1, Reversed
<1>5. Listing(found)
  BY <1>2, <1>4, KeptOf
<1>6. Len(found) \in Nat /\ TableLimit \in Nat
  BY <1>5, TableAssumption DEF Listing
<1>7. n \in 0 .. Len(found)
  BY <1>3, <1>6, OfTwo
<1>8. Listing(SubSeq(found, 1, n))
  BY <1>5, <1>7, FirstOf
<1> QED BY <1>1, <1>2, <1>3, <1>8 DEF Listed

\* The effect on a new list and on changed filters.
LEMMA ApplyStep ==
  ASSUME TableSide, NEW list, NEW f, Listing(list), ApplyFilters(list, f), UNCHANGED <<db, side, tab>>,
         spinner' \in BOOLEAN, reading.state' \in {"idle", "asked", "200"}, Listing(reading.list)'
  PROVE  TableSide'
<1>1. rows' = list /\ filter' = f /\ filtered' = Kept(list, Passing(f)) /\ currentPage' = 1
  BY DEF ApplyFilters
<1>2. Listing(rows)' /\ Passing(filter)' = Passing(f)
  BY <1>1 DEF Listing, Passing
<1> QED BY <1>1, <1>2 DEF TableSide, TableOK

\* The table's own steps.
LEMMA TableKeeps ==
  ASSUME TableSide, TableStep
  PROVE  TableSide'
<1>0. /\ TableNext /\ side' = side /\ side = "queue" /\ Listing(rows) /\ Listing(reading.list)
      /\ tab \in Status /\ spinner \in BOOLEAN /\ reading.state \in {"idle", "asked", "200"}
      /\ db \in Seq(Doc) /\ Len(db) <= MaxQueue
  BY DEF TableStep, TableSide, TableOK
<1>1. db' \in Seq(Doc) /\ Onward
  BY <1>0, OthersKeep
<1>2. ASSUME NEW customer \in Customer, NEW kind \in Kind, QueuePayment(customer, kind)
      PROVE  TableSide'
  <2>1. UNCHANGED <<rows, filter, filtered, tab, spinner, reading, currentPage>> /\ Len(db) < MaxQueue
    BY <1>2 DEF QueuePayment, table
  <2>2. Len(db') <= MaxQueue
    <3>1. Len(db') = Len(db) + 1 /\ Len(db) \in Nat
      BY <1>0, <1>2 DEF QueuePayment
    <3> QED BY <2>1, <3>1, TableAssumption
  <2>3. Listing(reading.list)'
    <3>1. PICK list : list = reading.list
      OBVIOUS
    <3>2. Listing(list)'
      BY <1>0, <1>1, <3>1, ListingStays
    <3> QED BY <2>1, <3>1, <3>2 DEF Listing
  <2> QED BY <1>0, <1>1, <2>1, <2>2, <2>3, TableRests
<1>3. ASSUME db' = db, UNCHANGED <<rows, filter, filtered>>, tab' \in Status, spinner' \in BOOLEAN,
             reading.state' \in {"idle", "asked", "200"}, Listing(reading.list)',
             currentPage' \in {currentPage, 1}
      PROVE  TableSide'
  BY <1>0, <1>1, <1>3, TableRests
<1>5. ASSUME NEW t \in Tabs, SelectTab(t)
      PROVE  TableSide'
  <2>1. /\ tab' = t /\ spinner' = TRUE /\ currentPage' = 1 /\ UNCHANGED <<db, rows, filter, filtered>>
        /\ reading' = [Idle EXCEPT !.state = "asked"]
    BY <1>5 DEF SelectTab, Fetch
  <2>2. reading.state' = "asked" /\ reading.list' = << >>
    BY <2>1 DEF Idle
  <2>3. Listing(reading.list)'
    BY <2>2 DEF Listing
  <2>4. t \in Status
    BY TableAssumption
  <2> QED BY <1>3, <2>1, <2>2, <2>3, <2>4
<1>6. ASSUME RefreshTable
      PROVE  TableSide'
  <2>1. /\ UNCHANGED <<db, tab, rows, filter, filtered, currentPage, spinner>>
        /\ reading' = [Idle EXCEPT !.state = "asked"]
    BY <1>6 DEF RefreshTable, Fetch
  <2>2. reading.state' = "asked" /\ reading.list' = << >>
    BY <2>1 DEF Idle
  <2>3. Listing(reading.list)'
    BY <2>2 DEF Listing
  <2> QED BY <1>0, <1>3, <2>1, <2>2, <2>3
<1>7. ASSUME NEW f, ApplyFilters(rows, f), UNCHANGED <<db, tab, spinner, reading>>
      PROVE  TableSide'
  <2>1. reading.state' \in {"idle", "asked", "200"} /\ Listing(reading.list)' /\ spinner' \in BOOLEAN
    BY <1>0, <1>7 DEF Listing
  <2> QED BY <1>0, <1>7, <2>1, ApplyStep
<1>8. ASSUME (\E f \in [currency : Currencies, min : Amounts, max : Amounts] : SetFilter(f)) \/ clearFilters
      PROVE  TableSide'
  BY <1>7, <1>8 DEF SetFilter, clearFilters
<1>9. ASSUME NEW to, Turn(to)
      PROVE  TableSide'
  <2>1. to \in 1 .. TotalPages /\ currentPage' = to /\ UNCHANGED <<db, tab, rows, filter, filtered, spinner, reading>>
    BY <1>9 DEF Turn
  <2>2. Listing(rows)' /\ Listing(reading.list)' /\ filtered' = Kept(rows', Passing(filter)')
    BY <1>0, <2>1 DEF TableSide, TableOK, Listing, Passing
  <2>3. TotalPages' = TotalPages
    BY <2>1 DEF TotalPages
  <2>4. TotalPages \in Nat
    BY <1>0, KeptOf, PagesFit DEF TotalPages, Pages, TableSide, TableOK, Listing
  <2>5. currentPage' \in Nat \ {0} /\ currentPage' <= TotalPages'
    BY <2>1, <2>3, <2>4
  <2> QED BY <1>0, <1>1, <2>1, <2>2, <2>5 DEF TableSide, TableOK
<1>10. ASSUME ServeList
       PROVE  TableSide'
  <2>1. /\ UNCHANGED <<db, tab, rows, filter, filtered, currentPage, spinner>>
        /\ reading' = [state |-> "200", list |-> Listed(tab)]
    BY <1>10 DEF ServeList
  <2>2. reading.state' = "200" /\ reading.list' = Listed(tab)
    BY <2>1
  <2>3. Listing(Listed(tab))
    BY <1>0, ListedIs
  <2>4. Listing(reading.list)'
    BY <2>1, <2>2, <2>3 DEF Listing
  <2> QED BY <1>0, <1>3, <2>1, <2>2, <2>4
<1>11. ASSUME ListAnswered
       PROVE  TableSide'
  <2>1. /\ ApplyFilters(reading.list, filter) /\ spinner' = FALSE /\ reading' = Idle
        /\ UNCHANGED <<db, tab>>
    BY <1>11 DEF ListAnswered
  <2>2. reading.state' = "idle" /\ reading.list' = << >>
    BY <2>1 DEF Idle
  <2>3. Listing(reading.list)'
    BY <2>2 DEF Listing
  <2> QED BY <1>0, <2>1, <2>2, <2>3, ApplyStep
<1>12. ASSUME ListRefused
       PROVE  TableSide'
  <2>1. /\ UNCHANGED <<db, tab, rows, filter, filtered, currentPage>> /\ spinner' = FALSE /\ reading' = Idle
    BY <1>12 DEF ListRefused
  <2>2. reading.state' = "idle" /\ reading.list' = << >>
    BY <2>1 DEF Idle
  <2>3. Listing(reading.list)'
    BY <2>2 DEF Listing
  <2> QED BY <1>0, <1>3, <2>1, <2>2, <2>3
<1> QED BY <1>0, <1>2, <1>5, <1>6, <1>8, <1>9, <1>10, <1>11, <1>12
        DEF TableNext, NextPage, PreviousPage

-----------------------------------------------------------------------------
(* The table: the invariant holds, and what it says of the pages *)

\* No list has been read.
LEMMA TableSideInit ==
  ASSUME PagesInit
  PROVE  TableSide
<1>1. /\ db = << >> /\ tab = "pending" /\ rows = << >> /\ filtered = << >> /\ currentPage = 1
      /\ spinner = TRUE /\ reading = [Idle EXCEPT !.state = "asked"]
  BY DEF PagesInit, DataInit, TableInit
<1>2. reading.state = "asked" /\ reading.list = << >>
  BY <1>1 DEF Idle
<1>3. db \in Seq(Doc) /\ Len(db) = 0
  BY <1>1
<1>4. Listing(<< >>)
  BY <1>1 DEF Listing
<1>5. Kept(<< >>, Passing(filter)) = << >>
  <2>1. PICK kept : kept = Kept(<< >>, Passing(filter))
    OBVIOUS
  <2>2. Listing(kept) /\ Len(kept) <= 0
    BY <1>3, <1>4, <2>1, KeptOf
  <2> QED BY <2>1, <2>2 DEF Listing
<1> QED BY <1>1, <1>2, <1>3, <1>4, <1>5, TableAssumption DEF TableSide, TableOK, Status

\* Every step, of whoever, keeps the invariant of the table.
LEMMA TableSideStep ==
  ASSUME CustomerSide, TableSide, [PagesNext]_pagesVars
  PROVE  TableSide'
<1>1. db' \in Seq(Doc) /\ Onward
  BY CustomerSideStep DEF CustomerSide
<1>2. CASE ~TableStep
  <2>1. UNCHANGED <<table, side>>
    BY <1>2 DEF PagesNext, CustomerStep, EmployeeStep, EmployeesWork, CustomersPay, pagesVars
  <2>2. UNCHANGED <<tab, rows, filter, filtered, currentPage, spinner, reading, side>>
    BY <2>1 DEF table
  <2>3. side = "queue" => Len(db') <= MaxQueue
    <3>1. SUFFICES ASSUME side = "queue" PROVE Len(db') = Len(db)
      BY DEF TableSide, TableOK
    <3>2. CASE EmployeesWork
      <4>1. PICK some : some = IF side = "archive" THEN Employee ELSE {OneOfThem}
        OBVIOUS
      <4>2. some \in SUBSET (Employee \cup {OneOfThem}) /\ EmployeesAct(some)
        BY <3>2, <4>1 DEF EmployeesWork
      <4>3. db' \in Seq(Doc) /\ DOMAIN db' = DOMAIN db
        BY <4>2, ActStep DEF CustomerSide
      <4> QED BY <4>3 DEF CustomerSide
    <3>3. CASE ~EmployeesWork
      <4>1. db' = db
        BY <1>2, <3>1, <3>3 DEF PagesNext, CustomerStep, EmployeeStep, CustomersPay, pagesVars
      <4> QED BY <4>1
    <3> QED BY <3>2, <3>3
  <2>4. Listing(reading.list)'
    <3>1. PICK list : list = reading.list
      OBVIOUS
    <3>2. Listing(list)'
      BY <1>1, <3>1, ListingStays DEF TableSide, TableOK
    <3> QED BY <2>2, <3>1, <3>2 DEF Listing
  <2>5. tab' \in Status /\ spinner' \in BOOLEAN /\ reading.state' \in {"idle", "asked", "200"}
    BY <2>2 DEF TableSide, TableOK
  <2> QED BY <1>1, <2>2, <2>3, <2>4, <2>5, TableRests
<1> QED BY <1>2, TableKeeps

\* The numbers of the rows on a page.
LEMMA PageBounds ==
  ASSUME NEW top \in Nat, NEW at \in Nat \ {0}, at = 1 \/ at <= Pages(top)
  PROVE  LET first == (at - 1) * PerPage + 1
             last == Min({at * PerPage, top})
         IN  /\ first \in Nat \ {0} /\ last \in 0 .. top
             /\ top > 0 => first <= last
             /\ \A i \in 1 .. top : i \in first .. last <=> Pages(i) = at
<1>1. PerPage \in Nat /\ PerPage > 0 /\ at * PerPage \in Nat /\ (at - 1) * PerPage \in Nat
      /\ (at - 1) * PerPage + PerPage = at * PerPage
  BY TableAssumption
<1>2. PICK first, last : first = (at - 1) * PerPage + 1 /\ last = Min({at * PerPage, top})
  OBVIOUS
<1>3. last = IF at * PerPage <= top THEN at * PerPage ELSE top
  BY <1>1, <1>2, OfTwo
<1>4. first \in Nat \ {0} /\ last \in 0 .. top
  BY <1>1, <1>2, <1>3
<1>5. top > 0 => first <= last
  <2>1. SUFFICES ASSUME top > 0 PROVE first <= top
    BY <1>1, <1>2, <1>3
  <2>2. Pages(top) \in Nat /\ (Pages(top) - 1) * PerPage < top
    BY <2>1, PagesFit
  <2>3. at <= Pages(top) => (at - 1) * PerPage <= (Pages(top) - 1) * PerPage
    BY <1>1, <2>2
  <2> QED BY <1>1, <1>2, <2>1, <2>2, <2>3
<1>6. \A i \in 1 .. top : i \in first .. last <=> Pages(i) = at
  <2> SUFFICES ASSUME NEW i \in 1 .. top PROVE i \in first .. last <=> Pages(i) = at
    OBVIOUS
  <2>1. PICK q : q = Pages(i)
    OBVIOUS
  <2>2. q \in Nat /\ q > 0 /\ i <= q * PerPage /\ (q - 1) * PerPage < i
    BY <2>1, PagesFit
  <2>3. i \in first .. last <=> (at - 1) * PerPage < i /\ i <= at * PerPage
    BY <1>1, <1>2, <1>3
  <2>4. q < at => q * PerPage <= (at - 1) * PerPage
    BY <1>1, <2>2
  <2>5. at < q => at * PerPage <= (q - 1) * PerPage
    BY <1>1, <2>2
  <2>6. q * PerPage \in Nat /\ (q - 1) * PerPage \in Nat
    BY <1>1, <2>2
  <2> QED BY <1>1, <2>1, <2>2, <2>3, <2>4, <2>5, <2>6
<1> QED BY <1>2, <1>4, <1>5, <1>6

-----------------------------------------------------------------------------
(* The types of a customer's page *)

CallsBounded == IsFiniteSet(calls) /\ Cardinality(calls) <= MaxCalls

\* Requests for the invoices that the page shown waits for.
Fetching == { c \in calls : c.kind = "invoices" /\ c.visit = visit }

\* An invoice is chosen of a list that does not change any more: one visit asks for
\* its invoices once.
ShownTypes ==
  /\ visit <= MaxVisits /\ view \in {"dashboard", "invoices"}
  /\ notice \in {"", "invalid", "success", "refused", "network"}
  /\ submitting \in BOOLEAN /\ loading \in BOOLEAN
  /\ invoices \subseteq DOMAIN db /\ missed \subseteq DOMAIN db
  /\ chosen \in invoices \cup {0} /\ (chosen # 0 => ~loading)
  /\ (FormMounted => loading /\ Fetching = {}) /\ (~loading => Fetching = {})
  /\ \A c, d \in Fetching : c = d

CustomerTypes == CallsBounded /\ ShownTypes

\* One request more, or one changed.
LEMMA CallsChange ==
  ASSUME CallsBounded, NEW d, calls' \subseteq calls \cup {d},
         \/ Cardinality(calls') <= MaxCalls
         \/ calls' \subseteq calls
         \/ \E c \in calls : calls' \subseteq (calls \ {c}) \cup {d}
  PROVE  CallsBounded'
<1>1. IsFiniteSet(calls) /\ Cardinality(calls) \in Nat /\ MaxCalls \in Nat /\ Cardinality(calls) <= MaxCalls
  BY FS_CardinalityType, PagesAssumption DEF CallsBounded
<1>2. IsFiniteSet(calls')
  <2>1. IsFiniteSet(calls \cup {d})
    BY <1>1, FS_AddElement
  <2> QED BY <2>1, FS_Subset
<1>3. CASE calls' \subseteq calls
  <2>1. Cardinality(calls') <= Cardinality(calls) /\ Cardinality(calls') \in Nat
    BY <1>1, <1>2, <1>3, FS_Subset, FS_CardinalityType
  <2> QED BY <1>1, <1>2, <2>1 DEF CallsBounded
<1>4. ASSUME NEW c \in calls, calls' \subseteq (calls \ {c}) \cup {d}
      PROVE  CallsBounded'
  <2>1. IsFiniteSet(calls \ {c}) /\ Cardinality(calls \ {c}) = Cardinality(calls) - 1
    BY <1>1, FS_RemoveElement
  <2>2. /\ IsFiniteSet((calls \ {c}) \cup {d})
        /\ Cardinality((calls \ {c}) \cup {d}) \in {Cardinality(calls) - 1, Cardinality(calls) - 1 + 1}
    BY <2>1, FS_AddElement
  <2>3. Cardinality(calls') <= Cardinality((calls \ {c}) \cup {d}) /\ Cardinality(calls') \in Nat
    BY <1>2, <1>4, <2>2, FS_Subset, FS_CardinalityType
  <2> QED BY <1>1, <1>2, <2>2, <2>3 DEF CallsBounded
<1> QED BY <1>2, <1>3, <1>4 DEF CallsBounded

\* No step has more requests under way than the bound.
LEMMA CallsBoundedStep ==
  ASSUME CallsBounded, CustomerNext
  PROVE  CallsBounded'
<1>1. ASSUME NEW u \in Customer, SignIn(u)
      PROVE  CallsBounded'
  <2>1. PICK d : calls' = (calls \ {}) \cup {d} /\ Cardinality(calls') <= MaxCalls
    BY <1>1 DEF SignIn, Calls
  <2> QED BY <2>1, CallsChange
<1>2. ASSUME ShowInvoices
      PROVE  CallsBounded'
  <2>1. PICK d : calls' = (calls \ {}) \cup {d} /\ Cardinality(calls') <= MaxCalls
    BY <1>2 DEF ShowInvoices, Calls
  <2> QED BY <2>1, CallsChange
<1>3. ASSUME SubmitPayment
      PROVE  CallsBounded'
  <2>1. \/ calls' = calls
        \/ \E d : calls' = (calls \ {}) \cup {d} /\ Cardinality(calls') <= MaxCalls
    BY <1>3 DEF SubmitPayment, Calls
  <2> QED BY <2>1, CallsChange
<1>4. ASSUME NEW c \in calls, ServePost(c)
      PROVE  CallsBounded'
  <2>1. PICK d : calls' \subseteq (calls \ {c}) \cup {d}
    BY <1>4 DEF ServePost, Answered, Calls
  <2> QED BY <2>1, CallsChange
<1>5. ASSUME NEW c \in calls, ServeRead(c) \/ ServeError(c)
      PROVE  CallsBounded'
  <2>1. PICK d : calls' \subseteq (calls \ {c}) \cup {d}
    BY <1>5 DEF ServeRead, ServeError, Answered, Calls
  <2> QED BY <2>1, CallsChange
<1>6. ASSUME NEW c \in calls, Lose(c)
      PROVE  CallsBounded'
  <2>1. PICK d : calls' \subseteq (calls \ {c}) \cup {d}
    BY <1>6 DEF Lose, Calls
  <2> QED BY <2>1, CallsChange
<1>7. ASSUME calls' \subseteq calls
      PROVE  CallsBounded'
  BY <1>7, CallsChange
<1>8. ASSUME NEW c \in calls,
             PostAnswered(c) \/ PostRefused(c) \/ CountAnswered(c) \/ InvoicesAnswered(c) \/ AnswerUnseen(c)
      PROVE  calls' \subseteq calls
  BY <1>8 DEF PostAnswered, PostRefused, CountAnswered, InvoicesAnswered, AnswerUnseen, Calls
<1>9. ASSUME Leave \/ (\E p \in invoices \cup {0} : ChooseInvoice(p)) \/ (\E name \in Name : Type(name))
      PROVE  calls' \subseteq calls
  BY <1>9 DEF Leave, ChooseInvoice, Type
<1> QED BY <1>1, <1>2, <1>3, <1>4, <1>5, <1>6, <1>7, <1>8, <1>9 DEF CustomerNext

\* Requests end, are answered, or ask for something else: no other request for the
\* invoices comes to be waited for.
LEMMA FetchingKept ==
  ASSUME ShownTypes, visit' = visit, NEW d,
         \/ calls' \subseteq calls
         \/ calls' \subseteq calls \cup {d} /\ d.kind # "invoices"
         \/ \E c \in calls : /\ calls' \subseteq (calls \ {c}) \cup {d}
                             /\ d.kind = "invoices" => c.kind = "invoices" /\ d.visit = c.visit
  PROVE  (Fetching = {} => Fetching' = {}) /\ \A e, f \in Fetching' : e = f
BY DEF ShownTypes, Fetching

\* Neither the list of invoices nor its spinner changes.
LEMMA ShownQuiet ==
  ASSUME ShownTypes, Onward, UNCHANGED <<visit, view, invoices, loading>>, user' \in {user, NoOne},
         Fetching = {} => Fetching' = {}, \A e, f \in Fetching' : e = f,
         notice' \in {"", "invalid", "success", "refused", "network"}, submitting' \in BOOLEAN,
         missed' \subseteq DOMAIN db', chosen' \in invoices \cup {0}, chosen' # 0 => ~loading
  PROVE  ShownTypes'
<1>1. DOMAIN db \subseteq DOMAIN db'
  BY DEF Onward, Forward
<1> QED BY <1>1 DEF ShownTypes, FormMounted

\* Every step keeps the types of what the page shows.
LEMMA ShownTypesStep ==
  ASSUME CustomerInd, db \in Seq(Doc), Onward, ShownTypes, CustomerNext
  PROVE  ShownTypes'
<1>0. /\ visit \in Nat /\ \A c \in calls : c.visit \in 0 .. visit /\ c = Shape(c)
      /\ missed \subseteq DOMAIN db' /\ DOMAIN db \subseteq DOMAIN db'
      /\ chosen \in invoices \cup {0} /\ (chosen # 0 => ~loading)
      /\ notice \in {"", "invalid", "success", "refused", "network"} /\ submitting \in BOOLEAN
  BY DEF CustomerInd, PageTyped, CallOK, ShownTypes, Onward, Forward
<1>1. ASSUME NEW u \in Customer, SignIn(u)
      PROVE  ShownTypes'
  <2>0. /\ visit' = visit + 1 /\ visit < MaxVisits /\ loading' = TRUE /\ invoices' = {} /\ chosen' = 0
        /\ view' = "dashboard" /\ notice' = "" /\ submitting' = FALSE /\ missed' = missed
    BY <1>1 DEF SignIn
  <2>1. PICK blank : blank = Call("count", << >>)
    OBVIOUS
  <2>2. PICK n : blank = [ kind |-> "count", visit |-> visit, by |-> user, name |-> << >>, answer |-> "none",
                           payment |-> 0, list |-> {}, n |-> n ]
    BY <2>1, CallShape
  <2>3. PICK d : d = [ blank EXCEPT !.visit = visit', !.by = u ]
    OBVIOUS
  <2>4. d.kind = "count"
    BY <2>2, <2>3
  <2>5. calls' = calls \cup {d}
    BY <1>1, <2>1, <2>3 DEF SignIn, Calls
  <2>6. visit' <= MaxVisits /\ \A c \in calls : c.visit # visit'
    <3>1. visit \in Nat /\ \A c \in calls : c.visit \in 0 .. visit
      BY <1>0
    <3>2. visit' = visit + 1 /\ visit < MaxVisits /\ MaxVisits \in Nat
      BY <2>0, PagesAssumption
    <3> QED BY <3>1, <3>2
  <2>7. Fetching' = {}
    BY <2>4, <2>5, <2>6 DEF Fetching
  <2> QED BY <1>0, <2>0, <2>6, <2>7 DEF ShownTypes
<1>2. ASSUME Leave
      PROVE  ShownTypes'
  <2>1. /\ UNCHANGED <<visit, view, invoices, loading, calls, notice, submitting, missed, chosen>> /\ user' = NoOne
    BY <1>2 DEF Leave
  <2>2. Fetching' = Fetching /\ \A e, f \in Fetching : e = f
    BY <2>1 DEF Fetching, ShownTypes
  <2> QED BY <1>0, <2>1, <2>2, ShownQuiet
<1>3. ASSUME ShowInvoices
      PROVE  ShownTypes'
  <2>0. /\ FormMounted /\ view' = "invoices" /\ notice' = "" /\ submitting' = FALSE
        /\ UNCHANGED <<user, visit, invoices, loading, chosen, missed>>
    BY <1>3 DEF ShowInvoices
  <2>1. PICK d : calls' = calls \cup {d}
    BY <1>3 DEF ShowInvoices, Calls
  <2>2. Fetching = {} /\ loading
    BY <2>0 DEF ShownTypes
  <2>3. \A e, f \in Fetching' : e = f
    BY <2>0, <2>1, <2>2 DEF Fetching
  <2> QED BY <1>0, <2>0, <2>2, <2>3 DEF ShownTypes, FormMounted
<1>4. ASSUME NEW p \in invoices \cup {0}, ChooseInvoice(p)
      PROVE  ShownTypes'
  <2>1. /\ UNCHANGED <<user, visit, view, invoices, loading, calls, notice, submitting, missed>>
        /\ chosen' \in invoices \cup {0} /\ (chosen' # 0 => ~loading)
    BY <1>4 DEF ChooseInvoice, InvoicesShown
  <2>2. Fetching' = Fetching /\ \A e, f \in Fetching : e = f
    BY <2>1 DEF Fetching, ShownTypes
  <2> QED BY <1>0, <2>1, <2>2, ShownQuiet
<1>5. ASSUME NEW name \in Name, Type(name)
      PROVE  ShownTypes'
  <2>1. UNCHANGED <<user, visit, view, invoices, loading, calls, submitting, missed, chosen>> /\ notice' = ""
    BY <1>5 DEF Type
  <2>2. Fetching' = Fetching /\ \A e, f \in Fetching : e = f
    BY <2>1 DEF Fetching, ShownTypes
  <2> QED BY <1>0, <2>1, <2>2, ShownQuiet
<1>6. ASSUME SubmitPayment
      PROVE  ShownTypes'
  <2>1. /\ UNCHANGED <<user, visit, view, invoices, loading, missed, chosen>>
        /\ notice' \in {"", "invalid"} /\ submitting' \in BOOLEAN
    BY <1>0, <1>6 DEF SubmitPayment
  <2>2. PICK d : d = Call("post", form)
    OBVIOUS
  <2>3. d.kind = "post"
    BY <2>2, CallShape
  <2>4. calls' \subseteq calls \cup {d}
    BY <1>6, <2>2 DEF SubmitPayment, Calls
  <2>5. (Fetching = {} => Fetching' = {}) /\ \A e, f \in Fetching' : e = f
    BY <2>1, <2>3, <2>4, FetchingKept
  <2> QED BY <1>0, <2>1, <2>5, ShownQuiet
<1>7. ASSUME NEW c \in calls, ServePost(c)
      PROVE  ShownTypes'
  <2>1. UNCHANGED <<user, visit, view, invoices, loading, chosen, notice, submitting>> /\ c.kind = "post"
    BY <1>7 DEF ServePost, dashboard
  <2>2. \E d : calls' \subseteq (calls \ {c}) \cup {d} /\ d.kind = "post"
    <3>1. PICK d : d = [ c EXCEPT !.answer = "201", !.payment = Len(db') ]
      OBVIOUS
    <3>2. PICK e : e = [ c EXCEPT !.answer = OutcomeOf[c.name] ]
      OBVIOUS
    <3>3. c = Shape(c)
      BY <1>0
    <3>4. d.kind = "post" /\ e.kind = "post"
      BY <2>1, <3>1, <3>2, <3>3 DEF Shape
    <3>5. calls' \subseteq (calls \ {c}) \cup {d} \/ calls' \subseteq (calls \ {c}) \cup {e}
      BY <1>7, <3>1, <3>2 DEF ServePost, Answered, Calls
    <3> QED BY <3>4, <3>5
  <2>3. (Fetching = {} => Fetching' = {}) /\ \A e, f \in Fetching' : e = f
    BY <2>1, <2>2, FetchingKept
  <2>4. missed' \subseteq DOMAIN db'
    <3>1. CASE missed' = missed \cup {Len(db')} /\ Add(c.by, StoredAs[c.name])
      <4>1. Len(db') \in DOMAIN db'
        BY <3>1 DEF Add
      <4> QED BY <1>0, <3>1, <4>1
    <3>2. CASE missed' = missed
      BY <1>0, <3>2
    <3> QED BY <1>7, <3>1, <3>2 DEF ServePost
  <2> QED BY <1>0, <2>1, <2>3, <2>4, ShownQuiet
<1>8. ASSUME NEW c \in calls, ServeRead(c) \/ ServeError(c)
      PROVE  ShownTypes'
  <2>1. UNCHANGED <<user, visit, view, invoices, loading, chosen, notice, submitting, missed>>
    BY <1>8 DEF ServeRead, ServeError, dashboard
  <2>2. PICK list : list = IF c.kind = "invoices" THEN InvoicesOf(c.by) ELSE {}
    OBVIOUS
  <2>3. \E d : calls' \subseteq (calls \ {c}) \cup {d} /\ d.kind = c.kind /\ d.visit = c.visit
    <3>1. PICK d : d = [ c EXCEPT !.answer = "200", !.list = list ]
      OBVIOUS
    <3>2. PICK e : e = [ c EXCEPT !.answer = "500" ]
      OBVIOUS
    <3>3. c = Shape(c)
      BY <1>0
    <3>4. d.kind = c.kind /\ d.visit = c.visit /\ e.kind = c.kind /\ e.visit = c.visit
      BY <3>1, <3>2, <3>3 DEF Shape
    <3>5. calls' \subseteq (calls \ {c}) \cup {d} \/ calls' \subseteq (calls \ {c}) \cup {e}
      BY <1>8, <2>2, <3>1, <3>2 DEF ServeRead, ServeError, Answered, Calls
    <3> QED BY <3>4, <3>5
  <2>4. (Fetching = {} => Fetching' = {}) /\ \A e, f \in Fetching' : e = f
    BY <2>1, <2>3, FetchingKept
  <2> QED BY <1>0, <2>1, <2>4, ShownQuiet
<1>9. ASSUME NEW c \in calls, PostAnswered(c) \/ PostRefused(c) \/ CountAnswered(c) \/ AnswerUnseen(c)
      PROVE  ShownTypes'
  <2>1. /\ UNCHANGED <<user, visit, view, invoices, loading, chosen>> /\ calls' \subseteq calls /\ db' = db
    BY <1>9 DEF PostAnswered, PostRefused, CountAnswered, AnswerUnseen, Calls, dashboard
  <2>2. /\ notice' \in {"", "invalid", "success", "refused", "network"} /\ submitting' \in BOOLEAN
    BY <1>0, <1>9 DEF PostAnswered, PostRefused, CountAnswered, AnswerUnseen, FormEnds, dashboard
  <2>3. c.answer = "201" => c.payment \in DOMAIN db
    BY DEF CustomerInd, CallOK
  <2>4. missed' \subseteq DOMAIN db'
    BY <1>0, <1>9, <2>1, <2>3 DEF PostAnswered, PostRefused, CountAnswered, AnswerUnseen
  <2>5. (Fetching = {} => Fetching' = {}) /\ \A e, f \in Fetching' : e = f
    BY <2>1, FetchingKept
  <2> QED BY <1>0, <2>1, <2>2, <2>4, <2>5, ShownQuiet
<1>10. ASSUME NEW c \in calls, InvoicesAnswered(c)
       PROVE  ShownTypes'
  <2>1. /\ UNCHANGED <<db, user, visit, view, notice, submitting, chosen, missed>> /\ calls' = calls \ {c}
        /\ c \in Fetching /\ loading' = FALSE /\ user # NoOne
        /\ invoices' = IF c.answer = "200" THEN c.list ELSE invoices
    BY <1>10 DEF InvoicesAnswered, Awaited, Calls, Fetching
  <2>2. Fetching' = {}
    BY <2>1 DEF Fetching, ShownTypes
  <2>3. chosen = 0 /\ ~FormMounted
    BY <2>1 DEF ShownTypes
  <2>4. invoices' \subseteq DOMAIN db
    <3>1. c.answer = "200" => \A p \in c.list : p \in DOMAIN db
      BY <2>1 DEF CustomerInd, CallOK, Fetching
    <3> QED BY <2>1, <3>1 DEF ShownTypes
  <2> QED BY <1>0, <2>1, <2>2, <2>3, <2>4 DEF ShownTypes, FormMounted
<1>11. ASSUME NEW c \in calls, Lose(c)
       PROVE  ShownTypes'
  <2>1. /\ UNCHANGED <<db, user, visit, view, invoices, chosen>> /\ c.visit = visit /\ user # NoOne
        /\ loading' = (IF c.kind = "invoices" THEN FALSE ELSE loading)
        /\ missed' = (IF c.answer = "201" THEN missed \cup {c.payment} ELSE missed)
    BY <1>11 DEF Lose, Awaited
  <2>2. notice' \in {"", "invalid", "success", "refused", "network"} /\ submitting' \in BOOLEAN
    BY <1>0, <1>11 DEF Lose, FormEnds
  <2>3. c.answer = "201" => c.payment \in DOMAIN db
    BY DEF CustomerInd, CallOK
  <2>4. missed' \subseteq DOMAIN db'
    BY <1>0, <2>1, <2>3
  <2>5. CASE c.kind = "invoices"
    <3>1. calls' = calls \ {c} /\ c \in Fetching
      BY <1>11, <2>1, <2>5 DEF Lose, Calls, Fetching
    <3>2. Fetching' = {} /\ ~FormMounted
      BY <2>1, <3>1 DEF Fetching, ShownTypes
    <3> QED BY <1>0, <2>1, <2>2, <2>4, <2>5, <3>2 DEF ShownTypes, FormMounted
  <2>6. CASE c.kind # "invoices"
    <3>1. PICK d : d = [ c EXCEPT !.visit = 0 ]
      OBVIOUS
    <3>2. c = Shape(c)
      BY <1>0
    <3>3. d.kind = c.kind
      BY <3>1, <3>2 DEF Shape
    <3>4. calls' \subseteq (calls \ {c}) \cup {d}
      BY <1>11, <3>1 DEF Lose, Calls
    <3>5. (Fetching = {} => Fetching' = {}) /\ \A e, f \in Fetching' : e = f
      BY <2>1, <2>6, <3>3, <3>4, FetchingKept
    <3> QED BY <1>0, <2>1, <2>2, <2>4, <2>6, <3>5, ShownQuiet
  <2> QED BY <2>5, <2>6
<1> QED BY <1>1, <1>2, <1>3, <1>4, <1>5, <1>6, <1>7, <1>8, <1>9, <1>10, <1>11 DEF CustomerNext

-----------------------------------------------------------------------------
(* The types of an employee's page *)

\* A payment is opened of a list that does not change any more.
EmployeeTypes ==
  /\ mount <= MaxMounts /\ page \in {"payments", "customers", "accepted"}
  /\ customers \in Seq(Customer) /\ Len(customers) <= Cardinality(Customer)
  /\ cursor \in -1 .. Max({Cardinality(Customer) - 1, 0})
  /\ selected \in Customer \cup {NoOne} /\ details \in Customer \cup {NoOne}
  /\ \A a \in asks : a.customer \in Customer \cup {NoOne}
  /\ opened \in accepted \cup {0} /\ (opened # 0 => ~archiving)
  /\ ~archiving => \A a \in asks : ~(a.kind = "accepted" /\ a.mount = mount)
  /\ sent <= MaxAsks

\* GET /employee/all of customers: each once.
LEMMA DirectoryIs ==
  /\ Directory \in Seq(Customer) /\ Len(Directory) = Cardinality(Customer)
  /\ Cardinality(Customer) \in Nat
<1>1. Cardinality(Customer) \in Nat /\ ExistsBijection(1 .. Cardinality(Customer), Customer)
  BY FS_CardinalityType, StaffPagesAssumption
<1>2. \E f \in [ 1 .. Cardinality(Customer) -> Customer ] : IsInjective(f)
  BY <1>1 DEF ExistsBijection, Bijection, Injection
<1>3. Directory \in [ 1 .. Cardinality(Customer) -> Customer ]
  BY <1>2 DEF Directory, SetToSeq
<1> QED BY <1>1, <1>3

\* How far the cursor goes.
LEMMA CursorTop ==
  ASSUME NEW n \in Int, n < Cardinality(Customer) \/ n = 0, 0 - 1 <= n
  PROVE  n \in -1 .. Max({Cardinality(Customer) - 1, 0})
<1>1. PICK top \in Int : top = Cardinality(Customer) - 1
  BY DirectoryIs
<1>2. Max({top, 0}) = (IF top <= 0 THEN 0 ELSE top)
  BY OfTwo
<1>3. n <= top \/ n = 0
  BY <1>1, DirectoryIs
<1>4. n \in -1 .. Max({top, 0})
  BY <1>1, <1>2, <1>3
<1> QED BY <1>1, <1>4

\* The cursor is before the first item at first.
LEMMA CursorBefore == 0 - 1 \in -1 .. Max({Cardinality(Customer) - 1, 0})
<1>1. 0 - 1 \in Int /\ 0 - 1 < Cardinality(Customer) /\ 0 - 1 <= 0 - 1
  BY DirectoryIs
<1> QED BY <1>1, CursorTop

\* A browser that nobody uses has the types.
LEMMA EmployeeTypesInit ==
  ASSUME PagesInit
  PROVE  EmployeeTypes
<1>1. /\ page = "payments" /\ mount = 0 /\ customers = << >> /\ cursor = 0 - 1 /\ selected = NoOne
      /\ details = NoOne /\ sent = 0 /\ accepted = {} /\ opened = 0 /\ archiving = TRUE /\ asks = {}
  BY DEF PagesInit, EmployeeInit
<1>2. cursor \in -1 .. Max({Cardinality(Customer) - 1, 0})
  BY <1>1, CursorBefore
<1>3. mount <= MaxMounts /\ sent <= MaxAsks
  BY <1>1, StaffPagesAssumption
<1> QED BY <1>1, <1>2, <1>3, DirectoryIs DEF EmployeeTypes

\* A customer of the list is selected.
LEMMA SelectTypes ==
  ASSUME EmployeeTypes, AsksOK, NEW customer \in Customer, NEW times \in {1, 2}, Select(customer, times),
         cursor' \in -1 .. Max({Cardinality(Customer) - 1, 0}),
         UNCHANGED <<page, mount, customers, details, accepted, opened, archiving>>
  PROVE  EmployeeTypes'
<1>1. /\ selected' = customer /\ sent' = sent + times /\ sent + times <= MaxAsks
      /\ asks' = asks \cup { Ask("details", mount, customer, n) : n \in sent + 1 .. sent + times }
  BY DEF Select, AskedOf
<1>2. \A a \in asks' \ asks : a.kind = "details" /\ a.customer = customer
  BY <1>1 DEF Ask
<1>3. \A a \in asks' : a.customer \in Customer \cup {NoOne}
  BY <1>2 DEF EmployeeTypes
<1>4. ~archiving => \A a \in asks' : ~(a.kind = "accepted" /\ a.mount = mount)
  BY <1>2 DEF EmployeeTypes
<1> QED BY <1>1, <1>3, <1>4 DEF EmployeeTypes

\* Every step of an employee's views keeps their types.
LEMMA EmployeeTypesStep ==
  ASSUME AsksOK, EmployeeTypes, EmployeeNext
  PROVE  EmployeeTypes'
<1>0. /\ mount \in Nat /\ sent \in Nat /\ \A a \in asks : a.mount \in 0 .. mount /\ a = AskShape(a)
      /\ OneArchiveAsk
  BY DEF AsksOK, AskOK
<1>1. ASSUME NEW e \in Employee, StaffSignIn(e)
      PROVE  EmployeeTypes'
  BY <1>1 DEF StaffSignIn, directory, archive, EmployeeTypes
<1>2. ASSUME StaffLeave
      PROVE  EmployeeTypes'
  BY <1>2 DEF StaffLeave, directory, archive, EmployeeTypes
<1>3. ASSUME NEW which \in {"payments", "customers", "accepted"}, Open(which)
      PROVE  EmployeeTypes'
  <2>1. /\ page' = which /\ mount' = mount + 1 /\ mount < MaxMounts /\ customers' = << >> /\ cursor' = 0 - 1
        /\ selected' = NoOne /\ details' = NoOne /\ sent' = 0 /\ accepted' = {} /\ archiving' = TRUE
        /\ opened' = 0
    BY <1>3 DEF Open, DirectoryMounts, ArchiveMounts
  <2>2. asks' \subseteq asks \cup {Ask(which, mount', NoOne, 0)}
    BY <1>3 DEF Open
  <2>3. \A a \in asks' : a.customer \in Customer \cup {NoOne}
    BY <2>2 DEF Ask, EmployeeTypes
  <2>4. cursor' \in -1 .. Max({Cardinality(Customer) - 1, 0})
    BY <2>1, CursorBefore
  <2>5. mount' <= MaxMounts /\ sent' <= MaxAsks
    BY <1>0, <2>1, StaffPagesAssumption
  <2> QED BY <2>1, <2>3, <2>4, <2>5, DirectoryIs DEF EmployeeTypes
<1>4. ASSUME NEW i \in DOMAIN customers, Click(i)
      PROVE  EmployeeTypes'
  <2>1. /\ cursor' = i - 1 /\ Select(customers[i], 2)
        /\ UNCHANGED <<page, mount, customers, details, accepted, opened, archiving>>
    BY <1>4 DEF Click, archive
  <2>2. i \in 1 .. Len(customers) /\ customers[i] \in Customer /\ Len(customers) <= Cardinality(Customer)
    BY DEF EmployeeTypes
  <2>3. cursor' \in -1 .. Max({Cardinality(Customer) - 1, 0})
    <3>1. i - 1 \in Int /\ i - 1 < Cardinality(Customer) /\ 0 - 1 <= i - 1
      BY <2>2, DirectoryIs DEF EmployeeTypes
    <3> QED BY <2>1, <3>1, CursorTop
  <2> QED BY <2>1, <2>2, <2>3, SelectTypes
<1>5. ASSUME Choose
      PROVE  EmployeeTypes'
  <2>1. /\ cursor + 1 \in DOMAIN customers /\ Select(customers[cursor + 1], 1)
        /\ UNCHANGED <<cursor, page, mount, customers, details, accepted, opened, archiving>>
    BY <1>5 DEF Choose, archive
  <2>2. customers[cursor + 1] \in Customer
    BY <2>1 DEF EmployeeTypes
  <2>3. cursor' \in -1 .. Max({Cardinality(Customer) - 1, 0})
    BY <2>1 DEF EmployeeTypes
  <2> QED BY <2>1, <2>2, <2>3, SelectTypes
<1>6. ASSUME Point
      PROVE  EmployeeTypes'
  <2>1. /\ cursor' \in {Min({cursor + 1, Len(customers) - 1}), Max({cursor - 1, 0})}
                       \cup { i - 1 : i \in DOMAIN customers }
        /\ UNCHANGED <<page, mount, customers, selected, details, sent, accepted, opened, archiving, asks>>
    BY <1>6 DEF Point, archive
  <2>2. PICK n, k, c : n = Len(customers) /\ k = Cardinality(Customer) /\ c = cursor
    OBVIOUS
  <2>3. PICK top : top = Max({Cardinality(Customer) - 1, 0})
    OBVIOUS
  <2>4. n \in Nat /\ k \in Nat /\ n <= k /\ DOMAIN customers = 1 .. n /\ c \in -1 .. top
    BY <2>2, <2>3, DirectoryIs DEF EmployeeTypes
  <2>5. PICK k1, c1, c2, n1 : k1 = k - 1 /\ c1 = c + 1 /\ c2 = c - 1 /\ n1 = n - 1
    OBVIOUS
  <2>6. k1 \in Int /\ c1 \in Int /\ c2 \in Int /\ n1 \in Int
    BY <2>4, <2>5
  <2>7. /\ Max({k1, 0}) = (IF k1 <= 0 THEN 0 ELSE k1)
         /\ Min({c1, n1}) = (IF c1 <= n1 THEN c1 ELSE n1)
         /\ Max({c2, 0}) = (IF c2 <= 0 THEN 0 ELSE c2)
    BY <2>6, OfTwo
  <2>8. top = (IF k1 <= 0 THEN 0 ELSE k1)
    BY <2>2, <2>3, <2>5, <2>7
  <2>9. Min({c1, n1}) \in -1 .. top /\ Max({c2, 0}) \in -1 .. top
    BY <2>4, <2>5, <2>7, <2>8
  <2>10. \A i \in 1 .. n : i - 1 \in -1 .. top
    BY <2>4, <2>5, <2>8
  <2>11. cursor' \in -1 .. top
    BY <2>1, <2>2, <2>4, <2>5, <2>9, <2>10
  <2> QED BY <2>1, <2>3, <2>11 DEF EmployeeTypes
<1>7. ASSUME NEW p \in accepted \cup {0}, ShowPayment(p)
      PROVE  EmployeeTypes'
  <2>1. /\ opened' = p /\ (p # 0 => ~archiving)
        /\ UNCHANGED <<page, mount, customers, cursor, selected, details, sent, accepted, archiving, asks>>
    BY <1>7 DEF ShowPayment, ArchiveShown, directory
  <2> QED BY <2>1 DEF EmployeeTypes
<1>8. ASSUME NEW a \in asks, ServeAsk(a) \/ FailAsk(a)
      PROVE  EmployeeTypes'
  <2>1. UNCHANGED <<page, mount, customers, cursor, selected, details, sent, accepted, opened, archiving>>
    BY <1>8 DEF ServeAsk, FailAsk, directory, archive
  <2>2. PICK answer, list : asks' = (asks \ {a}) \cup {[ a EXCEPT !.answer = answer, !.list = list ]}
    BY <1>8 DEF ServeAsk, FailAsk, Reply
  <2>3. PICK d : d = [ a EXCEPT !.answer = answer, !.list = list ]
    OBVIOUS
  <2>4. a = AskShape(a)
    BY <1>0
  <2>5. d.kind = a.kind /\ d.mount = a.mount /\ d.customer = a.customer
    BY <2>3, <2>4 DEF AskShape
  <2>6. asks' = (asks \ {a}) \cup {d}
    BY <2>2, <2>3
  <2> QED BY <2>1, <2>5, <2>6 DEF EmployeeTypes
<1>9. ASSUME NEW a \in asks, CustomersAnswered(a)
      PROVE  EmployeeTypes'
  <2>1. /\ asks' = asks \ {a} /\ customers' = (IF a.answer = "200" THEN Directory ELSE customers)
        /\ UNCHANGED <<page, mount, cursor, selected, details, sent, accepted, opened, archiving>>
    BY <1>9 DEF CustomersAnswered, Taken, archive
  <2>2. customers' \in Seq(Customer) /\ Len(customers') <= Cardinality(Customer)
    BY <2>1, DirectoryIs DEF EmployeeTypes
  <2> QED BY <2>1, <2>2 DEF EmployeeTypes
<1>10. ASSUME NEW a \in asks, DetailsAnswered(a)
       PROVE  EmployeeTypes'
  <2>1. /\ asks' = asks \ {a} /\ details' = (IF a.answer = "200" THEN a.customer ELSE details)
        /\ UNCHANGED <<page, mount, customers, cursor, selected, sent, accepted, opened, archiving>>
    BY <1>10 DEF DetailsAnswered, Taken, archive
  <2> QED BY <2>1 DEF EmployeeTypes
<1>11. ASSUME NEW a \in asks, AcceptedAnswered(a)
       PROVE  EmployeeTypes'
  <2>1. /\ asks' = asks \ {a} /\ a.kind = "accepted" /\ a.mount = mount /\ archiving' = FALSE
        /\ UNCHANGED <<page, mount, customers, cursor, selected, details, sent, opened>>
    BY <1>11 DEF AcceptedAnswered, Taken, Seen, directory
  <2>2. \A b \in asks' : ~(b.kind = "accepted" /\ b.mount = mount)
    BY <1>0, <2>1 DEF OneArchiveAsk
  <2>3. opened = 0
    BY <2>1 DEF EmployeeTypes
  <2> QED BY <2>1, <2>2, <2>3 DEF EmployeeTypes
<1>12. ASSUME NEW a \in asks, AskUnseen(a)
       PROVE  EmployeeTypes'
  <2>1. /\ asks' = asks \ {a}
        /\ UNCHANGED <<page, mount, customers, cursor, selected, details, sent, accepted, opened, archiving>>
    BY <1>12 DEF AskUnseen, directory, archive
  <2> QED BY <2>1 DEF EmployeeTypes
<1> QED BY <1>1, <1>2, <1>3, <1>4, <1>5, <1>6, <1>7, <1>8, <1>9, <1>10, <1>11, <1>12 DEF EmployeeNext

-----------------------------------------------------------------------------
(* An employee's page: the invariant holds *)

\* A browser that nobody uses satisfies the invariant.
LEMMA EmployeeSideInit ==
  ASSUME PagesInit
  PROVE  EmployeeSide
<1>1. /\ db = << >> /\ staff = NoOne /\ mount = 0 /\ sent = 0 /\ asks = {}
      /\ archived = [ e \in Employee |-> {} ]
  BY DEF PagesInit, DataInit, EmployeeInit
<1>2. AsksOK /\ SpinnerMeansFetch /\ DetailsOK /\ CoveredOK
  BY <1>1 DEF AsksOK, OneArchiveAsk, SpinnerMeansFetch, DetailsOK, Viewed, CoveredOK
<1>3. ArchivedOK
  BY <1>1 DEF ArchivedOK
<1> QED BY <1>1, <1>2, <1>3 DEF EmployeeSide, EmployeeInd

\* Every step of an employee's views keeps their invariant.
LEMMA EmployeeKeeps ==
  ASSUME EmployeeSide, EmployeeNext
  PROVE  EmployeeSide'
<1>1. ASSUME NEW i \in DOMAIN customers, Click(i)
      PROVE  EmployeeSide'
  <2>1. /\ Viewed /\ Select(customers[i], 2)
        /\ UNCHANGED <<db, staff, page, mount, listing, crossed, details, accepted, archiving, archived, toast>>
    BY <1>1 DEF Click, InDirectory, Viewed, archive
  <2> QED BY <2>1, SelectStep
<1>2. ASSUME Choose
      PROVE  EmployeeSide'
  <2>1. /\ Viewed /\ Select(customers[cursor + 1], 1)
        /\ UNCHANGED <<db, staff, page, mount, listing, crossed, details, accepted, archiving, archived, toast>>
    BY <1>2 DEF Choose, InDirectory, Viewed, archive
  <2> QED BY <2>1, SelectStep
<1> QED BY <1>1, <1>2, SignInOrLeave, OpenStep, PageQuiet, ServeAskStep, CustomersAnsweredStep,
           DetailsAnsweredStep, AcceptedAnsweredStep DEF EmployeeNext

\* Every step, of whoever, keeps the invariant of an employee's views.
LEMMA EmployeeSideStep ==
  ASSUME CustomerSide, EmployeeSide, [PagesNext]_pagesVars
  PROVE  EmployeeSide'
<1>1. CASE EmployeeStep
  BY <1>1, EmployeeKeeps DEF EmployeeStep
<1>2. CASE CustomerStep \/ TableStep \/ EmployeesWork \/ CustomersPay \/ UNCHANGED pagesVars
  <2>1. UNCHANGED employeePage
    BY <1>2 DEF CustomerStep, TableStep, EmployeesWork, CustomersPay, pagesVars
  <2>2. Onward /\ db' \in Seq(Doc)
    BY CustomerSideStep DEF CustomerSide
  <2> QED BY <2>1, <2>2, PageRests
<1> QED BY <1>1, <1>2 DEF PagesNext

-----------------------------------------------------------------------------
(* The types hold *)

TypesSide ==
  /\ side \in {"customer", "directory", "archive", "queue"}
  /\ CustomerTypes /\ EmployeeTypes

\* A portal that nobody uses has the types.
LEMMA TypesSideInit ==
  ASSUME PagesInit
  PROVE  TypesSide
<1>1. /\ visit = 0 /\ view = "dashboard" /\ notice = "" /\ submitting = FALSE /\ invoices = {}
      /\ loading = TRUE /\ chosen = 0 /\ calls = {} /\ missed = {}
      /\ side \in {"customer", "directory", "archive", "queue"}
  BY DEF PagesInit, CustomerInit
<1>2. CallsBounded
  <2>1. IsFiniteSet(calls) /\ Cardinality(calls) = 0
    BY <1>1, FS_EmptySet
  <2>2. MaxCalls \in Nat
    BY PagesAssumption
  <2> QED BY <2>1, <2>2 DEF CallsBounded
<1>3. Fetching = {}
  BY <1>1 DEF Fetching
<1>4. ShownTypes
  <2>1. visit = 0 /\ MaxVisits \in Nat
    BY <1>1, PagesAssumption
  <2>2. visit <= MaxVisits
    BY <2>1
  <2> QED BY <1>1, <1>3, <2>2 DEF ShownTypes
<1> QED BY <1>1, <1>2, <1>4, EmployeeTypesInit DEF TypesSide, CustomerTypes

\* Every step, of whoever, keeps the types.
LEMMA TypesSideStep ==
  ASSUME CustomerSide, EmployeeSide, TypesSide, [PagesNext]_pagesVars
  PROVE  TypesSide'
<1>0. CustomerInd /\ AsksOK /\ db \in Seq(Doc) /\ Onward
  BY CustomerSideStep DEF CustomerSide, EmployeeSide, EmployeeInd
<1>1. CASE CustomerStep
  <2>1. CustomerNext /\ side' = side /\ UNCHANGED employeePage
    BY <1>1 DEF CustomerStep
  <2>2. CustomerTypes'
    BY <1>0, <2>1, CallsBoundedStep, ShownTypesStep DEF TypesSide, CustomerTypes
  <2>3. EmployeeTypes'
    BY <2>1 DEF TypesSide, EmployeeTypes, employeePage, directory, archive
  <2> QED BY <2>1, <2>2, <2>3 DEF TypesSide
<1>2. CASE EmployeeStep \/ TableStep \/ EmployeesWork \/ CustomersPay \/ UNCHANGED pagesVars
  <2>1. UNCHANGED <<customerPage, side>>
    BY <1>0, <1>2, OthersKeep
  <2>2. CustomerTypes'
    <3>1. DOMAIN db \subseteq DOMAIN db'
      BY <1>0 DEF Onward, Forward
    <3>2. Fetching' = Fetching
      BY <2>1 DEF Fetching, customerPage, dashboard
    <3> QED BY <2>1, <3>1, <3>2
            DEF TypesSide, CustomerTypes, CallsBounded, ShownTypes, FormMounted, customerPage, dashboard
  <2>3. EmployeeTypes'
    <3>1. CASE EmployeeStep
      BY <1>0, <3>1, EmployeeTypesStep DEF TypesSide, EmployeeStep
    <3>2. CASE ~EmployeeStep
      <4>1. UNCHANGED employeePage
        BY <1>2, <3>2 DEF TableStep, EmployeesWork, CustomersPay, pagesVars
      <4> QED BY <4>1 DEF TypesSide, EmployeeTypes, employeePage, directory, archive
    <3> QED BY <3>1, <3>2
  <2> QED BY <2>1, <2>2, <2>3 DEF TypesSide
<1> QED BY <1>1, <1>2 DEF PagesNext

-----------------------------------------------------------------------------
(* The theorems *)

PagesInd == CustomerSide /\ EmployeeSide /\ TableSide /\ TypesSide

\* The inductive invariant of all that a browser shows.
THEOREM PagesInductive == PagesSpec => []PagesInd
<1>1. PagesInit => PagesInd
  BY CustomerSideInit, EmployeeSideInit, TableSideInit, TypesSideInit DEF PagesInd
<1>2. PagesInd /\ [PagesNext]_pagesVars => PagesInd'
  BY CustomerSideStep, EmployeeSideStep, TableSideStep, TypesSideStep DEF PagesInd
<1> QED BY <1>1, <1>2, PTL DEF PagesSpec

\* PaymentDashboard, InvoicesView, AcceptedPaymentsView: whatever answers come late, all
\* that a page shows belongs to whom it shows, and no transaction is shown twice.
THEOREM PagesShowWhomTheyBelongTo == PagesSpec => []ShownIsTheirs
<1>1. PagesInd => HistoryIsTrue
  <2> SUFFICES ASSUME PagesInd, user # NoOne
               PROVE  /\ \A i \in DOMAIN HistoryShown : db[HistoryShown[i]].customer = user
                      /\ IsInjective(HistoryShown)
                      /\ badge = Len(history)
    BY DEF HistoryIsTrue
  <2>1. /\ \A i \in DOMAIN history : db[history[i]].customer = user
        /\ \A i, j \in DOMAIN history : history[i] = history[j] => i = j
        /\ badge = Len(history)
    BY DEF PagesInd, CustomerSide, CustomerInd, HistoryTrue
  <2>2. CASE FormMounted
    BY <2>1, <2>2 DEF HistoryShown, IsInjective
  <2>3. CASE ~FormMounted
    BY <2>1, <2>3 DEF HistoryShown, IsInjective
  <2> QED BY <2>2, <2>3
<1>2. PagesInd => InvoicesAreTheirs
  BY DEF PagesInd, CustomerSide, CustomerInd, ListTrue, InvoicesAreTheirs, InvoicesShown
<1>3. PagesInd => AcceptedAreMine
  BY DEF PagesInd, EmployeeSide, EmployeeInd, ArchivedOK, Mine, AcceptedAreMine, ArchiveShown
<1>4. PagesInd => ShownIsTheirs
  BY <1>1, <1>2, <1>3 DEF ShownIsTheirs
<1> QED BY <1>4, PagesInductive, PTL

\* A form that is shut and a spinner of the invoices have a request that will end them.
Waiting ==
  user # NoOne =>
    /\ view = "dashboard" /\ submitting => \E c \in calls : c.kind = "post" /\ c.visit = visit
    /\ view = "invoices" /\ loading => \E c \in calls : c.kind = "invoices" /\ c.visit = visit

\* Nothing waits for more than before, and requests that are waited for stay.
LEMMA WaitingStays ==
  ASSUME Waiting, UNCHANGED <<user, visit, view>>,
         view = "dashboard" /\ submitting' =>
           submitting /\ \A d \in calls : d.kind = "post" /\ d.visit = visit =>
                           \E e \in calls' : e.kind = "post" /\ e.visit = visit,
         view = "invoices" /\ loading' =>
           loading /\ \A d \in calls : d.kind = "invoices" /\ d.visit = visit =>
                        \E e \in calls' : e.kind = "invoices" /\ e.visit = visit
  PROVE  Waiting'
BY DEF Waiting

\* Serving a request leaves somebody's request what it is.
LEMMA ServingWaits ==
  ASSUME CustomerInd, Waiting, NEW c \in calls, NEW d, d.kind = c.kind, d.visit = c.visit,
         calls' = (calls \ {c}) \cup {d}, UNCHANGED <<user, visit, view, submitting, loading>>
  PROVE  Waiting'
BY DEF Waiting

\* Each way in which a customer's page goes on keeps what waits and its request together.
LEMMA CustomerWaitsStep == CustomerInd /\ Waiting /\ CustomerNext => Waiting'
<1> SUFFICES ASSUME CustomerInd, Waiting, CustomerNext PROVE Waiting'
  OBVIOUS
<1>0. visit \in Nat /\ (user # NoOne => visit > 0) /\ \A c \in calls : c = Shape(c)
  BY DEF CustomerInd, PageTyped, CallOK
<1>1. CASE \E u \in Customer : SignIn(u)
  BY <1>1 DEF SignIn, Waiting
<1>2. CASE Leave
  BY <1>2 DEF Leave, Waiting
<1>3. CASE ShowInvoices
  <2>1. PICK d : d = Call("invoices", << >>)
    OBVIOUS
  <2>2. d.kind = "invoices" /\ d.visit = visit
    BY <2>1, CallShape
  <2> QED BY <1>3, <2>1, <2>2 DEF ShowInvoices, Calls, Waiting
<1>4. CASE \/ \E p \in invoices \cup {0} : ChooseInvoice(p)
           \/ \E name \in Name : Type(name)
  <2>1. UNCHANGED <<user, visit, view, submitting, loading, calls>>
    BY <1>4 DEF ChooseInvoice, Type
  <2> QED BY <2>1 DEF Waiting
<1>5. CASE SubmitPayment
  <2>1. PICK d : d = Call("post", form)
    OBVIOUS
  <2>2. d.kind = "post" /\ d.visit = visit
    BY <2>1, CallShape
  <2>3. view = "dashboard" /\ UNCHANGED <<user, visit, view, loading>>
    BY <1>5 DEF SubmitPayment, FormMounted
  <2>4. UNCHANGED <<submitting, calls>> \/ calls' = calls \cup {d}
    BY <1>5, <2>1 DEF SubmitPayment, Calls
  <2> QED BY <2>2, <2>3, <2>4 DEF Waiting
<1>6. ASSUME NEW c \in calls, ServePost(c) \/ ServeRead(c) \/ ServeError(c)
      PROVE  Waiting'
  <2>1. UNCHANGED <<user, visit, view, submitting, loading>>
    BY <1>6 DEF ServePost, ServeRead, ServeError, dashboard
  <2>2. CASE calls' = calls \ {c} /\ c.visit = 0
    BY <1>0, <2>1, <2>2 DEF Waiting
  <2>3. \/ calls' = calls \ {c} /\ c.visit = 0
        \/ \E d : d.kind = c.kind /\ d.visit = c.visit /\ calls' = (calls \ {c}) \cup {d}
    <3>1. c = Shape(c)
      BY <1>0
    <3>2. ASSUME NEW answer, NEW payment
          PROVE  /\ [ c EXCEPT !.answer = answer, !.payment = payment ].kind = c.kind
                 /\ [ c EXCEPT !.answer = answer, !.payment = payment ].visit = c.visit
      BY <3>1 DEF Shape
    <3>3. ASSUME NEW answer, NEW list
          PROVE  /\ [ c EXCEPT !.answer = answer, !.list = list ].kind = c.kind
                 /\ [ c EXCEPT !.answer = answer, !.list = list ].visit = c.visit
      BY <3>1 DEF Shape
    <3>4. ASSUME NEW answer
          PROVE  [ c EXCEPT !.answer = answer ].kind = c.kind /\ [ c EXCEPT !.answer = answer ].visit = c.visit
      BY <3>1 DEF Shape
    <3>5. CASE ServePost(c)
      <4>1. CASE OutcomeOf[c.name] = "201" /\ c.visit # 0
        BY <3>2, <3>5, <4>1 DEF ServePost
      <4>2. CASE OutcomeOf[c.name] = "201" /\ c.visit = 0
        BY <3>5, <4>2 DEF ServePost
      <4>3. CASE OutcomeOf[c.name] # "201"
        BY <3>4, <3>5, <4>3 DEF ServePost, Answered, Calls
      <4> QED BY <4>1, <4>2, <4>3
    <3>6. CASE ServeRead(c)
      BY <3>3, <3>6 DEF ServeRead, Calls
    <3>7. CASE ServeError(c)
      BY <3>4, <3>7 DEF ServeError, Answered, Calls
    <3> QED BY <1>6, <3>5, <3>6, <3>7
  <2> QED BY <2>1, <2>2, <2>3, ServingWaits
<1>7. ASSUME NEW c \in calls, PostAnswered(c) \/ PostRefused(c)
      PROVE  Waiting'
  BY <1>7, WaitingStays DEF PostAnswered, PostRefused, FormEnds, FormMounted, Awaited, Calls
<1>8. ASSUME NEW c \in calls, CountAnswered(c) \/ InvoicesAnswered(c) \/ AnswerUnseen(c)
      PROVE  Waiting'
  BY <1>8, WaitingStays DEF CountAnswered, InvoicesAnswered, AnswerUnseen, Awaited, Calls, dashboard, Waiting
<1>9. ASSUME NEW c \in calls, Lose(c)
      PROVE  Waiting'
  BY <1>0, <1>9, WaitingStays DEF Lose, FormEnds, FormMounted, Awaited, Calls
<1> QED BY <1>1, <1>2, <1>3, <1>4, <1>5, <1>6, <1>7, <1>8, <1>9 DEF CustomerNext

\* Others do nothing to a customer's page.
LEMMA WaitingStep == PagesInd /\ Waiting /\ [PagesNext]_pagesVars => Waiting'
<1> SUFFICES ASSUME PagesInd, Waiting, [PagesNext]_pagesVars PROVE Waiting'
  OBVIOUS
<1>1. CASE CustomerStep
  BY <1>1, CustomerWaitsStep DEF CustomerStep, PagesInd, CustomerSide
<1>2. CASE UNCHANGED customerPage
  BY <1>2 DEF customerPage, dashboard, Waiting
<1> QED
  BY <1>1, <1>2 DEF PagesNext, EmployeeStep, TableStep, EmployeesWork, CustomersPay, pagesVars

\* Pages keep their shape; a spinner is shown only while an answer that ends it is under
\* way, and of one visit at most one payment is.
THEOREM PagesKeepTheirShape == PagesSpec => []PagesInv
<1>1. PagesInd => SpinnerMeansFetch /\ OnePostAtATime
  BY DEF PagesInd, EmployeeSide, EmployeeInd, CustomerSide, CustomerInd
<1>2. PagesInd => PagesTypeOK
  <2> SUFFICES ASSUME PagesInd PROVE PagesTypeOK
    OBVIOUS
  <2>1. /\ side \in {"customer", "directory", "archive", "queue"}
        /\ \A p \in DOMAIN db : db[p].customer \in Customer /\ db[p].status \in Status
        /\ user \in Customer \cup {NoOne} /\ form \in Form
    <3>1. db \in Seq(Doc) /\ user \in Customer \cup {NoOne} /\ form \in Form
      BY DEF PagesInd, CustomerSide, CustomerInd, PageTyped
    <3>2. \A p \in DOMAIN db : db[p] \in Doc
      BY <3>1
    <3>3. \A p \in DOMAIN db : db[p].customer \in Customer /\ db[p].status \in Status
      BY <3>2 DEF Doc
    <3> QED BY <3>1, <3>3 DEF PagesInd, TypesSide
  <2>2. /\ visit \in 0 .. MaxVisits
        /\ view \in {"dashboard", "invoices"}
        /\ notice \in {"", "invalid", "success", "refused", "network"}
        /\ submitting \in BOOLEAN /\ loading \in BOOLEAN
        /\ chosen \in invoices \cup {0}
        /\ invoices \subseteq DOMAIN db /\ missed \subseteq DOMAIN db
        /\ Cardinality(calls) <= MaxCalls
    <3>1. visit \in 0 .. MaxVisits
      <4>1. visit \in Nat /\ visit <= MaxVisits /\ MaxVisits \in Nat
        BY PagesAssumption DEF PagesInd, TypesSide, CustomerTypes, ShownTypes, CustomerSide, CustomerInd, PageTyped
      <4> QED BY <4>1
    <3> QED BY <3>1 DEF PagesInd, TypesSide, CustomerTypes, ShownTypes, CallsBounded
  <2>3. /\ staff \in Employee \cup {NoOne} /\ mount \in 0 .. MaxMounts
        /\ page \in {"payments", "customers", "accepted"}
        /\ cursor \in -1 .. Max({Cardinality(Customer) - 1, 0})
        /\ selected \in Customer \cup {NoOne} /\ details \in Customer \cup {NoOne}
        /\ opened \in accepted \cup {0} /\ sent \in 0 .. MaxAsks
    <3>1. mount \in 0 .. MaxMounts /\ sent \in 0 .. MaxAsks
      BY StaffPagesAssumption DEF PagesInd, TypesSide, EmployeeTypes, EmployeeSide, EmployeeInd, AsksOK
    <3> QED BY <3>1 DEF PagesInd, TypesSide, EmployeeTypes, EmployeeSide, EmployeeInd, AsksOK
  <2>4. archived \in [ Employee -> SUBSET DOMAIN db ]
    <3>1. archived \in [ Employee -> SUBSET Nat ] /\ \A e \in Employee : archived[e] \subseteq DOMAIN db
      BY DEF PagesInd, EmployeeSide, EmployeeInd, ArchivedOK, Mine
    <3> QED BY <3>1
  <2>5. Range(filtered) \subseteq Range(rows) /\ Range(rows) \subseteq DOMAIN db
    <3>1. db \in Seq(Doc) /\ Listing(rows) /\ filtered = Kept(rows, Passing(filter))
      BY DEF PagesInd, TableSide, TableOK
    <3>2. \A i \in DOMAIN filtered : \E j \in DOMAIN rows : rows[j] = filtered[i]
      BY <3>1, KeptOf
    <3>3. \A j \in DOMAIN rows : rows[j] \in DOMAIN db
      BY <3>1 DEF Listing
    <3> QED BY <3>2, <3>3 DEF Range
  <2>6. currentPage \in 1 .. MaxQueue
    <3>1. CASE currentPage = 1
      BY <3>1, TableAssumption
    <3>2. CASE currentPage # 1
      <4>1. PICK top : top = Len(filtered)
        OBVIOUS
      <4>2. /\ currentPage \in Nat \ {0} /\ currentPage <= Pages(top) /\ Len(db) <= MaxQueue
            /\ db \in Seq(Doc) /\ Listing(rows) /\ filtered = Kept(rows, Passing(filter))
        BY <3>2, <4>1 DEF PagesInd, TableSide, TableOK, TotalPages, Pages
      <4>3. top \in Nat /\ top <= Len(db)
        BY <4>1, <4>2, KeptOf DEF Listing
      <4>4. Pages(top) \in 0 .. top
        BY <4>3, PagesFit
      <4>5. Len(db) \in Nat
        BY <4>2
      <4> QED BY <4>2, <4>3, <4>4, <4>5, TableAssumption
    <3> QED BY <3>1, <3>2
  <2>7. \A p \in DOMAIN db : db[p].invoice \in {"none", "due", "issued"} /\ db[p].again \in BOOLEAN
    <3>1. \A p \in DOMAIN db : db[p] \in Doc
      BY DEF PagesInd, TableSide, CustomerSide
    <3> QED BY <3>1 DEF Doc
  <2>8. spinner \in BOOLEAN /\ tab \in Status /\ reading.state \in {"idle", "asked", "200"}
    BY DEF PagesInd, TableSide, TableOK
  <2> QED BY <2>1, <2>2, <2>3, <2>4, <2>5, <2>6, <2>7, <2>8 DEF PagesTypeOK
<1>3. PagesInd /\ Waiting => CustomerWaits
  BY DEF PagesInd, CustomerSide, CustomerInd, FormFree, FormMounted, Waiting, CustomerWaits
<1>4. PagesInd /\ Waiting => PagesInv
  BY <1>1, <1>2, <1>3 DEF PagesInv
<1>5. PagesInit => Waiting
  BY DEF PagesInit, CustomerInit, Waiting
<1> QED BY <1>4, <1>5, WaitingStep, PagesInductive, PTL DEF PagesSpec

\* handleCustomerSelect: with no details under way, none overtaken and none failed, the
\* panel has those of the customer selected last.
THEOREM PanelShowsTheSelected == PagesSpec => []DetailsFollowSelection
<1>1. PagesInd => DetailsFollowSelection
  <2> SUFFICES ASSUME PagesInd, staff # NoOne, page = "customers", selected # NoOne, ~crossed,
                      ~(\E a \in asks : a.kind = "details" /\ Seen(a))
               PROVE  Panel = selected
    BY DEF DetailsFollowSelection
  <2>1. \A a \in asks : ~Due(a)
    BY DEF Seen, Due
  <2>2. details = selected
    BY <2>1 DEF PagesInd, EmployeeSide, EmployeeInd, DetailsOK, Viewed
  <2>3. ~detailing
    BY DEF PagesInd, EmployeeSide, EmployeeInd, SpinnerMeansFetch
  <2> QED BY <2>2, <2>3 DEF Panel
<1> QED BY <1>1, PagesInductive, PTL

\* AcceptedPaymentsView: what the archive has shown to an employee is there again, unless
\* as many newer payments as the list holds have been made or an overlapping handler's
\* decision was saved over it, however many handlers overlap.
THEOREM ArchivesKeep == PagesSpec => []ArchiveKeeps
<1>1. PagesInd => ArchiveKeeps
  BY DEF PagesInd, EmployeeSide, EmployeeInd, CoveredOK, Excused, ArchiveKeeps, ArchiveShown
<1> QED BY <1>1, PagesInductive, PTL

\* POST /api/payments and handleSubmit: every payment that is stored is reported, or its
\* answer is under way, or was lost or came too late.
THEOREM SuccessIsReported == PagesSpec => []EveryPaymentReported
<1>1. PagesInd => EveryPaymentReported
  BY DEF PagesInd, CustomerSide, Reported, EveryPaymentReported
<1> QED BY <1>1, PagesInductive, PTL

\* EmployeeDashboard's table: a row that passes the filters is on exactly one page, which
\* the buttons reach, and the page shown has rows while there are any.
THEOREM TheTableIsPaged == PagesSpec => []PagesCoverRows
<1>1. PagesInd => PagesCoverRows
  <2> SUFFICES ASSUME TableSide PROVE PagesCoverRows
    BY DEF PagesInd
  <2>1. PICK list, at, top : list = filtered /\ at = currentPage /\ top = Len(filtered)
    OBVIOUS
  <2>2. /\ list = Kept(rows, Passing(filter)) /\ Listing(rows) /\ db \in Seq(Doc)
        /\ at \in Nat \ {0} /\ (at = 1 \/ at <= Pages(top)) /\ TotalPages = Pages(top)
    BY <2>1 DEF TableSide, TableOK, TotalPages, Pages
  <2>3. /\ Listing(list)
        /\ \A j \in DOMAIN rows : rows[j] \in Passing(filter) => \E i \in DOMAIN list : list[i] = rows[j]
    BY <2>2, KeptOf
  <2>4. /\ list \in Seq(DOMAIN db) /\ top = Len(list) /\ top \in Nat /\ DOMAIN list = 1 .. top
        /\ \A i, j \in 1 .. top : list[i] = list[j] => i = j
    BY <2>1, <2>3 DEF Listing
  <2>5. PICK first, last : first = (at - 1) * PerPage + 1 /\ last = Min({at * PerPage, top})
    OBVIOUS
  <2>6. /\ first \in Nat \ {0} /\ last \in 0 .. top
        /\ top > 0 => first <= last
        /\ \A i \in 1 .. top : i \in first .. last <=> Pages(i) = at
    BY <2>2, <2>4, <2>5, PageBounds
  <2>7. PICK part : part = SubSeq(list, first, last)
    OBVIOUS
  <2>8. ~spinner => TableShown = part
    BY <2>1, <2>5, <2>7 DEF TableShown, RowsOn
  <2>9. \A i \in first .. last : i \in 1 .. top /\ list[i] \in DOMAIN db
    BY <2>4, <2>6
  <2>10. /\ part \in Seq(DOMAIN db) /\ Len(part) = (IF first <= last THEN last - first + 1 ELSE 0)
         /\ \A k \in 1 .. last - first + 1 : part[k] = list[first + k - 1]
    BY <2>6, <2>7, <2>9, SubSeqProperties
  <2>11. PageHasRows
    <3> SUFFICES ASSUME ~spinner, NEW j \in DOMAIN rows, Passes(db[rows[j]].name, filter)
                 PROVE  TableShown # << >>
      BY DEF PageHasRows
    <3>1. rows[j] \in Passing(filter)
      BY <2>2 DEF Passing, Listing
    <3>2. top > 0
      BY <2>3, <2>4, <3>1
    <3>3. Len(part) > 0
      BY <2>6, <2>10, <3>2
    <3> QED BY <2>8, <3>3
  <2>12. EveryRowOnOnePage
    <3> SUFFICES ASSUME ~spinner, NEW i \in 1 .. top
                 PROVE  /\ list[i] \in Range(part) <=> Pages(i) = at
                        /\ Pages(i) # at => Pages(i) \in 1 .. Pages(top)
      BY <2>1, <2>2, <2>4, <2>8 DEF EveryRowOnOnePage, PageOf, Pages
    <3>1. DOMAIN part = 1 .. Len(part)
      BY <2>10
    <3>2. Pages(i) = at => list[i] \in Range(part)
      <4> SUFFICES ASSUME Pages(i) = at PROVE list[i] \in Range(part)
        OBVIOUS
      <4>1. i \in first .. last
        BY <2>6
      <4>2. i - first + 1 \in 1 .. last - first + 1 /\ first + (i - first + 1) - 1 = i /\ first <= last
        BY <2>6, <4>1
      <4>3. part[i - first + 1] = list[i] /\ i - first + 1 \in DOMAIN part
        BY <2>10, <3>1, <4>2
      <4> QED BY <4>3 DEF Range
    <3>3. list[i] \in Range(part) => Pages(i) = at
      <4> SUFFICES ASSUME list[i] \in Range(part) PROVE Pages(i) = at
        OBVIOUS
      <4>1. PICK k \in 1 .. Len(part) : part[k] = list[i]
        BY <3>1 DEF Range
      <4>2. k \in 1 .. last - first + 1 /\ first + k - 1 \in first .. last
        BY <2>6, <2>10, <4>1
      <4>3. list[first + k - 1] = list[i] /\ first + k - 1 \in 1 .. top
        BY <2>9, <2>10, <4>1, <4>2
      <4>4. i = first + k - 1
        BY <2>4, <4>3
      <4> QED BY <2>6, <4>2, <4>4
    <3>4. Pages(i) \in 1 .. Pages(top)
      <4>1. PICK q, t : q = Pages(i) /\ t = Pages(top)
        OBVIOUS
      <4>2. /\ q \in Nat /\ q > 0 /\ i <= q * PerPage /\ (q - 1) * PerPage < i
            /\ t \in Nat /\ top <= t * PerPage
        BY <2>4, <4>1, PagesFit
      <4>3. PerPage \in Nat /\ PerPage > 0
        BY TableAssumption
      <4>4. t < q => t * PerPage <= (q - 1) * PerPage
        BY <4>2, <4>3
      <4>5. t * PerPage \in Nat /\ (q - 1) * PerPage \in Nat
        BY <4>2, <4>3
      <4> QED BY <2>4, <4>1, <4>2, <4>4, <4>5
    <3> QED BY <3>2, <3>3, <3>4
  <2> QED BY <2>11, <2>12 DEF PagesCoverRows
<1> QED BY <1>1, PagesInductive, PTL

\* sanitizeRequestBody, twice around validatePaymentInput, for texts of any number of parts:
\* an ordinary name is accepted and stored as it was typed, and whatever is stored of any
\* other is clean and nothing but parts of it.
THEOREM NamesSurviveCleaning == PagesSpec => []NamesSurvive
<1>1. ASSUME NEW text \in Texts PROVE text \in Seq(FormParts)
  <2>1. CASE \E n \in 1 .. MaxText : text \in [ 1 .. n -> FormParts ]
    <3>1. PICK n \in 1 .. MaxText : text \in [ 1 .. n -> FormParts ]
      BY <2>1
    <3>2. n \in Nat
      BY PagesAssumption
    <3> QED BY <3>1, <3>2
  <2>2. CASE \E n \in 1 .. MaxKnot : text \in [ 1 .. n -> {"a", "b", "c", "d", "-"} ]
    <3>1. PICK n \in 1 .. MaxKnot : text \in [ 1 .. n -> {"a", "b", "c", "d", "-"} ]
      BY <2>2
    <3>2. n \in Nat
      BY PagesAssumption
    <3>3. {"a", "b", "c", "d", "-"} \subseteq FormParts
      BY DEF FormParts, Letters
    <3>4. text \in [ 1 .. n -> FormParts ]
      BY <3>1, <3>3
    <3> QED BY <3>2, <3>4
  <2> QED BY <2>1, <2>2 DEF Texts
<1>2. NamesLost = {}
  <2> SUFFICES ASSUME NEW text \in OrdinaryNames PROVE Outcome(text) = "201" /\ Stored(text) = text
    BY DEF NamesLost
  <2>1. text \in Seq(FormParts) /\ Ordinary(text)
    BY <1>1 DEF OrdinaryNames
  <2>2. PICK n \in Nat : DOMAIN text = 1 .. n /\ text = [ i \in 1 .. n |-> text[i] ]
    BY <2>1
  <2>3. \A i \in 1 .. n : text[i] \in Plain
    BY <2>1, <2>2 DEF Ordinary, Plain
  <2>4. text \in [ 1 .. n -> Plain ]
    BY <2>2, <2>3
  <2>5. text \in Seq(Plain)
    BY <2>4
  <2>6. Validated(text) = text /\ Stored(text) = text
    BY <2>1, <2>5, OrdinaryStays, InTurn DEF Stored
  <2>7. ServerAccepts(text)
    BY <2>1 DEF Ordinary, ServerAccepts
  <2>8. text # << >>
    BY <2>1 DEF Ordinary
  <2> QED BY <2>6, <2>7, <2>8 DEF Outcome
<1>3. NamesSpoilt = {}
  BY <1>1, StoredIsClean DEF NamesSpoilt
<1>4. NamesSurvive
  BY <1>2, <1>3 DEF NamesSurvive
<1> QED BY <1>4, PTL
=============================================================================
