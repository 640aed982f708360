--------------------------- MODULE PaymentProofs ---------------------------
(***************************************************************************)
(* Proofs about PaymentWorkflow for any payments, employees and requests.  *)
(***************************************************************************)
EXTENDS PaymentProperties, TLAPS

-----------------------------------------------------------------------------
(* The inductive invariant *)

\* What pc tells of a handler's local state.  An invoice is the last thing its
\* handler does, so a number is used once.
HandlerOK(r) ==
  /\ pc[r] = "idle" => task[r] = NoTask /\ wrote[r] = {} /\ code[r] = "none"
  /\ pc[r] \in {"save", "invoice"} => task[r].kind = "verify"
  /\ pc[r] = "submit" => task[r].kind = "submit"
  /\ pc[r] = "save" => wrote[r] = {}
  /\ pc[r] = "invoice" => task[r].approve = TRUE /\ wrote[r] = task[r].ids
  /\ wrote[r] \subseteq task[r].ids
  /\ task[r].kind = "verify" =>
       task[r].by \in Employee /\ \E p \in Payment : task[r].ids = {p}
  /\ \A i \in invoices : i.number = r => pc[r] = "done"

HandlerInv == \A r \in Request : HandlerOK(r)

-----------------------------------------------------------------------------
(* Typing *)

\* Empty collections, and no handler begun.
LEMMA TypeInit == Init => TypeOK /\ HandlerInv
<1>1. Absent \in PaymentDoc
  BY DEF Absent, PaymentDoc
<1>2. NoTask \in Task /\ NoTask.kind = "none" /\ NoTask.ids = {}
  BY DEF NoTask, Task
<1> QED BY <1>1, <1>2 DEF Init, TypeOK, HandlerInv, HandlerOK

\* What saving a decision or a submission does to the collection.
LEMMA SaveTyped ==
  ASSUME TypeOK, HandlerInv, NEW r \in Request, NEW p \in task[r].ids
  PROVE  /\ p \in Payment
         /\ pc[r] = "save" /\ SaveDecision(r, p) =>
              payments' \in [Payment -> PaymentDoc] /\ wrote' \in [Request -> SUBSET Payment]
         /\ SaveSubmission(r, p) =>
              payments' \in [Payment -> PaymentDoc] /\ wrote' \in [Request -> SUBSET Payment]
<1>1. p \in Payment /\ payments[p] \in PaymentDoc /\ task[r].approve \in BOOLEAN
  BY DEF TypeOK, Task
<1>2. pc[r] = "save" => Verified(payments[p], task[r].by, task[r].approve) \in PaymentDoc
  <2>1. pc[r] = "save" => task[r].by \in Employee
    BY DEF HandlerInv, HandlerOK
  <2> QED BY <1>1, <2>1 DEF Verified, PaymentDoc
<1>3. Submitted(payments[p], r) \in PaymentDoc
  BY <1>1 DEF Submitted, PaymentDoc
<1> QED BY <1>1, <1>2, <1>3 DEF SaveDecision, SaveSubmission, TypeOK

\* A handler that begins holds a task of the right type.
LEMMA BeginTyped ==
  ASSUME TypeOK, NEW r \in Request, NEW next \in {"save", "submit"},
         NEW kind \in {"verify", "submit"}, NEW e \in Employee,
         NEW approve \in BOOLEAN, NEW ids \in SUBSET Payment,
         Begin(r, next, kind, e, approve, ids),
         UNCHANGED <<payments, invoices, employees>>
  PROVE  TypeOK'
<1>1. [kind |-> kind, by |-> e, approve |-> approve, ids |-> ids] \in Task
  BY DEF Task
<1> QED BY <1>1 DEF Begin, TypeOK

\* Every action keeps the schema of the collections and of the requests.
LEMMA TypeStep ==
  ASSUME TypeOK, HandlerInv, [Next]_vars
  PROVE  TypeOK'
<1>1. ASSUME NEW p \in Payment, NEW digits \in RandomDigits, CreatePayment(p, digits)
      PROVE  TypeOK'
  <2>1. Pending(digits) \in PaymentDoc
    <3>1. ValidTransactionId(SuffixLength(digits)) \in BOOLEAN
      BY DEF ValidTransactionId
    <3> QED BY <3>1 DEF Pending, PaymentDoc
  <2> QED BY <1>1, <2>1 DEF CreatePayment, TypeOK
<1>2. ASSUME NEW r \in Request, NEW e \in Employee, NEW p \in Payment,
             NEW approve \in BOOLEAN, StartVerify(r, e, p, approve)
      PROVE  TypeOK'
  BY <1>2, BeginTyped DEF StartVerify
<1>3. ASSUME NEW r \in Request, NEW p \in Payment, RefuseVerify(r, p)
      PROVE  TypeOK'
  BY <1>3 DEF RefuseVerify, Refuse, Answer, TypeOK
<1>4. ASSUME NEW r \in Request, SaveVerify(r)
      PROVE  TypeOK'
  <2>1. payments' \in [Payment -> PaymentDoc] /\ wrote' \in [Request -> SUBSET Payment]
    BY <1>4, SaveTyped DEF SaveVerify
  <2> QED BY <1>4, <2>1 DEF SaveVerify, Answer, TypeOK
<1>5. ASSUME NEW r \in Request, CreateInvoice(r)
      PROVE  TypeOK'
  <2>1. task[r].by \in Employee /\ task[r].ids \subseteq Payment
    BY <1>5 DEF CreateInvoice, HandlerInv, HandlerOK, TypeOK, Task
  <2>2. invoices' \subseteq Invoice
    BY <1>5, <2>1 DEF CreateInvoice, Invoice, TypeOK
  <2> QED BY <1>5, <2>2 DEF CreateInvoice, Answer, TypeOK
<1>6. ASSUME NEW r \in Request, InvoiceError(r)
      PROVE  TypeOK'
  BY <1>6 DEF InvoiceError, Answer, TypeOK
<1>7. ASSUME NEW r \in Request, NEW e \in Employee, NEW ids \in SUBSET Payment \ {{}},
             StartSubmit(r, e, ids)
      PROVE  TypeOK'
  <2>1. FoundVerified(ids) \in SUBSET Payment
    BY DEF FoundVerified
  <2> QED BY <1>7, <2>1, BeginTyped DEF StartSubmit
<1>8. ASSUME NEW r \in Request, NEW ids \in SUBSET Payment, RefuseSubmit(r, ids)
      PROVE  TypeOK'
  BY <1>8 DEF RefuseSubmit, Refuse, Answer, TypeOK
<1>9. ASSUME NEW r \in Request, SubmitOne(r)
      PROVE  TypeOK'
  <2>1. payments' \in [Payment -> PaymentDoc] /\ wrote' \in [Request -> SUBSET Payment]
    BY <1>9, SaveTyped DEF SubmitOne
  <2> QED BY <1>9, <2>1 DEF SubmitOne, Answer, TypeOK
<1>10. ASSUME NEW r \in Request, SaveError(r)
       PROVE  TypeOK'
  <2>1. payments' \in [Payment -> PaymentDoc] /\ wrote' \in [Request -> SUBSET Payment]
    <3>1. CASE UNCHANGED <<payments, wrote>>
      BY <3>1 DEF TypeOK
    <3>2. CASE pc[r] = "save" /\ \E p \in task[r].ids : SaveDecision(r, p)
      BY <3>2, SaveTyped
    <3>3. CASE \E p \in task[r].ids \ wrote[r] : SaveSubmission(r, p)
      BY <3>3, SaveTyped
    <3> QED BY <1>10, <3>1, <3>2, <3>3 DEF SaveError
  <2> QED BY <1>10, <2>1 DEF SaveError, Answer, TypeOK
<1>11. CASE Crash
  BY <1>11 DEF Crash, TypeOK
<1>12. CASE (\E e \in Employee : HireEmployee(e)) \/ ResetEmployees
  BY <1>12 DEF HireEmployee, ResetEmployees, TypeOK
<1>13. CASE UNCHANGED vars
  BY <1>13 DEF vars, TypeOK
<1> QED
  BY <1>1, <1>2, <1>3, <1>4, <1>5, <1>6, <1>7, <1>8, <1>9, <1>10, <1>11, <1>12, <1>13
  DEF Next

-----------------------------------------------------------------------------
(* The shape of a step *)

\* The three ways the documents change, and who changes them: the lemmas below
\* argue about these instead of the thirteen actions.
PaymentChange ==
  \/ UNCHANGED <<payments, wrote>>
  \/ /\ \E p \in Payment, digits \in RandomDigits :
          payments[p] = Absent /\ payments' = [payments EXCEPT ![p] = Pending(digits)]
     /\ UNCHANGED wrote
  \/ \E r \in Request : \E p \in task[r].ids :
       pc[r] = "save" /\ pc'[r] # "save" /\ SaveDecision(r, p)
  \/ \E r \in Request : \E p \in task[r].ids :
       pc[r] = "submit" /\ p \notin wrote[r] /\ SaveSubmission(r, p)

InvoiceChange ==
  \/ UNCHANGED invoices
  \/ \E r \in Request : CreateInvoice(r)

\* A handler's task is set when it begins and not touched again; what is done
\* stays done.
HandlerChange ==
  \A r \in Request :
    /\ pc[r] # "idle" =>
         task'[r] = task[r] /\ (pc'[r] = pc[r] \/ pc'[r] \in {"invoice", "done"})
    /\ pc[r] = "done" => pc'[r] = "done"
    /\ pc[r] = "idle" => wrote'[r] = {}
    /\ pc[r] = "idle" /\ task'[r] # NoTask => UNCHANGED payments
    /\ pc[r] = "idle" /\ task'[r] # NoTask =>
         \/ /\ task'[r].kind = "verify" /\ pc'[r] = "save"
            /\ task'[r].by \in Employee
            /\ \E p \in Payment : /\ task'[r].ids = {p}
                                  /\ payments[p].status = "pending"
         \/ /\ task'[r].kind = "submit" /\ pc'[r] = "submit"
            /\ \A p \in task'[r].ids : payments[p].status = "verified"

\* A handler that begins read the status its task depends on.
LEMMA BeginShape ==
  ASSUME TypeOK, HandlerInv, NEW r \in Request, NEW next \in {"save", "submit"},
         NEW kind \in {"verify", "submit"}, NEW e \in Employee,
         NEW approve \in BOOLEAN, NEW ids \in SUBSET Payment,
         pc[r] = "idle", Begin(r, next, kind, e, approve, ids), UNCHANGED payments,
         \/ /\ next = "save" /\ kind = "verify"
            /\ \E p \in Payment : ids = {p} /\ payments[p].status = "pending"
         \/ /\ next = "submit" /\ kind = "submit"
            /\ \A p \in ids : payments[p].status = "verified"
  PROVE  HandlerChange
<1>1. /\ task'[r].kind = kind /\ task'[r].by = e /\ task'[r].ids = ids
      /\ pc'[r] = next
      /\ \A q \in Request \ {r} : task'[q] = task[q] /\ pc'[q] = pc[q]
      /\ UNCHANGED <<payments, wrote>>
  BY DEF Begin, TypeOK
<1>2. ASSUME NEW q \in Request, q # r PROVE pc[q] = "idle" => task'[q] = NoTask
  BY <1>1, <1>2 DEF HandlerInv, HandlerOK
<1>3. \A q \in Request : pc[q] = "idle" => wrote'[q] = {}
  BY <1>1 DEF HandlerInv, HandlerOK
<1> QED BY <1>1, <1>2, <1>3 DEF HandlerChange

\* Every step changes documents and handlers in one of those ways.
LEMMA StepShape ==
  ASSUME TypeOK, HandlerInv, [Next]_vars
  PROVE  PaymentChange /\ InvoiceChange /\ HandlerChange
<1> DEFINE Shape == PaymentChange /\ InvoiceChange /\ HandlerChange
<1>1. ASSUME NEW p \in Payment, NEW digits \in RandomDigits, CreatePayment(p, digits)
      PROVE  Shape
  BY <1>1 DEF CreatePayment, PaymentChange, InvoiceChange, HandlerChange, HandlerInv, HandlerOK
<1>2. ASSUME NEW r \in Request, NEW e \in Employee, NEW p \in Payment,
             NEW approve \in BOOLEAN, StartVerify(r, e, p, approve)
      PROVE  Shape
  <2>1. HandlerChange
    BY <1>2, BeginShape DEF StartVerify, Arrives
  <2> QED BY <1>2, <2>1 DEF StartVerify, Begin, PaymentChange, InvoiceChange
<1>3. ASSUME NEW r \in Request, pc[r] # "done", UNCHANGED <<payments, invoices, task, wrote>>,
             pc' = [pc EXCEPT ![r] = "done"]
      PROVE  Shape
  BY <1>3 DEF PaymentChange, InvoiceChange, HandlerChange, TypeOK, HandlerInv, HandlerOK
<1>4. ASSUME NEW r \in Request, SaveVerify(r)
      PROVE  Shape
  <2>1. pc[r] = "save" /\ pc'[r] # "save" /\ pc'[r] # "idle"
    BY <1>4 DEF SaveVerify, Answer, TypeOK
  <2>2. PaymentChange
    BY <1>4, <2>1 DEF SaveVerify, PaymentChange
  <2>3. HandlerChange
    <3>1. /\ UNCHANGED task /\ pc'[r] \in {"invoice", "done"}
          /\ \A q \in Request \ {r} : pc'[q] = pc[q] /\ wrote'[q] = wrote[q]
      BY <1>4 DEF SaveVerify, SaveDecision, Answer, TypeOK
    <3> QED BY <2>1, <3>1 DEF HandlerChange, HandlerInv, HandlerOK
  <2> QED BY <1>4, <2>2, <2>3 DEF SaveVerify, InvoiceChange
<1>5. ASSUME NEW r \in Request, CreateInvoice(r)
      PROVE  Shape
  BY <1>5 DEF CreateInvoice, Answer, PaymentChange, InvoiceChange, HandlerChange,
              TypeOK, HandlerInv, HandlerOK
<1>6. ASSUME NEW r \in Request, InvoiceError(r)
      PROVE  Shape
  BY <1>6, <1>3 DEF InvoiceError, Answer
<1>7. ASSUME NEW r \in Request, NEW e \in Employee, NEW ids \in SUBSET Payment \ {{}},
             StartSubmit(r, e, ids)
      PROVE  Shape
  <2>1. FoundVerified(ids) \in SUBSET Payment
    BY DEF FoundVerified
  <2>2. HandlerChange
    BY <1>7, <2>1, BeginShape DEF StartSubmit, Arrives, FoundVerified
  <2> QED BY <1>7, <2>2 DEF StartSubmit, Begin, PaymentChange, InvoiceChange
<1>8. ASSUME NEW r \in Request, SubmitOne(r)
      PROVE  Shape
  <2>1. HandlerChange
    <3>1. /\ UNCHANGED task /\ pc[r] = "submit" /\ pc'[r] \in {"submit", "done"}
          /\ \A q \in Request \ {r} : pc'[q] = pc[q] /\ wrote'[q] = wrote[q]
      BY <1>8 DEF SubmitOne, SaveSubmission, Answer, TypeOK
    <3> QED BY <3>1 DEF HandlerChange, HandlerInv, HandlerOK
  <2> QED BY <1>8, <2>1 DEF SubmitOne, PaymentChange, InvoiceChange
<1>9. ASSUME NEW r \in Request, SaveError(r)
      PROVE  Shape
  <2>1. pc[r] \in {"save", "submit"} /\ pc'[r] = "done"
    BY <1>9 DEF SaveError, Answer, TypeOK
  <2>2. HandlerChange
    <3>1. /\ UNCHANGED task
          /\ \A q \in Request \ {r} : pc'[q] = pc[q] /\ wrote'[q] = wrote[q]
      BY <1>9 DEF SaveError, SaveDecision, SaveSubmission, Answer, TypeOK
    <3> QED BY <2>1, <3>1 DEF HandlerChange, HandlerInv, HandlerOK
  <2>3. PaymentChange
    BY <1>9, <2>1 DEF SaveError, PaymentChange
  <2> QED BY <1>9, <2>2, <2>3 DEF SaveError, InvoiceChange
<1>10. CASE Crash
  BY <1>10 DEF Crash, InFlight, PaymentChange, InvoiceChange, HandlerChange, TypeOK, HandlerInv, HandlerOK
<1>11. CASE (\E e \in Employee : HireEmployee(e)) \/ ResetEmployees
  BY <1>11 DEF HireEmployee, ResetEmployees, PaymentChange, InvoiceChange, HandlerChange,
               TypeOK, HandlerInv, HandlerOK
<1>12. CASE UNCHANGED vars
  BY <1>12 DEF vars, PaymentChange, InvoiceChange, HandlerChange, HandlerInv, HandlerOK
<1>13. ASSUME NEW r \in Request, NEW p \in Payment, RefuseVerify(r, p)
       PROVE  Shape
  BY <1>13, <1>3 DEF RefuseVerify, Refuse, Answer, Arrives
<1>14. ASSUME NEW r \in Request, NEW ids \in SUBSET Payment, RefuseSubmit(r, ids)
       PROVE  Shape
  BY <1>14, <1>3 DEF RefuseSubmit, Refuse, Answer, Arrives
<1> QED
  BY <1>1, <1>2, <1>4, <1>5, <1>6, <1>7, <1>8, <1>9, <1>10, <1>11, <1>12, <1>13, <1>14
  DEF Next

\* What pc tells of a handler stays true.
LEMMA HandlerStep ==
  ASSUME TypeOK, HandlerInv, [Next]_vars
  PROVE  HandlerInv'
<1>1. ASSUME NEW p \in Payment, NEW digits \in RandomDigits, CreatePayment(p, digits)
      PROVE  HandlerInv'
  BY <1>1 DEF CreatePayment, HandlerInv, HandlerOK
<1>2. ASSUME NEW r \in Request, NEW e \in Employee, NEW p \in Payment,
             NEW approve \in BOOLEAN, StartVerify(r, e, p, approve)
      PROVE  HandlerInv'
  <2>1. /\ task'[r].kind = "verify" /\ task'[r].by = e /\ task'[r].ids = {p}
        /\ pc'[r] = "save" /\ wrote[r] = {} /\ pc[r] = "idle"
        /\ \A q \in Request \ {r} : task'[q] = task[q] /\ pc'[q] = pc[q]
    BY <1>2 DEF StartVerify, Arrives, Begin, HandlerInv, HandlerOK, TypeOK
  <2> QED BY <1>2, <2>1 DEF StartVerify, Begin, HandlerInv, HandlerOK, TypeOK
<1>3. ASSUME NEW r \in Request, NEW c \in {"200", "400", "404", "500"}, Answer(r, c),
             UNCHANGED <<invoices, task, wrote>>
      PROVE  HandlerInv'
  BY <1>3 DEF Answer, HandlerInv, HandlerOK, TypeOK
<1>4. ASSUME NEW r \in Request, SaveVerify(r)
      PROVE  HandlerInv'
  <2>1. PICK p \in task[r].ids : SaveDecision(r, p)
    BY <1>4 DEF SaveVerify
  <2>2. task[r].ids = {p} /\ p \in Payment /\ task[r].kind = "verify" /\ pc[r] = "save"
    BY <1>4, <2>1 DEF SaveVerify, HandlerInv, HandlerOK
  <2>3. wrote' = [wrote EXCEPT ![r] = {p}]
    BY <2>1 DEF SaveDecision
  <2>4. CASE task[r].approve /\ employees[task[r].by] = "employed"
    <3>1. pc' = [pc EXCEPT ![r] = "invoice"] /\ UNCHANGED <<code, task, invoices>>
      BY <1>4, <2>4 DEF SaveVerify
    <3>2. task[r].approve = TRUE
      BY <2>4 DEF TypeOK, Task
    <3>3. HandlerOK(r)'
      BY <2>2, <2>3, <3>1, <3>2 DEF HandlerInv, HandlerOK, TypeOK
    <3>4. ASSUME NEW q \in Request \ {r} PROVE HandlerOK(q)'
      BY <2>3, <3>1 DEF HandlerInv, HandlerOK, TypeOK
    <3> QED BY <3>3, <3>4 DEF HandlerInv
  <2>5. CASE ~(task[r].approve /\ employees[task[r].by] = "employed")
    BY <1>4, <2>2, <2>3, <2>5 DEF SaveVerify, Answer, HandlerInv, HandlerOK, TypeOK
  <2> QED BY <2>4, <2>5
<1>5. ASSUME NEW r \in Request, CreateInvoice(r)
      PROVE  HandlerInv'
  BY <1>5 DEF CreateInvoice, Answer, HandlerInv, HandlerOK, TypeOK
<1>6. ASSUME NEW r \in Request, InvoiceError(r)
      PROVE  HandlerInv'
  BY <1>6, <1>3 DEF InvoiceError
<1>7. ASSUME NEW r \in Request, NEW e \in Employee, NEW ids \in SUBSET Payment \ {{}},
             StartSubmit(r, e, ids)
      PROVE  HandlerInv'
  <2>1. /\ task'[r].kind = "submit" /\ pc'[r] = "submit" /\ wrote[r] = {} /\ pc[r] = "idle"
        /\ \A q \in Request \ {r} : task'[q] = task[q] /\ pc'[q] = pc[q]
    BY <1>7 DEF StartSubmit, Arrives, Begin, HandlerInv, HandlerOK, TypeOK
  <2> QED BY <1>7, <2>1 DEF StartSubmit, Begin, HandlerInv, HandlerOK, TypeOK
<1>8. ASSUME NEW r \in Request, SubmitOne(r)
      PROVE  HandlerInv'
  <2>1. PICK p \in task[r].ids \ wrote[r] :
          wrote' = [wrote EXCEPT ![r] = wrote[r] \cup {p}]
    BY <1>8 DEF SubmitOne, SaveSubmission
  <2>2. CASE wrote'[r] = task[r].ids
    BY <1>8, <2>1, <2>2 DEF SubmitOne, Answer, HandlerInv, HandlerOK, TypeOK
  <2>3. CASE wrote'[r] # task[r].ids
    BY <1>8, <2>1, <2>3 DEF SubmitOne, HandlerInv, HandlerOK, TypeOK
  <2> QED BY <2>2, <2>3
<1>9. ASSUME NEW r \in Request, SaveError(r)
      PROVE  HandlerInv'
  <2>1. CASE UNCHANGED <<payments, wrote>>
    BY <1>9, <2>1, <1>3 DEF SaveError
  <2>2. CASE pc[r] = "save" /\ \E p \in task[r].ids : SaveDecision(r, p)
    BY <1>9, <2>2 DEF SaveError, SaveDecision, Answer, HandlerInv, HandlerOK, TypeOK
  <2>3. CASE pc[r] = "submit" /\ \E p \in task[r].ids \ wrote[r] : SaveSubmission(r, p)
    BY <1>9, <2>3 DEF SaveError, SaveSubmission, Answer, HandlerInv, HandlerOK, TypeOK
  <2> QED BY <1>9, <2>1, <2>2, <2>3 DEF SaveError
<1>10. CASE Crash
  BY <1>10 DEF Crash, InFlight, HandlerInv, HandlerOK, TypeOK
<1>11. CASE (\E e \in Employee : HireEmployee(e)) \/ ResetEmployees
  BY <1>11 DEF HireEmployee, ResetEmployees, HandlerInv, HandlerOK
<1>12. CASE UNCHANGED vars
  BY <1>12 DEF vars, HandlerInv, HandlerOK
<1>13. ASSUME NEW r \in Request, NEW p \in Payment, RefuseVerify(r, p)
       PROVE  HandlerInv'
  BY <1>13, <1>3 DEF RefuseVerify, Refuse
<1>14. ASSUME NEW r \in Request, NEW ids \in SUBSET Payment, RefuseSubmit(r, ids)
       PROVE  HandlerInv'
  BY <1>14, <1>3 DEF RefuseSubmit, Refuse
<1> QED
  BY <1>1, <1>2, <1>4, <1>5, <1>6, <1>7, <1>8, <1>9, <1>10, <1>11, <1>12, <1>13, <1>14
  DEF Next

\* Whatever requests and scripts do, and whatever fails, every collection keeps
\* to its schema (Payment.js, Invoice.js).
THEOREM TypeCorrect == Spec => []TypeOK
<1>1. TypeOK /\ HandlerInv /\ [Next]_vars => (TypeOK /\ HandlerInv)'
  BY TypeStep, HandlerStep
<1> QED BY <1>1, TypeInit, PTL DEF Spec

-----------------------------------------------------------------------------
(* What holds however requests overlap *)

\* A saved decision is remembered: its handler's task is never replaced.
LEMMA Remembered ==
  ASSUME TypeOK, HandlerInv, [Next]_vars, NEW r \in Request,
         NEW p \in Payment, p \in wrote[r]
  PROVE  p \in wrote'[r] /\ task'[r] = task[r]
<1>1. pc[r] # "idle" /\ pc[r] # "save"
  BY DEF HandlerInv, HandlerOK
<1>2. task'[r] = task[r]
  BY <1>1, StepShape DEF HandlerChange
<1>3. p \in wrote'[r]
  BY <1>1, StepShape DEF PaymentChange, SaveDecision, SaveSubmission, TypeOK
<1> QED BY <1>2, <1>3

\* A decision that was saved has been saved for ever.
LEMMA SavedDecisionStable ==
  ASSUME TypeOK, HandlerInv, [Next]_vars, NEW r \in Request,
         NEW p \in Payment, NEW approve \in BOOLEAN, SavedDecision(r, p, approve)
  PROVE  SavedDecision(r, p, approve)'
BY Remembered DEF SavedDecision

\* The save of a verify handler is remembered as its decision, and what it
\* leaves in each path.
LEMMA DecisionSaved ==
  ASSUME TypeOK, HandlerInv, [Next]_vars, NEW r \in Request, NEW p \in task[r].ids,
         pc[r] = "save", SaveDecision(r, p)
  PROVE  /\ p \in Payment
         /\ p \in wrote'[r]
         /\ task'[r] = task[r] /\ task[r].kind = "verify" /\ task[r].by \in Employee
         /\ task[r].approve \in BOOLEAN
         /\ payments'[p].status = IF task[r].approve THEN "verified" ELSE "rejected"
         /\ payments'[p].verifiedBy = task[r].by
         /\ payments'[p].failureReason =
              IF task[r].approve THEN payments[p].failureReason ELSE task[r].by
         /\ payments'[p].swiftReference = payments[p].swiftReference
         /\ \A q \in Payment \ {p} : payments'[q] = payments[q]
<1>1. p \in Payment
  BY DEF TypeOK, Task
<1>2. /\ task[r].kind = "verify" /\ task[r].by \in Employee
      /\ task[r].approve \in BOOLEAN
  BY DEF HandlerInv, HandlerOK, TypeOK, Task
<1>3. task'[r] = task[r]
  BY StepShape DEF HandlerChange
<1>4. p \in wrote'[r]
  BY DEF SaveDecision, TypeOK
<1>5. /\ payments'[p] = Verified(payments[p], task[r].by, task[r].approve)
      /\ \A q \in Payment \ {p} : payments'[q] = payments[q]
  BY <1>1 DEF SaveDecision, TypeOK
<1>6. /\ payments'[p].status = IF task[r].approve THEN "verified" ELSE "rejected"
      /\ payments'[p].verifiedBy = task[r].by
      /\ payments'[p].failureReason =
           IF task[r].approve THEN payments[p].failureReason ELSE task[r].by
      /\ payments'[p].swiftReference = payments[p].swiftReference
  BY <1>2, <1>5 DEF Verified
<1> QED BY <1>1, <1>2, <1>3, <1>4, <1>5, <1>6

\* The same for the save of a submit handler.
LEMMA SubmissionSaved ==
  ASSUME TypeOK, HandlerInv, [Next]_vars, NEW r \in Request, NEW p \in task[r].ids,
         pc[r] = "submit", SaveSubmission(r, p)
  PROVE  /\ p \in Payment /\ p \in wrote'[r]
         /\ task'[r] = task[r] /\ task[r].kind = "submit"
         /\ payments'[p].status = "submitted_to_swift"
         /\ payments'[p].verifiedBy = payments[p].verifiedBy
         /\ payments'[p].failureReason = payments[p].failureReason
         /\ payments'[p].swiftReference = r
         /\ \A q \in Payment \ {p} : payments'[q] = payments[q]
<1>1. p \in Payment
  BY DEF TypeOK, Task
<1>2. task[r].kind = "submit"
  BY DEF HandlerInv, HandlerOK
<1>3. task'[r] = task[r]
  BY StepShape DEF HandlerChange
<1> QED BY <1>1, <1>2, <1>3 DEF SaveSubmission, Submitted, TypeOK

\* Offered(p): submitted, being submitted, or open to be.
Offered(p) ==
  \/ payments[p].status \in {"verified", "submitted_to_swift"}
  \/ payments[p].swiftReference # NoOne
  \/ \E r \in Request : task[r].kind = "submit" /\ p \in task[r].ids

\* A step that newly offers a payment is the save of an approval.
LEMMA OfferedStep ==
  ASSUME TypeOK, HandlerInv, [Next]_vars, NEW p \in Payment, Offered(p)',
         Offered(p) => \E r \in Request : SavedDecision(r, p, TRUE)
  PROVE  \E r \in Request : SavedDecision(r, p, TRUE)'
<1>1. CASE Offered(p)
  BY <1>1, SavedDecisionStable
<1>2. CASE ~Offered(p)
  <2>1. ~\E r \in Request : task'[r].kind = "submit" /\ p \in task'[r].ids
    <3>1. SUFFICES ASSUME NEW r \in Request, task'[r].kind = "submit", p \in task'[r].ids
                   PROVE  FALSE
      OBVIOUS
    <3>2. pc[r] = "idle" /\ task'[r] # NoTask
      BY <1>2, <3>1, StepShape DEF HandlerChange, Offered, NoTask
    <3>3. payments[p].status = "verified"
      BY <3>1, <3>2, StepShape DEF HandlerChange
    <3> QED BY <1>2, <3>3 DEF Offered
  <2>2. payments'[p] # payments[p]
    BY <1>2, <2>1 DEF Offered
  <2>3. ASSUME NEW digits \in RandomDigits, payments'[p] = Pending(digits)
        PROVE  FALSE
    BY <2>1, <2>3 DEF Offered, Pending
  <2>4. ASSUME NEW r \in Request, NEW q \in task[r].ids, pc[r] = "save", SaveDecision(r, q)
        PROVE  SavedDecision(r, p, TRUE)'
    <3>1. p = q
      BY <2>2, <2>4, DecisionSaved
    <3>2. task[r].approve = TRUE
      <4>1. /\ task[r].approve \in BOOLEAN
            /\ payments'[p].status = IF task[r].approve THEN "verified" ELSE "rejected"
            /\ payments'[p].swiftReference = payments[p].swiftReference
        BY <2>4, <3>1, DecisionSaved
      <4>2. payments'[p].status \in {"verified", "submitted_to_swift"}
        BY <1>2, <2>1, <4>1 DEF Offered
      <4> QED BY <4>1, <4>2
    <3> QED BY <2>4, <3>1, <3>2, DecisionSaved DEF SavedDecision
  <2>5. ASSUME NEW r \in Request, NEW q \in task[r].ids, pc[r] = "submit", SaveSubmission(r, q)
        PROVE  FALSE
    <3>1. p = q /\ task[r].kind = "submit"
      BY <2>2, <2>5, SubmissionSaved
    <3> QED BY <1>2, <3>1 DEF Offered
  <2> QED BY <2>2, <2>3, <2>4, <2>5, StepShape DEF PaymentChange, TypeOK
<1> QED BY <1>1, <1>2

\* The save that opens a payment to SWIFT is the save of an approval.
LEMMA SwiftStep ==
  ASSUME TypeOK, HandlerInv, SwiftOnlyApproved, [Next]_vars
  PROVE  SwiftOnlyApproved'
<1> SUFFICES ASSUME NEW p \in Payment
             PROVE  /\ Offered(p)' => \E r \in Request : SavedDecision(r, p, TRUE)'
                    /\ payments'[p].swiftReference # NoOne =>
                         /\ task'[payments'[p].swiftReference].kind = "submit"
                         /\ p \in wrote'[payments'[p].swiftReference]
  BY DEF SwiftOnlyApproved, Offered
<1>1. Offered(p)' => \E r \in Request : SavedDecision(r, p, TRUE)'
  BY OfferedStep DEF SwiftOnlyApproved, Offered
<1>2. ASSUME payments'[p].swiftReference # NoOne
      PROVE  /\ task'[payments'[p].swiftReference].kind = "submit"
             /\ p \in wrote'[payments'[p].swiftReference]
  <2>1. CASE payments'[p].swiftReference = payments[p].swiftReference
    <3>1. payments[p].swiftReference \in Request
      BY <1>2, <2>1 DEF TypeOK, PaymentDoc
    <3>2. /\ p \in wrote[payments[p].swiftReference]
          /\ task[payments[p].swiftReference].kind = "submit"
      BY <1>2, <2>1 DEF SwiftOnlyApproved
    <3> QED BY <2>1, <3>1, <3>2, Remembered
  <2>2. CASE payments'[p].swiftReference # payments[p].swiftReference
    <3>1. ASSUME NEW digits \in RandomDigits, payments'[p] = Pending(digits)
          PROVE  FALSE
      BY <1>2, <3>1 DEF Pending
    <3>2. ASSUME NEW r \in Request, NEW q \in task[r].ids, pc[r] = "save", SaveDecision(r, q)
          PROVE  FALSE
      BY <2>2, <3>2, DecisionSaved
    <3>3. ASSUME NEW r \in Request, NEW q \in task[r].ids,
                 pc[r] = "submit", SaveSubmission(r, q)
          PROVE  payments'[p].swiftReference = r /\ task'[r].kind = "submit" /\ p \in wrote'[r]
      BY <2>2, <3>3, SubmissionSaved
    <3> QED BY <2>2, <3>1, <3>2, <3>3, StepShape DEF PaymentChange, TypeOK
  <2> QED BY <2>1, <2>2
<1> QED BY <1>1, <1>2

\* A payment leaves pending only by a decision and does not return to it.
LEMMA StatusStep ==
  ASSUME TypeOK, HandlerInv, [Next]_vars, NEW p \in Payment
  PROVE  /\ payments[p].status \notin {"absent", "pending"} =>
              payments'[p].status \notin {"absent", "pending"}
         /\ payments[p].status = "pending" => payments'[p].status # "absent"
         /\ payments[p].verifiedBy # NoOne => payments'[p].verifiedBy # NoOne
         /\ payments[p].failureReason # NoOne => payments'[p].failureReason # NoOne
         /\ payments[p].swiftReference # NoOne => payments'[p].swiftReference # NoOne
<1> DEFINE Kept ==
         /\ payments[p].status \notin {"absent", "pending"} =>
              payments'[p].status \notin {"absent", "pending"}
         /\ payments[p].status = "pending" => payments'[p].status # "absent"
         /\ payments[p].verifiedBy # NoOne => payments'[p].verifiedBy # NoOne
         /\ payments[p].failureReason # NoOne => payments'[p].failureReason # NoOne
         /\ payments[p].swiftReference # NoOne => payments'[p].swiftReference # NoOne
<1>0. NoOne \notin Employee \cup Request
  BY WorkflowAssumption
<1>1. CASE payments'[p] = payments[p]
  BY <1>1
<1>2. ASSUME NEW q \in Payment, NEW digits \in RandomDigits,
             payments[q] = Absent, payments' = [payments EXCEPT ![q] = Pending(digits)]
      PROVE  Kept
  <2>1. \/ payments'[p] = payments[p]
        \/ payments[p] = Absent /\ payments'[p] = Pending(digits)
    BY <1>2 DEF TypeOK
  <2> QED BY <2>1 DEF Absent, Pending
<1>3. ASSUME NEW r \in Request, NEW q \in task[r].ids, pc[r] = "save", SaveDecision(r, q)
      PROVE  Kept
  <2>1. CASE p = q
    BY <1>0, <1>3, <2>1, DecisionSaved
  <2>2. CASE p # q
    BY <1>1, <1>3, <2>2, DecisionSaved
  <2> QED BY <2>1, <2>2
<1>4. ASSUME NEW r \in Request, NEW q \in task[r].ids, pc[r] = "submit", SaveSubmission(r, q)
      PROVE  Kept
  BY <1>0, <1>1, <1>4, SubmissionSaved
<1> QED BY <1>1, <1>2, <1>3, <1>4, StepShape DEF PaymentChange

\* What a handler has saved is decided.
WrittenDecided ==
  \A r \in Request : \A p \in wrote[r] : payments[p].status \notin {"absent", "pending"}

\* What is decided stays decided (StatusStep), and a save decides.
LEMMA WrittenStep ==
  ASSUME TypeOK, HandlerInv, WrittenDecided, [Next]_vars
  PROVE  WrittenDecided'
<1> SUFFICES ASSUME NEW r \in Request, NEW p \in wrote'[r]
             PROVE  payments'[p].status \notin {"absent", "pending"}
  BY DEF WrittenDecided
<1>1. CASE p \in wrote[r]
  BY <1>1, StatusStep DEF WrittenDecided, TypeOK
<1>2. CASE p \notin wrote[r]
  <2>1. ASSUME NEW s \in Request, NEW q \in task[s].ids, pc[s] = "save", SaveDecision(s, q)
        PROVE  payments'[p].status \notin {"absent", "pending"}
    <3>1. p = q
      BY <1>2, <2>1 DEF SaveDecision, TypeOK
    <3> QED BY <2>1, <3>1, DecisionSaved
  <2>2. ASSUME NEW s \in Request, NEW q \in task[s].ids, pc[s] = "submit", SaveSubmission(s, q)
        PROVE  payments'[p].status \notin {"absent", "pending"}
    <3>1. p = q
      BY <1>2, <2>2 DEF SaveSubmission, TypeOK
    <3> QED BY <2>2, <3>1, SubmissionSaved
  <2> QED BY <1>2, <2>1, <2>2, StepShape DEF PaymentChange
<1> QED BY <1>1, <1>2

\* A handler invoices the payment whose approval it has just saved.
LEMMA InvoiceStep ==
  ASSUME TypeOK, HandlerInv, WrittenDecided, InvoiceFromApproval, [Next]_vars
  PROVE  InvoiceFromApproval'
<1>1. ASSUME NEW i \in invoices
      PROVE  /\ SavedDecision(i.number, i.payment, TRUE)'
             /\ task'[i.number].by = i.verifiedBy
             /\ payments'[i.payment].status \notin {"absent", "pending"}
  <2>1. i.number \in Request /\ i.payment \in Payment
    BY DEF TypeOK, Invoice
  <2>2. /\ SavedDecision(i.number, i.payment, TRUE)
        /\ task[i.number].by = i.verifiedBy
        /\ payments[i.payment].status \notin {"absent", "pending"}
    BY DEF InvoiceFromApproval
  <2> QED BY <2>1, <2>2, SavedDecisionStable, StatusStep, Remembered DEF SavedDecision
<1>2. CASE UNCHANGED invoices
  BY <1>1, <1>2 DEF InvoiceFromApproval
<1>3. ASSUME NEW r \in Request, CreateInvoice(r)
      PROVE  InvoiceFromApproval'
  <2>1. PICK p \in task[r].ids :
          invoices' = invoices \cup {[ number |-> r, payment |-> p,
                        verifiedBy |-> task[r].by, paymentStatus |-> "verified" ]}
    BY <1>3 DEF CreateInvoice
  <2>2. /\ p \in Payment /\ p \in wrote[r]
        /\ task[r].kind = "verify" /\ task[r].approve = TRUE
        /\ \A i \in invoices : i.number # r
    BY <1>3 DEF CreateInvoice, HandlerInv, HandlerOK, TypeOK, Task
  <2>3. SavedDecision(r, p, TRUE)' /\ task'[r].by = task[r].by
    BY <1>3, <2>2 DEF CreateInvoice, SavedDecision
  <2>4. payments'[p].status \notin {"absent", "pending"}
    BY <1>3, <2>2 DEF CreateInvoice, WrittenDecided
  <2> DEFINE new == [ number |-> r, payment |-> p, verifiedBy |-> task[r].by,
                      paymentStatus |-> "verified" ]
  <2>5. new.number = r /\ new.payment = p /\ new.verifiedBy = task[r].by
    OBVIOUS
  <2>6. \A i \in invoices' : i \in invoices \/ i = new
    BY <2>1
  <2> HIDE DEF new
  <2>7. ASSUME NEW i \in invoices'
        PROVE  /\ SavedDecision(i.number, i.payment, TRUE)'
               /\ task'[i.number].by = i.verifiedBy
               /\ payments'[i.payment].status \notin {"absent", "pending"}
    BY <1>1, <2>3, <2>4, <2>5, <2>6
  <2>8. ASSUME NEW i \in invoices', NEW j \in invoices', i.number = j.number
        PROVE  i = j
    BY <2>2, <2>5, <2>6, <2>8 DEF InvoiceFromApproval
  <2> QED BY <2>7, <2>8 DEF InvoiceFromApproval
<1> QED BY <1>2, <1>3, StepShape DEF InvoiceChange

\* A save writes status, employee and reason together.
LEMMA RecordStep ==
  ASSUME TypeOK, HandlerInv, WrittenDecided, SwiftOnlyApproved, DecisionRecorded,
         [Next]_vars
  PROVE  DecisionRecorded'
<1> SUFFICES ASSUME NEW p \in Payment
    PROVE /\ payments'[p].status \in {"absent", "pending"} <=> payments'[p].verifiedBy = NoOne
          /\ payments'[p].verifiedBy # NoOne =>
               \E r \in Request : /\ task'[r].kind = "verify"
                                  /\ task'[r].by = payments'[p].verifiedBy
                                  /\ p \in wrote'[r]
          /\ payments'[p].status = "rejected" =>
               payments'[p].failureReason = payments'[p].verifiedBy
  BY DEF DecisionRecorded
<1> DEFINE Recorded ==
          /\ payments'[p].status \in {"absent", "pending"} <=> payments'[p].verifiedBy = NoOne
          /\ payments'[p].verifiedBy # NoOne =>
               \E r \in Request : /\ task'[r].kind = "verify"
                                  /\ task'[r].by = payments'[p].verifiedBy
                                  /\ p \in wrote'[r]
          /\ payments'[p].status = "rejected" =>
               payments'[p].failureReason = payments'[p].verifiedBy
<1>0. NoOne \notin Employee
  BY WorkflowAssumption
<1>1. payments[p].verifiedBy # NoOne =>
        \E r \in Request : /\ task'[r].kind = "verify"
                           /\ task'[r].by = payments[p].verifiedBy
                           /\ p \in wrote'[r]
  BY Remembered DEF DecisionRecorded
<1>2. CASE payments'[p] = payments[p]
  BY <1>1, <1>2 DEF DecisionRecorded
<1>3. ASSUME NEW q \in Payment, NEW digits \in RandomDigits,
             payments[q] = Absent, payments' = [payments EXCEPT ![q] = Pending(digits)]
      PROVE  Recorded
  <2>1. CASE p = q
    <3>1. payments'[p].status = "pending" /\ payments'[p].verifiedBy = NoOne
      BY <1>3, <2>1 DEF Pending, TypeOK
    <3> QED BY <3>1
  <2>2. CASE p # q
    BY <1>2, <1>3, <2>2 DEF TypeOK
  <2> QED BY <2>1, <2>2
<1>4. ASSUME NEW r \in Request, NEW q \in task[r].ids, pc[r] = "save", SaveDecision(r, q)
      PROVE  Recorded
  <2>1. CASE p = q
    BY <1>0, <1>4, <2>1, DecisionSaved
  <2>2. CASE p # q
    BY <1>2, <1>4, <2>2, DecisionSaved
  <2> QED BY <2>1, <2>2
<1>5. ASSUME NEW r \in Request, NEW q \in task[r].ids, pc[r] = "submit", SaveSubmission(r, q)
      PROVE  Recorded
  <2>1. CASE p = q
    <3>1. task[r].kind = "submit" /\ p \in task[r].ids
      BY <1>5, <2>1, SubmissionSaved
    <3>2. payments[p].verifiedBy # NoOne
      BY <3>1 DEF SwiftOnlyApproved, SavedDecision, WrittenDecided, DecisionRecorded
    <3> QED BY <1>1, <1>5, <2>1, <3>2, SubmissionSaved
  <2>2. CASE p # q
    BY <1>2, <1>5, <2>2, SubmissionSaved
  <2> QED BY <2>1, <2>2
<1> QED BY <1>2, <1>3, <1>4, <1>5, StepShape DEF PaymentChange

-----------------------------------------------------------------------------
(* The theorems *)

\* The inductive invariant.  The three safety invariants need one another:
\* DecisionRecorded is kept by a submission only because what is submitted was
\* approved, and an approval that was saved is one that was decided.
Ind ==
  /\ TypeOK
  /\ HandlerInv
  /\ WrittenDecided
  /\ SwiftOnlyApproved
  /\ InvoiceFromApproval
  /\ DecisionRecorded

\* Nothing is decided, offered or invoiced at first.
LEMMA IndInit == Init => Ind
<1> SUFFICES ASSUME Init PROVE Ind
  OBVIOUS
<1>1. TypeOK /\ HandlerInv
  BY TypeInit
<1>2. WrittenDecided /\ InvoiceFromApproval
  BY DEF Init, WrittenDecided, InvoiceFromApproval
<1>3. \A p \in Payment : /\ payments[p].status = "absent"
                         /\ payments[p].verifiedBy = NoOne
                         /\ payments[p].swiftReference = NoOne
  BY DEF Init, Absent
<1>4. \A r \in Request : task[r].kind = "none"
  BY DEF Init, NoTask
<1>5. SwiftOnlyApproved /\ DecisionRecorded
  BY <1>3, <1>4 DEF SwiftOnlyApproved, DecisionRecorded
<1> QED BY <1>1, <1>2, <1>5 DEF Ind

\* The lemmas of the parts together.
LEMMA IndStep == Ind /\ [Next]_vars => Ind'
BY TypeStep, HandlerStep, WrittenStep, SwiftStep, InvoiceStep, RecordStep DEF Ind

\* The invariant holds in every state, whatever overlaps and fails.
THEOREM Inductive == Spec => []Ind
BY IndInit, IndStep, PTL DEF Spec

\* Only a payment whose approval was saved is offered or submitted to SWIFT
\* (submit-swift reads the status that Payment.verify saves).
THEOREM SwiftNeedsApproval == Spec => []SwiftOnlyApproved
BY Inductive, PTL DEF Ind

\* Every invoice comes from a saved approval of its payment by the employee it
\* names, one per request (the invoice branch of the verify handler).
THEOREM InvoicesComeFromApprovals == Spec => []InvoiceFromApproval
BY Inductive, PTL DEF Ind

\* The decision on a payment, its employee and its reason are never apart
\* (Payment.verify sets them in one save).
THEOREM DecisionsAreRecorded == Spec => []DecisionRecorded
BY Inductive, PTL DEF Ind

\* No step returns a payment to pending or unsets what a save recorded.
THEOREM NothingIsWithdrawn == Spec => NothingWithdrawn
<1>1. Ind /\ [Next]_vars =>
        [\A p \in Payment :
           /\ payments[p].status \notin {"absent", "pending"} =>
                payments'[p].status \notin {"absent", "pending"}
           /\ payments[p].status = "pending" => payments'[p].status # "absent"
           /\ \A f \in {"verifiedBy", "failureReason", "swiftReference"} :
                payments[p][f] # NoOne => payments'[p][f] # NoOne]_payments
  <2> SUFFICES ASSUME Ind, [Next]_vars, NEW p \in Payment,
                      NEW f \in {"verifiedBy", "failureReason", "swiftReference"}
               PROVE  /\ payments[p].status \notin {"absent", "pending"} =>
                           payments'[p].status \notin {"absent", "pending"}
                      /\ payments[p].status = "pending" => payments'[p].status # "absent"
                      /\ payments[p][f] # NoOne => payments'[p][f] # NoOne
    OBVIOUS
  <2>1. payments[p] \in PaymentDoc /\ payments'[p] \in PaymentDoc
    BY IndStep DEF Ind, TypeOK
  <2>2. /\ payments[p].verifiedBy = payments[p]["verifiedBy"]
        /\ payments'[p].verifiedBy = payments'[p]["verifiedBy"]
        /\ payments[p].failureReason = payments[p]["failureReason"]
        /\ payments'[p].failureReason = payments'[p]["failureReason"]
        /\ payments[p].swiftReference = payments[p]["swiftReference"]
        /\ payments'[p].swiftReference = payments'[p]["swiftReference"]
    OBVIOUS
  <2> QED BY <2>2, StatusStep DEF Ind
<1> QED BY <1>1, Inductive, PTL DEF Spec, NothingWithdrawn

-----------------------------------------------------------------------------
(* When requests about one payment do not overlap *)

\* Requests in flight are about different payments.
Apart ==
  \A r, q \in Request :
    InFlight(r) /\ InFlight(q) /\ r # q => task[r].ids \cap task[q].ids = {}

\* What a handler read is still so when it writes: the payment it decides is
\* pending, and what it has not yet submitted is verified.
ReadsFresh ==
  \A r \in Request :
    /\ pc[r] = "save" => \A p \in task[r].ids : payments[p].status = "pending"
    /\ pc[r] = "submit" =>
         \A p \in task[r].ids \ wrote[r] : payments[p].status = "verified"

\* What a handler saved is what the payment says, answered or not.
SavedStands ==
  \A r \in Request : \A p \in wrote[r] :
    IF task[r].kind = "submit"
    THEN payments[p].swiftReference = r /\ payments[p].status = "submitted_to_swift"
    ELSE /\ payments[p].verifiedBy = task[r].by
         /\ task[r].approve <=> payments[p].status # "rejected"

\* A payment is decided by one request.
DecidedOnce ==
  \A r, q \in Request : \A p \in wrote[r] \cap wrote[q] :
    task[r].kind = "verify" /\ task[q].kind = "verify" => r = q

\* A handler answers 200 once all it was asked to save is saved.
AnsweredWhenSaved ==
  \A r \in Request : code[r] = "200" => pc[r] = "done" /\ wrote[r] = task[r].ids

SerialInd ==
  /\ Ind
  /\ Apart
  /\ ReadsFresh
  /\ SavedStands
  /\ DecidedOnce
  /\ AnsweredWhenSaved

\* No request is in flight at first.
LEMMA SerialInit == Init => SerialInd
<1> SUFFICES ASSUME Init PROVE SerialInd
  OBVIOUS
<1>1. \A r \in Request : pc[r] = "idle" /\ wrote[r] = {} /\ code[r] = "none"
  BY DEF Init
<1> QED
  BY <1>1, IndInit
  DEF SerialInd, Apart, InFlight, ReadsFresh, SavedStands, DecidedOnce, AnsweredWhenSaved

\* A request that begins does so apart from those in flight; any other step
\* leaves fewer in flight, each with its task.
LEMMA ApartStep ==
  ASSUME OneAtATime, TypeOK, HandlerInv, Apart, [Next]_vars
  PROVE  Apart'
<1> DEFINE NoneBegins == \A q \in Request : InFlight(q)' => InFlight(q) /\ task'[q] = task[q]
<1>1. ASSUME NEW r \in Request, NEW ids \in SUBSET Payment, Arrives(r, ids),
             task'[r].ids \subseteq ids,
             \A q \in Request \ {r} : pc'[q] = pc[q] /\ task'[q] = task[q]
      PROVE  Apart'
  BY <1>1 DEF Apart, Arrives, InFlight
<1>2. ASSUME NEW r \in Request, NEW e \in Employee, NEW p \in Payment,
             NEW approve \in BOOLEAN, StartVerify(r, e, p, approve)
      PROVE  Apart'
  <2>1. /\ Arrives(r, {p}) /\ task'[r].ids = {p}
        /\ \A q \in Request \ {r} : pc'[q] = pc[q] /\ task'[q] = task[q]
    BY <1>2 DEF StartVerify, Begin, TypeOK
  <2> QED BY <2>1, <1>1
<1>3. ASSUME NEW r \in Request, NEW e \in Employee, NEW ids \in SUBSET Payment \ {{}},
             StartSubmit(r, e, ids)
      PROVE  Apart'
  <2>1. /\ Arrives(r, ids) /\ task'[r].ids = FoundVerified(ids)
        /\ \A q \in Request \ {r} : pc'[q] = pc[q] /\ task'[q] = task[q]
    BY <1>3 DEF StartSubmit, Begin, TypeOK
  <2> QED BY <2>1, <1>1 DEF FoundVerified
<1>4. ASSUME NoneBegins PROVE Apart'
  BY <1>4 DEF Apart
<1>5. ASSUME NEW p \in Payment, NEW digits \in RandomDigits, CreatePayment(p, digits)
      PROVE  NoneBegins
  BY <1>5 DEF CreatePayment, InFlight
<1>6. ASSUME NEW r \in Request, NEW c \in {"200", "400", "404", "500"}, Answer(r, c),
             UNCHANGED task
      PROVE  NoneBegins
  BY <1>6 DEF Answer, InFlight, TypeOK
<1>7. ASSUME NEW r \in Request, NEW p \in Payment, RefuseVerify(r, p)
      PROVE  NoneBegins
  BY <1>7, <1>6 DEF RefuseVerify, Refuse
<1>8. ASSUME NEW r \in Request, SaveVerify(r)
      PROVE  NoneBegins
  BY <1>8, <1>6 DEF SaveVerify, InFlight, TypeOK
<1>9. ASSUME NEW r \in Request, CreateInvoice(r) \/ InvoiceError(r) \/ SaveError(r)
      PROVE  NoneBegins
  BY <1>9, <1>6 DEF CreateInvoice, InvoiceError, SaveError
<1>10. ASSUME NEW r \in Request, NEW ids \in SUBSET Payment, RefuseSubmit(r, ids)
       PROVE  NoneBegins
  BY <1>10, <1>6 DEF RefuseSubmit, Refuse
<1>11. ASSUME NEW r \in Request, SubmitOne(r)
       PROVE  NoneBegins
  BY <1>11, <1>6 DEF SubmitOne, InFlight
<1>12. CASE Crash
  <2>1. NoneBegins
    BY <1>12 DEF Crash, InFlight
  <2> QED BY <2>1, <1>4
<1>13. CASE (\E e \in Employee : HireEmployee(e)) \/ ResetEmployees \/ UNCHANGED vars
  <2>1. NoneBegins
    BY <1>13 DEF HireEmployee, ResetEmployees, vars, InFlight
  <2> QED BY <2>1, <1>4
<1> HIDE DEF NoneBegins
<1> QED
  BY <1>2, <1>3, <1>4, <1>5, <1>7, <1>8, <1>9, <1>10, <1>11, <1>12, <1>13 DEF Next

\* What a save does when no other request is at the payment: a decision lands
\* on a pending payment nobody decided, a submission on a verified one.
LEMMA SerialSave ==
  ASSUME TypeOK, HandlerInv, WrittenDecided, ReadsFresh,
         NEW r \in Request, NEW p \in task[r].ids
  PROVE  /\ pc[r] = "save" =>
              /\ payments[p].status = "pending"
              /\ \A q \in Request : p \notin wrote[q]
         /\ pc[r] = "submit" /\ p \notin wrote[r] => payments[p].status = "verified"
BY DEF ReadsFresh, WrittenDecided

\* No other request is at the payments of a handler in flight, so the status it
\* read is there until it saves; new payments and new requests are elsewhere.
LEMMA ReadsFreshStep ==
  ASSUME TypeOK, HandlerInv, WrittenDecided, Apart, ReadsFresh, [Next]_vars
  PROVE  ReadsFresh'
<1> SUFFICES ASSUME NEW r \in Request, NEW p \in task'[r].ids
             PROVE  /\ pc'[r] = "save" => payments'[p].status = "pending"
                    /\ pc'[r] = "submit" /\ p \notin wrote'[r] =>
                         payments'[p].status = "verified"
  BY DEF ReadsFresh
<1> DEFINE Fresh == /\ pc'[r] = "save" => payments'[p].status = "pending"
                    /\ pc'[r] = "submit" /\ p \notin wrote'[r] =>
                         payments'[p].status = "verified"
<1>0. ASSUME pc[r] # "idle", pc'[r] \in {"save", "submit"}
      PROVE  /\ pc[r] = pc'[r] /\ p \in task[r].ids
             /\ p \notin wrote'[r] => p \notin wrote[r]
  <2>1. pc[r] = pc'[r] /\ p \in task[r].ids
    BY <1>0, StepShape DEF HandlerChange
  <2> QED BY <2>1, Remembered DEF TypeOK, Task
<1>1. CASE pc[r] = "idle"
  <2>1. ASSUME pc'[r] \in {"save", "submit"} PROVE task'[r] # NoTask
    BY <2>1, HandlerStep DEF HandlerInv, HandlerOK, NoTask
  <2> QED BY <1>1, <2>1, StepShape DEF HandlerChange, NoTask
<1>2. CASE pc[r] # "idle" /\ payments'[p] = payments[p]
  BY <1>0, <1>2 DEF ReadsFresh
<1>3. CASE pc[r] # "idle" /\ payments'[p] # payments[p]
  <2> SUFFICES ASSUME pc'[r] \in {"save", "submit"} PROVE Fresh
    OBVIOUS
  <2>0. pc[r] = pc'[r] /\ p \in task[r].ids /\ p \in Payment
    BY <1>0, <1>3 DEF TypeOK, Task
  <2>1. ASSUME NEW q \in Payment, NEW digits \in RandomDigits,
               payments[q] = Absent, payments' = [payments EXCEPT ![q] = Pending(digits)]
        PROVE  Fresh
    <3>1. payments[p].status = "absent" /\ p \notin wrote[r]
      BY <1>3, <2>0, <2>1 DEF TypeOK, Absent, WrittenDecided
    <3> QED BY <2>0, <3>1 DEF ReadsFresh
  <2>2. ASSUME NEW s \in Request, NEW q \in task[s].ids,
               pc[s] = "save", pc'[s] # "save", SaveDecision(s, q)
        PROVE  Fresh
    <3>1. p = q /\ s # r
      BY <1>3, <2>0, <2>2, DecisionSaved
    <3> QED BY <2>0, <2>2, <3>1 DEF Apart, InFlight
  <2>3. ASSUME NEW s \in Request, NEW q \in task[s].ids,
               pc[s] = "submit", SaveSubmission(s, q)
        PROVE  Fresh
    <3>1. p = q /\ p \in wrote'[s]
      BY <1>3, <2>0, <2>3, SubmissionSaved
    <3>2. s = r
      BY <2>0, <2>3, <3>1 DEF Apart, InFlight
    <3> QED BY <2>0, <2>3, <3>1, <3>2
  <2> HIDE DEF Fresh
  <2> QED BY <1>3, <2>1, <2>2, <2>3, StepShape DEF PaymentChange
<1> QED BY <1>1, <1>2, <1>3

\* A decision or submission already saved is not overwritten.
LEMMA SavedStandsStep ==
  ASSUME TypeOK, HandlerInv, WrittenDecided, ReadsFresh, SavedStands, [Next]_vars
  PROVE  SavedStands'
<1> DEFINE Stands(r, p) ==
         IF task[r].kind = "submit"
         THEN payments[p].swiftReference = r /\ payments[p].status = "submitted_to_swift"
         ELSE /\ payments[p].verifiedBy = task[r].by
              /\ task[r].approve <=> payments[p].status # "rejected"
<1>1. \A r \in Request : \A p \in wrote[r] :
        /\ p \in Payment /\ p \in task[r].ids
        /\ Stands(r, p) /\ task'[r] = task[r]
        /\ payments[p].status \notin {"absent", "pending"}
  <2> SUFFICES ASSUME NEW r \in Request, NEW p \in wrote[r]
               PROVE  /\ p \in Payment /\ p \in task[r].ids
                      /\ Stands(r, p) /\ task'[r] = task[r]
                      /\ payments[p].status \notin {"absent", "pending"}
    OBVIOUS
  <2>1. p \in Payment /\ p \in task[r].ids
    BY DEF TypeOK, HandlerInv, HandlerOK
  <2>2. Stands(r, p) /\ payments[p].status \notin {"absent", "pending"}
    BY DEF SavedStands, WrittenDecided
  <2>3. task'[r] = task[r]
    BY <2>1, Remembered
  <2> QED BY <2>1, <2>2, <2>3
<1> SUFFICES ASSUME NEW r \in Request, NEW p \in wrote'[r]
             PROVE  Stands(r, p)'
  BY DEF SavedStands
<1>2. ASSUME p \in wrote[r], payments'[p] = payments[p]
      PROVE  Stands(r, p)'
  BY <1>1, <1>2
<1>3. ASSUME UNCHANGED wrote, NEW q \in Payment, NEW digits \in RandomDigits,
             payments[q] = Absent, payments' = [payments EXCEPT ![q] = Pending(digits)]
      PROVE  Stands(r, p)'
  <2>1. p \in wrote[r] /\ p # q
    BY <1>1, <1>3 DEF Absent
  <2> QED BY <1>2, <1>3, <2>1 DEF TypeOK
<1>4. ASSUME NEW s \in Request, NEW q \in task[s].ids, pc[s] = "save", SaveDecision(s, q)
      PROVE  Stands(r, p)'
  <2>1. \A t \in Request : q \notin wrote[t]
    BY <1>4, SerialSave
  <2>2. CASE r = s
    <3>1. p = q
      BY <1>4, <2>2 DEF SaveDecision, TypeOK
    <3> QED BY <1>4, <2>2, <3>1, DecisionSaved
  <2>3. CASE r # s
    <3>1. p \in wrote[r] /\ p # q
      BY <1>4, <2>1, <2>3 DEF SaveDecision, TypeOK
    <3> QED BY <1>1, <1>2, <1>4, <3>1, DecisionSaved
  <2> QED BY <2>2, <2>3
<1>5. ASSUME NEW s \in Request, NEW q \in task[s].ids,
             pc[s] = "submit", q \notin wrote[s], SaveSubmission(s, q)
      PROVE  Stands(r, p)'
  <2>1. payments[q].status = "verified"
    BY <1>5, SerialSave
  <2>2. CASE p = q /\ r = s
    BY <1>5, <2>2, SubmissionSaved
  <2>3. CASE p # q
    <3>1. p \in wrote[r]
      BY <1>5, <2>3 DEF SaveSubmission, TypeOK
    <3> QED BY <1>1, <1>2, <1>5, <2>3, <3>1, SubmissionSaved
  <2>4. CASE p = q /\ r # s
    <3>1. p \in wrote[r]
      BY <1>5, <2>4 DEF SaveSubmission, TypeOK
    <3>2. task[r].kind # "submit" /\ task[r].approve /\ payments[p].verifiedBy = task[r].by
      BY <1>1, <2>1, <2>4, <3>1
    <3>3. /\ payments'[p].status = "submitted_to_swift"
          /\ payments'[p].verifiedBy = payments[p].verifiedBy
      BY <1>5, <2>4, SubmissionSaved
    <3> QED BY <1>1, <3>1, <3>2, <3>3
  <2> QED BY <2>2, <2>3, <2>4
<1> HIDE DEF Stands
<1> QED BY <1>2, <1>3, <1>4, <1>5, StepShape DEF PaymentChange

\* The second decision on a payment would need it pending again.
LEMMA DecidedOnceStep ==
  ASSUME TypeOK, HandlerInv, WrittenDecided, ReadsFresh, DecidedOnce, [Next]_vars
  PROVE  DecidedOnce'
<1> SUFFICES ASSUME NEW r \in Request, NEW q \in Request, NEW p \in wrote'[r] \cap wrote'[q],
                    task'[r].kind = "verify", task'[q].kind = "verify"
             PROVE  r = q
  BY DEF DecidedOnce
<1>1. CASE p \in wrote[r] /\ p \in wrote[q]
  <2>1. p \in Payment
    BY <1>1 DEF TypeOK
  <2> QED BY <1>1, <2>1, Remembered DEF DecidedOnce
<1>2. ASSUME NEW s \in Request, NEW d \in task[s].ids, pc[s] = "save", SaveDecision(s, d)
      PROVE  r = q
  <2>1. \A t \in Request : d \notin wrote[t]
    BY <1>2, SerialSave
  <2>2. /\ wrote'[s] = {d}
        /\ \A t \in Request \ {s} : wrote'[t] = wrote[t]
    BY <1>2 DEF SaveDecision, TypeOK
  <2> QED BY <1>1, <2>1, <2>2
<1>3. ASSUME NEW s \in Request, NEW d \in task[s].ids, pc[s] = "submit", SaveSubmission(s, d)
      PROVE  r = q
  <2>1. task'[s].kind = "submit"
    BY <1>3, SubmissionSaved
  <2>2. \A t \in Request \ {s} : wrote'[t] = wrote[t]
    BY <1>3 DEF SaveSubmission, TypeOK
  <2> QED BY <1>1, <2>1, <2>2
<1> QED BY <1>1, <1>2, <1>3, StepShape DEF PaymentChange

\* 200 is sent after the last save.
LEMMA AnsweredStep ==
  ASSUME TypeOK, HandlerInv, AnsweredWhenSaved, [Next]_vars
  PROVE  AnsweredWhenSaved'
<1>0. ASSUME NEW q \in Request, code[q] = "200"
      PROVE  pc'[q] = "done" /\ wrote'[q] = task'[q].ids
  <2>1. pc[q] = "done" /\ wrote[q] = task[q].ids
    BY <1>0 DEF AnsweredWhenSaved
  <2>2. wrote'[q] = wrote[q]
    BY <2>1, StepShape DEF PaymentChange, SaveDecision, SaveSubmission, TypeOK
  <2> QED BY <2>1, <2>2, StepShape DEF HandlerChange
<1>1. ASSUME UNCHANGED code PROVE AnsweredWhenSaved'
  BY <1>0, <1>1 DEF AnsweredWhenSaved
<1>2. ASSUME NEW r \in Request, NEW c \in {"400", "404", "500"}, Answer(r, c)
      PROVE  AnsweredWhenSaved'
  BY <1>0, <1>2 DEF AnsweredWhenSaved, Answer, TypeOK
<1>3. ASSUME NEW r \in Request, Answer(r, "200"), wrote'[r] = task'[r].ids
      PROVE  AnsweredWhenSaved'
  BY <1>0, <1>3 DEF AnsweredWhenSaved, Answer, TypeOK
<1>4. ASSUME NEW r \in Request, SaveVerify(r)
      PROVE  AnsweredWhenSaved'
  <2>1. PICK p \in task[r].ids : SaveDecision(r, p)
    BY <1>4 DEF SaveVerify
  <2>2. task[r].ids = {p} /\ wrote'[r] = {p} /\ UNCHANGED task
    BY <1>4, <2>1 DEF SaveVerify, SaveDecision, HandlerInv, HandlerOK, TypeOK
  <2> QED BY <1>1, <1>3, <1>4, <2>2 DEF SaveVerify
<1>5. ASSUME NEW r \in Request, CreateInvoice(r) \/ InvoiceError(r)
      PROVE  AnsweredWhenSaved'
  <2>1. wrote'[r] = task'[r].ids /\ Answer(r, "200")
    BY <1>5 DEF CreateInvoice, InvoiceError, HandlerInv, HandlerOK
  <2> QED BY <2>1, <1>3
<1>6. ASSUME NEW r \in Request, SubmitOne(r)
      PROVE  AnsweredWhenSaved'
  <2>1. CASE wrote'[r] = task[r].ids
    BY <1>6, <2>1, <1>3 DEF SubmitOne
  <2>2. CASE wrote'[r] # task[r].ids
    BY <1>6, <2>2, <1>1 DEF SubmitOne
  <2> QED BY <2>1, <2>2
<1>7. ASSUME NEW r \in Request, SaveError(r)
      PROVE  AnsweredWhenSaved'
  BY <1>7, <1>2 DEF SaveError
<1>8. ASSUME NEW r \in Request, NEW p \in Payment, RefuseVerify(r, p)
      PROVE  AnsweredWhenSaved'
  BY <1>8, <1>2 DEF RefuseVerify, Refuse
<1>9. ASSUME NEW r \in Request, NEW ids \in SUBSET Payment, RefuseSubmit(r, ids)
      PROVE  AnsweredWhenSaved'
  BY <1>9, <1>2 DEF RefuseSubmit, Refuse
<1> QED
  BY <1>1, <1>4, <1>5, <1>6, <1>7, <1>8, <1>9
  DEF Next, vars, CreatePayment, StartVerify, StartSubmit, Begin, Crash, HireEmployee,
      ResetEmployees

\* The lemmas of the parts together.
LEMMA SerialStep == OneAtATime /\ SerialInd /\ [Next]_vars => SerialInd'
BY IndStep, ApartStep, ReadsFreshStep, SavedStandsStep, DecidedOnceStep, AnsweredStep
DEF SerialInd, Ind

\* The serial invariant holds wherever requests about one payment are kept apart.
THEOREM SerialInductive == OneAtATime /\ Spec => []SerialInd
<1> SUFFICES ASSUME OneAtATime PROVE Spec => []SerialInd
  OBVIOUS
<1>1. SerialInd /\ [Next]_vars => SerialInd'
  BY SerialStep
<1> QED BY <1>1, SerialInit, PTL DEF Spec

\* One request at a time about a payment: what was answered 200 stays true
\* (verify and submit-swift handlers), because the status each handler checked
\* still holds when it saves.
THEOREM AnswersStand == OneAtATime /\ Spec => []AnswerStands
<1>1. SerialInd => AnswerStands
  BY DEF SerialInd, AnswerStands, SavedStands, AnsweredWhenSaved
<1> QED BY <1>1, SerialInductive, PTL

\* Two invoices of one payment would come from two decisions on it.
LEMMA SerialOneInvoice ==
  ASSUME TypeOK, InvoiceFromApproval, DecidedOnce
  PROVE  OneInvoicePerPayment
<1> SUFFICES ASSUME NEW i \in invoices, NEW j \in invoices, i.payment = j.payment
             PROVE  i = j
  BY DEF OneInvoicePerPayment
<1>1. i.number \in Request /\ j.number \in Request
  BY DEF TypeOK, Invoice
<1>2. SavedDecision(i.number, i.payment, TRUE) /\ SavedDecision(j.number, j.payment, TRUE)
  BY DEF InvoiceFromApproval
<1>3. i.number = j.number
  BY <1>1, <1>2 DEF SavedDecision, DecidedOnce
<1> QED BY <1>3 DEF InvoiceFromApproval

\* The verify handler alone, without overlap, invoices a payment once, although
\* it never asks whether an invoice exists.
THEOREM InvoicedOnce == OneAtATime /\ Spec => []OneInvoicePerPayment
<1>1. SerialInd => OneInvoicePerPayment
  BY SerialOneInvoice DEF SerialInd, Ind
<1> QED BY <1>1, SerialInductive, PTL

-----------------------------------------------------------------------------
(* The refinement of PaymentLifecycle *)

\* The refinement mapping.
Status == [p \in Payment |-> payments[p].status]
DecidedBy == [p \in Payment |-> payments[p].verifiedBy]
InvoiceOf == [p \in Payment |-> {i.number : i \in {j \in invoices : j.payment = p}}]

\* A step that changes the documents of one payment p only.
LEMMA MapOne ==
  ASSUME TypeOK, TypeOK', NEW p \in Payment,
         \A q \in Payment \ {p} : payments'[q] = payments[q]
  PROVE  /\ Status' = [Status EXCEPT ![p] = payments'[p].status]
         /\ DecidedBy' = [DecidedBy EXCEPT ![p] = payments'[p].verifiedBy]
         /\ payments'[p].verifiedBy = payments[p].verifiedBy => DecidedBy' = DecidedBy
         /\ UNCHANGED invoices => UNCHANGED InvoiceOf
BY DEF Status, DecidedBy, InvoiceOf, TypeOK

\* The abstract actions, in terms of the mapping.
LEMMA MappedActions ==
  ASSUME NEW p \in Payment,
         \/ /\ Status[p] = "absent" /\ Status' = [Status EXCEPT ![p] = "pending"]
            /\ UNCHANGED <<DecidedBy, InvoiceOf>>
         \/ /\ Status[p] = "pending"
            /\ \E s \in {"verified", "rejected"} : Status' = [Status EXCEPT ![p] = s]
            /\ \E e \in Employee : DecidedBy' = [DecidedBy EXCEPT ![p] = e]
            /\ UNCHANGED InvoiceOf
         \/ /\ Status[p] \in {"verified", "submitted_to_swift", "completed"}
            /\ InvoiceOf[p] = {}
            /\ \E n \in Request : InvoiceOf' = [InvoiceOf EXCEPT ![p] = {n}]
            /\ UNCHANGED <<Status, DecidedBy>>
         \/ /\ Status[p] = "verified" /\ Status' = [Status EXCEPT ![p] = "submitted_to_swift"]
            /\ UNCHANGED <<DecidedBy, InvoiceOf>>
  PROVE  Lifecycle!Next
BY DEF Status, DecidedBy, InvoiceOf, Lifecycle!Next, Lifecycle!Create, Lifecycle!Decide,
       Lifecycle!IssueInvoice, Lifecycle!SubmitToSwift, Lifecycle!Move

\* Absent payments are where the lifecycle begins.
LEMMA LifecycleInit == Init => Lifecycle!Init
BY DEF Init, Absent, Lifecycle!Init

\* Each save is the abstract action it stands for, from the state the abstract
\* action requires; an invoice is the first of its payment.
LEMMA LifecycleStep ==
  ASSUME SerialInd, SerialInd', [Next]_vars
  PROVE  Lifecycle!Next \/ UNCHANGED <<Status, DecidedBy, InvoiceOf>>
<1> DEFINE Maps == Lifecycle!Next \/ UNCHANGED <<Status, DecidedBy, InvoiceOf>>
<1>0. TypeOK /\ TypeOK' /\ HandlerInv /\ Ind
  BY DEF SerialInd, Ind
<1>1. ASSUME NEW r \in Request, CreateInvoice(r)
      PROVE  Maps
  <2>1. PICK p \in task[r].ids :
          invoices' = invoices \cup {[ number |-> r, payment |-> p,
                        verifiedBy |-> task[r].by, paymentStatus |-> "verified" ]}
    BY <1>1 DEF CreateInvoice
  <2>2. /\ p \in Payment /\ p \in wrote[r]
        /\ task[r].kind = "verify" /\ task[r].approve = TRUE
        /\ \A i \in invoices : i.number # r
    BY <1>0, <1>1 DEF CreateInvoice, HandlerInv, HandlerOK, TypeOK, Task
  <2>3. Status[p] \in {"verified", "submitted_to_swift", "completed"}
    <3>1. payments[p].status \notin {"absent", "pending", "rejected"}
      BY <2>2 DEF SerialInd, Ind, WrittenDecided, SavedStands
    <3> QED BY <1>0, <2>2, <3>1 DEF Status, TypeOK, PaymentDoc
  <2>4. InvoiceOf[p] = {}
    <3>1. ASSUME NEW i \in invoices, i.payment = p
          PROVE  FALSE
      <4>1. i.number \in Request /\ SavedDecision(i.number, p, TRUE)
        BY <1>0, <3>1 DEF TypeOK, Invoice, Ind, InvoiceFromApproval
      <4>2. i.number = r
        BY <2>2, <4>1 DEF SerialInd, DecidedOnce, SavedDecision
      <4> QED BY <2>2, <4>2
    <3> QED BY <2>2, <3>1 DEF InvoiceOf
  <2>5. InvoiceOf' = [InvoiceOf EXCEPT ![p] = {r}]
    <3>1. ASSUME NEW q \in Payment, q # p
          PROVE  InvoiceOf'[q] = InvoiceOf[q]
      BY <2>1, <3>1 DEF InvoiceOf
    <3>2. InvoiceOf'[p] = InvoiceOf[p] \cup {r}
      <4> DEFINE new == [ number |-> r, payment |-> p, verifiedBy |-> task[r].by,
                          paymentStatus |-> "verified" ]
      <4>1. new.number = r /\ new.payment = p
        OBVIOUS
      <4>2. {j \in invoices' : j.payment = p} = {j \in invoices : j.payment = p} \cup {new}
        <5> HIDE DEF new
        <5> QED BY <2>1, <4>1 DEF new
      <4>3. InvoiceOf'[p] = {i.number : i \in {j \in invoices' : j.payment = p}}
        BY <2>2 DEF InvoiceOf
      <4>4. InvoiceOf[p] = {i.number : i \in {j \in invoices : j.payment = p}}
        BY <2>2 DEF InvoiceOf
      <4> HIDE DEF new
      <4> QED BY <4>1, <4>2, <4>3, <4>4
    <3>3. /\ InvoiceOf = [q \in Payment |-> InvoiceOf[q]]
          /\ InvoiceOf' = [q \in Payment |-> InvoiceOf'[q]]
      BY DEF InvoiceOf
    <3> QED BY <2>2, <2>4, <3>1, <3>2, <3>3
  <2>6. UNCHANGED <<Status, DecidedBy>>
    BY <1>1 DEF CreateInvoice, Status, DecidedBy
  <2> QED BY <2>2, <2>3, <2>4, <2>5, <2>6, MappedActions
<1>2. ASSUME UNCHANGED <<payments, invoices>>
      PROVE  Maps
  BY <1>2 DEF Status, DecidedBy, InvoiceOf
<1>3. ASSUME UNCHANGED invoices, NEW p \in Payment, NEW digits \in RandomDigits,
             payments[p] = Absent, payments' = [payments EXCEPT ![p] = Pending(digits)]
      PROVE  Maps
  <2>1. /\ payments'[p] = Pending(digits)
        /\ \A q \in Payment \ {p} : payments'[q] = payments[q]
    BY <1>0, <1>3 DEF TypeOK
  <2>2. /\ Status[p] = "absent" /\ payments'[p].status = "pending"
        /\ payments'[p].verifiedBy = payments[p].verifiedBy
    BY <1>3, <2>1 DEF Status, Absent, Pending
  <2> QED BY <1>0, <1>3, <2>1, <2>2, MapOne, MappedActions
<1>4. ASSUME UNCHANGED invoices, NEW r \in Request, NEW p \in task[r].ids,
             pc[r] = "save", SaveDecision(r, p)
      PROVE  Maps
  <2>1. /\ p \in Payment /\ task[r].by \in Employee
        /\ payments'[p].status \in {"verified", "rejected"}
        /\ payments'[p].verifiedBy = task[r].by
        /\ \A q \in Payment \ {p} : payments'[q] = payments[q]
    BY <1>0, <1>4, DecisionSaved
  <2>2. Status[p] = "pending"
    BY <1>4, <2>1, SerialSave DEF SerialInd, Ind, Status
  <2> QED BY <1>0, <1>4, <2>1, <2>2, MapOne, MappedActions
<1>5. ASSUME UNCHANGED invoices, NEW r \in Request, NEW p \in task[r].ids,
             pc[r] = "submit", p \notin wrote[r], SaveSubmission(r, p)
      PROVE  Maps
  <2>1. /\ p \in Payment
        /\ payments'[p].status = "submitted_to_swift"
        /\ payments'[p].verifiedBy = payments[p].verifiedBy
        /\ \A q \in Payment \ {p} : payments'[q] = payments[q]
    BY <1>0, <1>5, SubmissionSaved
  <2>2. Status[p] = "verified"
    BY <1>5, <2>1, SerialSave DEF SerialInd, Ind, Status
  <2> QED BY <1>0, <1>5, <2>1, <2>2, MapOne, MappedActions
<1>6. CASE UNCHANGED invoices
  <2>1. PaymentChange
    BY <1>0, StepShape
  <2> QED BY <1>2, <1>3, <1>4, <1>5, <1>6, <2>1 DEF PaymentChange
<1>7. CASE \E r \in Request : CreateInvoice(r)
  BY <1>1, <1>7
<1> QED BY <1>0, <1>6, <1>7, StepShape DEF InvoiceChange

\* Requests about one payment kept apart, the routes implement the workflow of
\* the README: one decision, then at most one invoice and one submission.
THEOREM ImplementsLifecycle == OneAtATime /\ Spec => FollowsLifecycle
<1> SUFFICES ASSUME OneAtATime PROVE Spec => FollowsLifecycle
  OBVIOUS
<1>1. SerialInd /\ SerialInd' /\ [Next]_vars => [Lifecycle!Next]_(Lifecycle!lifecycle)
  BY LifecycleStep DEF Lifecycle!lifecycle, Status, DecidedBy, InvoiceOf
<1> QED BY <1>1, LifecycleInit, SerialInductive, PTL DEF Spec, FollowsLifecycle, Lifecycle!Spec

-----------------------------------------------------------------------------
(* Employees, and the invoices that are owed *)

\* A document that exists has been hired for ever, and one that is deleted
\* stays so.
EmployeesOnward ==
  \A e \in Employee : /\ employees[e] # "unhired" => employees'[e] # "unhired"
                      /\ employees[e] = "deleted" => employees'[e] = "deleted"

\* Documents of employees are created, then deleted, and never come back.
LEMMA EmployeeStep ==
  ASSUME TypeOK, [Next]_vars
  PROVE  EmployeesOnward
<1>1. CASE UNCHANGED employees
  BY <1>1 DEF EmployeesOnward
<1>2. CASE \E e \in Employee : HireEmployee(e)
  BY <1>2 DEF HireEmployee, EmployeesOnward, TypeOK
<1>3. CASE ResetEmployees
  BY <1>3 DEF ResetEmployees, EmployeesOnward, TypeOK
<1> QED
  BY <1>1, <1>2, <1>3 DEF Next, vars, CreatePayment, StartVerify, RefuseVerify, Refuse,
     SaveVerify, CreateInvoice, InvoiceError, StartSubmit, RefuseSubmit, SubmitOne,
     SaveError, Crash

\* Every task is taken up by an employee with a token.
LEMMA TaskStep ==
  ASSUME TypeOK, [Next]_vars, NEW q \in Request
  PROVE  \/ task'[q] = task[q]
         \/ task'[q].by \in Employee /\ employees[task'[q].by] # "unhired"
<1>1. ASSUME NEW r \in Request, NEW next, NEW kind, NEW e \in Employee, NEW approve,
             NEW ids, HasToken(e), Begin(r, next, kind, e, approve, ids)
      PROVE  \/ task'[q] = task[q]
             \/ task'[q].by \in Employee /\ employees[task'[q].by] # "unhired"
  BY <1>1 DEF Begin, HasToken, TypeOK
<1>2. ASSUME NEW r \in Request, NEW e \in Employee, NEW p \in Payment,
             NEW approve \in BOOLEAN, StartVerify(r, e, p, approve)
      PROVE  \/ task'[q] = task[q]
             \/ task'[q].by \in Employee /\ employees[task'[q].by] # "unhired"
  BY <1>1, <1>2 DEF StartVerify
<1>3. ASSUME NEW r \in Request, NEW e \in Employee, NEW ids \in SUBSET Payment \ {{}},
             StartSubmit(r, e, ids)
      PROVE  \/ task'[q] = task[q]
             \/ task'[q].by \in Employee /\ employees[task'[q].by] # "unhired"
  BY <1>1, <1>3 DEF StartSubmit
<1>4. CASE UNCHANGED task
  BY <1>4
<1> QED
  BY <1>2, <1>3, <1>4 DEF Next, vars, CreatePayment, RefuseVerify, Refuse, SaveVerify,
     CreateInvoice, InvoiceError, RefuseSubmit, SubmitOne, SaveError, Crash,
     HireEmployee, ResetEmployees

\* The routes delete no invoice.
LEMMA InvoicesKept ==
  ASSUME TypeOK, HandlerInv, [Next]_vars
  PROVE  invoices \subseteq invoices'
BY StepShape DEF InvoiceChange, CreateInvoice

\* Whoever acts was hired once.
ActorsHired == \A r \in Request : task[r].by # NoOne => employees[task[r].by] # "unhired"

\* The invoice of an approval that was saved is there, or its handler is about to issue
\* it, or the employee's document is gone.
OwedBy(r, p) ==
  \/ pc[r] = "invoice"
  \/ \E i \in invoices : i.number = r /\ i.payment = p
  \/ task[r].by \in Employee /\ employees[task[r].by] = "deleted"

InvoiceOwed == \A r \in Request, p \in Payment : SavedDecision(r, p, TRUE) => OwedBy(r, p)

OwedInd == TypeOK /\ HandlerInv /\ ActorsHired /\ InvoiceOwed

\* A task is taken up by an employee who was hired.
LEMMA ActorsStep == TypeOK /\ HandlerInv /\ ActorsHired /\ [Next]_vars => ActorsHired'
<1> SUFFICES ASSUME TypeOK, HandlerInv, ActorsHired, [Next]_vars,
                    NEW r \in Request, task'[r].by # NoOne
             PROVE  employees'[task'[r].by] # "unhired"
  BY DEF ActorsHired
<1>1. task[r].by \in Employee \cup {NoOne}
  BY DEF TypeOK, Task
<1>2. task'[r].by \in Employee /\ employees[task'[r].by] # "unhired"
  BY <1>1, TaskStep DEF ActorsHired
<1> QED BY <1>2, EmployeeStep DEF EmployeesOnward

\* What is owed stays owed until it is issued.
LEMMA OwedStays ==
  ASSUME TypeOK, HandlerInv, [Next]_vars, NEW r \in Request, NEW p \in Payment,
         OwedBy(r, p), pc[r] # "idle", pc[r] = "invoice" => pc'[r] = "invoice"
  PROVE  OwedBy(r, p)'
<1>1. task'[r] = task[r]
  BY StepShape DEF HandlerChange
<1> QED BY <1>1, InvoicesKept, EmployeeStep DEF OwedBy, EmployeesOnward

\* Saving an approval is followed by the invoice, or finds the employee's document gone.
LEMMA SaveOwes ==
  ASSUME TypeOK, HandlerInv, ActorsHired, NEW r \in Request, NEW p \in Payment, SaveVerify(r),
         SavedDecision(r, p, TRUE)'
  PROVE  OwedBy(r, p)'
<1>1. task'[r] = task[r] /\ employees' = employees /\ task[r].approve = TRUE /\ task[r].by \in Employee
  BY DEF SaveVerify, SavedDecision, HandlerInv, HandlerOK
<1>2. employees[task[r].by] \in {"employed", "deleted"}
  BY <1>1, WorkflowAssumption DEF ActorsHired, TypeOK
<1>3. CASE employees[task[r].by] = "employed"
  BY <1>1, <1>3 DEF SaveVerify, OwedBy, TypeOK
<1>4. CASE employees[task[r].by] = "deleted"
  BY <1>1, <1>4 DEF OwedBy
<1> QED BY <1>2, <1>3, <1>4

\* The invoice is for the payment that was approved.
LEMMA IssuePays ==
  ASSUME TypeOK, HandlerInv, NEW r \in Request, NEW p \in Payment, CreateInvoice(r),
         SavedDecision(r, p, TRUE)'
  PROVE  OwedBy(r, p)'
<1>1. p \in task[r].ids /\ task[r].ids = {p}
  BY DEF CreateInvoice, SavedDecision, HandlerInv, HandlerOK
<1>2. PICK q \in task[r].ids : invoices' = invoices \cup
          {[ number |-> r, payment |-> q, verifiedBy |-> task[r].by, paymentStatus |-> "verified" ]}
  BY DEF CreateInvoice
<1> DEFINE issued == [ number |-> r, payment |-> q, verifiedBy |-> task[r].by, paymentStatus |-> "verified" ]
<1>3. issued \in invoices' /\ issued.number = r /\ issued.payment = p
  BY <1>1, <1>2
<1> QED BY <1>3 DEF OwedBy

\* No other step of a server without faults saves an approval or leaves the invoice.
LEMMA OwedStep == ~Faults /\ OwedInd /\ [Next]_vars => OwedInd'
<1> SUFFICES ASSUME ~Faults, OwedInd, [Next]_vars
             PROVE  OwedInd'
  OBVIOUS
<1>1. TypeOK' /\ HandlerInv' /\ ActorsHired'
  BY TypeStep, HandlerStep, ActorsStep DEF OwedInd
<1>2. ASSUME NEW r \in Request, NEW p \in Payment, SavedDecision(r, p, TRUE)'
      PROVE  OwedBy(r, p)'
  <2>1. CASE SaveVerify(r)
    BY <1>2, <2>1, SaveOwes DEF OwedInd
  <2>2. CASE CreateInvoice(r)
    BY <1>2, <2>2, IssuePays DEF OwedInd
  <2>3. CASE ~SaveVerify(r) /\ ~CreateInvoice(r)
    <3>1. wrote'[r] = wrote[r] /\ (pc[r] = "invoice" => pc'[r] = "invoice")
      <4> DEFINE Same == wrote'[r] = wrote[r] /\ (pc[r] = "invoice" => pc'[r] = "invoice")
      <4>1. ASSUME NEW q \in Request, SubmitOne(q)
            PROVE  Same
        <5>1. task[q].kind = "submit" /\ task'[q] = task[q]
          BY <4>1 DEF SubmitOne, OwedInd, HandlerInv, HandlerOK
        <5>2. q # r
          BY <1>2, <5>1 DEF SavedDecision
        <5> QED BY <4>1, <5>2 DEF SubmitOne, SaveSubmission, Answer, OwedInd, TypeOK
      <4>2. ASSUME NEW q \in Request, q # r, SaveVerify(q) \/ CreateInvoice(q)
            PROVE  Same
        BY <4>2 DEF SaveVerify, SaveDecision, CreateInvoice, Answer, OwedInd, TypeOK
      <4>3. ASSUME NEW q \in Request, pc[q] = "idle", \E c : Refuse(q, c)
            PROVE  Same
        BY <4>3 DEF Refuse, Answer
      <4>4. ASSUME NEW q \in Request, pc[q] = "idle",
                   NEW next, NEW kind, NEW e, NEW approve, NEW ids, Begin(q, next, kind, e, approve, ids)
            PROVE  Same
        BY <4>4 DEF Begin
      <4>5. CASE UNCHANGED <<wrote, pc>>
        BY <4>5
      <4> QED
        BY <2>3, <4>1, <4>2, <4>3, <4>4, <4>5 DEF Next, vars, CreatePayment, StartVerify, RefuseVerify,
           StartSubmit, RefuseSubmit, Arrives, InvoiceError, SaveError, Crash, HireEmployee, ResetEmployees
    <3>2. pc[r] # "idle" /\ task'[r] = task[r]
      BY <1>2, <3>1, StepShape DEF OwedInd, HandlerChange, HandlerInv, HandlerOK, SavedDecision
    <3>3. OwedBy(r, p)
      BY <1>2, <3>1, <3>2 DEF SavedDecision, OwedInd, InvoiceOwed
    <3> QED BY <3>1, <3>2, <3>3, OwedStays DEF OwedInd
  <2> QED BY <2>1, <2>2, <2>3
<1> QED BY <1>1, <1>2 DEF OwedInd, InvoiceOwed

\* The verify handler from its save to its answer: while no call fails, however requests
\* overlap, no approval is left without an invoice that is issued or about to be, unless
\* the employee's document was deleted.
THEOREM ApprovalsAreOwedInvoices == ~Faults /\ Spec => []InvoiceOwed
<1> SUFFICES ASSUME ~Faults PROVE Spec => []InvoiceOwed
  OBVIOUS
<1>1. Init => OwedInd
  BY TypeInit DEF Init, NoTask, OwedInd, ActorsHired, InvoiceOwed, SavedDecision
<1>2. OwedInd => InvoiceOwed
  BY DEF OwedInd
<1> QED BY <1>1, <1>2, OwedStep, PTL DEF Spec
=============================================================================
