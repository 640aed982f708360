--------------------------- MODULE SeedingProofs ---------------------------
(***************************************************************************)
(* Proofs about InvoiceSeeding for any payments, employees, requests and   *)
(* runs of the script, whatever overlaps and whatever fails.               *)
(***************************************************************************)
EXTENDS SeedingProperties, PaymentProofs

-----------------------------------------------------------------------------
(* The inductive invariant *)

\* The script's part of the type invariant.
ScriptTypes ==
  /\ seeded \subseteq [ run : Run, payment : Payment, verifiedBy : Employee,
                        paymentStatus : {"verified", "submitted_to_swift"} ]
  /\ rpc \in [Run -> {"idle", "check", "create", "samples", "payment", "invoice", "done"}]
  /\ found \in [Run -> SUBSET Copies] /\ todo \in [Run -> SUBSET Copies]
  /\ current \in [Run -> SUBSET Copies] /\ created \in [Run -> SUBSET Payment]
  /\ staff \in [Run -> SUBSET Employee]
  /\ failed \in [Run -> BOOLEAN]

\* An employee who decides, or whom the script names, has been hired: what is
\* not found for such an employee is a document that was deleted.
HiredInv ==
  /\ \A r \in Request : task[r].by # NoOne => employees[task[r].by] # "unhired"
  /\ \A p \in Payment :
       payments[p].verifiedBy # NoOne => employees[payments[p].verifiedBy] # "unhired"
  /\ \A s \in Run : \A e \in staff[s] : employees[e] # "unhired"
  /\ \A s \in Run : \A doc \in found[s] : employees[doc.verifiedBy] # "unhired"

\* The loop has nothing more to do about this copy.
Settled(doc) == HasInvoice(doc.payment) \/ employees[doc.verifiedBy] = "deleted"

\* What the loop has left behind it is settled, and after the loop everything
\* the query returned is.
LoopOK(s) ==
  /\ rpc[s] = "idle" => found[s] = {}
  /\ rpc[s] \in {"check", "create"} =>
       \A doc \in found[s] : doc \in todo[s] \/ Settled(doc)
  /\ rpc[s] \in {"samples", "payment", "invoice", "done"} /\ ~failed[s] =>
       \A doc \in found[s] : Settled(doc)
  /\ rpc[s] \in {"check", "create"} => todo[s] \subseteq found[s]

LoopInv == \A s \in Run : LoopOK(s)

IInv == TypeOK /\ HandlerInv /\ ScriptTypes /\ HiredInv /\ LoopInv

-----------------------------------------------------------------------------
(* Steps of the server *)

\* The decision on a payment is that of a task, or the one it had.
LEMMA DeciderStep ==
  ASSUME TypeOK, HandlerInv, [Next]_vars, NEW p \in Payment, payments'[p].verifiedBy # NoOne
  PROVE  \/ payments'[p].verifiedBy = payments[p].verifiedBy
         \/ \E r \in Request : payments'[p].verifiedBy = task[r].by /\ task'[r] = task[r]
<1>1. CASE UNCHANGED payments
  BY <1>1
<1>2. CASE \E q \in Payment, digits \in RandomDigits :
             payments' = [payments EXCEPT ![q] = Pending(digits)]
  BY <1>2 DEF Pending, TypeOK
<1>3. CASE \E r \in Request : \E q \in task[r].ids : pc[r] = "save" /\ SaveDecision(r, q)
  <2>1. PICK r \in Request : \E q \in task[r].ids : pc[r] = "save" /\ SaveDecision(r, q)
    BY <1>3
  <2>2. task'[r] = task[r]
    BY <2>1, StepShape DEF HandlerChange
  <2> QED BY <2>1, <2>2 DEF SaveDecision, Verified, TypeOK
<1>4. CASE \E r \in Request : \E q \in task[r].ids : SaveSubmission(r, q)
  BY <1>4 DEF SaveSubmission, Submitted, TypeOK
<1> QED BY <1>1, <1>2, <1>3, <1>4, StepShape DEF PaymentChange

\* What is settled stays settled while invoices are kept.
LEMMA SettledStable ==
  ASSUME EmployeesOnward, invoices \subseteq invoices', seeded \subseteq seeded',
         NEW doc \in Copies, Settled(doc)
  PROVE  Settled(doc)'
<1>1. doc.verifiedBy \in Employee
  BY DEF Copies
<1> QED BY <1>1 DEF Settled, HasInvoice, EmployeesOnward

\* Every step of the server keeps the invariant: what is settled stays settled.
LEMMA ServerStep ==
  ASSUME IInv, [Next]_vars, UNCHANGED script
  PROVE  IInv'
<1>1. TypeOK' /\ HandlerInv' /\ EmployeesOnward
  BY TypeStep, HandlerStep, EmployeeStep DEF IInv
<1>2. ScriptTypes'
  BY DEF IInv, ScriptTypes, script
<1>3. HiredInv'
  <2>1. ASSUME NEW r \in Request, task'[r].by # NoOne
        PROVE  employees'[task'[r].by] # "unhired"
    <3>1. task[r].by \in Employee \cup {NoOne}
      BY DEF IInv, TypeOK, Task
    <3>2. task'[r].by \in Employee /\ employees[task'[r].by] # "unhired"
      BY <2>1, <3>1, TaskStep DEF IInv, HiredInv
    <3> QED BY <3>2, <1>1 DEF EmployeesOnward
  <2>2. ASSUME NEW p \in Payment, payments'[p].verifiedBy # NoOne
        PROVE  employees'[payments'[p].verifiedBy] # "unhired"
    <3>1. payments'[p].verifiedBy \in Employee
      BY <1>1, <2>2 DEF TypeOK, PaymentDoc
    <3>2. CASE payments'[p].verifiedBy = payments[p].verifiedBy
      BY <1>1, <2>2, <3>1, <3>2 DEF EmployeesOnward, IInv, HiredInv
    <3>3. CASE \E r \in Request : payments'[p].verifiedBy = task[r].by /\ task'[r] = task[r]
      BY <2>1, <2>2, <3>3
    <3> QED BY <2>2, <3>2, <3>3, DeciderStep DEF IInv
  <2>3. \A s \in Run : \A e \in staff'[s] : employees'[e] # "unhired"
    BY <1>1 DEF EmployeesOnward, IInv, HiredInv, ScriptTypes, script
  <2>4. \A s \in Run : \A doc \in found'[s] : employees'[doc.verifiedBy] # "unhired"
    BY <1>1 DEF EmployeesOnward, IInv, HiredInv, ScriptTypes, Copies, script
  <2> QED BY <2>1, <2>2, <2>3, <2>4 DEF HiredInv
<1>4. LoopInv'
  <2>1. \A s \in Run : \A doc \in found[s] : Settled(doc) => Settled(doc)'
    BY <1>1, InvoicesKept, SettledStable DEF IInv, ScriptTypes, script
  <2> QED BY <2>1 DEF IInv, LoopInv, LoopOK, script
<1> QED BY <1>1, <1>2, <1>3, <1>4 DEF IInv

-----------------------------------------------------------------------------
(* Steps of the script *)

\* The typed copies a query returns.
LEMMA CopyTyped ==
  ASSUME TypeOK
  PROVE  {Copy(p) : p \in ApprovedPayments} \subseteq Copies
<1> SUFFICES ASSUME NEW p \in ApprovedPayments
             PROVE  Copy(p) \in Copies
  OBVIOUS
<1>1. payments[p].verifiedBy \in Employee /\ p \in Payment
  BY DEF ApprovedPayments, TypeOK, PaymentDoc
<1>2. payments[p].status \in {"verified", "submitted_to_swift"}
  BY DEF ApprovedPayments
<1> QED BY <1>1, <1>2 DEF Copy, Copies

\* The invoice made from a copy fits the schema.
LEMMA SeededTyped ==
  ASSUME NEW s \in Run, NEW doc \in Copies
  PROVE  SeededInvoice(s, doc) \in
           [ run : Run, payment : Payment, verifiedBy : Employee,
             paymentStatus : {"verified", "submitted_to_swift"} ]
BY DEF SeededInvoice, Copies

\* Issuing the invoices of what the run holds keeps the collection's schema,
\* and gives each of them one.
LEMMA SeededStep ==
  ASSUME ScriptTypes, NEW s \in Run,
         seeded' = seeded \cup {SeededInvoice(s, doc) : doc \in current[s]}
  PROVE  /\ seeded' \subseteq [ run : Run, payment : Payment, verifiedBy : Employee,
                               paymentStatus : {"verified", "submitted_to_swift"} ]
         /\ seeded \subseteq seeded'
         /\ \A doc \in current[s] : HasInvoice(doc.payment)'
<1>1. current[s] \subseteq Copies
  BY DEF ScriptTypes
<1>2. \A doc \in current[s] : SeededInvoice(s, doc).payment = doc.payment
  BY DEF SeededInvoice
<1> QED BY <1>1, <1>2, SeededTyped DEF ScriptTypes, HasInvoice

\* A sample is a payment of the schema.
LEMMA SampleTyped ==
  ASSUME NEW e \in Employee, NEW digits \in RandomDigits
  PROVE  Sample(e, digits) \in PaymentDoc
<1>1. ValidTransactionId(SuffixLength(digits)) \in BOOLEAN
  BY DEF ValidTransactionId
<1> QED BY <1>1 DEF Sample, PaymentDoc

\* A step that leaves the server's variables alone.
LEMMA ServerUnchanged ==
  ASSUME TypeOK, HandlerInv, UNCHANGED vars
  PROVE  TypeOK' /\ HandlerInv' /\ EmployeesOnward /\ invoices \subseteq invoices'
BY DEF TypeOK, HandlerInv, HandlerOK, EmployeesOnward, vars

\* The query: every copy is still to be treated.
LEMMA FindStep ==
  ASSUME IInv, NEW s \in Run, FindApproved(s)
  PROVE  IInv'
<1> DEFINE docs == {Copy(p) : p \in ApprovedPayments}
<1>1. TypeOK' /\ HandlerInv' /\ EmployeesOnward
  BY ServerUnchanged DEF IInv, FindApproved
<1>2. docs \subseteq Copies
  BY CopyTyped DEF IInv
<1>3. \A doc \in docs : employees[doc.verifiedBy] # "unhired"
  BY DEF IInv, HiredInv, Copy, ApprovedPayments
<1> HIDE DEF docs
<1>4. /\ found' = [found EXCEPT ![s] = docs]
      /\ todo' = [todo EXCEPT ![s] = docs]
      /\ rpc' = [rpc EXCEPT ![s] = IF docs # {} THEN "check" ELSE "samples"]
      /\ rpc[s] = "idle"
      /\ UNCHANGED <<seeded, current, created, staff, failed, employees, task, payments, invoices>>
  BY DEF FindApproved, LoopOn, docs, vars
<1>5. ScriptTypes'
  BY <1>2, <1>4 DEF IInv, ScriptTypes
<1>6. HiredInv'
  BY <1>3, <1>4 DEF IInv, HiredInv, ScriptTypes
<1>7. LoopInv'
  BY <1>4 DEF IInv, LoopInv, LoopOK, ScriptTypes, Settled, HasInvoice
<1> QED BY <1>1, <1>5, <1>6, <1>7 DEF IInv

\* The loop drops a copy that is settled, or takes it up.
LEMMA CheckStep ==
  ASSUME IInv, NEW s \in Run, NEW doc \in todo[s], CheckInvoice(s, doc)
  PROVE  IInv'
<1>1. TypeOK' /\ HandlerInv' /\ EmployeesOnward
  BY ServerUnchanged DEF IInv, CheckInvoice
<1>2. /\ rpc[s] = "check" /\ doc \in Copies /\ doc \in found[s]
      /\ UNCHANGED <<seeded, found, created, staff, failed, employees, task, payments, invoices>>
  BY DEF CheckInvoice, vars, IInv, ScriptTypes, LoopInv, LoopOK
<1>3. HiredInv'
  BY <1>2 DEF IInv, HiredInv
<1>4. CASE Skip(doc)
  <2>1. /\ todo' = [todo EXCEPT ![s] = todo[s] \ {doc}]
        /\ UNCHANGED current
        /\ rpc' = [rpc EXCEPT ![s] = IF todo[s] \ {doc} # {} THEN "check"
                                     ELSE IF created[s] # {} THEN "done" ELSE "samples"]
    BY <1>4 DEF CheckInvoice, LoopOn
  <2>2. Settled(doc)
    <3>1. employees[doc.verifiedBy] \in {"employed", "deleted"}
      BY <1>2 DEF IInv, HiredInv, TypeOK, Copies
    <3> QED BY <1>4, <3>1 DEF Skip, Settled
  <2>3. ScriptTypes'
    BY <1>2, <2>1 DEF IInv, ScriptTypes
  <2>4. LoopInv'
    BY <1>2, <2>1, <2>2 DEF IInv, LoopInv, LoopOK, ScriptTypes, Settled, HasInvoice
  <2> QED BY <1>1, <1>3, <2>3, <2>4 DEF IInv
<1>5. CASE ~Skip(doc)
  <2>1. /\ current' = [current EXCEPT ![s] = {doc}]
        /\ rpc' = [rpc EXCEPT ![s] = "create"]
        /\ UNCHANGED todo
    BY <1>5 DEF CheckInvoice
  <2>2. ScriptTypes'
    BY <1>2, <2>1 DEF IInv, ScriptTypes
  <2>3. LoopInv'
    BY <1>2, <2>1 DEF IInv, LoopInv, LoopOK, ScriptTypes, Settled, HasInvoice
  <2> QED BY <1>1, <1>3, <2>2, <2>3 DEF IInv
<1> QED BY <1>4, <1>5

\* The copy that was taken up has its invoice now.
LEMMA SeedStep ==
  ASSUME IInv, NEW s \in Run, SeedInvoice(s)
  PROVE  IInv'
<1>1. TypeOK' /\ HandlerInv' /\ EmployeesOnward /\ invoices \subseteq invoices'
  BY ServerUnchanged DEF IInv, SeedInvoice
<1>2. /\ rpc[s] = "create"
      /\ created' = [created EXCEPT ![s] = created[s] \cup {doc.payment : doc \in current[s]}]
      /\ current' = [current EXCEPT ![s] = {}]
      /\ todo' = [todo EXCEPT ![s] = todo[s] \ current[s]]
      /\ rpc' = [rpc EXCEPT ![s] = IF todo[s] \ current[s] # {} THEN "check"
                                   ELSE IF created'[s] # {} THEN "done" ELSE "samples"]
      /\ UNCHANGED <<found, staff, failed, employees, task, payments, invoices>>
  BY DEF SeedInvoice, LoopOn, vars
<1>3. /\ seeded \subseteq seeded'
      /\ \A doc \in current[s] : HasInvoice(doc.payment)'
      /\ seeded' \subseteq [ run : Run, payment : Payment, verifiedBy : Employee,
                             paymentStatus : {"verified", "submitted_to_swift"} ]
  BY SeededStep DEF IInv, SeedInvoice
<1>4. {doc.payment : doc \in current[s]} \subseteq Payment
  BY DEF IInv, ScriptTypes, Copies
<1>5. ScriptTypes'
  BY <1>2, <1>3, <1>4 DEF IInv, ScriptTypes
<1>6. HiredInv'
  BY <1>2 DEF IInv, HiredInv
<1>7. \A t \in Run : \A doc \in found[t] : Settled(doc) => Settled(doc)'
  BY <1>1, <1>3, SettledStable DEF IInv, ScriptTypes
<1>8. \A doc \in current[s] : Settled(doc)'
  BY <1>3 DEF Settled
<1>9. LoopInv'
  BY <1>2, <1>7, <1>8 DEF IInv, LoopInv, LoopOK, ScriptTypes
<1> QED BY <1>1, <1>5, <1>6, <1>9 DEF IInv

\* The payments are as they were, or run s has added a sample to them.
SampleAdded(s) ==
  /\ UNCHANGED <<invoices, employees, pc, task, wrote, code>>
  /\ \/ UNCHANGED payments
     \/ \E p \in Payment, e \in staff[s], digits \in RandomDigits :
          payments' = [payments EXCEPT ![p] = Sample(e, digits)]

\* A sample names an employee who was found, and disturbs no handler.
LEMMA SampleAddedStep ==
  ASSUME IInv, NEW s \in Run, SampleAdded(s)
  PROVE  /\ TypeOK' /\ HandlerInv' /\ EmployeesOnward /\ invoices \subseteq invoices'
         /\ \A p \in Payment : payments'[p].verifiedBy # NoOne =>
              employees'[payments'[p].verifiedBy] # "unhired"
<1>1. HandlerInv' /\ EmployeesOnward /\ invoices \subseteq invoices'
  BY DEF IInv, HandlerInv, HandlerOK, EmployeesOnward, SampleAdded
<1>2. CASE UNCHANGED payments
  BY <1>1, <1>2 DEF IInv, TypeOK, HiredInv, SampleAdded
<1>3. ASSUME NEW q \in Payment, NEW e \in staff[s], NEW digits \in RandomDigits,
             payments' = [payments EXCEPT ![q] = Sample(e, digits)]
      PROVE  /\ TypeOK'
             /\ \A p \in Payment : payments'[p].verifiedBy # NoOne =>
                  employees'[payments'[p].verifiedBy] # "unhired"
  <2>1. e \in Employee /\ employees[e] # "unhired"
    BY DEF IInv, ScriptTypes, HiredInv
  <2>2. Sample(e, digits) \in PaymentDoc /\ Sample(e, digits).verifiedBy = e
    BY <2>1, SampleTyped DEF Sample
  <2>3. TypeOK'
    BY <1>3, <2>2 DEF IInv, TypeOK, SampleAdded
  <2>4. ASSUME NEW p \in Payment, payments'[p].verifiedBy # NoOne
        PROVE  employees'[payments'[p].verifiedBy] # "unhired"
    <3>1. CASE p = q
      BY <1>3, <2>1, <2>2, <3>1 DEF IInv, TypeOK, SampleAdded
    <3>2. CASE p # q
      BY <1>3, <2>4, <3>2 DEF IInv, TypeOK, HiredInv, SampleAdded
    <3> QED BY <3>1, <3>2
  <2> QED BY <2>3, <2>4
<1> QED BY <1>1, <1>2, <1>3 DEF SampleAdded

\* A step with which run s leaves the loop in an error, or goes on after it.
AfterLoop(s) ==
  /\ SampleAdded(s)
  /\ UNCHANGED found
  /\ seeded \subseteq seeded'
  /\ \A t \in Run \ {s} : todo'[t] = todo[t]
  /\ \E next \in {"samples", "payment", "invoice", "done"} : rpc' = [rpc EXCEPT ![s] = next]
  /\ \/ rpc[s] \in {"samples", "payment", "invoice"} /\ UNCHANGED failed
     \/ failed' = [failed EXCEPT ![s] = TRUE]

\* Outside the loop nothing unsettles what the loop has settled.
LEMMA AfterLoopStep ==
  ASSUME IInv, NEW s \in Run, AfterLoop(s), ScriptTypes',
         \A t \in Run : \A e \in staff'[t] : employees[e] # "unhired"
  PROVE  IInv'
<1>1. /\ TypeOK' /\ HandlerInv' /\ EmployeesOnward /\ invoices \subseteq invoices'
      /\ \A p \in Payment : payments'[p].verifiedBy # NoOne =>
           employees'[payments'[p].verifiedBy] # "unhired"
  BY SampleAddedStep DEF AfterLoop
<1>2. HiredInv'
  BY <1>1 DEF IInv, HiredInv, AfterLoop, SampleAdded
<1>3. \A t \in Run : \A doc \in found[t] : Settled(doc) => Settled(doc)'
  BY <1>1, SettledStable DEF IInv, ScriptTypes, AfterLoop
<1>4. LoopOK(s)'
  <2>1. rpc'[s] \in {"samples", "payment", "invoice", "done"}
    BY DEF AfterLoop, IInv, ScriptTypes
  <2>2. CASE rpc[s] \in {"samples", "payment", "invoice"} /\ UNCHANGED failed
    BY <1>3, <2>1, <2>2 DEF AfterLoop, IInv, LoopInv, LoopOK
  <2>3. CASE failed' = [failed EXCEPT ![s] = TRUE]
    BY <2>1, <2>3 DEF LoopOK, IInv, ScriptTypes
  <2> QED BY <2>2, <2>3 DEF AfterLoop
<1>5. ASSUME NEW t \in Run, t # s
      PROVE  LoopOK(t)'
  <2>1. /\ rpc'[t] = rpc[t] /\ failed'[t] = failed[t]
        /\ found'[t] = found[t] /\ todo'[t] = todo[t]
    BY <1>5 DEF AfterLoop, IInv, ScriptTypes
  <2> QED BY <1>3, <2>1 DEF IInv, LoopInv, LoopOK
<1> QED BY <1>1, <1>2, <1>4, <1>5 DEF IInv, LoopInv

\* The catch of the loop marks the run as failed.
LEMMA LoopErrorStep ==
  ASSUME IInv, NEW s \in Run, LoopError(s)
  PROVE  IInv'
<1>1. /\ seeded \subseteq seeded'
      /\ seeded' \subseteq [ run : Run, payment : Payment, verifiedBy : Employee,
                             paymentStatus : {"verified", "submitted_to_swift"} ]
  <2>1. CASE UNCHANGED seeded
    BY <2>1 DEF IInv, ScriptTypes
  <2>2. CASE seeded' = seeded \cup {SeededInvoice(s, doc) : doc \in current[s]}
    BY <2>2, SeededStep DEF IInv
  <2> QED BY <2>1, <2>2 DEF LoopError
<1>2. ScriptTypes'
  BY <1>1 DEF LoopError, IInv, ScriptTypes
<1>3. AfterLoop(s)
  BY <1>1 DEF LoopError, AfterLoop, SampleAdded, vars, IInv, ScriptTypes
<1> QED BY <1>2, <1>3, AfterLoopStep DEF LoopError, IInv, HiredInv

\* The employees found for samples were hired.
LEMMA FindStaffStep ==
  ASSUME IInv, NEW s \in Run, FindStaff(s)
  PROVE  IInv'
<1> DEFINE employed == {e \in Employee : employees[e] = "employed"}
<1>1. /\ staff' = [staff EXCEPT ![s] = employed]
      /\ rpc' = [rpc EXCEPT ![s] = IF staff'[s] = {} \/ Samples = 0
                                   THEN "done" ELSE "payment"]
      /\ rpc[s] = "samples"
      /\ UNCHANGED <<vars, seeded, found, todo, current, created, failed>>
  BY DEF FindStaff
<1>2. employed \subseteq Employee /\ \A e \in employed : employees[e] # "unhired"
  OBVIOUS
<1> HIDE DEF employed
<1>3. ScriptTypes'
  BY <1>1, <1>2 DEF IInv, ScriptTypes
<1>4. AfterLoop(s)
  BY <1>1 DEF AfterLoop, SampleAdded, vars
<1>5. \A t \in Run : \A e \in staff'[t] : employees[e] # "unhired"
  BY <1>1, <1>2 DEF IInv, HiredInv, ScriptTypes
<1> QED BY <1>3, <1>4, <1>5, AfterLoopStep

\* A sample is created.
LEMMA SamplePaymentStep ==
  ASSUME IInv, NEW s \in Run, NEW p \in Payment, NEW e \in Employee,
         NEW digits \in RandomDigits, SamplePayment(s, p, e, digits)
  PROVE  IInv'
<1>1. {[payment |-> p, status |-> "verified", verifiedBy |-> e]} \subseteq Copies
  BY DEF Copies
<1>2. ScriptTypes'
  BY <1>1 DEF SamplePayment, IInv, ScriptTypes
<1>3. AfterLoop(s)
  BY DEF SamplePayment, AfterLoop, SampleAdded
<1> QED BY <1>2, <1>3, AfterLoopStep DEF SamplePayment, IInv, HiredInv

\* A sample is invoiced.
LEMMA SampleInvoiceStep ==
  ASSUME IInv, NEW s \in Run, SampleInvoice(s)
  PROVE  IInv'
<1>1. /\ seeded \subseteq seeded'
      /\ seeded' \subseteq [ run : Run, payment : Payment, verifiedBy : Employee,
                             paymentStatus : {"verified", "submitted_to_swift"} ]
  BY SeededStep DEF IInv, SampleInvoice
<1>2. {doc.payment : doc \in current[s]} \subseteq Payment
  BY DEF IInv, ScriptTypes, Copies
<1>3. /\ rpc' = [rpc EXCEPT ![s] = IF Cardinality(created'[s]) = Samples THEN "done" ELSE "payment"]
      /\ created' = [created EXCEPT ![s] = created[s] \cup {doc.payment : doc \in current[s]}]
      /\ current' = [current EXCEPT ![s] = {}]
      /\ rpc[s] = "invoice"
      /\ UNCHANGED <<vars, found, todo, staff, failed>>
  BY DEF SampleInvoice
<1>4. ScriptTypes'
  BY <1>1, <1>2, <1>3 DEF IInv, ScriptTypes
<1>5. AfterLoop(s)
  BY <1>1, <1>3 DEF AfterLoop, SampleAdded, vars
<1> QED BY <1>3, <1>4, <1>5, AfterLoopStep DEF IInv, HiredInv

\* The catch of the samples ends the run.
LEMMA SampleErrorStep ==
  ASSUME IInv, NEW s \in Run, SampleError(s)
  PROVE  IInv'
<1>1. /\ seeded \subseteq seeded'
      /\ seeded' \subseteq [ run : Run, payment : Payment, verifiedBy : Employee,
                             paymentStatus : {"verified", "submitted_to_swift"} ]
  <2>1. CASE UNCHANGED seeded
    BY <2>1 DEF IInv, ScriptTypes
  <2>2. CASE seeded' = seeded \cup {SeededInvoice(s, doc) : doc \in current[s]}
    BY <2>2, SeededStep DEF IInv
  <2> QED BY <2>1, <2>2 DEF SampleError
<1>2. ScriptTypes'
  BY <1>1 DEF SampleError, IInv, ScriptTypes
<1>3. SampleAdded(s)
  BY DEF SampleError, SampleAdded
<1>4. AfterLoop(s)
  BY <1>1, <1>3 DEF SampleError, AfterLoop
<1> QED BY <1>2, <1>4, AfterLoopStep DEF SampleError, IInv, HiredInv

\* So does the end of the process.
LEMMA InterruptStep ==
  ASSUME IInv, NEW s \in Run, Interrupt(s)
  PROVE  IInv'
<1>1. ScriptTypes'
  BY DEF Interrupt, IInv, ScriptTypes
<1>2. AfterLoop(s)
  BY DEF Interrupt, AfterLoop, SampleAdded, vars
<1> QED BY <1>1, <1>2, AfterLoopStep DEF Interrupt, IInv, HiredInv

-----------------------------------------------------------------------------
(* Theorems *)

\* No run has begun at first.
LEMMA SeedingStart == SeedingInit => IInv
<1> SUFFICES ASSUME SeedingInit PROVE IInv
  OBVIOUS
<1>1. TypeOK /\ HandlerInv
  BY TypeInit DEF SeedingInit
<1>2. ScriptTypes
  BY DEF SeedingInit, ScriptTypes
<1>3. HiredInv
  BY DEF SeedingInit, Init, HiredInv, NoTask, Absent
<1>4. LoopInv
  BY DEF SeedingInit, LoopInv, LoopOK
<1> QED BY <1>1, <1>2, <1>3, <1>4 DEF IInv

\* The lemmas of the actions together.
LEMMA SeedingStep == IInv /\ [SeedingNext]_seedVars => IInv'
<1> SUFFICES ASSUME IInv, [SeedingNext]_seedVars PROVE IInv'
  OBVIOUS
<1>1. CASE Next /\ UNCHANGED script /\ NoneApart
  BY <1>1, ServerStep
<1>2. CASE UNCHANGED seedVars
  BY <1>2, ServerStep DEF seedVars
<1> QED
  BY <1>1, <1>2, FindStep, CheckStep, SeedStep, LoopErrorStep, FindStaffStep,
     SamplePaymentStep, SampleInvoiceStep, SampleErrorStep, InterruptStep
  DEF SeedingNext, RunStep

\* The invariant holds whatever runs and requests overlap.
LEMMA SeedingInvariant == SeedingSpec => []IInv
BY SeedingStart, SeedingStep, PTL DEF SeedingSpec

\* A behaviour keeps the plan it begins with.
LEMMA PlanKept == SeedingSpec => [](plan \in Plans)
<1>1. SeedingInit => plan \in Plans
  BY DEF SeedingInit
<1>2. plan \in Plans /\ [SeedingNext]_seedVars => (plan \in Plans)'
  BY DEF SeedingNext, seedVars, script
<1> QED BY <1>1, <1>2, PTL DEF SeedingSpec

\* For any number of payments, requests and runs, whatever overlaps: what the
\* script and the routes write are documents of the schemas.
THEOREM SeedingTypeCorrect == SeedingSpec => []SeedingTypeOK
<1>1. IInv /\ plan \in Plans => SeedingTypeOK
  BY DEF IInv, ScriptTypes, SeedingTypeOK
<1> QED BY <1>1, SeedingInvariant, PlanKept, PTL

\* A run of the script that ends without an error has left no payment it found
\* without an invoice, except those whose employee's document was deleted.
THEOREM RunsRepair == SeedingSpec => []RunRepairs
<1>1. IInv => RunRepairs
  BY DEF IInv, LoopInv, LoopOK, Settled, RunRepairs
<1> QED BY <1>1, SeedingInvariant, PTL

-----------------------------------------------------------------------------
(* What the script's invoices come from *)

\* e's approval of p was saved, or p stands approved by e, and no request will
\* ever decide it: a sample.
Backed(p, e) ==
  \/ \E r \in Request : SavedDecision(r, p, TRUE) /\ task[r].by = e
  \/ /\ payments[p].verifiedBy = e
     /\ payments[p].status \in {"verified", "submitted_to_swift"}
     /\ \A r \in Request : task[r].kind = "verify" => p \notin task[r].ids

\* A handler holds payments that exist; one that submits holds decided ones.
TasksExist ==
  \A r \in Request : \A p \in task[r].ids :
    /\ payments[p].status # "absent"
    /\ task[r].kind = "submit" => payments[p].status # "pending"

\* An approved payment is backed by the employee it names.
ApprovedBacked ==
  \A p \in Payment : payments[p].status \in {"verified", "submitted_to_swift"} =>
    Backed(p, payments[p].verifiedBy)

\* So is what the script works on, and what it has written.
CopiesBacked ==
  /\ \A s \in Run : \A doc \in todo[s] \cup current[s] : Backed(doc.payment, doc.verifiedBy)
  /\ \A i \in seeded : Backed(i.payment, i.verifiedBy)

\* Requests that do not overlap, each at a payment that is as it read it.
Serial == OneAtATime => Apart /\ ReadsFresh /\ DecidedOnce

BackedInd ==
  /\ WrittenDecided /\ InvoiceFromApproval /\ TasksExist /\ Serial
  /\ OneAtATime => ApprovedBacked /\ CopiesBacked

-----------------------------------------------------------------------------
(* What runs that are started apart find *)

\* A run was started as the plan says; one that was started apart is alone.
Alone ==
  /\ \A s \in Run : Running(s) => s \in plan.apart \cup plan.beside
  /\ \A s \in plan.apart : Running(s) =>
       /\ \A r \in Request : ~InFlight(r)
       /\ \A t \in Run \ {s} : ~Running(t)

\* A decided payment names its employee.
DecidedNamed ==
  \A p \in Payment : payments[p].status \notin {"absent", "pending"} =>
    payments[p].verifiedBy # NoOne

\* Every approved payment is one the run found, has its invoice, or is the
\* sample the run is at.
Covered(s) ==
  \A p \in Payment : payments[p].status \in {"verified", "submitted_to_swift"} =>
    \/ Copy(p) \in found[s]
    \/ HasInvoice(p)
    \/ rpc[s] = "invoice" /\ \E doc \in current[s] : doc.payment = p

CoveredInd ==
  /\ Alone /\ DecidedNamed
  /\ \A s \in plan.apart : Running(s) /\ ~failed[s] => Covered(s)

-----------------------------------------------------------------------------
(* One invoice *)

\* Where no run is beside anything: what a run is about to invoice has no
\* invoice, and no handler is at a payment that the script has invoiced.
OnceInd ==
  /\ \A i \in seeded : payments[i.payment].status \notin {"absent", "pending"}
  /\ \A s \in Run : \A doc \in todo[s] \cup current[s] :
       payments[doc.payment].status \notin {"absent", "pending"}
  /\ plan.beside = {} =>
       /\ \A s \in Run : rpc[s] \in {"create", "invoice"} =>
            \E doc \in Copies : current[s] = {doc} /\ ~HasInvoice(doc.payment)
       /\ \A i \in seeded, r \in Request :
            pc[r] \in {"save", "invoice"} => i.payment \notin task[r].ids
       /\ \A i \in seeded :
            /\ \A j \in seeded : i.payment = j.payment => i = j
            /\ \A j \in invoices : i.payment # j.payment

FullInd == IInv /\ plan \in Plans /\ BackedInd /\ CoveredInd /\ OnceInd

-----------------------------------------------------------------------------
(* Steps of the server *)

\* An approval that backs an invoice goes on backing it.
LEMMA BackedServer ==
  ASSUME TypeOK, HandlerInv, [Next]_vars, NEW p \in Payment, NEW e, Backed(p, e)
  PROVE  Backed(p, e)'
<1>1. CASE \E r \in Request : SavedDecision(r, p, TRUE) /\ task[r].by = e
  <2>1. PICK r \in Request : SavedDecision(r, p, TRUE) /\ task[r].by = e
    BY <1>1
  <2>2. SavedDecision(r, p, TRUE)' /\ task'[r] = task[r]
    BY <2>1, SavedDecisionStable, Remembered DEF SavedDecision
  <2> QED BY <2>1, <2>2 DEF Backed
<1>2. CASE /\ payments[p].verifiedBy = e
           /\ payments[p].status \in {"verified", "submitted_to_swift"}
           /\ \A r \in Request : task[r].kind = "verify" => p \notin task[r].ids
  <2>1. /\ payments'[p].verifiedBy = e
        /\ payments'[p].status \in {"verified", "submitted_to_swift"}
    <3>1. CASE payments'[p] = payments[p]
      BY <1>2, <3>1
    <3>2. ASSUME NEW q \in Payment, NEW digits \in RandomDigits,
                 payments[q] = Absent, payments' = [payments EXCEPT ![q] = Pending(digits)]
          PROVE  payments'[p] = payments[p]
      BY <1>2, <3>2 DEF Absent, TypeOK
    <3>3. ASSUME NEW r \in Request, NEW q \in task[r].ids, pc[r] = "save", SaveDecision(r, q)
          PROVE  payments'[p] = payments[p]
      BY <1>2, <3>3, DecisionSaved
    <3>4. ASSUME NEW r \in Request, NEW q \in task[r].ids, pc[r] = "submit", SaveSubmission(r, q)
          PROVE  /\ payments'[p].verifiedBy = e
                 /\ payments'[p].status \in {"verified", "submitted_to_swift"}
      BY <1>2, <3>4, SubmissionSaved
    <3> QED BY <3>1, <3>2, <3>3, <3>4, StepShape DEF PaymentChange
  <2>2. ASSUME NEW r \in Request, task'[r].kind = "verify" PROVE p \notin task'[r].ids
    BY <1>2, <2>2, StepShape DEF HandlerChange, NoTask
  <2> QED BY <2>1, <2>2 DEF Backed
<1> QED BY <1>1, <1>2 DEF Backed

\* Every step of the server keeps the tasks about payments that exist.
LEMMA TasksExistStep ==
  ASSUME TypeOK, HandlerInv, TasksExist, [Next]_vars
  PROVE  TasksExist'
<1> SUFFICES ASSUME NEW r \in Request, NEW p \in task'[r].ids
             PROVE  /\ payments'[p].status # "absent"
                    /\ task'[r].kind = "submit" => payments'[p].status # "pending"
  BY DEF TasksExist
<1>1. CASE task'[r] = task[r]
  <2>1. /\ p \in Payment /\ payments[p].status # "absent"
        /\ task[r].kind = "submit" => payments[p].status # "pending"
    BY <1>1 DEF TasksExist, TypeOK, Task
  <2> QED BY <1>1, <2>1, StatusStep
<1>2. CASE task'[r] # task[r]
  <2>1. pc[r] = "idle" /\ task[r] = NoTask
    BY <1>2, StepShape DEF HandlerChange, HandlerInv, HandlerOK
  <2>2. UNCHANGED payments
    BY <1>2, <2>1, StepShape DEF HandlerChange
  <2> QED BY <1>2, <2>1, <2>2, StepShape DEF HandlerChange
<1> QED BY <1>1, <1>2

\* Every step of the server keeps approved payments backed: what is submitted
\* was verified when it was, because no other request was at it.
LEMMA ApprovedBackedStep ==
  ASSUME TypeOK, HandlerInv, WrittenDecided, ReadsFresh, ApprovedBacked, [Next]_vars
  PROVE  ApprovedBacked'
<1> SUFFICES ASSUME NEW p \in Payment,
                    payments'[p].status \in {"verified", "submitted_to_swift"}
             PROVE  Backed(p, payments[p].verifiedBy)'
  BY DEF ApprovedBacked
<1>1. ASSUME payments[p].status \in {"verified", "submitted_to_swift"},
             payments'[p].verifiedBy = payments[p].verifiedBy
      PROVE  Backed(p, payments[p].verifiedBy)'
  <2> PICK e : e = payments[p].verifiedBy
    OBVIOUS
  <2>1. Backed(p, e)
    BY <1>1 DEF ApprovedBacked
  <2>2. Backed(p, e)'
    BY <2>1, BackedServer
  <2> QED BY <1>1, <2>2 DEF Backed
<1>2. CASE payments'[p] = payments[p]
  BY <1>1, <1>2
<1>3. ASSUME NEW q \in Payment, NEW digits \in RandomDigits,
             payments[q] = Absent, payments' = [payments EXCEPT ![q] = Pending(digits)]
      PROVE  payments'[p] = payments[p]
  BY <1>3 DEF Pending, TypeOK
<1>4. ASSUME NEW r \in Request, NEW q \in task[r].ids, pc[r] = "save", SaveDecision(r, q)
      PROVE  Backed(p, payments[p].verifiedBy)'
  <2>1. CASE p = q
    <3>1. SavedDecision(r, p, TRUE)' /\ task'[r].by = payments'[p].verifiedBy
      BY <1>4, <2>1, DecisionSaved DEF SavedDecision
    <3> QED BY <3>1 DEF Backed
  <2>2. CASE p # q
    BY <1>2, <1>4, <2>2, DecisionSaved
  <2> QED BY <2>1, <2>2
<1>5. ASSUME NEW r \in Request, NEW q \in task[r].ids,
             pc[r] = "submit", q \notin wrote[r], SaveSubmission(r, q)
      PROVE  Backed(p, payments[p].verifiedBy)'
  <2>1. CASE p = q
    <3>1. payments[p].status = "verified"
      BY <1>5, <2>1 DEF ReadsFresh
    <3> QED BY <1>1, <1>5, <2>1, <3>1, SubmissionSaved
  <2>2. CASE p # q
    BY <1>2, <1>5, <2>2, SubmissionSaved
  <2> QED BY <2>1, <2>2
<1> QED BY <1>2, <1>3, <1>4, <1>5, StepShape DEF PaymentChange

\* The copies and the invoices of the script stay backed.
LEMMA CopiesKept ==
  ASSUME ScriptTypes, CopiesBacked, UNCHANGED script,
         \A p \in Payment, e \in Employee : Backed(p, e) => Backed(p, e)'
  PROVE  CopiesBacked'
<1>1. \A s \in Run : \A doc \in todo[s] \cup current[s] :
        doc.payment \in Payment /\ doc.verifiedBy \in Employee
  BY DEF ScriptTypes, Copies
<1>2. \A i \in seeded : i.payment \in Payment /\ i.verifiedBy \in Employee
  BY DEF ScriptTypes
<1> QED BY <1>1, <1>2 DEF CopiesBacked, script

\* The parts about the server and the copies, over a step of the server.
LEMMA BackedIndServer ==
  ASSUME IInv, BackedInd, [Next]_vars, UNCHANGED script
  PROVE  BackedInd'
<1>1. WrittenDecided' /\ InvoiceFromApproval' /\ TasksExist'
  BY WrittenStep, InvoiceStep, TasksExistStep DEF IInv, BackedInd
<1>2. Serial'
  BY ApartStep, ReadsFreshStep, DecidedOnceStep DEF IInv, BackedInd, Serial
<1>3. OneAtATime => ApprovedBacked'
  BY ApprovedBackedStep DEF IInv, BackedInd, Serial
<1>4. OneAtATime => CopiesBacked'
  BY CopiesKept, BackedServer DEF IInv, BackedInd
<1> QED BY <1>1, <1>2, <1>3, <1>4 DEF BackedInd

-----------------------------------------------------------------------------
(* Steps of a run *)

\* What every step of a run does to the server's state: nothing, or a sample in
\* a new document.
SampledOnly ==
  /\ UNCHANGED <<invoices, employees, pc, task, wrote, code>>
  /\ \/ UNCHANGED payments
     \/ \E p \in Payment, e \in Employee, digits \in RandomDigits :
          payments[p] = Absent /\ payments' = [payments EXCEPT ![p] = Sample(e, digits)]

\* Which copies a step of run s makes, and which invoices.
DocsFrom(s) ==
  /\ \A t \in Run : \A doc \in todo'[t] \cup current'[t] :
       \/ doc \in todo[t] \cup current[t]
       \/ /\ doc.payment \in Payment
          /\ doc.verifiedBy = payments'[doc.payment].verifiedBy
          /\ payments'[doc.payment].status \in {"verified", "submitted_to_swift"}
  /\ \/ seeded' = seeded
     \/ /\ rpc[s] \in {"create", "invoice"}
        /\ seeded' = seeded \cup {SeededInvoice(s, doc) : doc \in current[s]}

\* A run moves itself, having been started as its plan says.
MovesItself(s) ==
  /\ Running(s) \/ (rpc[s] = "idle" /\ MayStart(s))
  /\ \A t \in Run \ {s} : rpc'[t] = rpc[t] /\ failed'[t] = failed[t]

RunShape(s) == SampledOnly /\ DocsFrom(s) /\ MovesItself(s) /\ UNCHANGED plan

\* The steps of run s.
StepOf(s) ==
  \/ FindApproved(s)
  \/ \E doc \in todo[s] : CheckInvoice(s, doc)
  \/ SeedInvoice(s)
  \/ LoopError(s)
  \/ FindStaff(s)
  \/ \E p \in Payment, e \in Employee, digits \in RandomDigits : SamplePayment(s, p, e, digits)
  \/ SampleInvoice(s)
  \/ SampleError(s)
  \/ Interrupt(s)

\* Every step of a run has that shape.
LEMMA StepOfShape ==
  ASSUME IInv, NEW s \in Run, StepOf(s), UNCHANGED plan
  PROVE  RunShape(s)
<1> USE DEF RunShape, SampledOnly, DocsFrom, MovesItself, Running
<1>0. /\ rpc \in [Run -> {"idle", "check", "create", "samples", "payment", "invoice", "done"}]
      /\ failed \in [Run -> BOOLEAN]
      /\ \A t \in Run : todo[t] \subseteq Copies /\ current[t] \subseteq Copies
      /\ \A t \in Run : staff[t] \subseteq Employee
      /\ todo \in [Run -> SUBSET Copies] /\ current \in [Run -> SUBSET Copies]
  BY DEF IInv, ScriptTypes
<1>1. CASE FindApproved(s)
  <2>1. ASSUME NEW p \in ApprovedPayments
        PROVE  /\ Copy(p).payment = p /\ p \in Payment
               /\ Copy(p).verifiedBy = payments[p].verifiedBy
               /\ payments[p].status \in {"verified", "submitted_to_swift"}
    BY DEF Copy, ApprovedPayments
  <2>2. /\ UNCHANGED <<vars, seeded, current, failed>> /\ rpc[s] = "idle" /\ MayStart(s)
        /\ todo' = [todo EXCEPT ![s] = {Copy(p) : p \in ApprovedPayments}]
        /\ \A t \in Run \ {s} : rpc'[t] = rpc[t]
    BY <1>0, <1>1 DEF FindApproved, LoopOn
  <2> QED BY <1>0, <2>1, <2>2 DEF vars
<1>2. ASSUME NEW doc \in todo[s], CheckInvoice(s, doc)
      PROVE  RunShape(s)
  <2>1. /\ UNCHANGED <<vars, seeded, failed>> /\ rpc[s] = "check"
        /\ \A t \in Run \ {s} : rpc'[t] = rpc[t]
    BY <1>0, <1>2 DEF CheckInvoice, LoopOn
  <2>2. \A t \in Run : todo'[t] \subseteq todo[t] /\ current'[t] \subseteq current[t] \cup todo[t]
    BY <1>0, <1>2 DEF CheckInvoice, LoopOn
  <2> QED BY <2>1, <2>2 DEF vars
<1>3. CASE SeedInvoice(s)
  <2>1. /\ UNCHANGED <<vars, failed>> /\ rpc[s] = "create"
        /\ \A t \in Run \ {s} : rpc'[t] = rpc[t]
        /\ seeded' = seeded \cup {SeededInvoice(s, doc) : doc \in current[s]}
    BY <1>0, <1>3 DEF SeedInvoice, LoopOn
  <2>2. \A t \in Run : todo'[t] \subseteq todo[t] /\ current'[t] \subseteq current[t]
    BY <1>0, <1>3 DEF SeedInvoice, LoopOn
  <2> QED BY <2>1, <2>2 DEF vars
<1>4. CASE LoopError(s)
  <2>1. /\ UNCHANGED vars
        /\ Running(s) \/ (rpc[s] = "idle" /\ MayStart(s))
        /\ \A t \in Run \ {s} : rpc'[t] = rpc[t] /\ failed'[t] = failed[t]
        /\ \/ seeded' = seeded
           \/ /\ rpc[s] = "create"
              /\ seeded' = seeded \cup {SeededInvoice(s, doc) : doc \in current[s]}
    BY <1>0, <1>4 DEF LoopError
  <2>2. \A t \in Run : todo'[t] \subseteq todo[t] /\ current'[t] \subseteq current[t]
    BY <1>0, <1>4 DEF LoopError
  <2> QED BY <2>1, <2>2 DEF vars
<1>5. CASE FindStaff(s)
  BY <1>0, <1>5 DEF FindStaff, vars
<1>6. ASSUME NEW p \in Payment, NEW e \in Employee, NEW digits \in RandomDigits,
             SamplePayment(s, p, e, digits)
      PROVE  RunShape(s)
  <2>1. /\ UNCHANGED <<invoices, employees, pc, task, wrote, code, seeded, todo, failed>>
        /\ rpc[s] = "payment" /\ \A t \in Run \ {s} : rpc'[t] = rpc[t]
        /\ payments[p] = Absent /\ payments' = [payments EXCEPT ![p] = Sample(e, digits)]
    BY <1>0, <1>6 DEF SamplePayment
  <2>2. payments'[p].verifiedBy = e /\ payments'[p].status = "verified"
    BY <2>1 DEF IInv, TypeOK, Sample
  <2>3. \A t \in Run : \A doc \in current'[t] :
          doc \in current[t] \/ (doc.payment = p /\ doc.verifiedBy = e)
    BY <1>0, <1>6 DEF SamplePayment
  <2> QED BY <2>1, <2>2, <2>3
<1>7. CASE SampleInvoice(s)
  <2>1. /\ UNCHANGED <<vars, failed, todo>> /\ rpc[s] = "invoice"
        /\ \A t \in Run \ {s} : rpc'[t] = rpc[t]
        /\ seeded' = seeded \cup {SeededInvoice(s, doc) : doc \in current[s]}
    BY <1>0, <1>7 DEF SampleInvoice
  <2>2. \A t \in Run : current'[t] \subseteq current[t]
    BY <1>0, <1>7 DEF SampleInvoice
  <2> QED BY <2>1, <2>2 DEF vars
<1>8. CASE SampleError(s)
  <2>1. /\ UNCHANGED <<invoices, employees, pc, task, wrote, code, todo>>
        /\ Running(s)
        /\ \A t \in Run \ {s} : rpc'[t] = rpc[t] /\ failed'[t] = failed[t]
        /\ \/ seeded' = seeded
           \/ /\ rpc[s] = "invoice"
              /\ seeded' = seeded \cup {SeededInvoice(s, doc) : doc \in current[s]}
    BY <1>0, <1>8 DEF SampleError
  <2>2. \A t \in Run : current'[t] \subseteq current[t]
    BY <1>0, <1>8 DEF SampleError
  <2>3. SampledOnly
    BY <1>0, <1>8 DEF SampleError
  <2> QED BY <2>1, <2>2, <2>3
<1>9. CASE Interrupt(s)
  BY <1>0, <1>9 DEF Interrupt, vars
<1> QED BY <1>1, <1>2, <1>3, <1>4, <1>5, <1>6, <1>7, <1>8, <1>9 DEF StepOf

\* A sample is a new document: every payment that existed is as it was.
LEMMA RunPayments ==
  ASSUME TypeOK, SampledOnly, NEW p \in Payment
  PROVE  \/ payments'[p] = payments[p]
         \/ /\ payments[p].status = "absent"
            /\ payments'[p].status = "verified" /\ payments'[p].verifiedBy \in Employee
<1>1. ASSUME NEW q \in Payment, NEW e \in Employee, NEW digits \in RandomDigits,
             payments[q] = Absent, payments' = [payments EXCEPT ![q] = Sample(e, digits)]
      PROVE  \/ payments'[p] = payments[p]
             \/ /\ payments[p].status = "absent"
                /\ payments'[p].status = "verified" /\ payments'[p].verifiedBy \in Employee
  <2>1. CASE p = q
    <3>1. payments'[p] = Sample(e, digits) /\ payments[p].status = "absent"
      BY <1>1, <2>1 DEF TypeOK, Absent
    <3> QED BY <3>1 DEF Sample
  <2>2. CASE p # q
    BY <1>1, <2>2 DEF TypeOK
  <2> QED BY <2>1, <2>2
<1> QED BY <1>1 DEF SampledOnly

\* What backs an invoice of the script is not touched by runs.
LEMMA BackedRun ==
  ASSUME TypeOK, SampledOnly, NEW p \in Payment, NEW e, Backed(p, e)
  PROVE  Backed(p, e)'
<1>1. CASE \E r \in Request : SavedDecision(r, p, TRUE) /\ task[r].by = e
  BY <1>1 DEF Backed, SavedDecision, SampledOnly
<1>2. CASE /\ payments[p].verifiedBy = e
           /\ payments[p].status \in {"verified", "submitted_to_swift"}
           /\ \A r \in Request : task[r].kind = "verify" => p \notin task[r].ids
  <2>1. payments'[p] = payments[p]
    BY <1>2, RunPayments
  <2> QED BY <1>2, <2>1 DEF Backed, SampledOnly
<1> QED BY <1>1, <1>2 DEF Backed

\* No task is about a payment that a run adds.
LEMMA ServerPartsRun ==
  ASSUME TypeOK, HandlerInv, WrittenDecided, InvoiceFromApproval, TasksExist, Serial,
         SampledOnly
  PROVE  WrittenDecided' /\ InvoiceFromApproval' /\ TasksExist' /\ Serial'
<1>1. \A p \in Payment : payments[p].status # "absent" => payments'[p] = payments[p]
  BY RunPayments
<1>2. UNCHANGED <<invoices, pc, task, wrote>>
  BY DEF SampledOnly
<1>3. /\ \A r \in Request : task[r].ids \subseteq Payment /\ wrote[r] \subseteq Payment
      /\ \A i \in invoices : i.payment \in Payment
  BY DEF TypeOK, Task, Invoice
<1>4. WrittenDecided'
  BY <1>1, <1>2, <1>3 DEF WrittenDecided
<1>5. InvoiceFromApproval'
  BY <1>1, <1>2, <1>3 DEF InvoiceFromApproval, SavedDecision
<1>6. TasksExist'
  BY <1>1, <1>2, <1>3 DEF TasksExist
<1>7. Serial'
  <2>1. Apart => Apart'
    BY <1>2 DEF Apart, InFlight
  <2>2. ReadsFresh => ReadsFresh'
    BY <1>1, <1>2, <1>3 DEF ReadsFresh
  <2>3. DecidedOnce => DecidedOnce'
    BY <1>2 DEF DecidedOnce
  <2> QED BY <2>1, <2>2, <2>3 DEF Serial
<1> QED BY <1>4, <1>5, <1>6, <1>7

\* A sample is backed: it is new, and no request can be deciding it.
LEMMA ApprovedBackedRun ==
  ASSUME TypeOK, HandlerInv, TasksExist, ApprovedBacked, SampledOnly
  PROVE  ApprovedBacked'
<1> SUFFICES ASSUME NEW p \in Payment,
                    payments'[p].status \in {"verified", "submitted_to_swift"}
             PROVE  Backed(p, payments[p].verifiedBy)'
  BY DEF ApprovedBacked
<1>1. CASE payments'[p] = payments[p]
  <2> PICK e : e = payments[p].verifiedBy
    OBVIOUS
  <2>1. Backed(p, e)
    BY <1>1 DEF ApprovedBacked
  <2>2. Backed(p, e)'
    BY <2>1, BackedRun
  <2> QED BY <1>1, <2>2 DEF Backed
<1>2. CASE payments[p].status = "absent"
  BY <1>2 DEF TasksExist, Backed, SampledOnly
<1> QED BY <1>1, <1>2, RunPayments

\* A run invoices what its copies name, and its copies are backed.
LEMMA BackedIndRun ==
  ASSUME IInv, BackedInd, NEW s \in Run, RunShape(s)
  PROVE  BackedInd'
<1>0. SampledOnly /\ TypeOK /\ HandlerInv /\ ScriptTypes
  BY DEF RunShape, IInv
<1>1. WrittenDecided' /\ InvoiceFromApproval' /\ TasksExist' /\ Serial'
  BY <1>0, ServerPartsRun DEF BackedInd
<1>2. OneAtATime => ApprovedBacked'
  BY <1>0, ApprovedBackedRun DEF BackedInd
<1>3. ASSUME OneAtATime PROVE CopiesBacked'
  <2>0. \A p \in Payment, e \in Employee : Backed(p, e) => Backed(p, e)'
    BY <1>0, BackedRun
  <2>1. ASSUME NEW t \in Run, NEW doc \in todo'[t] \cup current'[t]
        PROVE  Backed(doc.payment, doc.verifiedBy)'
    <3>1. CASE doc \in todo[t] \cup current[t]
      <4>1. doc.payment \in Payment /\ doc.verifiedBy \in Employee
        BY <1>0, <3>1 DEF ScriptTypes, Copies
      <4>2. Backed(doc.payment, doc.verifiedBy)
        BY <1>3, <3>1 DEF BackedInd, CopiesBacked
      <4>3. PICK p \in Payment, e \in Employee : p = doc.payment /\ e = doc.verifiedBy
        BY <4>1
      <4>4. Backed(p, e)'
        BY <2>0, <4>2, <4>3
      <4> QED BY <4>3, <4>4 DEF Backed
    <3>2. CASE /\ doc.payment \in Payment
               /\ doc.verifiedBy = payments'[doc.payment].verifiedBy
               /\ payments'[doc.payment].status \in {"verified", "submitted_to_swift"}
      BY <1>2, <1>3, <3>2 DEF ApprovedBacked, Backed
    <3> QED BY <3>1, <3>2 DEF RunShape, DocsFrom
  <2>2. ASSUME NEW i \in seeded'
        PROVE  Backed(i.payment, i.verifiedBy)'
    <3>1. \E p \in Payment, e \in Employee :
            p = i.payment /\ e = i.verifiedBy /\ Backed(p, e)
      <4>1. CASE i \in seeded
        BY <1>0, <1>3, <4>1 DEF ScriptTypes, BackedInd, CopiesBacked
      <4>2. ASSUME NEW doc \in current[s], i = SeededInvoice(s, doc)
            PROVE  \E p \in Payment, e \in Employee :
                     p = i.payment /\ e = i.verifiedBy /\ Backed(p, e)
        <5>1. i.payment = doc.payment /\ i.verifiedBy = doc.verifiedBy
          BY <4>2 DEF SeededInvoice
        <5>2. doc.payment \in Payment /\ doc.verifiedBy \in Employee
          BY <1>0 DEF ScriptTypes, Copies
        <5>3. Backed(doc.payment, doc.verifiedBy)
          BY <1>3 DEF BackedInd, CopiesBacked
        <5> QED BY <5>1, <5>2, <5>3
      <4> QED BY <4>1, <4>2 DEF RunShape, DocsFrom
    <3>2. PICK p \in Payment, e \in Employee :
            p = i.payment /\ e = i.verifiedBy /\ Backed(p, e)
      BY <3>1
    <3>3. Backed(p, e)'
      BY <2>0, <3>2
    <3> QED BY <3>2, <3>3 DEF Backed
  <2> QED BY <2>1, <2>2 DEF CopiesBacked
<1> QED BY <1>1, <1>2, <1>3 DEF BackedInd

-----------------------------------------------------------------------------
(* One invoice: the steps *)

\* Decided payments stay decided, so what the script holds and has invoiced is.
DecidedKept ==
  \A p \in Payment : payments[p].status \notin {"absent", "pending"} =>
    payments'[p].status \notin {"absent", "pending"}

\* With no run beside the server none is under way while a handler moves, so
\* the handler's invoice is not that of a payment the script has invoiced.
LEMMA OnceServer ==
  ASSUME IInv, Alone, OnceInd, NoneApart, [Next]_vars, UNCHANGED script
  PROVE  OnceInd'
<1>0. /\ TypeOK /\ HandlerInv /\ ScriptTypes /\ HandlerInv' /\ DecidedKept
      /\ UNCHANGED <<plan, seeded, rpc, todo, current>>
  BY HandlerStep, StatusStep DEF IInv, DecidedKept, script
<1>1. \A i \in seeded' : payments'[i.payment].status \notin {"absent", "pending"}
  BY <1>0 DEF OnceInd, ScriptTypes, DecidedKept
<1>2. \A t \in Run : \A doc \in todo'[t] \cup current'[t] :
        payments'[doc.payment].status \notin {"absent", "pending"}
  <2> SUFFICES ASSUME NEW t \in Run, NEW doc \in todo[t] \cup current[t]
               PROVE  payments'[doc.payment].status \notin {"absent", "pending"}
    BY <1>0
  <2>1. doc.payment \in Payment
    BY <1>0 DEF ScriptTypes, Copies
  <2> QED BY <1>0, <2>1 DEF OnceInd, DecidedKept
<1>3. ASSUME plan'.beside = {}
      PROVE  \A t \in Run : rpc'[t] \notin {"create", "invoice"}
  <2>1. \A t \in Run : ~Running(t)
    BY <1>0, <1>3 DEF Alone, NoneApart
  <2> QED BY <1>0, <2>1 DEF Running
<1>4. ASSUME plan'.beside = {}, NEW i \in seeded', NEW r \in Request,
             pc'[r] \in {"save", "invoice"}, i.payment \in task'[r].ids
      PROVE  FALSE
  <2>0. /\ i \in seeded /\ plan.beside = {} /\ i.payment \in Payment
        /\ payments[i.payment].status \notin {"absent", "pending"}
    BY <1>0, <1>4 DEF OnceInd, ScriptTypes
  <2>1. CASE pc[r] = "idle"
    <3>1. task'[r] # NoTask
      BY <1>4 DEF NoTask
    <3>2. \E p \in Payment : task'[r].ids = {p} /\ payments[p].status = "pending"
      BY <1>0, <1>4, <2>1, <3>1, StepShape DEF HandlerChange
    <3> QED BY <1>4, <2>0, <3>2
  <2>2. CASE pc[r] # "idle"
    <3>0. task'[r].kind = "verify"
      BY <1>0, <1>4 DEF HandlerInv, HandlerOK
    <3>1. task'[r] = task[r] /\ task[r].kind = "verify" /\ pc[r] # "done"
      BY <1>0, <1>4, <2>2, <3>0, StepShape DEF HandlerChange
    <3>2. pc[r] \in {"save", "invoice"}
      BY <1>0, <2>2, <3>1 DEF HandlerInv, HandlerOK, TypeOK
    <3> QED BY <1>4, <2>0, <3>1, <3>2 DEF OnceInd
  <2> QED BY <2>1, <2>2
<1>5. ASSUME plan'.beside = {}, NEW i \in seeded', NEW j \in invoices'
      PROVE  i.payment # j.payment
  <2>1. i \in seeded /\ plan.beside = {}
    BY <1>0, <1>5
  <2>2. CASE j \in invoices
    BY <2>1, <2>2 DEF OnceInd
  <2>3. ASSUME NEW r \in Request, CreateInvoice(r), j \notin invoices
        PROVE  pc[r] = "invoice" /\ j.payment \in task[r].ids
    BY <2>3 DEF CreateInvoice
  <2> QED BY <1>0, <2>1, <2>2, <2>3, StepShape DEF InvoiceChange, OnceInd
<1> QED BY <1>0, <1>1, <1>2, <1>3, <1>4, <1>5 DEF OnceInd

\* A run that is apart moves while nothing else does.
LEMMA RunsAlone ==
  ASSUME plan \in Plans, Alone, NEW s \in Run, MovesItself(s), s \in plan.apart
  PROVE  /\ \A r \in Request : ~InFlight(r)
         /\ \A t \in Run \ {s} : ~Running(t)
<1>1. CASE Running(s)
  BY <1>1 DEF Alone
<1>2. CASE MayStart(s)
  <2>1. s \notin plan.beside
    BY SeedingAssumption
  <2> QED BY <1>2, <2>1 DEF MayStart
<1> QED BY <1>1, <1>2 DEF MovesItself

\* What run s holds when it is about to write an invoice has none.
Holding(s) ==
  rpc[s] \in {"create", "invoice"} =>
    \E doc \in Copies : current[s] = {doc} /\ ~HasInvoice(doc.payment)

\* A run takes up a payment only where it found no invoice, or where it created
\* the payment itself.
LEMMA HoldingStep ==
  ASSUME IInv, InvoiceFromApproval, OnceInd, NEW s \in Run, StepOf(s)
  PROVE  Holding(s)'
<1>0. /\ rpc \in [Run -> {"idle", "check", "create", "samples", "payment", "invoice", "done"}]
      /\ current \in [Run -> SUBSET Copies] /\ todo \in [Run -> SUBSET Copies]
  BY DEF IInv, ScriptTypes
<1>1. ASSUME NEW doc \in todo[s], CheckInvoice(s, doc)
      PROVE  Holding(s)'
  <2>1. CASE Skip(doc)
    <3>1. rpc'[s] \in {"check", "done", "samples"}
      BY <1>0, <1>1, <2>1 DEF CheckInvoice, LoopOn
    <3> QED BY <3>1 DEF Holding
  <2>2. CASE ~Skip(doc)
    <3>1. doc \in Copies /\ current'[s] = {doc}
      BY <1>0, <1>1, <2>2 DEF CheckInvoice
    <3>2. ~HasInvoice(doc.payment)'
      BY <1>1, <2>2 DEF CheckInvoice, Skip, HasInvoice, vars
    <3> QED BY <3>1, <3>2 DEF Holding
  <2> QED BY <2>1, <2>2
<1>2. ASSUME NEW p \in Payment, NEW e \in Employee, NEW digits \in RandomDigits,
             SamplePayment(s, p, e, digits)
      PROVE  Holding(s)'
  <2> PICK doc : doc = [payment |-> p, status |-> "verified", verifiedBy |-> e]
    OBVIOUS
  <2>1. doc \in Copies /\ doc.payment = p
    BY DEF Copies
  <2>2. current'[s] = {doc}
    BY <1>0, <1>2 DEF SamplePayment
  <2>3. payments[p].status = "absent" /\ invoices' = invoices /\ seeded' = seeded
    BY <1>2 DEF SamplePayment, Absent
  <2>4. ~HasInvoice(p)'
    BY <2>3 DEF HasInvoice, InvoiceFromApproval, OnceInd
  <2> QED BY <2>1, <2>2, <2>4 DEF Holding
<1>3. ASSUME rpc'[s] \notin {"create", "invoice"} PROVE Holding(s)'
  BY <1>3 DEF Holding
<1>4. CASE FindApproved(s) \/ SeedInvoice(s) \/ LoopError(s)
  BY <1>0, <1>3, <1>4 DEF FindApproved, SeedInvoice, LoopError, LoopOn
<1>5. CASE FindStaff(s) \/ SampleInvoice(s) \/ SampleError(s) \/ Interrupt(s)
  BY <1>0, <1>3, <1>5 DEF FindStaff, SampleInvoice, SampleError, Interrupt
<1> QED BY <1>1, <1>2, <1>4, <1>5 DEF StepOf

\* With no run beside anything, the run that moves is alone: it issues an invoice
\* only where there is none, and no handler is about to issue another.
LEMMA OnceRun ==
  ASSUME IInv, plan \in Plans, InvoiceFromApproval, Alone, OnceInd,
         NEW s \in Run, StepOf(s), RunShape(s)
  PROVE  OnceInd'
<1>0. /\ TypeOK /\ HandlerInv /\ ScriptTypes /\ SampledOnly /\ DocsFrom(s) /\ MovesItself(s)
      /\ UNCHANGED <<plan, invoices, pc, task>>
  BY DEF IInv, RunShape, SampledOnly
<1>1. DecidedKept
  BY <1>0, RunPayments DEF DecidedKept
<1>2. \A t \in Run : \A doc \in todo'[t] \cup current'[t] :
        payments'[doc.payment].status \notin {"absent", "pending"}
  <2> SUFFICES ASSUME NEW t \in Run, NEW doc \in todo'[t] \cup current'[t]
               PROVE  payments'[doc.payment].status \notin {"absent", "pending"}
    OBVIOUS
  <2>1. CASE doc \in todo[t] \cup current[t]
    <3>1. doc.payment \in Payment
      BY <1>0, <2>1 DEF ScriptTypes, Copies
    <3> QED BY <1>1, <2>1, <3>1 DEF OnceInd, DecidedKept
  <2>2. CASE payments'[doc.payment].status \in {"verified", "submitted_to_swift"}
    BY <2>2
  <2> QED BY <1>0, <2>1, <2>2 DEF DocsFrom
<1>3. ASSUME NEW i \in seeded', i \notin seeded
      PROVE  \E doc \in current[s] : /\ rpc[s] \in {"create", "invoice"}
                                     /\ i = SeededInvoice(s, doc)
                                     /\ i.payment = doc.payment /\ doc.payment \in Payment
  <2>1. PICK doc \in current[s] : i = SeededInvoice(s, doc)
    BY <1>0, <1>3 DEF DocsFrom
  <2>2. i.payment = doc.payment /\ doc.payment \in Payment
    BY <1>0, <2>1 DEF SeededInvoice, ScriptTypes, Copies
  <2> QED BY <1>0, <1>3, <2>1, <2>2 DEF DocsFrom
<1>4. ASSUME NEW i \in seeded'
      PROVE  payments'[i.payment].status \notin {"absent", "pending"}
  <2>1. CASE i \in seeded
    BY <1>0, <1>1, <2>1 DEF OnceInd, ScriptTypes, DecidedKept
  <2>2. CASE i \notin seeded
    BY <1>1, <1>3, <2>2 DEF OnceInd, DecidedKept
  <2> QED BY <2>1, <2>2
<1>5. ASSUME plan'.beside = {}
      PROVE  /\ plan.beside = {} /\ \A r \in Request : ~InFlight(r)
             /\ \A t \in Run \ {s} : ~Running(t)
  <2>1. s \in plan.apart
    BY <1>0, <1>5 DEF MovesItself, Alone, MayStart
  <2> QED BY <1>0, <1>5, <2>1, RunsAlone
<1>6. ASSUME plan'.beside = {}, NEW t \in Run
      PROVE  Holding(t)'
  <2>1. CASE t = s
    BY <2>1, HoldingStep
  <2>2. CASE t # s
    BY <1>0, <1>5, <1>6, <2>2 DEF MovesItself, Running, Holding
  <2> QED BY <2>1, <2>2
<1>7. ASSUME plan'.beside = {}, NEW r \in Request
      PROVE  pc'[r] \notin {"save", "invoice"}
  BY <1>0, <1>5, <1>7 DEF InFlight
<1>8. ASSUME plan'.beside = {}, NEW i \in seeded', i \notin seeded
      PROVE  /\ \A j \in seeded' : i.payment = j.payment => i = j
             /\ \A j \in invoices : i.payment # j.payment
  <2>1. PICK doc \in current[s] : /\ rpc[s] \in {"create", "invoice"}
                                  /\ i = SeededInvoice(s, doc) /\ i.payment = doc.payment
    BY <1>3, <1>8
  <2>2. current[s] = {doc} /\ ~HasInvoice(doc.payment)
    BY <1>5, <1>8, <2>1 DEF OnceInd
  <2>3. seeded' = seeded \cup {i}
    BY <1>0, <1>8, <2>1, <2>2 DEF DocsFrom
  <2> QED BY <2>1, <2>2, <2>3 DEF HasInvoice
<1>9. ASSUME plan'.beside = {}, NEW i \in seeded'
      PROVE  /\ \A j \in seeded' : i.payment = j.payment => i = j
             /\ \A j \in invoices' : i.payment # j.payment
  <2>1. CASE i \in seeded
    BY <1>0, <1>5, <1>8, <1>9, <2>1 DEF OnceInd
  <2>2. CASE i \notin seeded
    BY <1>0, <1>8, <1>9, <2>2
  <2> QED BY <2>1, <2>2
<1> QED BY <1>2, <1>4, <1>6, <1>7, <1>9 DEF OnceInd, Holding

-----------------------------------------------------------------------------
(* Everything is invoiced: the steps *)

\* A handler's step starts no run, and a decision names its employee.
LEMMA CoveredServer ==
  ASSUME IInv, TasksExist, CoveredInd, NoneApart, [Next]_vars, UNCHANGED script
  PROVE  CoveredInd'
<1>0. TypeOK /\ HandlerInv /\ UNCHANGED <<plan, rpc, failed>>
  BY DEF IInv, script
<1>1. \A s \in plan'.apart : ~Running(s)'
  BY <1>0 DEF NoneApart, Running
<1>2. \A s \in Run : Running(s)' => s \in plan'.apart \cup plan'.beside
  BY <1>0 DEF CoveredInd, Alone, Running
<1>3. DecidedNamed'
  <2> SUFFICES ASSUME NEW p \in Payment, payments'[p].status \notin {"absent", "pending"}
               PROVE  payments'[p].verifiedBy # NoOne
    BY DEF DecidedNamed
  <2>0. NoOne \notin Employee
    BY WorkflowAssumption
  <2>1. CASE payments'[p] = payments[p]
    BY <2>1 DEF CoveredInd, DecidedNamed
  <2>2. ASSUME NEW q \in Payment, NEW digits \in RandomDigits,
               payments[q] = Absent, payments' = [payments EXCEPT ![q] = Pending(digits)]
        PROVE  payments'[p] = payments[p]
    BY <1>0, <2>2 DEF Pending, TypeOK
  <2>3. ASSUME NEW r \in Request, NEW q \in task[r].ids, pc[r] = "save", SaveDecision(r, q)
        PROVE  payments'[p].verifiedBy # NoOne
    <3>1. CASE p = q
      BY <1>0, <2>0, <2>3, <3>1, DecisionSaved
    <3>2. CASE p # q
      BY <1>0, <2>1, <2>3, <3>2, DecisionSaved
    <3> QED BY <3>1, <3>2
  <2>4. ASSUME NEW r \in Request, NEW q \in task[r].ids, pc[r] = "submit", SaveSubmission(r, q)
        PROVE  payments'[p].verifiedBy # NoOne
    <3>1. CASE p = q
      <4>1. payments[p].status \notin {"absent", "pending"}
        BY <1>0, <2>4, <3>1, SubmissionSaved DEF TasksExist
      <4> QED BY <1>0, <2>4, <3>1, <4>1, SubmissionSaved DEF CoveredInd, DecidedNamed
    <3>2. CASE p # q
      BY <1>0, <2>1, <2>4, <3>2, SubmissionSaved
    <3> QED BY <3>1, <3>2
  <2> QED BY <1>0, <2>1, <2>2, <2>3, <2>4, StepShape DEF PaymentChange
<1> QED BY <1>1, <1>2, <1>3 DEF CoveredInd, Alone

\* What a run apart has to make good was there when it asked for it, or is the
\* sample it made itself.
LEMMA CoveredRun ==
  ASSUME IInv, DecidedNamed, NEW s \in Run, Running(s) /\ ~failed[s] => Covered(s),
         StepOf(s), ~failed'[s]
  PROVE  Covered(s)'
<1>0. /\ TypeOK /\ ScriptTypes
      /\ rpc \in [Run -> {"idle", "check", "create", "samples", "payment", "invoice", "done"}]
      /\ failed \in [Run -> BOOLEAN]
  BY DEF IInv, ScriptTypes
<1>1. ASSUME Running(s), failed'[s] = failed[s], found' = found, payments' = payments,
             invoices' = invoices, seeded \subseteq seeded',
             rpc[s] = "invoice" => \A doc \in current[s] : HasInvoice(doc.payment)'
      PROVE  Covered(s)'
  <2>1. Covered(s)
    BY <1>1
  <2>2. \A p \in Payment : HasInvoice(p) => HasInvoice(p)'
    BY <1>1 DEF HasInvoice
  <2>3. \A p \in Payment : Copy(p)' = Copy(p)
    BY <1>1 DEF Copy
  <2> QED BY <1>1, <2>1, <2>2, <2>3 DEF Covered
<1>2. CASE FindApproved(s)
  <2>1. found'[s] = {Copy(p) : p \in ApprovedPayments} /\ payments' = payments
    BY <1>0, <1>2 DEF FindApproved, ScriptTypes, vars
  <2>2. \A p \in Payment : payments[p].status \in {"verified", "submitted_to_swift"} =>
          p \in ApprovedPayments
    BY DEF ApprovedPayments, DecidedNamed
  <2>3. \A p \in Payment : Copy(p)' = Copy(p)
    BY <2>1 DEF Copy
  <2> QED BY <2>1, <2>2, <2>3 DEF Covered
<1>3. ASSUME NEW doc \in todo[s], CheckInvoice(s, doc)
      PROVE  Covered(s)'
  BY <1>1, <1>3 DEF CheckInvoice, vars, Running
<1>4. CASE SeedInvoice(s)
  BY <1>1, <1>4 DEF SeedInvoice, vars, Running
<1>5. CASE LoopError(s) \/ SampleError(s) \/ Interrupt(s)
  BY <1>0, <1>5 DEF LoopError, SampleError, Interrupt
<1>6. CASE FindStaff(s)
  BY <1>1, <1>6 DEF FindStaff, vars, Running
<1>7. ASSUME NEW q \in Payment, NEW e \in Employee, NEW digits \in RandomDigits,
             SamplePayment(s, q, e, digits)
      PROVE  Covered(s)'
  <2>1. /\ rpc[s] = "payment" /\ rpc'[s] = "invoice" /\ failed'[s] = failed[s]
        /\ found' = found /\ invoices' = invoices /\ seeded' = seeded
        /\ \A p \in Payment \ {q} : payments'[p] = payments[p]
    BY <1>0, <1>7 DEF SamplePayment, TypeOK
  <2>2. \E doc \in current'[s] : doc.payment = q
    BY <1>0, <1>7 DEF SamplePayment, ScriptTypes
  <2>3. Covered(s)
    BY <2>1 DEF Running
  <2>4. \A p \in Payment \ {q} : Copy(p)' = Copy(p)
    BY <2>1 DEF Copy
  <2> QED BY <2>1, <2>2, <2>3, <2>4 DEF Covered, HasInvoice
<1>8. CASE SampleInvoice(s)
  <2>1. seeded \subseteq seeded' /\ \A doc \in current[s] : HasInvoice(doc.payment)'
    BY <1>0, <1>8, SeededStep DEF SampleInvoice
  <2> QED BY <1>1, <1>8, <2>1 DEF SampleInvoice, vars, Running
<1> QED BY <1>2, <1>3, <1>4, <1>5, <1>6, <1>7, <1>8 DEF StepOf

\* While a run that is apart is under way no other run moves.
LEMMA CoveredIndRun ==
  ASSUME IInv, plan \in Plans, CoveredInd, NEW s \in Run, StepOf(s), RunShape(s)
  PROVE  CoveredInd'
<1>0. /\ TypeOK /\ SampledOnly /\ MovesItself(s) /\ UNCHANGED <<plan, pc>>
      /\ Alone /\ DecidedNamed
  BY DEF IInv, RunShape, SampledOnly, CoveredInd
<1>1. DecidedNamed'
  <2>1. NoOne \notin Employee
    BY WorkflowAssumption
  <2> QED BY <1>0, <2>1, RunPayments DEF DecidedNamed
<1>2. \A t \in Run : Running(t)' => t \in plan'.apart \cup plan'.beside
  BY <1>0 DEF MovesItself, Alone, Running, MayStart
<1>3. ASSUME NEW t \in Run, t \in plan'.apart, Running(t)'
      PROVE  t = s
  <2> SUFFICES ASSUME t # s PROVE FALSE
    OBVIOUS
  <2>1. Running(t) /\ t \in plan.apart
    BY <1>0, <1>3 DEF MovesItself, Running
  <2> QED BY <1>0, <2>1 DEF MovesItself, Alone, MayStart, NoneApart
<1>4. ASSUME s \in plan'.apart
      PROVE  /\ \A r \in Request : ~InFlight(r)'
             /\ \A t \in Run \ {s} : ~Running(t)'
  <2>1. /\ \A r \in Request : ~InFlight(r)
        /\ \A t \in Run \ {s} : ~Running(t)
    BY <1>0, <1>4, RunsAlone
  <2> QED BY <1>0, <2>1 DEF MovesItself, InFlight, Running
<1>5. s \in plan.apart /\ ~failed'[s] => Covered(s)'
  BY <1>0, CoveredRun DEF CoveredInd
<1>6. /\ plan' = plan /\ plan.apart \subseteq Run
  BY <1>0, SeedingAssumption
<1>7. Alone'
  BY <1>2, <1>3, <1>4, <1>6 DEF Alone
<1> QED BY <1>1, <1>3, <1>5, <1>6, <1>7 DEF CoveredInd

-----------------------------------------------------------------------------
(* The full invariant, and what follows from it *)

\* Nothing is written and no run is under way at first.
LEMMA FullInit == SeedingInit => FullInd
<1> SUFFICES ASSUME SeedingInit PROVE FullInd
  OBVIOUS
<1>1. IInv /\ plan \in Plans
  BY SeedingStart DEF SeedingInit
<1>2. /\ \A r \in Request : task[r] = NoTask /\ wrote[r] = {} /\ pc[r] = "idle"
      /\ \A p \in Payment : payments[p].status = "absent"
      /\ invoices = {} /\ seeded = {}
      /\ \A s \in Run : rpc[s] = "idle" /\ todo[s] = {} /\ current[s] = {}
  BY DEF SeedingInit, Init, Absent
<1>3. BackedInd
  <2>1. WrittenDecided /\ InvoiceFromApproval /\ TasksExist
    BY <1>2 DEF WrittenDecided, InvoiceFromApproval, TasksExist, NoTask
  <2>2. Serial
    BY <1>2 DEF Serial, Apart, InFlight, ReadsFresh, DecidedOnce
  <2>3. ApprovedBacked /\ CopiesBacked
    BY <1>2 DEF ApprovedBacked, CopiesBacked
  <2> QED BY <2>1, <2>2, <2>3 DEF BackedInd
<1>4. CoveredInd
  <2>1. plan.apart \subseteq Run
    BY <1>1, SeedingAssumption
  <2> QED BY <1>2, <2>1 DEF CoveredInd, Alone, DecidedNamed, Running
<1>5. OnceInd
  BY <1>2 DEF OnceInd
<1> QED BY <1>1, <1>3, <1>4, <1>5 DEF FullInd

\* RunStep by the run that moves.
LEMMA RunStepOf == RunStep => \E s \in Run : StepOf(s)
BY DEF RunStep, StepOf

\* Every step of the server, of a run, or of neither keeps the invariant.
LEMMA FullStep == FullInd /\ [SeedingNext]_seedVars => FullInd'
<1> SUFFICES ASSUME FullInd, [SeedingNext]_seedVars PROVE FullInd'
  OBVIOUS
<1>1. IInv' /\ (plan \in Plans)'
  BY SeedingStep DEF FullInd, SeedingNext, seedVars, script
<1>2. CASE Next /\ UNCHANGED script /\ NoneApart
  <2>1. BackedInd'
    BY <1>2, BackedIndServer DEF FullInd
  <2>2. CoveredInd'
    BY <1>2, CoveredServer DEF FullInd, BackedInd
  <2>3. OnceInd'
    BY <1>2, OnceServer DEF FullInd, CoveredInd
  <2> QED BY <1>1, <2>1, <2>2, <2>3 DEF FullInd
<1>3. CASE RunStep /\ UNCHANGED plan
  <2>1. PICK s \in Run : StepOf(s)
    BY <1>3, RunStepOf
  <2>2. RunShape(s)
    BY <1>3, <2>1, StepOfShape DEF FullInd
  <2>3. BackedInd'
    BY <2>2, BackedIndRun DEF FullInd
  <2>4. CoveredInd'
    BY <2>1, <2>2, CoveredIndRun DEF FullInd
  <2>5. OnceInd'
    BY <2>1, <2>2, OnceRun DEF FullInd, BackedInd, CoveredInd
  <2> QED BY <1>1, <2>3, <2>4, <2>5 DEF FullInd
<1>4. CASE UNCHANGED seedVars
  <2>1. BackedInd'
    BY <1>4 DEF FullInd, BackedInd, WrittenDecided, InvoiceFromApproval, SavedDecision,
       TasksExist, Serial, Apart, InFlight, ReadsFresh, DecidedOnce, ApprovedBacked,
       CopiesBacked, Backed, seedVars, script, vars
  <2>2. CoveredInd'
    BY <1>4 DEF FullInd, CoveredInd, Alone, InFlight, DecidedNamed, Running, Covered, Copy,
       HasInvoice, seedVars, script, vars
  <2>3. OnceInd'
    BY <1>4 DEF FullInd, OnceInd, HasInvoice, seedVars, script, vars
  <2> QED BY <1>1, <2>1, <2>2, <2>3 DEF FullInd
<1> QED BY <1>2, <1>3, <1>4 DEF SeedingNext

\* The invariant holds in every state of the script beside the server.
THEOREM SeedingInductive == SeedingSpec => []FullInd
BY FullInit, FullStep, PTL DEF SeedingSpec

\* For requests that do not overlap, whatever runs of the script do beside them:
\* every invoice of the script names an employee whose approval was saved, or
\* belongs to a sample that no one decides.
THEOREM ScriptFollowsApprovals == OneAtATime /\ SeedingSpec => []SeededFromApproval
<1> SUFFICES ASSUME OneAtATime PROVE SeedingSpec => []SeededFromApproval
  OBVIOUS
<1>1. FullInd => SeededFromApproval
  BY DEF FullInd, BackedInd, CopiesBacked, Backed, SeededFromApproval
<1> QED BY <1>1, SeedingInductive, PTL

\* For requests that do not overlap and runs of the script that are apart: a
\* payment is invoiced once, by a handler or by one run, wherever a run or a
\* handler before it failed.
THEOREM ScriptInvoicesOnce == OneAtATime /\ SeedingSpec => []NoSecondInvoice
<1> SUFFICES ASSUME OneAtATime PROVE SeedingSpec => []NoSecondInvoice
  OBVIOUS
<1>1. FullInd => OneInvoicePerPayment
  BY SerialOneInvoice DEF FullInd, IInv, BackedInd, Serial
<1>2. FullInd => NoSecondInvoice
  BY <1>1 DEF FullInd, OnceInd, NoSecondInvoice
<1> QED BY <1>2, SeedingInductive, PTL

\* A run that is apart and ends without an error leaves every approved payment
\* with an invoice, or without its employee.
LEMMA RunEnds ==
  ASSUME FullInd, FullInd', [SeedingNext]_seedVars, NEW s \in plan.apart,
         rpc[s] # "done", rpc'[s] = "done", ~failed'[s],
         NEW p \in Payment, payments'[p].status \in {"verified", "submitted_to_swift"}
  PROVE  \/ HasInvoice(p)'
         \/ employees'[payments'[p].verifiedBy] = "deleted"
<1>0. s \in Run
  BY SeedingAssumption DEF FullInd
<1>1. RunStep /\ UNCHANGED plan
  BY DEF SeedingNext, seedVars, script
<1>2. PICK t \in Run : StepOf(t)
  BY <1>1, RunStepOf
<1>3. t = s
  BY <1>0, <1>1, <1>2, StepOfShape DEF FullInd, RunShape, MovesItself
<1>4. Covered(s)'
  BY <1>0, <1>2, <1>3, CoveredRun DEF FullInd, CoveredInd
<1>5. \A doc \in found'[s] : Settled(doc)'
  BY <1>0 DEF FullInd, IInv, LoopInv, LoopOK
<1>6. Copy(p)' \in found'[s] \/ HasInvoice(p)'
  BY <1>4 DEF Covered
<1>7. Settled(Copy(p))' => \/ HasInvoice(p)'
                           \/ employees'[payments'[p].verifiedBy] = "deleted"
  BY DEF Settled, Copy, HasInvoice
<1> QED BY <1>5, <1>6, <1>7 DEF Settled, Copy, HasInvoice

\* What InvoiceError, a crash between approval and invoice, or an interrupted
\* run left out, a run of the script that is apart and ends without an error
\* makes good, for any number of payments and whatever overlapped before it.
THEOREM ScriptMakesGood == SeedingSpec => EverythingInvoiced
<1>1. FullInd /\ FullInd' /\ [SeedingNext]_seedVars =>
        [\A s \in plan.apart :
           rpc[s] # "done" /\ rpc'[s] = "done" /\ ~failed'[s] =>
             \A p \in Payment : payments'[p].status \in {"verified", "submitted_to_swift"} =>
               \/ HasInvoice(p)'
               \/ employees'[payments'[p].verifiedBy] = "deleted"]_seedVars
  BY RunEnds
<1> QED BY <1>1, SeedingInductive, PTL DEF SeedingSpec, EverythingInvoiced
=============================================================================
