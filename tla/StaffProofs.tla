---------------------------- MODULE StaffProofs ----------------------------
(***************************************************************************)
(* Proofs about EmployeeSeeding for any number of starts, of resets and of *)
(* accounts.                                                               *)
(***************************************************************************)
EXTENDS StaffProperties, FiniteSetTheorems, TLAPS

-----------------------------------------------------------------------------
(* The inductive invariant *)

\* A reset that is writing has deleted what was there at the beginning.
NothingOld ==
  \A p \in Reset : pc[p] \in {"create", "report"} => \A d \in employees : d.by # Before

New(j) == \E d \in employees : d.account = j /\ d.by # Before

\* p will come to account k by way of nothing at which it can be cut short, and
\* is past account j.
Heir(p, j, k) ==
  \/ j = 0 /\ pc[p] \in {"count", "clear"}
  \/ pc[p] = "find" /\ at[p] \in j + 1 .. k
  \/ pc[p] = "create" /\ at[p] \in j + 1 .. k /\ Missing(at[p])
     /\ (p \in Reset => \A i \in at[p] .. k : Missing(i))

\* Who has written a document has been started.
AuthorsRan == \A d \in employees : d.by # Before => pc[d.by] # "idle"

\* Behind every written account j, and every missing one k that follows, there
\* is a process between the two on its way to k.  (That one is on its way to k
\* is not inductive: it may meet a document written behind its back.)
HeirForMissing ==
  faulted = {} /\ (\E p \in Process : pc[p] # "idle") =>
    \A k \in Account : Missing(k) =>
      \A j \in 0 .. k - 1 : (j = 0 \/ New(j)) => \E p \in Process : Heir(p, j, k)

\* What the last reset to delete has written is all there.
OwnWork ==
  \A p \in Reset : cleared = p =>
    /\ pc[p] \in {"create", "report"} \/ outcome[p] = "exit 0" =>
         \A k \in Account : k < at[p] => \E d \in employees : d.account = k /\ d.by = p
    /\ pc[p] \in {"create", "report", "done"}

\* A loop comes to its end at the end of the list.
AtTheEnd ==
  \A p \in Process :
    /\ pc[p] = "report" \/ outcome[p] \in {"exit 0", "seeded"} => at[p] = Last + 1
    /\ outcome[p] # "none" => pc[p] = "done"
    /\ pc[p] = "done" => outcome[p] # "none"

\* Nothing runs beside a process that is alone, and behind its loop no account
\* is missing.
AloneIsAlone ==
  \A p \in alone :
    /\ Running(p) => \A q \in Process \ {p} : ~Running(q)
    /\ p \in Boot /\ pc[p] \in {"find", "create", "report"} =>
         \A k \in Account : k < at[p] => Exists(k)
    /\ p \in Boot /\ pc[p] = "create" => Missing(at[p])

StaffInv ==
  /\ StaffTypeOK
  /\ NothingOld
  /\ AuthorsRan
  /\ HeirForMissing
  /\ OwnWork
  /\ AtTheEnd
  /\ AloneIsAlone

StepOf(p) ==
  \/ Connect(p) \/ Count(p) \/ Find(p) \/ Clear(p) \/ Create(p)
  \/ Duplicate(p) \/ Report(p) \/ Throw(p) \/ Kill(p)

-----------------------------------------------------------------------------
(* Facts about the collection *)

\* As many documents as there are accounts are one of each.
LEMMA EnoughIsAll ==
  ASSUME employees \subseteq Document,
         \A d1, d2 \in employees : d1.account = d2.account => d1 = d2,
         Cardinality(employees) >= Last
  PROVE  FullStaff
<1> DEFINE f == [d \in employees |-> d.account]
<1> SUFFICES ASSUME NEW k \in Account, Missing(k) PROVE FALSE
  BY DEF FullStaff, Missing
<1>1. f \in Injection(employees, Account \ {k})
  BY DEF Injection, IsInjective, Document, Missing, Exists
<1>2. IsFiniteSet(Account) /\ Cardinality(Account) = Last
  BY FS_Interval, StaffAssumption DEF Account
<1>3. IsFiniteSet(Account \ {k}) /\ Cardinality(Account \ {k}) = Last - 1
  BY <1>2, FS_RemoveElement
<1>4. IsFiniteSet(employees) /\ Cardinality(employees) <= Last - 1
  <2> HIDE DEF f
  <2> QED BY <1>1, <1>3, FS_Injection
<1>5. Cardinality(employees) \in Nat
  BY <1>4, FS_CardinalityType
<1> QED BY <1>4, <1>5, StaffAssumption

\* The end of the list lies behind every account.
LEMMA BeforeTheEnd == \A k \in Account : k < Last + 1
BY StaffAssumption DEF Account

\* A loop that has an account to treat is within the list.
LEMMA WithinList ==
  ASSUME StaffTypeOK, NEW p \in Process, pc[p] \in {"find", "create"}
  PROVE  /\ at[p] \in Account
         /\ at[p] \in Nat
         /\ at[p] + 1 \in 1 .. Last + 1
<1>1. at[p] \in 1 .. Last + 1 /\ at[p] <= Last
  BY DEF StaffTypeOK
<1>2. Last \in Nat
  BY StaffAssumption
<1> QED BY <1>1, <1>2 DEF Account

\* A created document is a new one, and the others are as they were.
LEMMA Created ==
  ASSUME StaffTypeOK, NEW p \in Process, pc[p] = "create", Missing(at[p]),
         employees' = employees \cup {[ account |-> at[p], by |-> p ]}
  PROVE  /\ employees' \subseteq Document
         /\ \A d1, d2 \in employees' : d1.account = d2.account => d1 = d2
         /\ \A k \in Account : Exists(k)' <=> (Exists(k) \/ k = at[p])
<1>0. at[p] \in Account
  BY WithinList
<1>1. [ account |-> at[p], by |-> p ] \in Document
  BY <1>0 DEF Document
<1>2. employees' \subseteq Document
  BY <1>1 DEF StaffTypeOK
<1>3. \A d \in employees : d.account # at[p]
  BY DEF Missing, Exists
<1>4. PICK new : new = [ account |-> at[p], by |-> p ]
  OBVIOUS
<1>5. new.account = at[p] /\ employees' = employees \cup {new}
  BY <1>4
<1>6. \A d1, d2 \in employees' : d1.account = d2.account => d1 = d2
  BY <1>3, <1>5 DEF StaffTypeOK
<1>7. \A k \in Account : Exists(k)' <=> (Exists(k) \/ k = at[p])
  BY <1>5 DEF Exists
<1> QED BY <1>2, <1>6, <1>7

-----------------------------------------------------------------------------
(* Type correctness *)

\* A loop goes on to an account of the list, or past the last.
LEMMA LoopFromTyped ==
  ASSUME StaffTypeOK, NEW p \in Process, NEW k \in 1 .. Last + 1, LoopFrom(p, k)
  PROVE  /\ pc' \in [Process -> Steps]
         /\ at' \in [Process -> 1 .. Last + 1]
         /\ outcome' = outcome
         /\ \A q \in Process :
              /\ pc'[q] \in {"find", "create"} => at'[q] <= Last
              /\ pc'[q] \in {"count", "find"} => q \in Boot
              /\ pc'[q] = "clear" => q \in Reset
<1>1. \A q \in Process : q # p => pc'[q] = pc[q] /\ at'[q] = at[q]
  BY DEF LoopFrom, Goto, StaffTypeOK
<1>2. at'[p] = k /\ pc'[p] = (IF k > Last THEN "report" ELSE IF p \in Boot THEN "find" ELSE "create")
  BY DEF LoopFrom, Goto, StaffTypeOK
<1>3. pc' \in [Process -> Steps] /\ at' \in [Process -> 1 .. Last + 1] /\ outcome' = outcome
  BY DEF LoopFrom, Goto, StaffTypeOK, Steps
<1>4. k > Last \/ k <= Last
  BY StaffAssumption
<1>5. \A q \in Process : q # p =>
         /\ pc'[q] \in {"find", "create"} => at'[q] <= Last
         /\ pc'[q] \in {"count", "find"} => q \in Boot
         /\ pc'[q] = "clear" => q \in Reset
  BY <1>1 DEF StaffTypeOK
<1>6. /\ pc'[p] \in {"find", "create"} => at'[p] <= Last
      /\ pc'[p] \in {"count", "find"} => p \in Boot
      /\ pc'[p] = "clear" => p \in Reset
  BY <1>2, <1>4
<1> QED BY <1>3, <1>5, <1>6

\* A process that ends does so with a known outcome.
LEMMA FinishTyped ==
  ASSUME StaffTypeOK, NEW p \in Process, NEW result,
         result \in {"present", "seeded", "error", "exit 0", "exit 1", "killed"},
         Finish(p, result), UNCHANGED at
  PROVE  /\ pc' \in [Process -> Steps]
         /\ outcome' \in [Process -> {"none", "present", "seeded", "error", "exit 0", "exit 1", "killed"}]
         /\ \A q \in Process :
              /\ pc'[q] \in {"find", "create"} => at'[q] <= Last
              /\ pc'[q] \in {"count", "find"} => q \in Boot
              /\ pc'[q] = "clear" => q \in Reset
<1>1. \A q \in Process : pc'[q] = (IF q = p THEN "done" ELSE pc[q])
  BY DEF Finish, StaffTypeOK
<1>2. pc' \in [Process -> Steps]
  BY DEF Finish, StaffTypeOK, Steps
<1>3. outcome' \in [Process -> {"none", "present", "seeded", "error", "exit 0", "exit 1", "killed"}]
  BY DEF Finish, StaffTypeOK
<1> QED BY <1>1, <1>2, <1>3 DEF StaffTypeOK

\* No step takes the collection or a process out of its types.
LEMMA TypedStep ==
  ASSUME StaffTypeOK, Next
  PROVE  StaffTypeOK'
<1>0. 1 \in 1 .. Last + 1
  BY StaffAssumption
<1> PICK p \in Process : Connect(p) \/ Count(p) \/ Find(p) \/ Clear(p) \/ Create(p)
                         \/ Duplicate(p) \/ Report(p) \/ Throw(p) \/ Kill(p)
  BY DEF Next
<1>1. CASE Connect(p)
  <2>1. \A q \in Process : pc'[q] = (IF q # p THEN pc[q] ELSE IF p \in Boot THEN "count" ELSE "clear")
    BY <1>1 DEF Connect, Goto, StaffTypeOK
  <2>2. pc' \in [Process -> Steps] /\ alone' \subseteq Process
    BY <1>1 DEF Connect, Goto, StaffTypeOK, Steps
  <2>3. p \in Boot \/ p \in Reset
    BY DEF Process
  <2> QED BY <1>1, <2>1, <2>2, <2>3 DEF Connect, Goto, StaffTypeOK
<1>2. CASE Count(p)
  <2>1. CASE Cardinality(employees) >= Last
    <3>1. Finish(p, "present") /\ UNCHANGED <<at, employees, faulted, cleared, alone>>
      BY <1>2, <2>1 DEF Count
    <3> QED BY <3>1, FinishTyped DEF StaffTypeOK
  <2>2. CASE ~(Cardinality(employees) >= Last)
    <3>1. LoopFrom(p, 1) /\ UNCHANGED <<employees, faulted, cleared, alone>>
      BY <1>2, <2>2 DEF Count
    <3> QED BY <1>0, <3>1, LoopFromTyped DEF StaffTypeOK
  <2> QED BY <2>1, <2>2
<1>3. CASE Find(p)
  <2>1. CASE Exists(at[p])
    <3>1. LoopFrom(p, at[p] + 1) /\ UNCHANGED <<employees, faulted, cleared, alone>>
      BY <1>3, <2>1 DEF Find
    <3>2. at[p] + 1 \in 1 .. Last + 1
      BY <1>3, WithinList DEF Find
    <3> QED BY <3>1, <3>2, LoopFromTyped DEF StaffTypeOK
  <2>2. CASE ~Exists(at[p])
    <3>1. \A q \in Process : pc'[q] = (IF q = p THEN "create" ELSE pc[q])
      BY <1>3, <2>2 DEF Find, Goto, StaffTypeOK
    <3>2. pc' \in [Process -> Steps] /\ UNCHANGED <<at, outcome, employees, faulted, cleared, alone>>
      BY <1>3, <2>2 DEF Find, Goto, StaffTypeOK, Steps
    <3>3. pc[p] = "find"
      BY <1>3 DEF Find
    <3> QED BY <3>1, <3>2, <3>3 DEF StaffTypeOK
  <2> QED BY <2>1, <2>2
<1>4. CASE Clear(p)
  <2>1. LoopFrom(p, 1) /\ employees' = {} /\ cleared' = p /\ UNCHANGED <<faulted, alone>>
    BY <1>4 DEF Clear
  <2> QED BY <1>0, <2>1, LoopFromTyped DEF StaffTypeOK
<1>5. CASE Create(p)
  <2>1. /\ LoopFrom(p, at[p] + 1) /\ pc[p] = "create" /\ Missing(at[p])
        /\ employees' = employees \cup {[ account |-> at[p], by |-> p ]}
        /\ UNCHANGED <<faulted, cleared, alone>>
    BY <1>5 DEF Create
  <2>2. at[p] + 1 \in 1 .. Last + 1
    BY <2>1, WithinList
  <2> QED BY <2>1, <2>2, LoopFromTyped, Created DEF StaffTypeOK
<1>6. CASE Duplicate(p) \/ Report(p) \/ Kill(p)
  <2>1. \E result \in {"present", "seeded", "error", "exit 0", "exit 1", "killed"} : Finish(p, result)
    BY <1>6 DEF Duplicate, Catch, Report, Kill
  <2>2. UNCHANGED <<employees, at, cleared, alone>> /\ faulted' \subseteq Process
    BY <1>6 DEF Duplicate, Report, Kill, StaffTypeOK
  <2> QED BY <2>1, <2>2, FinishTyped DEF StaffTypeOK
<1>7. CASE Throw(p)
  <2>1. \E result \in {"present", "seeded", "error", "exit 0", "exit 1", "killed"} : Finish(p, result)
    BY <1>7 DEF Throw, Catch
  <2>2. UNCHANGED <<at, alone>> /\ faulted' \subseteq Process
    BY <1>7 DEF Throw, StaffTypeOK
  <2>3. Reached(p)
    BY <1>7 DEF Throw
  <2>4. /\ employees' \subseteq Document
        /\ \A d1, d2 \in employees' : d1.account = d2.account => d1 = d2
        /\ cleared' \in Process \cup {Before}
    BY <2>3, Created DEF Reached, StaffTypeOK
  <2> QED BY <2>1, <2>2, <2>4, FinishTyped DEF StaffTypeOK
<1> QED BY <1>1, <1>2, <1>3, <1>4, <1>5, <1>6, <1>7

\* The documents there may be before any process runs.
LEMMA TypedInit == Init => StaffTypeOK
BY StaffAssumption DEF Init, StaffTypeOK, Document, Steps, Account

\* Type correctness for any number of processes and accounts.
THEOREM StaffTypeCorrect == Spec => []StaffTypeOK
<1>1. StaffTypeOK /\ UNCHANGED vars => StaffTypeOK'
  BY DEF StaffTypeOK, vars
<1> QED BY TypedInit, TypedStep, <1>1, PTL DEF Spec

-----------------------------------------------------------------------------
(* Who wrote what *)

\* The step of a process leaves the others where they are.
LEMMA OthersStay ==
  ASSUME StaffTypeOK, NEW p \in Process, StepOf(p), NEW q \in Process, q # p
  PROVE  pc'[q] = pc[q] /\ at'[q] = at[q] /\ outcome'[q] = outcome[q]
BY DEF StepOf, Connect, Count, Find, Clear, Create, Duplicate, Report, Throw, Kill,
       LoopFrom, Goto, Finish, Catch, StaffTypeOK

\* It deletes everything, writes one document, or leaves the collection alone.
LEMMA EmployeesStep ==
  ASSUME NEW p \in Process, StepOf(p)
  PROVE  \/ pc[p] = "clear" /\ employees' = {} /\ cleared' = p
         \/ /\ pc[p] = "create" /\ Missing(at[p]) /\ UNCHANGED cleared
            /\ employees' = employees \cup {[ account |-> at[p], by |-> p ]}
         \/ UNCHANGED <<employees, cleared>>
BY DEF StepOf, Connect, Count, Find, Clear, Create, Duplicate, Report, Throw, Kill, Reached

\* Where the process itself comes to.
LEMMA OwnStep ==
  ASSUME StaffTypeOK, NEW p \in Process, StepOf(p)
  PROVE  /\ pc'[p] # "idle"
         /\ pc'[p] \in {"create", "report"} /\ p \in Reset => pc[p] \in {"clear", "create"}
         /\ pc[p] = "clear" /\ pc'[p] # "done" => Clear(p)
<1>1. CASE Duplicate(p) \/ Report(p) \/ Throw(p) \/ Kill(p)
  <2>1. pc'[p] = "done"
    BY <1>1 DEF Duplicate, Report, Throw, Kill, Finish, Catch, StaffTypeOK
  <2> QED BY <2>1
<1>2. CASE Connect(p)
  <2>1. pc[p] = "idle" /\ pc'[p] \in {"count", "clear"}
    BY <1>2 DEF Connect, Goto, StaffTypeOK
  <2> QED BY <2>1
<1>3. CASE Count(p) \/ Find(p)
  <2>1. p \in Boot /\ pc[p] # "clear"
    BY <1>3 DEF Count, Find, StaffTypeOK
  <2>2. pc'[p] # "idle"
    BY <1>3 DEF Count, Find, LoopFrom, Goto, Finish, StaffTypeOK
  <2> QED BY <2>1, <2>2, StaffAssumption
<1>4. CASE Clear(p) \/ Create(p)
  <2>1. pc[p] \in {"clear", "create"} /\ (pc[p] = "clear" => Clear(p))
    BY <1>4 DEF Clear, Create
  <2>2. pc'[p] # "idle"
    BY <1>4 DEF Clear, Create, LoopFrom, Goto, StaffTypeOK
  <2> QED BY <2>1, <2>2
<1> QED BY <1>1, <1>2, <1>3, <1>4 DEF StepOf

\* A reset begins to create when it has deleted every document from before.
LEMMA NothingOldStep ==
  ASSUME StaffTypeOK, NothingOld, NEW p \in Process, StepOf(p)
  PROVE  NothingOld'
<1> SUFFICES ASSUME NEW q \in Reset, pc'[q] \in {"create", "report"}, NEW d \in employees'
             PROVE  d.by # Before
  BY DEF NothingOld
<1>1. q \in Process /\ Before # p
  BY StaffAssumption DEF Process
<1>2. CASE pc[p] = "clear" /\ employees' = {}
  BY <1>2
<1>3. CASE pc[p] # "clear" \/ UNCHANGED employees
  <2>1. d \in employees \/ d = [ account |-> at[p], by |-> p ]
    BY <1>3, EmployeesStep
  <2>2. CASE d = [ account |-> at[p], by |-> p ]
    BY <1>1, <2>2
  <2>3. CASE d \in employees
    <3>1. CASE q = p
      <4>1. pc[q] \in {"clear", "create"}
        BY <3>1, OwnStep
      <4>2. pc[q] # "clear" \/ employees' = {}
        BY <3>1, OwnStep DEF Clear
      <4> QED BY <2>3, <4>1, <4>2 DEF NothingOld
    <3>2. CASE q # p
      <4>1. pc'[q] = pc[q]
        BY <1>1, <3>2, OthersStay
      <4> QED BY <2>3, <4>1 DEF NothingOld
    <3> QED BY <3>1, <3>2
  <2> QED BY <2>1, <2>2, <2>3
<1> QED BY <1>2, <1>3, EmployeesStep

\* Only a process that has begun creates documents.
LEMMA AuthorsStep ==
  ASSUME StaffTypeOK, AuthorsRan, NEW p \in Process, StepOf(p)
  PROVE  AuthorsRan'
<1> SUFFICES ASSUME NEW d \in employees', d.by # Before
             PROVE  pc'[d.by] # "idle"
  BY DEF AuthorsRan
<1>1. pc'[p] # "idle"
  BY OwnStep
<1>2. d \in employees \/ d = [ account |-> at[p], by |-> p ]
  BY EmployeesStep
<1>3. CASE d \in employees
  <2>1. d.by \in Process
    BY <1>3 DEF StaffTypeOK, Document
  <2>2. d.by # p => pc'[d.by] = pc[d.by]
    BY <2>1, OthersStay
  <2> QED BY <1>1, <1>3, <2>2 DEF AuthorsRan
<1>4. CASE d = [ account |-> at[p], by |-> p ]
  BY <1>1, <1>4
<1> QED BY <1>2, <1>3, <1>4

-----------------------------------------------------------------------------
(* The heirs *)

\* What can take an heir's inheritance from it is its own step, or a document
\* written on its way.
LEMMA HeirStays ==
  ASSUME StaffTypeOK, NEW p \in Process, StepOf(p), NEW h \in Process, h # p,
         NEW j \in Nat, NEW k \in Nat, Heir(h, j, k), j # 0,
         \A i \in j + 1 .. k : Missing(i) => Missing(i)'
  PROVE  Heir(h, j, k)'
<1>1. pc'[h] = pc[h] /\ at'[h] = at[h]
  BY OthersStay
<1>2. at[h] \in j + 1 .. k
  BY DEF Heir
<1>3. CASE pc[h] = "find" /\ at[h] \in j + 1 .. k
  BY <1>1, <1>3 DEF Heir
<1>4. CASE /\ pc[h] = "create" /\ at[h] \in j + 1 .. k /\ Missing(at[h])
           /\ h \in Reset => \A i \in at[h] .. k : Missing(i)
  <2>1. Missing(at[h])'
    <3>1. \A d \in employees' : d.account # at[h]
      BY <1>2, <1>4 DEF Missing, Exists
    <3> QED BY <1>1, <3>1 DEF Missing, Exists
  <2>2. h \in Reset => \A i \in at[h] .. k : Missing(i)'
    <3> SUFFICES ASSUME h \in Reset, NEW i \in at[h] .. k PROVE Missing(i)'
      OBVIOUS
    <3>1. i \in j + 1 .. k
      BY <1>2
    <3> QED BY <1>4, <3>1
  <2> QED BY <1>1, <1>4, <2>1, <2>2 DEF Heir
<1> QED BY <1>3, <1>4 DEF Heir

\* Writing a document, p becomes the heir of its place or finds one ahead.
LEMMA HeirCreated ==
  ASSUME StaffTypeOK, NothingOld, HeirForMissing, faulted = {},
         NEW p \in Process, Create(p),
         NEW k \in Account, Missing(k)', NEW j \in 0 .. k - 1, j = 0 \/ New(j)'
  PROVE  \E h \in Process : Heir(h, j, k)'
<1> DEFINE i == at[p]
<1>1. /\ pc[p] = "create" /\ Missing(i) /\ LoopFrom(p, i + 1)
      /\ employees' = employees \cup {[ account |-> i, by |-> p ]}
  BY DEF Create
<1>2. /\ i \in Account /\ i \in Nat /\ i + 1 \in 1 .. Last + 1
      /\ k \in Nat /\ j \in Nat /\ k <= Last /\ Last \in Nat /\ j < k
  BY <1>1, WithinList, StaffAssumption DEF Account
<1>3. \A m \in Account : Exists(m)' <=> (Exists(m) \/ m = i)
  BY <1>1, Created
<1>4. Missing(k) /\ k # i
  BY <1>3 DEF Missing
<1>5. \A m \in Account : m # i /\ Missing(m) => Missing(m)'
  BY <1>3 DEF Missing
<1>6. \A m \in 0 .. k - 1 : m = 0 \/ New(m) => \E h \in Process : Heir(h, m, k)
  BY <1>1, <1>4 DEF HeirForMissing
<1>7. New(j)' => New(j) \/ j = i
  BY <1>1 DEF New
<1>8. StepOf(p)
  BY DEF StepOf
<1> HIDE DEF i
<1>9. CASE i < j \/ k < i
  <2>1. j = 0 \/ New(j)
    BY <1>2, <1>7, <1>9
  <2>2. PICK h \in Process : Heir(h, j, k)
    BY <1>6, <2>1
  <2>3. \A m \in j + 1 .. k : Missing(m) => Missing(m)'
    <3>1. \A m \in j + 1 .. k : m \in Account /\ m # i
      BY <1>2, <1>9 DEF Account
    <3> QED BY <1>5, <3>1
  <2>4. h # p
    BY <1>1, <1>2, <1>9, <2>2 DEF Heir, i
  <2>5. CASE j # 0
    BY <1>2, <1>8, <2>2, <2>3, <2>4, <2>5, HeirStays
  <2>6. CASE j = 0 /\ pc[h] \in {"count", "clear"}
    BY <1>8, <2>4, <2>6, OthersStay DEF Heir
  <2>7. CASE j = 0 /\ pc[h] \notin {"count", "clear"}
    <3>1. pc'[h] = pc[h] /\ at'[h] = at[h]
      BY <1>8, <2>4, OthersStay
    <3>2. at[h] \in 1 .. k
      BY <2>2, <2>7 DEF Heir
    <3>3. \A m \in at[h] .. k : Missing(m) => Missing(m)'
      BY <1>2, <2>3, <2>7, <3>2
    <3>4. CASE pc[h] = "find"
      BY <2>7, <3>1, <3>2, <3>4 DEF Heir
    <3>5. CASE /\ pc[h] = "create" /\ Missing(at[h])
               /\ h \in Reset => \A m \in at[h] .. k : Missing(m)
      <4>1. Missing(at[h])'
        <5>1. at[h] \in at[h] .. k
          BY <1>2, <3>2
        <5>2. \A d \in employees' : d.account # at[h]
          BY <3>3, <3>5, <5>1 DEF Missing, Exists
        <5> QED BY <3>1, <5>2 DEF Missing, Exists
      <4>2. h \in Reset => \A m \in at[h] .. k : Missing(m)'
        BY <3>3, <3>5
      <4> QED BY <2>7, <3>1, <3>2, <3>5, <4>1, <4>2 DEF Heir
    <3> QED BY <2>2, <2>7, <3>4, <3>5 DEF Heir
  <2> QED BY <2>5, <2>6, <2>7
<1>10. CASE j <= i /\ i < k
  <2>1. i + 1 \in j + 1 .. k /\ ~(i + 1 > Last)
    BY <1>2, <1>10
  <2>2. at'[p] = i + 1 /\ pc'[p] = (IF p \in Boot THEN "find" ELSE "create")
    BY <1>1, <2>1 DEF LoopFrom, Goto, StaffTypeOK
  <2>3. CASE p \in Boot
    BY <2>1, <2>2, <2>3 DEF Heir
  <2>4. CASE p \notin Boot /\ \A m \in i + 1 .. k : Missing(m)
    <3>0. \A m \in i + 1 .. k : m \in Account /\ m # i
      BY <1>2 DEF Account
    <3>1. \A m \in i + 1 .. k : Missing(m)'
      BY <1>5, <2>4, <3>0
    <3>2. Missing(at[p])'
      <4>1. i + 1 \in i + 1 .. k
        BY <1>2, <1>10
      <4>2. \A d \in employees' : d.account # i + 1
        BY <3>1, <4>1 DEF Missing, Exists
      <4> QED BY <2>2, <4>2 DEF Missing, Exists
    <3> QED BY <2>1, <2>2, <2>4, <3>1, <3>2 DEF Heir
  <2>5. CASE p \notin Boot /\ \E m \in i + 1 .. k : Exists(m)
    <3>1. PICK m \in i + 1 .. k : Exists(m)
      BY <2>5
    <3>2. m \in 0 .. k - 1 /\ m # 0 /\ m \in Nat
      BY <1>2, <1>4, <3>1 DEF Missing
    <3>3. New(m)
      BY <1>1, <2>5, <3>1 DEF NothingOld, New, Exists, Process
    <3>4. PICK h \in Process : Heir(h, m, k)
      BY <1>6, <3>2, <3>3
    <3>5. \A x \in m + 1 .. k : Missing(x) => Missing(x)'
      <4>1. m \in Nat /\ i < m
        BY <1>2, <3>1, <3>2
      <4>2. \A x \in m + 1 .. k : x \in Account /\ x # i
        BY <1>2, <4>1 DEF Account
      <4> QED BY <1>5, <4>2
    <3>6. h # p
      BY <1>1, <1>2, <3>1, <3>2, <3>4 DEF Heir, i
    <3>7. Heir(h, m, k)'
      BY <1>2, <1>8, <3>2, <3>4, <3>5, <3>6, HeirStays
    <3>8. m + 1 .. k \subseteq j + 1 .. k
      BY <1>2, <1>10, <3>1
    <3>9. at'[h] \in j + 1 .. k
      BY <3>2, <3>7, <3>8 DEF Heir
    <3>10. Heir(h, j, k)'
      BY <3>2, <3>7, <3>9 DEF Heir
    <3> QED BY <3>10
  <2> QED BY <2>3, <2>4, <2>5 DEF Missing
<1> QED BY <1>2, <1>4, <1>9, <1>10

\* A process that passes a missing account has met a document written behind its
\* back, whose own heir comes to that account; after a delete its process does.
LEMMA HeirStep ==
  ASSUME StaffTypeOK, NothingOld, AuthorsRan, HeirForMissing,
         NEW p \in Process, StepOf(p)
  PROVE  HeirForMissing'
<1> SUFFICES ASSUME faulted' = {}, NEW k \in Account, Missing(k)',
                    NEW j \in 0 .. k - 1, j = 0 \/ New(j)'
             PROVE  \E h \in Process : Heir(h, j, k)'
  BY DEF HeirForMissing
<1>0. j \in Nat /\ k \in Nat /\ j < k /\ 1 <= k /\ k <= Last /\ Last \in Nat /\ ~(1 > Last)
  BY StaffAssumption DEF Account
<1>1. faulted = {} /\ ~Throw(p) /\ ~Kill(p)
  BY DEF StepOf, Connect, Count, Find, Clear, Create, Duplicate, Report, Throw, Kill
<1>2. CASE Create(p)
  BY <1>1, <1>2, HeirCreated
<1>3. CASE Clear(p)
  <2>1. p \notin Boot /\ LoopFrom(p, 1) /\ employees' = {}
    BY <1>3, StaffAssumption DEF Clear, StaffTypeOK
  <2>2. at'[p] = 1 /\ pc'[p] = "create"
    BY <1>0, <2>1 DEF LoopFrom, Goto, StaffTypeOK
  <2>3. \A m : Missing(m)'
    BY <2>1 DEF Missing, Exists
  <2>4. j = 0
    BY <2>1 DEF New
  <2>5. 1 \in j + 1 .. k
    BY <1>0, <2>4
  <2>6. Heir(p, j, k)'
    BY <2>1, <2>2, <2>3, <2>5 DEF Heir, Missing, Exists
  <2> QED BY <2>6
<1>4. CASE Connect(p)
  <2>1. UNCHANGED <<employees, faulted>> /\ pc[p] = "idle" /\ pc'[p] \in {"count", "clear"}
    BY <1>4 DEF Connect, Goto, StaffTypeOK
  <2>2. CASE j = 0
    BY <2>1, <2>2 DEF Heir
  <2>3. CASE j # 0
    <3>1. New(j)
      BY <2>1, <2>3 DEF New
    <3>2. \E q \in Process : pc[q] # "idle"
      BY <3>1 DEF New, AuthorsRan, StaffTypeOK, Document
    <3>3. Missing(k)
      BY <2>1 DEF Missing, Exists
    <3>4. PICK h \in Process : Heir(h, j, k)
      BY <1>1, <3>1, <3>2, <3>3 DEF HeirForMissing
    <3>5. h # p
      BY <2>1, <3>4 DEF Heir
    <3>6. \A i \in j + 1 .. k : Missing(i) => Missing(i)'
      BY <2>1 DEF Missing, Exists
    <3> QED BY <1>0, <2>3, <3>4, <3>5, <3>6, HeirStays
  <2> QED BY <2>2, <2>3
<1>5. CASE Count(p) \/ Find(p) \/ Duplicate(p) \/ Report(p)
  <2>1. UNCHANGED employees /\ pc[p] # "idle"
    BY <1>5 DEF Count, Find, Duplicate, Report
  <2>2. Missing(k) /\ (j = 0 \/ New(j))
    BY <2>1 DEF Missing, Exists, New
  <2>3. PICK h \in Process : Heir(h, j, k)
    BY <1>1, <2>1, <2>2 DEF HeirForMissing
  <2>4. CASE h # p
    <3>1. pc'[h] = pc[h] /\ at'[h] = at[h]
      BY <2>4, OthersStay
    <3> QED BY <2>1, <2>3, <3>1 DEF Heir, Missing, Exists
  <2>5. CASE h = p /\ Count(p)
    <3>1. j = 0
      BY <2>3, <2>5 DEF Count, Heir
    <3>2. LoopFrom(p, 1) \/ Cardinality(employees) >= Last
      BY <2>5 DEF Count
    <3>3. LoopFrom(p, 1)
      BY <2>2, <3>2, EnoughIsAll DEF StaffTypeOK, FullStaff, Missing
    <3>4. at'[p] = 1 /\ pc'[p] = "find"
      <4>1. p \in Boot
        BY <2>5 DEF Count, StaffTypeOK
      <4> QED BY <1>0, <3>3, <4>1 DEF LoopFrom, Goto, StaffTypeOK
    <3>5. 1 \in j + 1 .. k
      BY <1>0, <3>1
    <3> QED BY <3>4, <3>5 DEF Heir
  <2>6. CASE h = p /\ Find(p)
    <3>1. pc[p] = "find" /\ at[p] \in j + 1 .. k /\ p \in Boot /\ p \notin Reset
      BY <2>3, <2>6, StaffAssumption DEF Find, Heir, StaffTypeOK
    <3>2. CASE Exists(at[p])
      <4>1. LoopFrom(p, at[p] + 1)
        BY <2>6, <3>2 DEF Find
      <4>2. at[p] # k
        BY <2>2, <3>2 DEF Missing
      <4>3. at[p] + 1 \in j + 1 .. k /\ ~(at[p] + 1 > Last)
        BY <1>0, <3>1, <4>2
      <4>4. pc'[p] = "find" /\ at'[p] = at[p] + 1
        BY <3>1, <4>1, <4>3 DEF LoopFrom, Goto, StaffTypeOK
      <4> QED BY <4>3, <4>4 DEF Heir
    <3>3. CASE ~Exists(at[p])
      <4>1. pc'[p] = "create" /\ at'[p] = at[p]
        BY <2>6, <3>3 DEF Find, Goto, StaffTypeOK
      <4> QED BY <2>1, <3>1, <3>3, <4>1 DEF Heir, Missing, Exists
    <3> QED BY <3>2, <3>3
  <2>7. CASE h = p /\ (Duplicate(p) \/ Report(p))
    BY <2>3, <2>7 DEF Duplicate, Report, Heir, Missing
  <2> QED BY <1>5, <2>4, <2>5, <2>6, <2>7
<1> QED BY <1>1, <1>2, <1>3, <1>4, <1>5 DEF StepOf

-----------------------------------------------------------------------------
(* The loops *)

\* A process that reports or ends well has come to the end of its list.
LEMMA AtTheEndStep ==
  ASSUME StaffTypeOK, AtTheEnd, NEW p \in Process, StepOf(p)
  PROVE  AtTheEnd'
<1> SUFFICES ASSUME NEW q \in Process
             PROVE  /\ pc'[q] = "report" \/ outcome'[q] \in {"exit 0", "seeded"} => at'[q] = Last + 1
                    /\ outcome'[q] # "none" => pc'[q] = "done"
                    /\ pc'[q] = "done" => outcome'[q] # "none"
  BY DEF AtTheEnd
<1>1. CASE q # p
  BY <1>1, OthersStay DEF AtTheEnd
<1>2. CASE q = p /\ ~Report(p) /\ \E k \in 1 .. Last + 1 : LoopFrom(p, k)
  <2>1. PICK k \in 1 .. Last + 1 : LoopFrom(p, k)
    BY <1>2
  <2>2. /\ at'[p] = k /\ outcome'[p] = outcome[p]
        /\ pc'[p] = (IF k > Last THEN "report" ELSE IF p \in Boot THEN "find" ELSE "create")
    BY <2>1 DEF LoopFrom, Goto, StaffTypeOK
  <2>3. k > Last => k = Last + 1
    BY StaffAssumption
  <2>4. pc[p] # "done"
    BY <1>2, <2>2 DEF StepOf, Connect, Count, Find, Clear, Create, Duplicate, Report, Throw, Kill, Running
  <2> QED BY <1>2, <2>2, <2>3, <2>4 DEF AtTheEnd
<1>3. CASE q = p /\ (Duplicate(p) \/ Throw(p) \/ Kill(p))
  BY <1>3 DEF Duplicate, Throw, Kill, Catch, Finish, StaffTypeOK
<1>4. CASE q = p /\ Report(p)
  BY <1>4 DEF Report, Finish, StaffTypeOK, AtTheEnd
<1>5. CASE q = p /\ Count(p)
  <2>1. CASE Finish(p, "present")
    BY <1>5, <2>1 DEF Finish, StaffTypeOK
  <2>2. CASE LoopFrom(p, 1)
    <3>1. 1 \in 1 .. Last + 1
      BY StaffAssumption
    <3> QED BY <1>2, <1>4, <1>5, <2>2, <3>1
  <2> QED BY <1>5, <2>1, <2>2 DEF Count
<1>6. CASE q = p /\ Find(p)
  <2>1. CASE LoopFrom(p, at[p] + 1)
    <3>1. at[p] + 1 \in 1 .. Last + 1
      BY <1>6, WithinList DEF Find
    <3> QED BY <1>2, <1>4, <1>6, <2>1, <3>1
  <2>2. CASE Goto(p, "create")
    BY <1>6, <2>2 DEF Find, Goto, StaffTypeOK, AtTheEnd
  <2> QED BY <1>6, <2>1, <2>2 DEF Find
<1>7. CASE q = p /\ (Clear(p) \/ Create(p))
  <2>1. \E k \in 1 .. Last + 1 : LoopFrom(p, k)
    <3>1. 1 \in 1 .. Last + 1
      BY StaffAssumption
    <3>2. Create(p) => at[p] + 1 \in 1 .. Last + 1
      BY WithinList DEF Create
    <3> QED BY <1>7, <3>1, <3>2 DEF Clear, Create
  <2> QED BY <1>2, <1>4, <1>7, <2>1
<1>8. CASE q = p /\ Connect(p)
  BY <1>8 DEF Connect, Goto, StaffTypeOK, AtTheEnd
<1> QED BY <1>1, <1>3, <1>4, <1>5, <1>6, <1>7, <1>8 DEF StepOf

\* After the last delete a reset finds none of the accounts it creates taken away.
LEMMA OwnWorkStep ==
  ASSUME StaffTypeOK, OwnWork, AtTheEnd, NEW p \in Process, StepOf(p)
  PROVE  OwnWork'
<1> DEFINE Done(q, k) == \E d \in employees : d.account = k /\ d.by = q
<1> SUFFICES ASSUME NEW q \in Reset, cleared' = q
             PROVE  /\ pc'[q] \in {"create", "report"} \/ outcome'[q] = "exit 0" =>
                         \A k \in Account : k < at'[q] => Done(q, k)'
                    /\ pc'[q] \in {"create", "report", "done"}
  BY DEF OwnWork
<1>0. q \in Process
  BY DEF Process
<1>1. CASE Clear(p)
  <2>1. q = p /\ p \notin Boot /\ LoopFrom(p, 1)
    BY <1>1, StaffAssumption DEF Clear, StaffTypeOK
  <2>2. at'[p] = 1 /\ pc'[p] \in {"create", "report"}
    BY <2>1 DEF LoopFrom, Goto, StaffTypeOK
  <2>3. \A k \in Account : ~(k < 1)
    BY StaffAssumption DEF Account
  <2> QED BY <2>1, <2>2, <2>3
<1>2. CASE Throw(p) /\ q = p
  <2>1. pc'[p] = "done" /\ outcome'[p] \in {"error", "exit 1"}
    BY <1>2 DEF Throw, Catch, Finish, StaffTypeOK
  <2> QED BY <1>2, <2>1
<1>3. CASE (Throw(p) /\ q # p) \/ (~Throw(p) /\ ~Clear(p))
  <2>1. cleared = q
    BY <1>3 DEF StepOf, Connect, Count, Find, Create, Duplicate, Report, Throw, Reached, Kill
  <2>2. pc[q] \in {"create", "report", "done"}
    BY <2>1 DEF OwnWork
  <2>3. \A k \in Account : Done(q, k) => Done(q, k)'
    <3>1. employees \subseteq employees'
      BY <1>3, <2>1 DEF StepOf, Connect, Count, Find, Create, Duplicate, Report, Throw, Reached, Kill
    <3> QED BY <3>1
  <2>4. CASE q # p
    <3>1. pc'[q] = pc[q] /\ at'[q] = at[q] /\ outcome'[q] = outcome[q]
      BY <1>0, <2>4, OthersStay
    <3> QED BY <2>1, <2>2, <2>3, <3>1 DEF OwnWork
  <2>5. CASE q = p /\ (Duplicate(p) \/ Kill(p))
    <3>1. pc'[p] = "done" /\ outcome'[p] \in {"error", "exit 1", "killed"}
      BY <2>5 DEF Duplicate, Kill, Catch, Finish, StaffTypeOK
    <3> QED BY <2>5, <3>1
  <2>6. CASE q = p /\ Report(p)
    <3>1. pc'[p] = "done" /\ at' = at /\ pc[p] = "report"
      BY <2>6 DEF Report, Finish, StaffTypeOK
    <3> QED BY <2>1, <2>3, <2>6, <3>1 DEF OwnWork
  <2>7. CASE q = p /\ Create(p)
    <3>1. /\ pc[p] = "create" /\ LoopFrom(p, at[p] + 1) /\ p \notin Boot
          /\ employees' = employees \cup {[ account |-> at[p], by |-> p ]}
      BY <2>7, StaffAssumption DEF Create
    <3>2. at'[p] = at[p] + 1 /\ pc'[p] \in {"create", "report"}
      BY <3>1 DEF LoopFrom, Goto, StaffTypeOK
    <3>3. \A k \in Account : k < at[p] => \E d \in employees' : d.account = k /\ d.by = p
      <4>1. \A k \in Account : k < at[q] => \E d \in employees : d.account = k /\ d.by = q
        BY <2>1, <2>2, <2>7, <3>1 DEF OwnWork
      <4>2. employees \subseteq employees'
        BY <3>1
      <4> QED BY <2>7, <4>1, <4>2
    <3>4. \E d \in employees' : d.account = at[p] /\ d.by = p
      <4>1. PICK new : new = [ account |-> at[p], by |-> p ]
        OBVIOUS
      <4>2. new \in employees' /\ new.account = at[p] /\ new.by = p
        BY <3>1, <4>1
      <4> QED BY <4>2
    <3>5. \A k \in Account : k < at[p] + 1 => k < at[p] \/ k = at[p]
      BY <3>1, WithinList DEF Account
    <3> QED BY <2>7, <3>2, <3>3, <3>4, <3>5
  <2>8. CASE q = p /\ (Connect(p) \/ Count(p) \/ Find(p))
    BY <2>2, <2>8 DEF Connect, Count, Find
  <2> QED BY <1>3, <2>4, <2>5, <2>6, <2>7, <2>8 DEF StepOf
<1> QED BY <1>1, <1>2, <1>3

-----------------------------------------------------------------------------
(* Alone *)

\* A process that is alone leaves no account missing behind it.
LEMMA AloneStep ==
  ASSUME StaffTypeOK, AloneIsAlone, NEW s \in Process, StepOf(s)
  PROVE  AloneIsAlone'
<1> SUFFICES ASSUME NEW p \in alone'
             PROVE  /\ Running(p)' => \A q \in Process \ {p} : ~Running(q)'
                    /\ p \in Boot /\ pc'[p] \in {"find", "create", "report"} =>
                         \A k \in Account : k < at'[p] => Exists(k)'
                    /\ p \in Boot /\ pc'[p] = "create" => Missing(at[p])'
  BY DEF AloneIsAlone
<1>1. p \in alone /\ p \in Process
  BY DEF StepOf, Connect, Count, Find, Clear, Create, Duplicate, Report, Throw, Kill, StaffTypeOK
<1>2. CASE s = p /\ Connect(s)
  <2>1. \A q \in Process : ~Running(q)
    BY <1>1, <1>2 DEF Connect
  <2>2. \A q \in Process \ {p} : ~Running(q)'
    BY <1>2, <2>1, OthersStay DEF Running
  <2>3. pc'[p] \in {"count", "clear"}
    BY <1>2 DEF Connect, Goto, StaffTypeOK
  <2> QED BY <2>2, <2>3
<1>3. CASE s = p /\ ~Connect(s)
  <2>1. Running(p)' => Running(p)
    BY <1>3 DEF StepOf, Count, Find, Clear, Create, Duplicate, Report, Throw, Kill,
                Catch, Finish, Running, StaffTypeOK
  <2>2. Running(p)' => \A q \in Process \ {p} : ~Running(q)'
    <3>1. Running(p)' => \A q \in Process \ {p} : ~Running(q)
      BY <1>1, <2>1 DEF AloneIsAlone
    <3> QED BY <1>3, <3>1, OthersStay DEF Running
  <2>3. CASE Duplicate(s) \/ Report(s) \/ Throw(s) \/ Kill(s)
    <3>1. pc'[p] = "done"
      BY <1>3, <2>3 DEF Duplicate, Report, Throw, Kill, Catch, Finish, StaffTypeOK
    <3> QED BY <2>2, <3>1
  <2>4. CASE Clear(s)
    BY <1>3, <2>2, <2>4, StaffAssumption DEF Clear, StaffTypeOK
  <2>5. CASE Count(s) /\ p \in Boot
    <3>1. pc'[p] = "done" \/ LoopFrom(p, 1)
      BY <1>3, <2>5 DEF Count, Finish, StaffTypeOK
    <3>2. LoopFrom(p, 1) => at'[p] = 1 /\ pc'[p] \in {"find", "report"}
      BY <1>1, <2>5 DEF LoopFrom, Goto, StaffTypeOK
    <3>3. \A k \in Account : ~(k < 1)
      BY StaffAssumption DEF Account
    <3> QED BY <2>2, <3>1, <3>2, <3>3
  <2>6. CASE Find(s) /\ p \in Boot
    <3>1. UNCHANGED employees /\ pc[p] = "find" /\ at[p] \in Account
      BY <1>1, <1>3, <2>6, WithinList DEF Find
    <3>2. \A k \in Account : k < at[p] => Exists(k)
      BY <1>1, <2>6, <3>1 DEF AloneIsAlone
    <3>3. CASE Exists(at[p])
      <4>1. at'[p] = at[p] + 1 /\ pc'[p] \in {"find", "report"}
        BY <1>1, <1>3, <2>6, <3>3 DEF Find, LoopFrom, Goto, StaffTypeOK
      <4>2. \A k \in Account : k < at[p] + 1 => k < at[p] \/ k = at[p]
        BY <3>1 DEF Account
      <4>3. \A k \in Account : k < at'[p] => Exists(k)
        BY <3>2, <3>3, <4>1, <4>2
      <4>4. \A k \in Account : k < at'[p] => Exists(k)'
        BY <3>1, <4>3 DEF Exists
      <4> QED BY <2>2, <4>1, <4>4
    <3>4. CASE ~Exists(at[p])
      <4>1. at'[p] = at[p]
        BY <1>1, <1>3, <2>6, <3>4 DEF Find
      <4>2. \A k \in Account : k < at'[p] => Exists(k)'
        BY <3>1, <3>2, <4>1 DEF Exists
      <4>3. Missing(at[p])'
        BY <3>1, <3>4, <4>1 DEF Missing, Exists
      <4> QED BY <2>2, <4>2, <4>3
    <3> QED BY <3>3, <3>4
  <2>7. CASE Create(s) /\ p \in Boot
    <3>1. pc[p] = "create" /\ at[p] \in Account
      BY <1>1, <1>3, <2>7, WithinList DEF Create
    <3>2. \A k \in Account : k < at[p] => Exists(k)
      BY <1>1, <2>7, <3>1 DEF AloneIsAlone
    <3>3. at'[p] = at[p] + 1 /\ pc'[p] \in {"find", "report"}
      BY <1>1, <1>3, <2>7 DEF Create, LoopFrom, Goto, StaffTypeOK
    <3>4. \A k \in Account : Exists(k)' <=> (Exists(k) \/ k = at[p])
      BY <1>1, <1>3, <2>7, Created DEF Create
    <3>5. \A k \in Account : k < at[p] + 1 => k < at[p] \/ k = at[p]
      BY <3>1 DEF Account
    <3> QED BY <2>2, <3>2, <3>3, <3>4, <3>5
  <2>8. CASE p \notin Boot
    BY <2>2, <2>8
  <2> QED BY <1>3, <2>3, <2>4, <2>5, <2>6, <2>7, <2>8 DEF StepOf
<1>4. CASE s # p
  <2>1. pc'[p] = pc[p] /\ at'[p] = at[p]
    BY <1>1, <1>4, OthersStay
  <2>2. CASE ~Running(p)
    BY <2>1, <2>2 DEF Running
  <2>3. CASE Running(p)
    <3>1. \A q \in Process \ {p} : ~Running(q)
      BY <1>1, <2>3 DEF AloneIsAlone
    <3>2. pc[s] \in {"idle", "done"}
      BY <1>4, <3>1 DEF Running
    <3>3. ~Connect(s)
      BY <1>1, <2>3 DEF Connect
    <3>4. Throw(s)
      BY <3>2, <3>3 DEF StepOf, Count, Find, Clear, Create, Duplicate, Report, Kill, Running
    <3>5. UNCHANGED employees /\ pc'[s] = "done"
      BY <3>2, <3>4 DEF Throw, Reached, Catch, Finish, StaffTypeOK
    <3>6. \A q \in Process \ {p} : ~Running(q)'
      BY <1>4, <3>1, <3>5, OthersStay DEF Running
    <3> QED BY <1>1, <2>1, <3>5, <3>6 DEF AloneIsAlone, Exists, Missing
  <2> QED BY <2>2, <2>3
<1> QED BY <1>2, <1>3, <1>4

-----------------------------------------------------------------------------
(* The theorems *)

\* No process has begun at first.
LEMMA StaffInvInit == Init => StaffInv
<1> SUFFICES ASSUME Init PROVE StaffInv
  OBVIOUS
<1>1. \A p \in Process : pc[p] = "idle" /\ outcome[p] = "none"
  BY DEF Init
<1>2. \A d \in employees : d.by = Before
  BY DEF Init
<1>3. cleared = Before /\ Before \notin Reset
  BY StaffAssumption DEF Init
<1>4. NothingOld /\ AuthorsRan /\ HeirForMissing
  BY <1>1, <1>2 DEF NothingOld, AuthorsRan, HeirForMissing, Process
<1>5. OwnWork /\ AtTheEnd
  BY <1>1, <1>3 DEF OwnWork, AtTheEnd
<1>6. AloneIsAlone
  BY <1>1 DEF AloneIsAlone, Running, Init
<1> QED BY TypedInit, <1>4, <1>5, <1>6 DEF StaffInv

\* The lemmas of the parts together.
LEMMA StaffInvStep == StaffInv /\ [Next]_vars => StaffInv'
<1>1. StaffInv /\ Next => StaffInv'
  <2> SUFFICES ASSUME StaffInv, NEW p \in Process, StepOf(p), Next PROVE StaffInv'
    BY DEF Next, StepOf
  <2> USE DEF StaffInv
  <2> QED BY TypedStep, NothingOldStep, AuthorsStep, HeirStep, OwnWorkStep, AtTheEndStep, AloneStep
<1>2. StaffInv /\ UNCHANGED vars => StaffInv'
  <2> SUFFICES ASSUME StaffInv, UNCHANGED vars PROVE StaffInv'
    OBVIOUS
  <2>1. StaffTypeOK'
    BY DEF vars, StaffInv, StaffTypeOK
  <2>2. NothingOld' /\ AuthorsRan'
    BY DEF vars, StaffInv, NothingOld, AuthorsRan
  <2>3. HeirForMissing'
    BY DEF vars, StaffInv, HeirForMissing, New, Heir, Missing, Exists
  <2>4. OwnWork' /\ AtTheEnd'
    BY DEF vars, StaffInv, OwnWork, AtTheEnd
  <2>5. AloneIsAlone'
    BY DEF vars, StaffInv, AloneIsAlone, Running, Missing, Exists
  <2> QED BY <2>1, <2>2, <2>3, <2>4, <2>5 DEF StaffInv
<1> QED BY <1>1, <1>2

\* The invariant holds however starts and resets cross.
LEMMA StaffInvariant == Spec => []StaffInv
BY StaffInvInit, StaffInvStep, PTL DEF Spec

\* However many starts and resets cross, if no fault strikes any of them all
\* accounts are there when the last has ended.
THEOREM StaffIsFull == Spec => []FullStaffAtTheEnd
<1>1. StaffInv => FullStaffAtTheEnd
  <2> SUFFICES ASSUME StaffInv, faulted = {}, \A p \in Process : ~Running(p),
                      \E p \in Process : pc[p] = "done", NEW k \in Account, Missing(k)
               PROVE  FALSE
    BY DEF FullStaffAtTheEnd, FullStaff, Missing
  <2>1. 0 \in 0 .. k - 1
    BY StaffAssumption DEF Account
  <2>2. PICK h \in Process : Heir(h, 0, k)
    BY <2>1 DEF StaffInv, HeirForMissing
  <2> QED BY <2>2 DEF Heir, Running
<1> QED BY StaffInvariant, <1>1, PTL

\* A reset that reports success has replaced every account.
THEOREM ResetReplaces == Spec => []ResetReplacesAll
<1>1. StaffInv => ResetReplacesAll
  <2> SUFFICES ASSUME StaffInv, NEW p \in Reset, outcome[p] = "exit 0", cleared = p
               PROVE  FullStaff /\ \A d \in employees : d.by = p
    BY DEF ResetReplacesAll
  <2>1. p \in Process
    BY DEF Process
  <2>2. at[p] = Last + 1
    BY <2>1 DEF StaffInv, AtTheEnd
  <2>3. \A k \in Account : k < at[p]
    BY <2>2, BeforeTheEnd
  <2>4. \A k \in Account : \E d \in employees : d.account = k /\ d.by = p
    BY <2>3 DEF StaffInv, OwnWork
  <2>5. FullStaff
    BY <2>4 DEF FullStaff, Exists
  <2>6. ASSUME NEW d \in employees PROVE d.by = p
    <3>1. d.account \in Account
      BY DEF StaffInv, StaffTypeOK, Document
    <3>2. PICK e \in employees : e.account = d.account /\ e.by = p
      BY <2>4, <3>1
    <3> QED BY <3>2 DEF StaffInv, StaffTypeOK
  <2> QED BY <2>5, <2>6
<1> QED BY StaffInvariant, <1>1, PTL

\* A start that runs alone and meets no fault leaves the staff complete.
THEOREM StartRepairsStaff == Spec => StartRepairs
<1>1. StaffInv /\ [Next]_vars =>
        [\A p \in Boot : pc[p] # "done" /\ pc'[p] = "done" /\ p \in alone /\ p \notin faulted' =>
           FullStaff']_vars
  <2> SUFFICES ASSUME StaffInv, Next, NEW p \in Boot, pc[p] # "done", pc'[p] = "done",
                      p \in alone, p \notin faulted'
               PROVE  FullStaff'
    BY DEF vars
  <2>1. PICK s \in Process : StepOf(s)
    BY DEF Next, StepOf
  <2>2. StaffTypeOK /\ p \in Process
    BY DEF StaffInv, Process
  <2>3. s = p
    BY <2>1, <2>2, OthersStay
  <2>4. Count(p) \/ Duplicate(p) \/ Report(p)
    <3>1. ~Throw(p) /\ ~Kill(p)
      BY DEF Throw, Kill
    <3>2. ~Connect(p) /\ ~Find(p) /\ ~Clear(p) /\ ~Create(p)
      BY <2>2 DEF Connect, Find, Clear, Create, LoopFrom, Goto, StaffTypeOK
    <3> QED BY <2>1, <2>3, <3>1, <3>2 DEF StepOf
  <2>5. FullStaff
    <3>1. CASE Count(p)
      <4>1. ~LoopFrom(p, 1)
        BY <2>2 DEF LoopFrom, Goto, StaffTypeOK
      <4>2. Cardinality(employees) >= Last
        BY <3>1, <4>1 DEF Count
      <4> QED BY <2>2, <4>2, EnoughIsAll DEF StaffTypeOK
    <3>2. CASE Duplicate(p)
      BY <3>2 DEF Duplicate, StaffInv, AloneIsAlone, Missing
    <3>3. CASE Report(p)
      <4>1. pc[p] = "report"
        BY <3>3 DEF Report
      <4>2. at[p] = Last + 1
        BY <2>2, <4>1 DEF StaffInv, AtTheEnd
      <4>3. \A k \in Account : k < at[p]
        BY <4>2, BeforeTheEnd
      <4> QED BY <4>1, <4>3 DEF StaffInv, AloneIsAlone, FullStaff
    <3> QED BY <2>4, <3>1, <3>2, <3>3
  <2>6. UNCHANGED employees
    BY <2>4 DEF Count, Duplicate, Report
  <2> QED BY <2>5, <2>6 DEF FullStaff, Exists
<1> QED BY StaffInvariant, <1>1, PTL DEF Spec, StartRepairs
=============================================================================
