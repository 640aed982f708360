--------------------------- MODULE EmployeeSeeding ---------------------------
(***************************************************************************)
(* The two programs that write the Employee collection: a server that      *)
(* starts (connectDB of server/config/database.js, and the                 *)
(* initializeEmployeeAccounts of server/utils/seedData.js it calls) and    *)
(* the script server/utils/resetEmployeePasswords.js.  Each is a process   *)
(* of its own, and servers may be started side by side.                    *)
(*                                                                         *)
(* Both walk the same list of accounts in order.  An account's e-mail and  *)
(* employee id belong together, so the two unique indexes are one: no two  *)
(* documents have one account.  Names, passwords and permissions are fixed *)
(* by the account; what is told apart of a document is who wrote it.       *)
(***************************************************************************)
EXTENDS Naturals, FiniteSets

CONSTANTS
  Boot,       \* the starts of a server
  Reset,      \* the runs of the reset script
  Last,       \* how many accounts employeeAccounts lists (five)
  Before,     \* the author of documents that were there at the beginning
  Faults      \* TRUE: a database call may throw and a process may be killed

ASSUME StaffAssumption ==
  /\ Boot \cap Reset = {}
  /\ Before \notin Boot \cup Reset
  /\ Last \in Nat \ {0}
  /\ Faults \in BOOLEAN

Process == Boot \cup Reset
Account == 1 .. Last

VARIABLES
  employees,  \* the Employee collection: who wrote the document of an account
  pc,         \* what each process awaits
  at,         \* the account its loop is at
  outcome,    \* how it ended: the exit code of a reset, whether a start seeded
  faulted,    \* history: the processes that a fault struck
  cleared,    \* history: the last process that deleted all documents
  alone       \* history: the processes beside which nothing else has run

vars == <<employees, pc, at, outcome, faulted, cleared, alone>>

-----------------------------------------------------------------------------
(* The collection *)

Document == [ account : Account, by : Process \cup {Before} ]

Exists(k) == \E d \in employees : d.account = k
Missing(k) == ~Exists(k)

Running(p) == pc[p] \notin {"idle", "done"}

Goto(p, next) == pc' = [pc EXCEPT ![p] = next] /\ UNCHANGED outcome

Finish(p, result) ==
  /\ pc' = [pc EXCEPT ![p] = "done"]
  /\ outcome' = [outcome EXCEPT ![p] = result]

\* The loop of a start looks for the next account, that of a reset hashes its
\* password and creates it; behind the last account both count what they wrote.
LoopFrom(p, k) ==
  /\ at' = [at EXCEPT ![p] = k]
  /\ Goto(p, IF k > Last THEN "report" ELSE IF p \in Boot THEN "find" ELSE "create")

-----------------------------------------------------------------------------
(* One action per await *)

\* The connection is made; nothing keeps a start and a reset apart.
Connect(p) ==
  /\ pc[p] = "idle"
  /\ Goto(p, IF p \in Boot THEN "count" ELSE "clear")
  /\ alone' = IF \E q \in Process : Running(q)
              THEN alone \ ({p} \cup {q \in Process : Running(q)}) ELSE alone
  /\ UNCHANGED <<employees, at, faulted, cleared>>

\* Mutant: any employee is taken for all of them.
CountAny(p) ==
  /\ pc[p] = "count"
  /\ IF employees # {}
     THEN Finish(p, "present") /\ UNCHANGED at
     ELSE LoopFrom(p, 1)
  /\ UNCHANGED <<employees, faulted, cleared, alone>>

\* Employee.countDocuments() >= 5
Count(p) ==
  /\ pc[p] = "count"
  /\ IF Cardinality(employees) >= Last
     THEN Finish(p, "present") /\ UNCHANGED at
     ELSE LoopFrom(p, 1)
  /\ UNCHANGED <<employees, faulted, cleared, alone>>

\* Mutant: an existing account ends the loop, as existing employees do.
FindEnds(p) ==
  /\ pc[p] = "find"
  /\ IF Exists(at[p])
     THEN Finish(p, "present") /\ UNCHANGED at
     ELSE Goto(p, "create") /\ UNCHANGED at
  /\ UNCHANGED <<employees, faulted, cleared, alone>>

\* Employee.findOne({ email }); an existing account is passed over.
Find(p) ==
  /\ pc[p] = "find"
  /\ IF Exists(at[p])
     THEN LoopFrom(p, at[p] + 1)
     ELSE Goto(p, "create") /\ UNCHANGED at
  /\ UNCHANGED <<employees, faulted, cleared, alone>>

\* Employee.deleteMany({})
Clear(p) ==
  /\ pc[p] = "clear"
  /\ employees' = {}
  /\ cleared' = p
  /\ LoopFrom(p, 1)
  /\ UNCHANGED <<faulted, alone>>

\* Employee.create after argon2.hash.
Create(p) ==
  /\ pc[p] = "create"
  /\ Missing(at[p])
  /\ employees' = employees \cup {[ account |-> at[p], by |-> p ]}
  /\ LoopFrom(p, at[p] + 1)
  /\ UNCHANGED <<faulted, cleared, alone>>

\* The catch around either loop: a start goes on to serve, a reset exits with 1.
Catch(p) == Finish(p, IF p \in Boot THEN "error" ELSE "exit 1")

\* Mutant: a duplicate is caught inside the loop.
PassOver(p) ==
  /\ pc[p] = "create"
  /\ Exists(at[p])
  /\ LoopFrom(p, at[p] + 1)
  /\ UNCHANGED <<employees, faulted, cleared, alone>>

\* Another process has created the account: the index refuses the document, and
\* the rest of the list is not come to.
Duplicate(p) ==
  /\ pc[p] = "create"
  /\ Exists(at[p])
  /\ Catch(p)
  /\ UNCHANGED <<employees, at, faulted, cleared, alone>>

\* The closing countDocuments, and a reset's exit with 0.
Report(p) ==
  /\ pc[p] = "report"
  /\ Finish(p, IF p \in Boot THEN "seeded" ELSE "exit 0")
  /\ UNCHANGED <<employees, at, faulted, cleared, alone>>

-----------------------------------------------------------------------------
(* Faults *)

\* What a call that throws may nevertheless have done.
Reached(p) ==
  \/ UNCHANGED <<employees, cleared>>
  \/ pc[p] = "clear" /\ employees' = {} /\ cleared' = p
  \/ /\ pc[p] = "create" /\ Missing(at[p])
     /\ employees' = employees \cup {[ account |-> at[p], by |-> p ]}
     /\ UNCHANGED cleared

\* A call throws, the one that connects included ("running without database").
Throw(p) ==
  /\ Faults
  /\ pc[p] # "done"
  /\ Reached(p)
  /\ Catch(p)
  /\ faulted' = faulted \cup {p}
  /\ UNCHANGED <<at, alone>>

\* The process is killed, or interrupted: the handler of SIGINT closes the
\* connection and exits without waiting for the loop.
Kill(p) ==
  /\ Faults
  /\ Running(p)
  /\ Finish(p, "killed")
  /\ faulted' = faulted \cup {p}
  /\ UNCHANGED <<employees, at, cleared, alone>>

-----------------------------------------------------------------------------

\* The database may hold what an earlier interrupted start or reset left.
Init ==
  /\ \E present \in SUBSET Account :
       employees = { [ account |-> k, by |-> Before ] : k \in present }
  /\ pc = [p \in Process |-> "idle"]
  /\ at = [p \in Process |-> 1]
  /\ outcome = [p \in Process |-> "none"]
  /\ faulted = {}
  /\ cleared = Before
  /\ alone = Process

Next ==
  \E p \in Process :
    \/ Connect(p) \/ Count(p) \/ Find(p) \/ Clear(p) \/ Create(p)
    \/ Duplicate(p) \/ Report(p) \/ Throw(p) \/ Kill(p)

Spec == Init /\ [][Next]_vars
=============================================================================
