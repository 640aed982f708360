---------------------------- MODULE LoginLockout ----------------------------
(***************************************************************************)
(* The two login handlers of server/routes/auth.js over the lockout store  *)
(* of server/middleware/accountLockout.js.                                 *)
(*                                                                         *)
(* The store is two maps in the memory of the process, keyed by e-mail and *)
(* shared by both handlers; an absent attempts entry and one of zeros are  *)
(* the same to every reader, and so are an absent lockout and zeros.  The  *)
(* store's functions never await; the handlers do, so logins for one       *)
(* e-mail overlap between the lockout check and the count.                 *)
(*                                                                         *)
(* Time passes in units that divide the durations of LOCKOUT_CONFIG.       *)
(* Abstracted: passwords (a verification comes out either way), tokens,    *)
(* cookies, the addresses kept with an attempt, last-login dates.          *)
(***************************************************************************)
EXTENDS Naturals

CONSTANTS
  Email,            \* the keys of the store
  Customer,         \* those with a customer document
  Employee,         \* those with an employee document
  Suspended,        \* documents whose status is not active
  Request,          \* the login requests of a behaviour: each is handled once
  NoEmail,          \* the e-mail of a request that has not arrived
  MaxAttempts,      \* LOCKOUT_CONFIG.MAX_ATTEMPTS
  LockoutDuration,  \* LOCKOUT_CONFIG.LOCKOUT_DURATION
  Multiplier,       \* LOCKOUT_CONFIG.LOCKOUT_MULTIPLIER
  Day,              \* 24 hours
  MaxTime,          \* the bound on the clock of a behaviour
  Faults            \* TRUE: database calls may fail and the server may restart

ASSUME LockoutAssumption ==
  /\ Customer \subseteq Email /\ Employee \subseteq Email /\ Suspended \subseteq Email
  /\ NoEmail \notin Email
  /\ MaxAttempts \in Nat \ {0} /\ LockoutDuration \in Nat \ {0}
  /\ Multiplier \in Nat \ {0} /\ Day \in Nat \ {0} /\ MaxTime \in Nat
  /\ LockoutDuration <= Day
  /\ Faults \in BOOLEAN

VARIABLES
  now,          \* Date.now()
  count,        \* accountAttempts: failures since the last lockout or success
  lockoutCount, \* accountAttempts: lockouts so far
  lastAttempt,  \* accountAttempts: the time of the last failure
  lockedAt,     \* accountLockouts
  unlockAt,     \* accountLockouts: zero when the account has none
  stored,       \* Customer.failedLoginAttempts
  pc,           \* what each handler awaits
  task,         \* what each handler was sent, and the counter it has read
  code,         \* the status code each request was answered with
  strikes       \* history: the requests counted as failures since the start

store == <<count, lockoutCount, lastAttempt, lockedAt, unlockAt, strikes>>
vars == <<now, count, lockoutCount, lastAttempt, lockedAt, unlockAt,
          stored, pc, task, code, strikes>>

-----------------------------------------------------------------------------
(* The lockout store *)

Locked(e) == now < unlockAt[e]

\* Mutant: the duration is not multiplied by a power of the lockouts so far.
DurationHalving(n) == IF n = 0 THEN LockoutDuration * Multiplier ELSE LockoutDuration

\* LOCKOUT_DURATION * Math.pow(LOCKOUT_MULTIPLIER, n)
Lengthened[n \in Nat] == IF n = 0 THEN LockoutDuration ELSE Multiplier * Lengthened[n - 1]

\* The duration of the lockout after n earlier ones, at most 24 hours (the code
\* caps the later ones only; the first is within the cap by assumption).
Duration(n) == IF Lengthened[n] \in 0 .. Day THEN Lengthened[n] ELSE Day

\* Mutant: a lockout leaves the counter where it is.
TrackWithoutReset(r, e) ==
  /\ strikes' = strikes \cup {r}
  /\ lastAttempt' = [lastAttempt EXCEPT ![e] = now]
  /\ count' = [count EXCEPT ![e] = IF count[e] + 1 < MaxAttempts THEN count[e] + 1 ELSE count[e]]
  /\ IF count[e] + 1 >= MaxAttempts
     THEN /\ lockoutCount' = [lockoutCount EXCEPT ![e] = lockoutCount[e] + 1]
          /\ lockedAt' = [lockedAt EXCEPT ![e] = now]
          /\ unlockAt' = [unlockAt EXCEPT ![e] = now + Duration(lockoutCount[e])]
     ELSE UNCHANGED <<lockoutCount, lockedAt, unlockAt>>

\* trackFailedAttempt and the lockoutAccount it calls.
TrackFailedAttempt(r, e) ==
  /\ strikes' = strikes \cup {r}
  /\ lastAttempt' = [lastAttempt EXCEPT ![e] = now]
  /\ IF count[e] + 1 >= MaxAttempts
     THEN /\ count' = [count EXCEPT ![e] = 0]
          /\ lockoutCount' = [lockoutCount EXCEPT ![e] = lockoutCount[e] + 1]
          /\ lockedAt' = [lockedAt EXCEPT ![e] = now]
          /\ unlockAt' = [unlockAt EXCEPT ![e] = now + Duration(lockoutCount[e])]
     ELSE /\ count' = [count EXCEPT ![e] = count[e] + 1]
          /\ UNCHANGED <<lockoutCount, lockedAt, unlockAt>>

\* resetFailedAttempts: the counter only; lockouts so far, and one in force, stay.
ResetFailedAttempts(e) ==
  /\ count' = [count EXCEPT ![e] = 0]
  /\ UNCHANGED <<lockoutCount, lastAttempt, lockedAt, unlockAt, strikes>>

\* Mutant: nothing counted is taken for idle, whenever the last attempt was.
IdleWhenZero(e) == count[e] = 0

\* Attempts of more than 24 hours ago with nothing counted.
Idle(e) == count[e] = 0 /\ now > lastAttempt[e] + Day

\* cleanupExpiredEntries, every hour.
CleanUp ==
  /\ \E e \in Email : (unlockAt[e] # 0 /\ ~Locked(e)) \/ (lastAttempt[e] # 0 /\ Idle(e))
  /\ lockedAt' = [e \in Email |-> IF Locked(e) THEN lockedAt[e] ELSE 0]
  /\ unlockAt' = [e \in Email |-> IF Locked(e) THEN unlockAt[e] ELSE 0]
  /\ lockoutCount' = [e \in Email |-> IF Idle(e) THEN 0 ELSE lockoutCount[e]]
  /\ lastAttempt' = [e \in Email |-> IF Idle(e) THEN 0 ELSE lastAttempt[e]]
  /\ UNCHANGED <<now, count, stored, pc, task, code, strikes>>

-----------------------------------------------------------------------------
(* The login handlers *)

Answer(r, c) ==
  /\ pc' = [pc EXCEPT ![r] = "done"]
  /\ code' = [code EXCEPT ![r] = c]

Await(r, next) == pc' = [pc EXCEPT ![r] = next] /\ UNCHANGED code

\* checkAccountLockout lets the request through, forgetting a lockout that is
\* over; the handler then awaits findOne.
Arrive(r, e, route) ==
  /\ pc[r] = "idle"
  /\ ~Locked(e)
  /\ lockedAt' = [lockedAt EXCEPT ![e] = 0]
  /\ unlockAt' = [unlockAt EXCEPT ![e] = 0]
  /\ task' = [task EXCEPT ![r] = [email |-> e, route |-> route, held |-> 0]]
  /\ Await(r, "find")
  /\ UNCHANGED <<now, count, lockoutCount, lastAttempt, stored, strikes>>

TurnAway(r, e) ==
  /\ pc[r] = "idle"
  /\ Locked(e)
  /\ Answer(r, "423")
  /\ UNCHANGED <<now, store, stored, task>>

Documents(route) == IF route = "customer" THEN Customer ELSE Employee

FindNobody(r) ==
  /\ pc[r] = "find"
  /\ task[r].email \notin Documents(task[r].route)
  /\ TrackFailedAttempt(r, task[r].email)
  /\ Answer(r, "401")
  /\ UNCHANGED <<now, stored, task>>

FindSuspended(r) ==
  /\ pc[r] = "find"
  /\ task[r].email \in Documents(task[r].route) \cap Suspended
  /\ Answer(r, "403")
  /\ UNCHANGED <<now, store, stored, task>>

\* The document is in the handler's hands, its counter included; the handler
\* awaits argon2.verify.
Find(r) ==
  /\ pc[r] = "find"
  /\ task[r].email \in Documents(task[r].route) \ Suspended
  /\ task' = [task EXCEPT ![r] = [ email |-> task[r].email, route |-> task[r].route,
                                   held |-> stored[task[r].email] ]]
  /\ Await(r, "verify")
  /\ UNCHANGED <<now, store, stored>>

\* Mutant: the stored counter is incremented in the database, twice on a retry.
CountFailureTwice(r) == stored' = [stored EXCEPT ![task[r].email] = stored[task[r].email] + 2]

\* incrementFailedLogins: one more than the counter that was read.
CountFailure(r) == stored' = [stored EXCEPT ![task[r].email] = task[r].held + 1]

\* resetFailedLogins: a path that is not modified is not written, so a counter
\* read as zero stays as others have left it.
ClearFailures(r) ==
  stored' = [stored EXCEPT ![task[r].email] =
               IF task[r].held = 0 THEN stored[task[r].email] ELSE 0]

\* A customer's wrong password is first written to the document ...
WrongPassword(r) ==
  /\ pc[r] = "verify" /\ task[r].route = "customer"
  /\ CountFailure(r)
  /\ Await(r, "track")
  /\ UNCHANGED <<now, store, task>>

\* ... and then counted in memory; an employee's is counted at once.
Strike(r) ==
  /\ pc[r] = "track" \/ (pc[r] = "verify" /\ task[r].route = "employee")
  /\ TrackFailedAttempt(r, task[r].email)
  /\ Answer(r, IF lockoutCount' = lockoutCount THEN "401" ELSE "423")
  /\ UNCHANGED <<now, stored, task>>

\* A customer's success clears the document, then the memory.
RightPassword(r) ==
  /\ pc[r] = "verify" /\ task[r].route = "customer"
  /\ ClearFailures(r)
  /\ Await(r, "welcome")
  /\ UNCHANGED <<now, store, task>>

Welcome(r) ==
  /\ pc[r] = "welcome"
  /\ ResetFailedAttempts(task[r].email)
  /\ Answer(r, "200")
  /\ UNCHANGED <<now, stored, task>>

\* An employee's success clears the memory, then awaits the save of lastLogin.
RightEmployeePassword(r) ==
  /\ pc[r] = "verify" /\ task[r].route = "employee"
  /\ ResetFailedAttempts(task[r].email)
  /\ Await(r, "stamp")
  /\ UNCHANGED <<now, stored, task>>

Stamp(r) ==
  /\ pc[r] = "stamp"
  /\ Answer(r, "200")
  /\ UNCHANGED <<now, store, stored, task>>

\* A database call throws: the answer is 500 and what follows it in the handler
\* is not done.  The update of a save that threw may have reached the database.
Fail(r) ==
  /\ Faults
  /\ \/ pc[r] \in {"find", "verify", "stamp"} /\ UNCHANGED stored
     \/ pc[r] = "verify" /\ task[r].route = "customer" /\ (CountFailure(r) \/ ClearFailures(r))
  /\ Answer(r, "500")
  /\ UNCHANGED <<now, store, task>>

-----------------------------------------------------------------------------
(* Time and the process *)

Tick ==
  /\ now < MaxTime
  /\ now' = now + 1
  /\ UNCHANGED <<store, stored, pc, task, code>>

\* The process is started again: the maps are empty, the database is as it was.
Restart ==
  /\ Faults
  /\ strikes # {} \/ \E r \in Request : pc[r] \notin {"idle", "done"}
  /\ count' = [e \in Email |-> 0] /\ lockoutCount' = [e \in Email |-> 0]
  /\ lastAttempt' = [e \in Email |-> 0]
  /\ lockedAt' = [e \in Email |-> 0] /\ unlockAt' = [e \in Email |-> 0]
  /\ strikes' = {}
  /\ pc' = [r \in Request |-> IF pc[r] = "idle" THEN "idle" ELSE "done"]
  /\ UNCHANGED <<now, stored, task, code>>

Init ==
  /\ now = 1
  /\ count = [e \in Email |-> 0] /\ lockoutCount = [e \in Email |-> 0]
  /\ lastAttempt = [e \in Email |-> 0]
  /\ lockedAt = [e \in Email |-> 0] /\ unlockAt = [e \in Email |-> 0]
  /\ stored = [e \in Email |-> 0]
  /\ pc = [r \in Request |-> "idle"]
  /\ task = [r \in Request |-> [email |-> NoEmail, route |-> "customer", held |-> 0]]
  /\ code = [r \in Request |-> "none"]
  /\ strikes = {}

Next ==
  \/ \E r \in Request, e \in Email, route \in {"customer", "employee"} : Arrive(r, e, route)
  \/ \E r \in Request, e \in Email : TurnAway(r, e)
  \/ \E r \in Request : FindNobody(r)
  \/ \E r \in Request : FindSuspended(r)
  \/ \E r \in Request : Find(r)
  \/ \E r \in Request : WrongPassword(r)
  \/ \E r \in Request : Strike(r)
  \/ \E r \in Request : RightPassword(r)
  \/ \E r \in Request : Welcome(r)
  \/ \E r \in Request : RightEmployeePassword(r)
  \/ \E r \in Request : Stamp(r)
  \/ \E r \in Request : Fail(r)
  \/ CleanUp
  \/ Tick
  \/ Restart

Spec == Init /\ [][Next]_vars
=============================================================================
