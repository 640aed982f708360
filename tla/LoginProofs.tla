---------------------------- MODULE LoginProofs ----------------------------
(***************************************************************************)
(* Proofs about LoginLockout for every set of accounts and requests and    *)
(* every lockout configuration that LockoutAssumption admits.              *)
(***************************************************************************)
EXTENDS LoginProperties, FiniteSetTheorems, TLAPS

\* Durations are cut off at a day.
LEMMA Capped ==
  ASSUME NEW d
  PROVE  (IF d \in 0 .. Day THEN d ELSE Day) \in 0 .. Day
BY LockoutAssumption

\* A lockout lasts at most a day.
LEMMA DurationBound ==
  ASSUME NEW n
  PROVE  Duration(n) \in 0 .. Day
BY Capped, Zenon DEF Duration

-----------------------------------------------------------------------------
(* Type correctness *)

\* Counting a failure keeps the store in shape: this is where the counter meets
\* the threshold.
LEMMA TrackTyped ==
  ASSUME TypeOK, NEW r \in Request, NEW e, TrackFailedAttempt(r, e)
  PROVE  /\ count' \in [Email -> 0 .. (MaxAttempts - 1)]
         /\ lockoutCount' \in [Email -> Nat] /\ lastAttempt' \in [Email -> 0 .. now]
         /\ lockedAt' \in [Email -> 0 .. now] /\ unlockAt' \in [Email -> Nat]
         /\ strikes' \subseteq Request
<1>0. now \in Nat
  BY LockoutAssumption DEF TypeOK
<1>1. lastAttempt' \in [Email -> 0 .. now] /\ strikes' \subseteq Request
  <2>1. /\ lastAttempt' = [lastAttempt EXCEPT ![e] = now]
        /\ strikes' = strikes \cup {r}
    BY DEF TrackFailedAttempt
  <2>2. now \in 0 .. now
    BY <1>0
  <2>3. lastAttempt \in [Email -> 0 .. now] /\ strikes \subseteq Request
    BY DEF TypeOK
  <2> QED BY <2>1, <2>2, <2>3
<1>2. Duration(lockoutCount[e]) \in Nat
  BY DurationBound, LockoutAssumption
<1>3. CASE count[e] + 1 >= MaxAttempts
  <2>1. /\ count' = [count EXCEPT ![e] = 0]
        /\ lockoutCount' = [lockoutCount EXCEPT ![e] = lockoutCount[e] + 1]
        /\ lockedAt' = [lockedAt EXCEPT ![e] = now]
        /\ unlockAt' = [unlockAt EXCEPT ![e] = now + Duration(lockoutCount[e])]
    BY <1>3 DEF TrackFailedAttempt
  <2>2. 0 \in 0 .. (MaxAttempts - 1) /\ now \in 0 .. now
    BY <1>0, LockoutAssumption
  <2>3. \A x \in Email : x = e => /\ lockoutCount[e] + 1 \in Nat
                                  /\ now + Duration(lockoutCount[e]) \in Nat
    BY <1>0, <1>2 DEF TypeOK
  <2> QED BY <1>1, <2>1, <2>2, <2>3 DEF TypeOK
<1>4. CASE ~(count[e] + 1 >= MaxAttempts)
  <2>1. /\ count' = [count EXCEPT ![e] = count[e] + 1]
        /\ UNCHANGED <<lockoutCount, lockedAt, unlockAt>>
    BY <1>4 DEF TrackFailedAttempt
  <2>2. \A x \in Email : count'[x] \in 0 .. (MaxAttempts - 1)
    BY <1>4, <2>1, LockoutAssumption DEF TypeOK
  <2> QED BY <1>1, <2>1, <2>2 DEF TypeOK
<1> QED BY <1>3, <1>4

\* A reset counter is below the threshold.
LEMMA ResetTyped ==
  ASSUME TypeOK, NEW e, ResetFailedAttempts(e)
  PROVE  count' \in [Email -> 0 .. (MaxAttempts - 1)]
<1>1. 0 \in 0 .. (MaxAttempts - 1)
  BY LockoutAssumption
<1> QED BY <1>1 DEF TypeOK, ResetFailedAttempts

\* The clock, the store, the documents and the handlers, each typed.
ClockTyped == now \in 1 .. (MaxTime + 1)

StoreTyped ==
  /\ count \in [Email -> 0 .. (MaxAttempts - 1)]
  /\ lockoutCount \in [Email -> Nat] /\ lastAttempt \in [Email -> 0 .. now]
  /\ lockedAt \in [Email -> 0 .. now] /\ unlockAt \in [Email -> Nat]
  /\ strikes \subseteq Request

HandlersTyped ==
  /\ stored \in [Email -> Nat]
  /\ pc \in [Request -> {"idle", "find", "verify", "track", "welcome", "stamp", "done"}]
  /\ task \in [Request -> [ email : Email \cup {NoEmail},
                            route : {"customer", "employee"}, held : Nat ]]
  /\ code \in [Request -> {"none", "200", "401", "403", "423", "500"}]

\* The type invariant by parts.
LEMMA TypeParts == TypeOK <=> ClockTyped /\ StoreTyped /\ HandlersTyped
BY DEF TypeOK, ClockTyped, StoreTyped, HandlersTyped

\* The empty store has its types.
LEMMA TypeInit == Init => TypeOK
BY LockoutAssumption DEF Init, TypeOK

\* No step takes the clock or the store out of its types.
LEMMA StoreStep ==
  ASSUME TypeOK, [Next]_vars
  PROVE  ClockTyped' /\ StoreTyped'
<1>1. CASE UNCHANGED <<now, store>>
  BY <1>1 DEF store, TypeOK, ClockTyped, StoreTyped
<1>2. ASSUME NEW r \in Request, NEW e, TrackFailedAttempt(r, e), UNCHANGED now
      PROVE  ClockTyped' /\ StoreTyped'
  BY <1>2, TrackTyped DEF TypeOK, ClockTyped, StoreTyped
<1>3. ASSUME NEW e, ResetFailedAttempts(e), UNCHANGED now
      PROVE  ClockTyped' /\ StoreTyped'
  BY <1>3, ResetTyped DEF ResetFailedAttempts, TypeOK, ClockTyped, StoreTyped
<1>4. ASSUME NEW r \in Request, NEW e \in Email, NEW route, Arrive(r, e, route)
      PROVE  ClockTyped' /\ StoreTyped'
  BY <1>4 DEF Arrive, TypeOK, ClockTyped, StoreTyped
<1>5. CASE CleanUp
  BY <1>5 DEF CleanUp, TypeOK, ClockTyped, StoreTyped
<1>6. CASE Tick
  <2>1. 0 .. now \subseteq 0 .. now' /\ now' \in 1 .. (MaxTime + 1)
    BY <1>6, LockoutAssumption DEF Tick, TypeOK
  <2> QED BY <1>6, <2>1 DEF Tick, store, TypeOK, ClockTyped, StoreTyped
<1>7. CASE Restart
  BY <1>7, LockoutAssumption DEF Restart, TypeOK, ClockTyped, StoreTyped
<1> QED
  BY <1>1, <1>2, <1>3, <1>4, <1>5, <1>6, <1>7
  DEF Next, TurnAway, FindNobody, FindSuspended, Find, WrongPassword, Strike,
      RightPassword, Welcome, RightEmployeePassword, Stamp, Fail, vars, store

\* Nor the documents and the handlers.
LEMMA HandlersStep ==
  ASSUME TypeOK, [Next]_vars
  PROVE  HandlersTyped'
<1> DEFINE PcTyped == pc' \in [Request -> {"idle", "find", "verify", "track", "welcome",
                                           "stamp", "done"}]
           CodeTyped == code' \in [Request -> {"none", "200", "401", "403", "423", "500"}]
<1>1. CASE UNCHANGED vars
  BY <1>1 DEF vars, TypeOK, HandlersTyped
<1>2. ASSUME NEW r \in Request, NEW c \in {"200", "401", "403", "423", "500"}, Answer(r, c)
      PROVE  PcTyped /\ CodeTyped
  BY <1>2 DEF Answer, TypeOK
<1>3. ASSUME NEW r \in Request, NEW next \in {"find", "verify", "track", "welcome", "stamp"},
             Await(r, next)
      PROVE  PcTyped /\ CodeTyped
  BY <1>3 DEF Await, TypeOK
<1> HIDE DEF PcTyped, CodeTyped
<1>4. ASSUME NEW r \in Request, CountFailure(r) \/ ClearFailures(r)
      PROVE  stored' \in [Email -> Nat]
  <2>1. task[r].held \in Nat /\ task[r].held + 1 \in Nat
    BY DEF TypeOK
  <2>2. CASE CountFailure(r)
    BY <2>1, <2>2 DEF CountFailure, TypeOK
  <2>3. CASE ClearFailures(r)
    BY <2>3 DEF ClearFailures, TypeOK
  <2> QED BY <1>4, <2>2, <2>3
<1>5. ASSUME NEW r \in Request, NEW e \in Email, NEW route \in {"customer", "employee"},
             Arrive(r, e, route)
      PROVE  HandlersTyped'
  <2>1. PcTyped /\ CodeTyped
    BY <1>3, <1>5 DEF Arrive
  <2>2. task' \in [Request -> [ email : Email \cup {NoEmail},
                                route : {"customer", "employee"}, held : Nat ]]
    BY <1>5 DEF Arrive, TypeOK
  <2> QED BY <1>5, <2>1, <2>2 DEF Arrive, TypeOK, HandlersTyped, PcTyped, CodeTyped
<1>6. ASSUME NEW r \in Request, Find(r)
      PROVE  HandlersTyped'
  <2>1. PcTyped /\ CodeTyped
    BY <1>3, <1>6 DEF Find
  <2>2. task[r].email \in Email
    BY <1>6, LockoutAssumption DEF Find, Documents
  <2>3. [ email |-> task[r].email, route |-> task[r].route, held |-> stored[task[r].email] ]
          \in [ email : Email \cup {NoEmail}, route : {"customer", "employee"}, held : Nat ]
    BY <2>2 DEF TypeOK
  <2>4. task' \in [Request -> [ email : Email \cup {NoEmail},
                                route : {"customer", "employee"}, held : Nat ]]
    BY <1>6, <2>3 DEF Find, TypeOK
  <2> QED BY <1>6, <2>1, <2>4 DEF Find, TypeOK, HandlersTyped, PcTyped, CodeTyped
<1>7. ASSUME NEW r \in Request, NEW c \in {"200", "401", "403", "423", "500"}, Answer(r, c),
             UNCHANGED <<stored, task>>
      PROVE  HandlersTyped'
  BY <1>2, <1>7 DEF TypeOK, HandlersTyped, PcTyped, CodeTyped
<1>8. ASSUME NEW r \in Request, NEW e, TurnAway(r, e)
      PROVE  HandlersTyped'
  BY <1>7, <1>8 DEF TurnAway
<1>9. ASSUME NEW r \in Request, FindNobody(r) \/ FindSuspended(r) \/ Strike(r) \/ Welcome(r) \/ Stamp(r)
      PROVE  HandlersTyped'
  BY <1>7, <1>9 DEF FindNobody, FindSuspended, Strike, Welcome, Stamp
<1>10. ASSUME NEW r \in Request, WrongPassword(r) \/ RightPassword(r)
       PROVE  HandlersTyped'
  <2>1. PcTyped /\ CodeTyped
    BY <1>3, <1>10 DEF WrongPassword, RightPassword
  <2>2. stored' \in [Email -> Nat]
    BY <1>4, <1>10 DEF WrongPassword, RightPassword
  <2>3. UNCHANGED task
    BY <1>10 DEF WrongPassword, RightPassword
  <2> QED BY <2>1, <2>2, <2>3 DEF TypeOK, HandlersTyped, PcTyped, CodeTyped
<1>11. ASSUME NEW r \in Request, RightEmployeePassword(r)
       PROVE  HandlersTyped'
  BY <1>3, <1>11 DEF RightEmployeePassword, TypeOK, HandlersTyped, PcTyped, CodeTyped
<1>12. ASSUME NEW r \in Request, Fail(r)
       PROVE  HandlersTyped'
  <2>1. PcTyped /\ CodeTyped
    BY <1>2, <1>12 DEF Fail
  <2>2. stored' \in [Email -> Nat]
    BY <1>4, <1>12 DEF Fail, TypeOK
  <2> QED BY <1>12, <2>1, <2>2 DEF Fail, TypeOK, HandlersTyped, PcTyped, CodeTyped
<1>13. CASE CleanUp \/ Tick
  BY <1>13 DEF CleanUp, Tick, TypeOK, HandlersTyped
<1>14. CASE Restart
  <2>1. PcTyped
    BY <1>14 DEF Restart, TypeOK, PcTyped
  <2> QED BY <1>14, <2>1 DEF Restart, TypeOK, HandlersTyped, PcTyped
<1> QED
  BY <1>1, <1>5, <1>6, <1>8, <1>9, <1>10, <1>11, <1>12, <1>13, <1>14 DEF Next

\* Whatever logins overlap, the maps and the documents keep their shape, and no
\* failure counter stays at the threshold (trackFailedAttempt).
THEOREM LoginTypeCorrect == Spec => []TypeOK
<1>1. TypeOK /\ [Next]_vars => TypeOK'
  BY StoreStep, HandlersStep, TypeParts DEF TypeOK, ClockTyped, StoreTyped, HandlersTyped
<1> QED BY <1>1, TypeInit, PTL DEF Spec

-----------------------------------------------------------------------------
(* A lockout in force is remembered *)

\* The inductive form: a lockout in force ends within a day of the last failure,
\* which is when cleanupExpiredEntries may forget the attempts.
LockKept(e) == Locked(e) => lockoutCount[e] > 0 /\ unlockAt[e] <= lastAttempt[e] + Day

\* A lockout is dated from the failure that caused it, and every later failure
\* only moves the time at which the attempts may be forgotten.
LEMMA LockKeptStep ==
  ASSUME TypeOK, [Next]_vars, NEW e \in Email, LockKept(e)
  PROVE  LockKept(e)'
<1>0. /\ now \in Nat /\ now > 0 /\ Day \in Nat
      /\ unlockAt[e] \in Nat /\ lockoutCount[e] \in Nat
      /\ lastAttempt[e] \in Nat /\ lastAttempt[e] <= now
  BY LockoutAssumption DEF TypeOK
<1>1. CASE UNCHANGED <<now, store>>
  BY <1>1 DEF store, LockKept, Locked
<1>2. ASSUME NEW r \in Request, NEW d, TrackFailedAttempt(r, d), UNCHANGED now
      PROVE  LockKept(e)'
  <2>1. CASE d = e
    <3>1. lastAttempt'[e] = now
      BY <1>2, <2>1 DEF TrackFailedAttempt, TypeOK
    <3>2. CASE count[d] + 1 >= MaxAttempts
      <4>1. /\ lockoutCount' = [lockoutCount EXCEPT ![d] = lockoutCount[d] + 1]
            /\ unlockAt' = [unlockAt EXCEPT ![d] = now + Duration(lockoutCount[d])]
        BY <1>2, <3>2 DEF TrackFailedAttempt
      <4>2. /\ lockoutCount'[e] = lockoutCount[e] + 1
            /\ unlockAt'[e] = now + Duration(lockoutCount[e])
        BY <2>1, <4>1 DEF TypeOK
      <4>3. Duration(lockoutCount[e]) \in 0 .. Day
        BY DurationBound
      <4> QED BY <1>0, <1>2, <3>1, <4>2, <4>3 DEF LockKept, Locked
    <3>3. CASE ~(count[d] + 1 >= MaxAttempts)
      BY <1>0, <1>2, <3>1, <3>3 DEF TrackFailedAttempt, LockKept, Locked
    <3> QED BY <3>2, <3>3
  <2>2. CASE d # e
    <3>1. /\ lastAttempt'[e] = lastAttempt[e] /\ lockoutCount'[e] = lockoutCount[e]
          /\ unlockAt'[e] = unlockAt[e]
      <4>1. lastAttempt' = [lastAttempt EXCEPT ![d] = now]
        BY <1>2 DEF TrackFailedAttempt
      <4>2. /\ UNCHANGED lockoutCount \/ lockoutCount' = [lockoutCount EXCEPT ![d] = lockoutCount[d] + 1]
            /\ UNCHANGED unlockAt \/ unlockAt' = [unlockAt EXCEPT ![d] = now + Duration(lockoutCount[d])]
        BY <1>2 DEF TrackFailedAttempt
      <4> QED BY <2>2, <4>1, <4>2 DEF TypeOK
    <3> QED BY <1>2, <3>1 DEF LockKept, Locked
  <2> QED BY <2>1, <2>2
<1>3. ASSUME NEW d, ResetFailedAttempts(d), UNCHANGED now
      PROVE  LockKept(e)'
  BY <1>3 DEF ResetFailedAttempts, LockKept, Locked
<1>4. ASSUME NEW r \in Request, NEW d \in Email, NEW route, Arrive(r, d, route)
      PROVE  LockKept(e)'
  <2>1. CASE d = e
    BY <1>0, <1>4, <2>1 DEF Arrive, TypeOK, LockKept, Locked
  <2>2. CASE d # e
    BY <1>4, <2>2 DEF Arrive, TypeOK, LockKept, Locked
  <2> QED BY <2>1, <2>2
<1>5. CASE CleanUp
  <2>1. CASE Locked(e)
    <3>1. ~Idle(e)
      BY <1>0, <2>1 DEF LockKept, Locked, Idle
    <3> QED BY <1>5, <2>1, <3>1 DEF CleanUp, LockKept, Locked
  <2>2. CASE ~Locked(e)
    BY <1>0, <1>5, <2>2 DEF CleanUp, LockKept, Locked
  <2> QED BY <2>1, <2>2
<1>6. CASE Tick
  BY <1>0, <1>6 DEF Tick, store, LockKept, Locked
<1>7. CASE Restart
  BY <1>0, <1>7 DEF Restart, LockKept, Locked
<1> QED
  BY <1>1, <1>2, <1>3, <1>4, <1>5, <1>6, <1>7
  DEF Next, TurnAway, FindNobody, FindSuspended, Find, WrongPassword, Strike,
      RightPassword, Welcome, RightEmployeePassword, Stamp, Fail, vars, store

LockInv == TypeOK /\ \A e \in Email : LockKept(e)

\* An account under a lockout is known to have been locked before, so the next
\* lockout is longer: cleanupExpiredEntries never forgets it in between, for
\* every duration up to a day.
THEOREM LocksAreRemembered == Spec => []LockRemembered
<1>1. Init => LockInv
  BY TypeInit, LockoutAssumption DEF Init, LockInv, LockKept, Locked
<1>2. LockInv /\ [Next]_vars => LockInv'
  <2>1. TypeOK /\ [Next]_vars => TypeOK'
    BY StoreStep, HandlersStep, TypeParts DEF TypeOK, ClockTyped, StoreTyped, HandlersTyped
  <2> QED BY <2>1, LockKeptStep DEF LockInv
<1>3. LockInv => LockRemembered
  BY DEF LockInv, LockKept, LockRemembered
<1> QED BY <1>1, <1>2, <1>3, PTL DEF Spec

-----------------------------------------------------------------------------
(* Failures are counted once *)

\* The requests counted against e in memory, and those that may have been
\* counted in the document of e.
Struck(e) == {r \in strikes : task[r].email = e}

Wrong(e) ==
  { r \in Request :
      /\ task[r].email = e /\ task[r].route = "customer"
      /\ pc[r] \in {"track", "done"} /\ code[r] \notin {"200", "403"} }

Arrived == {r \in Request : task[r].email \in Email}

\* A request is answered, and counted, when it is over and not before.
AnsweredOnce ==
  /\ \A r \in Request : code[r] # "none" => pc[r] = "done"
  /\ \A r \in strikes : pc[r] = "done"
  /\ IsFiniteSet(strikes) /\ IsFiniteSet(Arrived)

\* LockEarned for one account.
Earned(e) ==
  /\ lockoutCount[e] * MaxAttempts + count[e] <= Strikes(e)
  /\ now <= Day /\ ~MayHaveReset(e) =>
       lockoutCount[e] * MaxAttempts + count[e] = Strikes(e)

\* The stored counter, and the copies of it that handlers hold while they verify
\* a password, count wrong passwords.
StoredCounts(e) ==
  /\ stored[e] <= Cardinality(Wrong(e))
  /\ \A r \in Request :
       pc[r] = "verify" /\ task[r].email = e => task[r].held <= Cardinality(Wrong(e))

CountInd ==
  /\ TypeOK
  /\ AnsweredOnce
  /\ \A e \in Email : Earned(e) /\ StoredCounts(e)

\* What a step may do to one request: an answered one keeps its answer, what is
\* counted is about the e-mail that arrived, and the counter a handler holds is
\* the one it read.
Moves(q) ==
  /\ pc[q] # "idle" => /\ task'[q].email = task[q].email
                       /\ task'[q].route = task[q].route
  /\ pc[q] = "done" => pc'[q] = "done" /\ code'[q] = code[q]
  /\ pc[q] = "track" => /\ pc'[q] \in {"track", "done"}
                        /\ code'[q] \in {code[q], "401", "423"}
  /\ pc[q] = "stamp" => \/ pc'[q] = "stamp"
                        \/ pc'[q] = "done" /\ (code'[q] \in {"200", "500"} \/ Restart)
  /\ code'[q] # "none" => pc'[q] = "done" \/ code[q] # "none"
  /\ pc'[q] = "verify" => \/ pc[q] = "verify" /\ task'[q].held = task[q].held
                          \/ pc[q] = "find" /\ task'[q].held = stored[task[q].email]

\* A request that is turned away, or whose handler answers, is over.
LEMMA AnswerMoves ==
  ASSUME TypeOK, NEW r \in Request, NEW c, Answer(r, c), UNCHANGED task,
         pc[r] # "done",
         pc[r] = "track" => c \in {"401", "423"},
         pc[r] = "stamp" => c \in {"200", "500"},
         NEW q \in Request
  PROVE  Moves(q)
<1>1. CASE q = r
  BY <1>1 DEF Answer, Moves, TypeOK
<1>2. CASE q # r
  BY <1>2 DEF Answer, Moves, TypeOK
<1> QED BY <1>1, <1>2

\* A handler that awaits the next call goes on with its own request.
LEMMA AwaitMoves ==
  ASSUME TypeOK, NEW r \in Request, NEW next \in {"track", "welcome", "stamp"},
         Await(r, next), UNCHANGED task, pc[r] = "verify", NEW q \in Request
  PROVE  Moves(q)
<1>1. CASE q = r
  BY <1>1 DEF Await, Moves, TypeOK
<1>2. CASE q # r
  BY <1>2 DEF Await, Moves, TypeOK
<1> QED BY <1>1, <1>2

\* Every step moves every request so.
LEMMA StepMoves ==
  ASSUME TypeOK, [Next]_vars, NEW q \in Request
  PROVE  Moves(q)
<1>1. ASSUME NEW r \in Request, NEW e \in Email, NEW route, Arrive(r, e, route)
      PROVE  Moves(q)
  <2>1. CASE q = r
    BY <1>1, <2>1 DEF Arrive, Await, Moves, TypeOK
  <2>2. CASE q # r
    BY <1>1, <2>2 DEF Arrive, Await, Moves, TypeOK
  <2> QED BY <2>1, <2>2
<1>2. ASSUME NEW r \in Request, NEW e \in Email, TurnAway(r, e)
      PROVE  Moves(q)
  BY <1>2, AnswerMoves DEF TurnAway
<1>3. ASSUME NEW r \in Request,
             FindNobody(r) \/ FindSuspended(r) \/ Welcome(r) \/ Stamp(r) \/ Fail(r)
      PROVE  Moves(q)
  BY <1>3, AnswerMoves DEF FindNobody, FindSuspended, Welcome, Stamp, Fail
<1>4. ASSUME NEW r \in Request, Strike(r)
      PROVE  Moves(q)
  <2>1. PICK c \in {"401", "423"} : Answer(r, c)
    BY <1>4 DEF Strike
  <2> QED BY <1>4, <2>1, AnswerMoves DEF Strike
<1>5. ASSUME NEW r \in Request, Find(r)
      PROVE  Moves(q)
  <2>1. CASE q = r
    BY <1>5, <2>1 DEF Find, Await, Moves, TypeOK
  <2>2. CASE q # r
    BY <1>5, <2>2 DEF Find, Await, Moves, TypeOK
  <2> QED BY <2>1, <2>2
<1>6. ASSUME NEW r \in Request, WrongPassword(r) \/ RightPassword(r) \/ RightEmployeePassword(r)
      PROVE  Moves(q)
  BY <1>6, AwaitMoves DEF WrongPassword, RightPassword, RightEmployeePassword
<1>7. CASE CleanUp \/ Tick \/ UNCHANGED vars
  BY <1>7 DEF CleanUp, Tick, vars, Moves
<1>8. CASE Restart
  BY <1>8 DEF Restart, Moves
<1> QED BY <1>1, <1>2, <1>3, <1>4, <1>5, <1>6, <1>7, <1>8 DEF Next

\* A step counts at most one request, one that it ends itself.
LEMMA StrikesMove ==
  ASSUME TypeOK, [Next]_vars
  PROVE  \/ strikes' = strikes
         \/ strikes' = {}
         \/ \E r \in Request : /\ strikes' = strikes \cup {r}
                               /\ pc'[r] = "done"
<1>1. ASSUME NEW r \in Request, FindNobody(r) \/ Strike(r)
      PROVE  strikes' = strikes \cup {r} /\ pc'[r] = "done"
  BY <1>1 DEF FindNobody, Strike, TrackFailedAttempt, Answer, TypeOK
<1> QED
  BY <1>1 DEF Next, Arrive, TurnAway, FindSuspended, Find, WrongPassword, RightPassword,
     Welcome, RightEmployeePassword, ResetFailedAttempts, Stamp, Fail, CleanUp, Tick,
     Restart, vars, store

\* A request is answered once, and counted when it is answered.
LEMMA AnsweredOnceStep ==
  ASSUME TypeOK, AnsweredOnce, [Next]_vars
  PROVE  AnsweredOnce'
<1>1. \A q \in Request : Moves(q)
  BY StepMoves
<1>2. \A q \in Request : code'[q] # "none" => pc'[q] = "done"
  BY <1>1 DEF AnsweredOnce, Moves
<1>3. (\A q \in strikes' : pc'[q] = "done") /\ IsFiniteSet(strikes')
  <2>1. \A q \in strikes : q \in Request /\ pc'[q] = "done"
    BY <1>1 DEF AnsweredOnce, Moves, TypeOK
  <2>2. IsFiniteSet(strikes)
    BY DEF AnsweredOnce
  <2>3. CASE strikes' = strikes
    BY <2>1, <2>2, <2>3
  <2>4. CASE strikes' = {}
    BY <2>4, FS_EmptySet
  <2>5. ASSUME NEW r \in Request, strikes' = strikes \cup {r}, pc'[r] = "done"
        PROVE  (\A q \in strikes' : pc'[q] = "done") /\ IsFiniteSet(strikes')
    BY <2>1, <2>2, <2>5, FS_AddElement
  <2> QED BY <2>3, <2>4, <2>5, StrikesMove
<1>4. IsFiniteSet(Arrived')
  <2>1. CASE Arrived' \subseteq Arrived
    BY <2>1, FS_Subset DEF AnsweredOnce
  <2>2. ASSUME NEW r \in Request, Arrived' \subseteq Arrived \cup {r}
        PROVE  IsFiniteSet(Arrived')
    BY <2>2, FS_Subset, FS_AddElement DEF AnsweredOnce
  <2>3. ASSUME NEW r \in Request, NEW e \in Email, NEW route, Arrive(r, e, route)
        PROVE  Arrived' \subseteq Arrived \cup {r}
    BY <2>3 DEF Arrive, Arrived, TypeOK
  <2>4. ASSUME NEW r \in Request, Find(r)
        PROVE  Arrived' \subseteq Arrived
    BY <2>4 DEF Find, Arrived, TypeOK
  <2>5. CASE UNCHANGED task
    BY <2>1, <2>5 DEF Arrived
  <2> QED
    BY <2>1, <2>2, <2>3, <2>4, <2>5
    DEF Next, TurnAway, FindNobody, FindSuspended, WrongPassword, Strike, RightPassword,
        Welcome, RightEmployeePassword, Stamp, Fail, CleanUp, Tick, Restart, vars
<1> QED BY <1>2, <1>3, <1>4 DEF AnsweredOnce

-----------------------------------------------------------------------------
(* The stored counter *)

\* A wrong password that may have been counted stays one.
LEMMA WrongGrows ==
  ASSUME TypeOK, AnsweredOnce, [Next]_vars, NEW e \in Email
  PROVE  /\ Wrong(e) \subseteq Wrong(e)'
         /\ IsFiniteSet(Wrong(e)')
         /\ Cardinality(Wrong(e)) \in Nat /\ Cardinality(Wrong(e)') \in Nat
         /\ Cardinality(Wrong(e)) <= Cardinality(Wrong(e)')
<1>1. Wrong(e) \subseteq Wrong(e)'
  BY StepMoves DEF Moves, Wrong
<1>2. IsFiniteSet(Wrong(e)')
  <2>1. IsFiniteSet(Arrived') /\ Wrong(e)' \subseteq Arrived'
    BY AnsweredOnceStep DEF AnsweredOnce, Wrong, Arrived
  <2> QED BY <2>1, FS_Subset
<1> QED BY <1>1, <1>2, FS_Subset, FS_CardinalityType

\* The handler that counts a wrong password adds it to those that explain it.
LEMMA OneMoreWrong ==
  ASSUME TypeOK, AnsweredOnce, [Next]_vars, NEW r \in Request,
         NEW e \in Email, task[r].email = e, task[r].route = "customer",
         pc[r] = "verify", pc'[r] \in {"track", "done"}, code'[r] \in {"none", "500"}
  PROVE  Cardinality(Wrong(e)) + 1 <= Cardinality(Wrong(e)')
<1>1. r \notin Wrong(e)
  BY DEF Wrong
<1>2. r \in Wrong(e)'
  BY StepMoves DEF Moves, Wrong
<1>3. Wrong(e) \cup {r} \subseteq Wrong(e)' /\ IsFiniteSet(Wrong(e)')
  BY <1>2, WrongGrows
<1>4. IsFiniteSet(Wrong(e))
  BY <1>3, FS_Subset
<1>5. Cardinality(Wrong(e) \cup {r}) = Cardinality(Wrong(e)) + 1
  BY <1>1, <1>4, FS_AddElement
<1> QED BY <1>3, <1>5, FS_Subset

\* What a step may do to the stored counter of e.
LEMMA StoredMoves ==
  ASSUME TypeOK, AnsweredOnce, [Next]_vars, NEW e \in Email
  PROVE  \/ stored'[e] \in {stored[e], 0}
         \/ \E r \in Request :
              /\ task[r].email = e /\ task[r].route = "customer" /\ pc[r] = "verify"
              /\ pc'[r] \in {"track", "done"} /\ code'[r] \in {"none", "500"}
              /\ stored'[e] = task[r].held + 1
<1> DEFINE Counts(r) == /\ task[r].email = e /\ task[r].route = "customer"
                        /\ pc[r] = "verify" /\ pc'[r] \in {"track", "done"}
                        /\ code'[r] \in {"none", "500"}
                        /\ stored'[e] = task[r].held + 1
<1>1. CASE UNCHANGED stored
  BY <1>1
<1>2. ASSUME NEW r \in Request, ClearFailures(r)
      PROVE  stored'[e] \in {stored[e], 0}
  BY <1>2 DEF ClearFailures, TypeOK
<1>3. ASSUME NEW r \in Request, CountFailure(r)
      PROVE  stored'[e] = stored[e] \/ (task[r].email = e /\ stored'[e] = task[r].held + 1)
  BY <1>3 DEF CountFailure, TypeOK
<1>4. ASSUME NEW r \in Request, WrongPassword(r)
      PROVE  stored'[e] = stored[e] \/ Counts(r)
  <2>1. pc'[r] = "track" /\ code'[r] = "none" /\ pc[r] = "verify" /\ task[r].route = "customer"
    BY <1>4 DEF WrongPassword, Await, AnsweredOnce, TypeOK
  <2> QED BY <1>3, <1>4, <2>1 DEF WrongPassword
<1>5. ASSUME NEW r \in Request, Fail(r)
      PROVE  stored'[e] \in {stored[e], 0} \/ Counts(r)
  <2>1. pc'[r] = "done" /\ code'[r] = "500"
    BY <1>5 DEF Fail, Answer, TypeOK
  <2> QED BY <1>2, <1>3, <1>5, <2>1 DEF Fail
<1> QED
  BY <1>1, <1>2, <1>4, <1>5
  DEF Next, Arrive, TurnAway, FindNobody, FindSuspended, Find, Strike, RightPassword,
      Welcome, RightEmployeePassword, Stamp, CleanUp, Tick, Restart, vars

\* Every step keeps the stored counter, and the copies of it, explained.
LEMMA StoredCountsStep ==
  ASSUME TypeOK, TypeOK', AnsweredOnce, [Next]_vars, NEW e \in Email, StoredCounts(e)
  PROVE  StoredCounts(e)'
<1>1. /\ Cardinality(Wrong(e)) \in Nat /\ Cardinality(Wrong(e)') \in Nat
      /\ Cardinality(Wrong(e)) <= Cardinality(Wrong(e)')
  BY WrongGrows
<1>2. /\ stored[e] \in Nat /\ stored'[e] \in Nat /\ stored[e] <= Cardinality(Wrong(e))
      /\ \A r \in Request : task[r].held \in Nat /\ task'[r].held \in Nat
  BY DEF TypeOK, StoredCounts
<1>3. stored'[e] <= Cardinality(Wrong(e)')
  <2>1. CASE stored'[e] \in {stored[e], 0}
    BY <1>1, <1>2, <2>1
  <2>2. ASSUME NEW r \in Request,
               task[r].email = e, task[r].route = "customer", pc[r] = "verify",
               pc'[r] \in {"track", "done"}, code'[r] \in {"none", "500"},
               stored'[e] = task[r].held + 1
        PROVE  stored'[e] <= Cardinality(Wrong(e)')
    <3>1. Cardinality(Wrong(e)) + 1 <= Cardinality(Wrong(e)')
      BY <2>2, OneMoreWrong
    <3>2. task[r].held <= Cardinality(Wrong(e))
      BY <2>2 DEF StoredCounts
    <3> QED BY <1>1, <1>2, <2>2, <3>1, <3>2
  <2> QED BY <2>1, <2>2, StoredMoves
<1>4. ASSUME NEW r \in Request, pc'[r] = "verify", task'[r].email = e
      PROVE  task'[r].held <= Cardinality(Wrong(e)')
  <2>1. task'[r].held <= Cardinality(Wrong(e))
    BY <1>2, <1>4, StepMoves DEF Moves, StoredCounts
  <2> QED BY <1>1, <1>2, <2>1
<1> QED BY <1>3, <1>4 DEF StoredCounts

-----------------------------------------------------------------------------
(* A lockout is earned *)

\* The count of the requests counted against e, as a natural number.
LEMMA StrikesNat ==
  ASSUME AnsweredOnce, NEW e
  PROVE  /\ Strikes(e) = Cardinality(Struck(e))
         /\ IsFiniteSet(Struck(e)) /\ Strikes(e) \in Nat
<1>1. Struck(e) \subseteq strikes /\ IsFiniteSet(strikes)
  BY DEF Struck, AnsweredOnce
<1>2. IsFiniteSet(Struck(e))
  BY <1>1, FS_Subset
<1>3. Strikes(e) = Cardinality(Struck(e))
  BY DEF Strikes, Struck
<1> QED BY <1>2, <1>3, FS_CardinalityType

\* Where no request is counted, the count of each account is what it was.
LEMMA StrikesKept ==
  ASSUME TypeOK, AnsweredOnce, [Next]_vars, strikes' = strikes, NEW e \in Email
  PROVE  Strikes(e)' = Strikes(e)
<1>1. \A q \in strikes : task'[q].email = task[q].email
  BY StepMoves DEF Moves, AnsweredOnce, TypeOK
<1>2. Struck(e)' = Struck(e)
  BY <1>1 DEF Struck
<1> QED BY <1>2 DEF Strikes, Struck

\* Where one is counted that was not over, its account has one more and the
\* others have what they had.
LEMMA StrikesAdded ==
  ASSUME TypeOK, AnsweredOnce, NEW r \in Request, pc[r] # "done",
         strikes' = strikes \cup {r}, UNCHANGED task, NEW e \in Email
  PROVE  Strikes(e)' = IF task[r].email = e THEN Strikes(e) + 1 ELSE Strikes(e)
<1>1. r \notin strikes
  BY DEF AnsweredOnce
<1>2. CASE task[r].email = e
  <2>1. Struck(e)' = Struck(e) \cup {r} /\ r \notin Struck(e)
    BY <1>1, <1>2 DEF Struck
  <2>2. Cardinality(Struck(e) \cup {r}) = Cardinality(Struck(e)) + 1
    BY <2>1, StrikesNat, FS_AddElement
  <2> QED BY <1>2, <2>1, <2>2 DEF Strikes, Struck
<1>3. CASE task[r].email # e
  <2>1. Struck(e)' = Struck(e)
    BY <1>3 DEF Struck
  <2> QED BY <1>3, <2>1 DEF Strikes, Struck
<1> QED BY <1>2, <1>3

\* A login that may have cleared the counter stays known while the process runs.
LEMMA ResetRemembered ==
  ASSUME TypeOK, AnsweredOnce, [Next]_vars, NEW e \in Email, MayHaveReset(e)
  PROVE  MayHaveReset(e)' \/ Restart
<1>1. PICK q \in Request : task[q].email = e /\ (code[q] \in {"200", "500"} \/ pc[q] = "stamp")
  BY DEF MayHaveReset
<1>2. task'[q].email = e
  BY <1>1, StepMoves DEF Moves, AnsweredOnce
<1>3. CASE code[q] \in {"200", "500"}
  BY <1>1, <1>2, <1>3, StepMoves DEF Moves, AnsweredOnce, MayHaveReset
<1>4. CASE pc[q] = "stamp"
  BY <1>1, <1>2, <1>4, StepMoves DEF Moves, MayHaveReset
<1> QED BY <1>1, <1>3, <1>4

\* The failures that the store of e stands for: MaxAttempts for each lockout.
Cost(e) == lockoutCount[e] * MaxAttempts + count[e]

\* A failure adds one to what the store stands for, at the threshold as below it.
LEMMA TrackCost ==
  ASSUME TypeOK, NEW r, NEW d \in Email, TrackFailedAttempt(r, d), NEW e \in Email
  PROVE  Cost(e)' = IF d = e THEN Cost(e) + 1 ELSE Cost(e)
<1>1. /\ MaxAttempts \in Nat /\ lockoutCount[e] \in Nat
      /\ count[e] \in Nat /\ count[e] <= MaxAttempts - 1
  BY LockoutAssumption DEF TypeOK
<1>2. CASE d # e
  <2>1. /\ count' = [count EXCEPT ![d] = 0] \/ count' = [count EXCEPT ![d] = count[d] + 1]
        /\ UNCHANGED lockoutCount \/ lockoutCount' = [lockoutCount EXCEPT ![d] = lockoutCount[d] + 1]
    BY DEF TrackFailedAttempt
  <2>2. count'[e] = count[e] /\ lockoutCount'[e] = lockoutCount[e]
    BY <1>2, <2>1 DEF TypeOK
  <2> QED BY <1>2, <2>2 DEF Cost
<1>3. CASE d = e /\ count[e] + 1 >= MaxAttempts
  <2>1. /\ count' = [count EXCEPT ![e] = 0]
        /\ lockoutCount' = [lockoutCount EXCEPT ![e] = lockoutCount[e] + 1]
    BY <1>3 DEF TrackFailedAttempt
  <2>2. count'[e] = 0 /\ lockoutCount'[e] = lockoutCount[e] + 1 /\ count[e] + 1 = MaxAttempts
    BY <1>1, <1>3, <2>1 DEF TypeOK
  <2>3. (lockoutCount[e] + 1) * MaxAttempts = lockoutCount[e] * MaxAttempts + MaxAttempts
    BY <1>1
  <2>4. lockoutCount[e] * MaxAttempts \in Nat
    BY <1>1
  <2>5. Cost(e)' = lockoutCount[e] * MaxAttempts + MaxAttempts
    BY <2>2, <2>3, <2>4, <1>1 DEF Cost
  <2> QED BY <1>1, <1>3, <2>2, <2>4, <2>5 DEF Cost
<1>4. CASE d = e /\ ~(count[e] + 1 >= MaxAttempts)
  <2>1. count' = [count EXCEPT ![e] = count[e] + 1] /\ lockoutCount' = lockoutCount
    BY <1>4 DEF TrackFailedAttempt
  <2>2. count'[e] = count[e] + 1
    BY <2>1 DEF TypeOK
  <2>3. lockoutCount[e] * MaxAttempts \in Nat
    BY <1>1
  <2> QED BY <1>1, <1>4, <2>1, <2>2, <2>3 DEF Cost
<1> QED BY <1>2, <1>3, <1>4

\* What the store stands for is a natural number.
LEMMA CostNat ==
  ASSUME TypeOK, NEW e \in Email
  PROVE  Cost(e) \in Nat /\ count[e] \in Nat /\ (count[e] <= Cost(e))
<1>1. MaxAttempts \in Nat /\ lockoutCount[e] \in Nat /\ count[e] \in Nat
  BY LockoutAssumption DEF TypeOK
<1>2. lockoutCount[e] * MaxAttempts \in Nat
  BY <1>1
<1> QED BY <1>1, <1>2 DEF Cost

\* Every step keeps lockouts earned.
LEMMA EarnedStep ==
  ASSUME TypeOK, TypeOK', AnsweredOnce, AnsweredOnce', [Next]_vars,
         NEW e \in Email, Earned(e)
  PROVE  Earned(e)'
<1>0. /\ now \in Nat /\ now' \in Nat /\ Day \in Nat
      /\ Strikes(e) \in Nat /\ Cost(e) \in Nat
      /\ Cost(e) <= Strikes(e)
      /\ now <= Day /\ ~MayHaveReset(e) => Cost(e) = Strikes(e)
  BY LockoutAssumption, StrikesNat, CostNat DEF TypeOK, Earned, Cost
<1>1. CASE /\ UNCHANGED <<count, lockoutCount, strikes>>
           /\ now' >= now
           /\ MayHaveReset(e) => MayHaveReset(e)'
  <2>1. Strikes(e)' = Strikes(e) /\ Cost(e)' = Cost(e)
    BY <1>1, StrikesKept DEF Cost
  <2>2. now' <= Day => now <= Day
    BY <1>0, <1>1
  <2> QED BY <1>0, <1>1, <2>1, <2>2 DEF Earned, Cost
<1>2. ASSUME ~Restart PROVE MayHaveReset(e) => MayHaveReset(e)'
  BY <1>2, ResetRemembered
<1>3. ASSUME NEW r \in Request, pc[r] # "done", TrackFailedAttempt(r, task[r].email),
             UNCHANGED <<now, task>>, MayHaveReset(e) => MayHaveReset(e)'
      PROVE  Earned(e)'
  <2>1. Strikes(e)' = IF task[r].email = e THEN Strikes(e) + 1 ELSE Strikes(e)
    BY <1>3, StrikesAdded DEF TrackFailedAttempt
  <2>2. Cost(e)' = IF task[r].email = e THEN Cost(e) + 1 ELSE Cost(e)
    <3>1. CASE task[r].email \in Email
      BY <1>3, <3>1, TrackCost
    <3>2. CASE task[r].email \notin Email
      <4>1. UNCHANGED <<count, lockoutCount>> \/ (count'[e] = count[e] /\ lockoutCount'[e] = lockoutCount[e])
        BY <1>3, <3>2 DEF TrackFailedAttempt, TypeOK
      <4> QED BY <3>2, <4>1 DEF Cost
    <3> QED BY <3>1, <3>2
  <2> QED BY <1>0, <1>3, <2>1, <2>2 DEF Earned, Cost
<1>4. ASSUME NEW d, ResetFailedAttempts(d), UNCHANGED now, d = e => MayHaveReset(e)',
             MayHaveReset(e) => MayHaveReset(e)'
      PROVE  Earned(e)'
  <2>1. Strikes(e)' = Strikes(e) /\ lockoutCount' = lockoutCount
    BY <1>4, StrikesKept DEF ResetFailedAttempts
  <2>2. CASE d = e
    <3>1. count'[e] = 0
      BY <1>4, <2>2 DEF ResetFailedAttempts, TypeOK
    <3>2. Cost(e)' <= Cost(e)
      <4>1. MaxAttempts \in Nat /\ lockoutCount[e] \in Nat /\ count[e] \in Nat
        BY LockoutAssumption DEF TypeOK
      <4>2. lockoutCount[e] * MaxAttempts \in Nat
        BY <4>1
      <4> QED BY <2>1, <3>1, <4>1, <4>2 DEF Cost
    <3>3. Cost(e)' \in Nat
      <4>1. MaxAttempts \in Nat /\ lockoutCount'[e] \in Nat /\ count'[e] \in Nat
        BY LockoutAssumption DEF TypeOK
      <4>2. lockoutCount'[e] * MaxAttempts \in Nat
        BY <4>1
      <4> QED BY <4>1, <4>2 DEF Cost
    <3> QED BY <1>0, <1>4, <2>1, <2>2, <3>2, <3>3 DEF Earned, Cost
  <2>3. CASE d # e
    <3>1. count'[e] = count[e]
      BY <1>4, <2>3 DEF ResetFailedAttempts, TypeOK
    <3> QED BY <1>0, <1>4, <2>1, <3>1 DEF Earned, Cost
  <2> QED BY <2>2, <2>3
<1>5. CASE CleanUp
  <2>1. UNCHANGED <<now, count, strikes>> /\ ~Restart => Strikes(e)' = Strikes(e)
    BY <1>5, StrikesKept DEF CleanUp
  <2>2. UNCHANGED <<now, count, strikes, task, code, pc>>
    BY <1>5 DEF CleanUp
  <2>3. Strikes(e)' = Strikes(e) /\ (MayHaveReset(e) => MayHaveReset(e)')
    BY <2>2, StrikesKept DEF MayHaveReset
  <2>4. CASE ~Idle(e)
    <3>1. lockoutCount'[e] = lockoutCount[e]
      BY <1>5, <2>4 DEF CleanUp
    <3> QED BY <1>0, <2>2, <2>3, <3>1 DEF Earned, Cost
  <2>5. CASE Idle(e)
    <3>1. lockoutCount'[e] = 0 /\ count'[e] = 0
      BY <1>5, <2>2, <2>5 DEF CleanUp, Idle
    <3>2. ~(now <= Day)
      BY <1>0, <2>5 DEF Idle, TypeOK
    <3>3. lockoutCount'[e] * MaxAttempts + count'[e] = 0
      BY <3>1, LockoutAssumption
    <3> QED BY <1>0, <2>2, <2>3, <3>2, <3>3 DEF Earned
  <2> QED BY <2>4, <2>5
<1>6. CASE Restart
  <2>1. lockoutCount'[e] = 0 /\ count'[e] = 0 /\ strikes' = {}
    BY <1>6 DEF Restart
  <2>2. lockoutCount'[e] * MaxAttempts + count'[e] = 0
    BY <2>1, LockoutAssumption
  <2>3. Strikes(e)' = 0
    <3>1. {r \in strikes' : task'[r].email = e} = {}
      BY <2>1
    <3> QED BY <3>1, FS_EmptySet DEF Strikes
  <2> QED BY <2>2, <2>3 DEF Earned
<1>7. ASSUME NEW r \in Request, FindNobody(r) \/ Strike(r)
      PROVE  Earned(e)'
  <2>1. pc[r] # "done" /\ TrackFailedAttempt(r, task[r].email) /\ UNCHANGED <<now, task>>
    BY <1>7 DEF FindNobody, Strike
  <2>2. CASE ~Restart
    BY <1>2, <1>3, <2>1, <2>2
  <2> QED BY <1>6, <2>2
<1>8. ASSUME NEW r \in Request, Welcome(r) \/ RightEmployeePassword(r)
      PROVE  Earned(e)'
  <2>1. ResetFailedAttempts(task[r].email) /\ UNCHANGED now
    BY <1>8 DEF Welcome, RightEmployeePassword
  <2>2. code'[r] = "200" \/ pc'[r] = "stamp"
    BY <1>8 DEF Welcome, RightEmployeePassword, Answer, Await, TypeOK
  <2>3. UNCHANGED task
    BY <1>8 DEF Welcome, RightEmployeePassword
  <2>4. task[r].email = e => MayHaveReset(e)'
    BY <2>2, <2>3 DEF MayHaveReset
  <2>5. CASE ~Restart
    BY <1>2, <1>4, <2>1, <2>4, <2>5
  <2> QED BY <1>6, <2>5
<1>9. CASE UNCHANGED <<count, lockoutCount, strikes>> /\ now' >= now
  BY <1>1, <1>2, <1>6, <1>9
<1>10. CASE now' = now
  <2>1. now' >= now
    BY <1>0, <1>10
  <2> QED
    BY <1>5, <1>6, <1>7, <1>8, <1>9, <2>1
    DEF Next, Arrive, TurnAway, FindSuspended, Find, WrongPassword, RightPassword,
        Stamp, Fail, Tick, vars, store
<1>11. CASE Tick
  BY <1>0, <1>9, <1>11 DEF Tick, store
<1> QED
  BY <1>5, <1>6, <1>7, <1>8, <1>10, <1>11
  DEF Next, Arrive, TurnAway, FindSuspended, Find, WrongPassword, RightPassword,
      Stamp, Fail, vars

-----------------------------------------------------------------------------

\* Nothing is counted at first.
LEMMA CountInit == Init => CountInd
<1> SUFFICES ASSUME Init PROVE CountInd
  OBVIOUS
<1>1. TypeOK
  BY TypeInit
<1>2. strikes = {} /\ Arrived = {}
  BY LockoutAssumption DEF Init, Arrived
<1>3. AnsweredOnce
  BY <1>2, FS_EmptySet DEF Init, AnsweredOnce
<1>4. ASSUME NEW e \in Email PROVE Earned(e) /\ StoredCounts(e)
  <2>1. Struck(e) = {} /\ Wrong(e) = {}
    BY <1>2, LockoutAssumption DEF Init, Struck, Wrong
  <2>2. Strikes(e) = 0 /\ Cardinality(Wrong(e)) = 0
    BY <2>1, FS_EmptySet DEF Strikes, Struck
  <2>3. lockoutCount[e] * MaxAttempts + count[e] = 0
    BY LockoutAssumption DEF Init
  <2>4. stored[e] <= 0 /\ \A r \in Request : pc[r] # "verify"
    BY DEF Init
  <2> QED BY <2>2, <2>3, <2>4 DEF Earned, StoredCounts
<1> QED BY <1>1, <1>3, <1>4 DEF CountInd

\* The inductive invariant of the counters.
THEOREM CountsInductive == Spec => []CountInd
<1>1. CountInd /\ [Next]_vars => CountInd'
  <2>1. TypeOK /\ [Next]_vars => TypeOK'
    BY StoreStep, HandlersStep, TypeParts DEF TypeOK, ClockTyped, StoreTyped, HandlersTyped
  <2> QED BY <2>1, AnsweredOnceStep, EarnedStep, StoredCountsStep DEF CountInd
<1> QED BY <1>1, CountInit, PTL DEF Spec

\* For any number of overlapping logins and any threshold, a lockout costs
\* MaxAttempts failures of its own e-mail since the process started, and until a
\* success or a day has passed no failure is lost (trackFailedAttempt,
\* lockoutAccount, cleanupExpiredEntries).
THEOREM LockoutsAreEarned == Spec => []LockEarned
<1>1. CountInd => LockEarned
  BY DEF CountInd, Earned, LockEarned
<1> QED BY <1>1, CountsInductive, PTL

\* Copies of failedLoginAttempts read before a verification and written after it
\* may lose failures of overlapping logins and never invent one.
THEOREM StoredCounterHonest == Spec => []StoredNotInflated
<1>1. CountInd => StoredNotInflated
  BY LockoutAssumption DEF CountInd, StoredCounts, Wrong, StoredNotInflated
<1> QED BY <1>1, CountsInductive, PTL

-----------------------------------------------------------------------------
(* Later lockouts are not shorter *)

\* f lengthens the first lockout k times over.
LengthensTo(k, f) ==
  f = [ n \in 0 .. k |-> IF n = 0 THEN LockoutDuration ELSE Multiplier * f[n - 1] ]

\* There is such a function for every k.  (Were there none for a smallest k, the one for
\* k - 1 could be extended.)
LEMMA LengthensFar ==
  ASSUME NEW k \in Nat
  PROVE  \E f : LengthensTo(k, f)
<1>1. PICK T : T = { j \in Nat : ~ \E f : LengthensTo(j, f) }
  OBVIOUS
<1>2. ASSUME T # {}
      PROVE  FALSE
  <2>1. PICK j \in T : \A i \in T : <<i, j>> \notin OpToRel(<, Nat)
    BY <1>1, <1>2, NatLessThanWellFounded, WFMin
  <2>2. \A i \in T : ~(i < j)
    BY <1>1, <2>1 DEF OpToRel
  <2>3. j \in Nat /\ ~ \E f : LengthensTo(j, f)
    BY <1>1, <2>1
  <2>4. CASE j = 0
    <3>1. PICK f : f = [ n \in 0 .. 0 |-> LockoutDuration ]
      OBVIOUS
    <3>2. LengthensTo(0, f)
      BY <3>1 DEF LengthensTo
    <3> QED
      BY <2>3, <2>4, <3>2
  <2>5. CASE j # 0
    <3>1. j - 1 \in Nat /\ j - 1 < j
      BY <2>3, <2>5
    <3>2. PICK f : LengthensTo(j - 1, f)
      BY <1>1, <2>2, <3>1
    <3>3. PICK g : g = [ n \in 0 .. j |-> IF n = j THEN Multiplier * f[j - 1] ELSE f[n] ]
      OBVIOUS
    <3>4. \A n \in 0 .. j : g[n] = IF n = 0 THEN LockoutDuration ELSE Multiplier * g[n - 1]
      <4>1. \A n \in 0 .. (j - 1) : f[n] = IF n = 0 THEN LockoutDuration ELSE Multiplier * f[n - 1]
        BY <3>2 DEF LengthensTo
      <4> QED
        BY <2>3, <2>5, <3>3, <4>1
    <3>5. LengthensTo(j, g)
      BY <3>3, <3>4 DEF LengthensTo
    <3> QED
      BY <2>3, <3>5
  <2> QED
    BY <2>4, <2>5
<1> QED
  BY <1>1, <1>2

\* Two such functions agree as far as both reach.
LEMMA LengthensAlike ==
  ASSUME NEW k \in Nat, NEW m \in Nat, NEW f, NEW g, LengthensTo(k, f), LengthensTo(m, g)
  PROVE  \A n \in Nat : n <= k /\ n <= m => f[n] = g[n]
<1>1. PICK T : T = { n \in Nat : n <= k /\ n <= m /\ f[n] # g[n] }
  OBVIOUS
<1>2. /\ \A n \in 0 .. k : f[n] = IF n = 0 THEN LockoutDuration ELSE Multiplier * f[n - 1]
      /\ \A n \in 0 .. m : g[n] = IF n = 0 THEN LockoutDuration ELSE Multiplier * g[n - 1]
  BY DEF LengthensTo
<1>3. ASSUME T # {}
      PROVE  FALSE
  <2>1. PICK j \in T : \A i \in T : <<i, j>> \notin OpToRel(<, Nat)
    BY <1>1, <1>3, NatLessThanWellFounded, WFMin
  <2>2. \A i \in T : ~(i < j)
    BY <1>1, <2>1 DEF OpToRel
  <2>3. j \in Nat /\ j <= k /\ j <= m /\ f[j] # g[j]
    BY <1>1, <2>1
  <2>4. j # 0
    BY <1>2, <2>3
  <2>5. f[j - 1] = g[j - 1]
    BY <1>1, <2>2, <2>3, <2>4
  <2> QED
    BY <1>2, <2>3, <2>4, <2>5
<1> QED
  BY <1>1, <1>3

\* So Lengthened is the function that its definition says it is.
LEMMA LengthenedIs ==
  /\ Lengthened[0] = LockoutDuration
  /\ \A n \in Nat : Lengthened[n + 1] = Multiplier * Lengthened[n]
<1>1. PICK F : F = [ k \in Nat |-> CHOOSE f : LengthensTo(k, f) ]
  OBVIOUS
<1>2. \A k \in Nat : LengthensTo(k, F[k])
  BY <1>1, LengthensFar
<1>3. PICK G : G = [ n \in Nat |-> F[n][n] ]
  OBVIOUS
<1>4. \A n \in Nat : G[n] = IF n = 0 THEN LockoutDuration ELSE Multiplier * G[n - 1]
  <2> SUFFICES ASSUME NEW n \in Nat
               PROVE  G[n] = IF n = 0 THEN LockoutDuration ELSE Multiplier * G[n - 1]
    OBVIOUS
  <2>1. F[n][n] = IF n = 0 THEN LockoutDuration ELSE Multiplier * F[n][n - 1]
    <3>1. PICK f : f = F[n]
      OBVIOUS
    <3>2. f = [ i \in 0 .. n |-> IF i = 0 THEN LockoutDuration ELSE Multiplier * f[i - 1] ]
      BY <1>2, <3>1 DEF LengthensTo
    <3>3. f[n] = IF n = 0 THEN LockoutDuration ELSE Multiplier * f[n - 1]
      BY <3>2
    <3> QED
      BY <3>1, <3>3
  <2>2. CASE n # 0
    <3>1. n - 1 \in Nat /\ n - 1 <= n /\ n - 1 <= n - 1
      BY <2>2
    <3>2. F[n][n - 1] = F[n - 1][n - 1]
      BY <1>2, <3>1, LengthensAlike
    <3> QED
      BY <1>3, <2>1, <2>2, <3>1, <3>2
  <2>3. CASE n = 0
    BY <1>3, <2>1, <2>3
  <2> QED
    BY <2>2, <2>3
<1>5. G = [ n \in Nat |-> IF n = 0 THEN LockoutDuration ELSE Multiplier * G[n - 1] ]
  BY <1>3, <1>4
<1>6. Lengthened = [ n \in Nat |-> IF n = 0 THEN LockoutDuration ELSE Multiplier * Lengthened[n - 1] ]
  BY <1>5, Zenon DEF Lengthened
<1>7. \A n \in Nat : Lengthened[n] = IF n = 0 THEN LockoutDuration ELSE Multiplier * Lengthened[n - 1]
  BY <1>6, Zenon
<1> QED
  BY <1>7

\* Each lockout is at least as long as the one before.
LEMMA DurationGrows ==
  ASSUME NEW n \in Nat
  PROVE  Duration(n) \in Nat /\ Duration(n) <= Duration(n + 1)
<1>1. \A k \in Nat : Lengthened[k] \in Nat
  <2>1. PICK T : T = { k \in Nat : Lengthened[k] \notin Nat }
    OBVIOUS
  <2>2. ASSUME T # {}
        PROVE  FALSE
    <3>1. PICK j \in T : \A i \in T : <<i, j>> \notin OpToRel(<, Nat)
      BY <2>1, <2>2, NatLessThanWellFounded, WFMin
    <3>2. \A i \in T : ~(i < j)
      BY <2>1, <3>1 DEF OpToRel
    <3>3. j \in Nat /\ Lengthened[j] \notin Nat
      BY <2>1, <3>1
    <3>4. j # 0
      BY <3>3, LengthenedIs, LockoutAssumption
    <3>5. PICK i \in Nat : j = i + 1
      BY <3>3, <3>4
    <3>6. Lengthened[i] \in Nat
      BY <2>1, <3>2, <3>5
    <3>7. Lengthened[j] = Multiplier * Lengthened[i]
      BY <3>5, LengthenedIs
    <3> QED
      BY <3>3, <3>6, <3>7, LockoutAssumption
  <2> QED
    BY <2>1, <2>2
<1>2. PICK x \in Nat : x = Lengthened[n]
  BY <1>1
<1>3. PICK y \in Nat : y = Lengthened[n + 1]
  BY <1>1
<1>4. y = Multiplier * x
  BY <1>2, <1>3, LengthenedIs
<1>5. Multiplier * x >= x
  <2>1. PICK d \in Nat : Multiplier = d + 1
    BY LockoutAssumption
  <2>2. d * x \in Nat /\ (d + 1) * x = d * x + x
    OBVIOUS
  <2> QED
    BY <2>1, <2>2
<1>6. /\ Duration(n) = IF x \in 0 .. Day THEN x ELSE Day
      /\ Duration(n + 1) = IF y \in 0 .. Day THEN y ELSE Day
  BY <1>2, <1>3 DEF Duration
<1> QED
  BY <1>4, <1>5, <1>6, LockoutAssumption

\* A lockout in force ends no later than one would that began now and was as long.
LockTimed(e) == Locked(e) => unlockAt[e] <= now + Duration(lockoutCount[e] - 1)

\* A failure in flight that locks again locks for at least as long.
LEMMA TrackLengthens ==
  ASSUME TypeOK, NEW r \in Request, NEW d, NEW e \in Email, LockKept(e), LockTimed(e),
         TrackFailedAttempt(r, d), UNCHANGED now
  PROVE  LockTimed(e)' /\ (Locked(e) => unlockAt'[e] >= unlockAt[e])
<1>0. /\ now \in Nat /\ unlockAt[e] \in Nat /\ lockoutCount[e] \in Nat
  BY LockoutAssumption DEF TypeOK
<1>1. CASE d = e /\ count[d] + 1 >= MaxAttempts
  <2>1. /\ lockoutCount' = [lockoutCount EXCEPT ![e] = lockoutCount[e] + 1]
        /\ unlockAt' = [unlockAt EXCEPT ![e] = now + Duration(lockoutCount[e])]
    BY <1>1 DEF TrackFailedAttempt
  <2>2. /\ lockoutCount'[e] = lockoutCount[e] + 1
        /\ unlockAt'[e] = now + Duration(lockoutCount[e])
    BY <2>1 DEF TypeOK
  <2>3. PICK c \in Nat : c = lockoutCount[e]
    BY <1>0
  <2>4. Duration(c) \in Nat /\ (c > 0 => Duration(c - 1) \in Nat /\ Duration(c - 1) <= Duration(c))
    <3>1. Duration(c) \in Nat
      BY DurationGrows
    <3>2. ASSUME c > 0
          PROVE  Duration(c - 1) \in Nat /\ Duration(c - 1) <= Duration(c)
      <4>1. PICK b \in Nat : c = b + 1
        BY <3>2
      <4>2. Duration(b) \in Nat /\ Duration(b) <= Duration(b + 1)
        BY DurationGrows
      <4>3. c - 1 = b
        BY <4>1
      <4> QED
        BY <4>1, <4>2, <4>3
    <3> QED
      BY <3>1, <3>2
  <2>5. ASSUME Locked(e)
        PROVE  unlockAt'[e] >= unlockAt[e]
    BY <1>0, <2>2, <2>3, <2>4, <2>5 DEF LockKept, LockTimed
  <2>6. unlockAt'[e] <= now' + Duration(lockoutCount'[e] - 1)
    <3>1. lockoutCount'[e] - 1 = c
      BY <2>2, <2>3
    <3> QED
      BY <1>0, <2>2, <2>3, <2>4, <3>1
  <2> QED
    BY <2>5, <2>6 DEF LockTimed
<1>2. CASE ~(d = e /\ count[d] + 1 >= MaxAttempts)
  <2>1. unlockAt'[e] = unlockAt[e] /\ lockoutCount'[e] = lockoutCount[e]
    BY <1>2 DEF TrackFailedAttempt, TypeOK
  <2> QED
    BY <1>0, <2>1 DEF LockTimed, Locked
<1> QED
  BY <1>1, <1>2

\* No step but a restart shortens a lockout, and none leaves one too long for its number.
LEMMA LockTimedStep ==
  ASSUME TypeOK, [Next]_vars, NEW e \in Email, LockKept(e), LockTimed(e)
  PROVE  LockTimed(e)' /\ (Restart \/ (Locked(e) => unlockAt'[e] >= unlockAt[e]))
<1>0. /\ now \in Nat /\ now > 0 /\ Day \in Nat
      /\ unlockAt[e] \in Nat /\ lockoutCount[e] \in Nat
      /\ lastAttempt[e] \in Nat /\ lastAttempt[e] <= now
  BY LockoutAssumption DEF TypeOK
<1>1. ASSUME UNCHANGED <<unlockAt[e], lockoutCount[e]>>, now' \in {now, now + 1}
      PROVE  LockTimed(e)' /\ (Locked(e) => unlockAt'[e] >= unlockAt[e])
  <2>1. PICK d \in Int : Locked(e) => d = Duration(lockoutCount[e] - 1)
    <3>1. CASE Locked(e)
      <4>1. PICK c \in Nat : lockoutCount[e] - 1 = c
        BY <1>0, <3>1 DEF LockKept
      <4> QED
        BY <4>1, DurationGrows
    <3> QED
      BY <3>1
  <2> QED
    BY <1>0, <1>1, <2>1 DEF LockTimed, Locked
<1>2. ASSUME unlockAt'[e] = 0, ~Locked(e), now' = now
      PROVE  LockTimed(e)' /\ (Locked(e) => unlockAt'[e] >= unlockAt[e])
  BY <1>0, <1>2 DEF LockTimed, Locked
<1>3. ASSUME NEW r \in Request, NEW d, TrackFailedAttempt(r, d), UNCHANGED now
      PROVE  LockTimed(e)' /\ (Locked(e) => unlockAt'[e] >= unlockAt[e])
  BY <1>3, TrackLengthens
<1>4. ASSUME NEW d, ResetFailedAttempts(d), UNCHANGED now
      PROVE  LockTimed(e)' /\ (Locked(e) => unlockAt'[e] >= unlockAt[e])
  BY <1>1, <1>4 DEF ResetFailedAttempts
<1>5. ASSUME NEW r \in Request, NEW d \in Email, NEW route, Arrive(r, d, route)
      PROVE  LockTimed(e)' /\ (Locked(e) => unlockAt'[e] >= unlockAt[e])
  <2>1. CASE d = e
    <3>1. unlockAt'[e] = 0 /\ ~Locked(e) /\ now' = now
      BY <1>5, <2>1 DEF Arrive, TypeOK
    <3> QED
      BY <1>2, <3>1
  <2>2. CASE d # e
    <3>1. UNCHANGED <<unlockAt[e], lockoutCount[e], now>>
      BY <1>5, <2>2 DEF Arrive, TypeOK
    <3> QED
      BY <1>1, <3>1
  <2> QED BY <2>1, <2>2
<1>6. CASE CleanUp
  <2>1. CASE Locked(e)
    <3>1. ~Idle(e)
      BY <1>0, <2>1 DEF LockKept, Locked, Idle
    <3>2. UNCHANGED <<unlockAt[e], lockoutCount[e], now>>
      BY <1>6, <2>1, <3>1 DEF CleanUp
    <3> QED
      BY <1>1, <3>2
  <2>2. CASE ~Locked(e)
    <3>1. unlockAt'[e] = 0 /\ now' = now
      BY <1>6, <2>2 DEF CleanUp
    <3> QED
      BY <1>2, <2>2, <3>1
  <2> QED BY <2>1, <2>2
<1>7. CASE Tick
  BY <1>1, <1>7 DEF Tick, store
<1>8. CASE Restart
  BY <1>0, <1>8 DEF Restart, LockTimed, Locked
<1>9. CASE UNCHANGED <<now, store>>
  BY <1>1, <1>9 DEF store
<1> QED
  BY <1>3, <1>4, <1>5, <1>6, <1>7, <1>8, <1>9
  DEF Next, TurnAway, FindNobody, FindSuspended, Find, WrongPassword, Strike,
      RightPassword, Welcome, RightEmployeePassword, Stamp, Fail, vars, store

LockTimedInv == LockInv /\ \A e \in Email : LockTimed(e)

\* trackFailedAttempt, lockoutAccount: whatever failures are still in flight when an
\* account is locked, nothing but a restart ends or shortens its lockout before its time.
THEOREM LocksAreNotShortened == Spec => LockNeverShortened
<1>1. Init => LockTimedInv
  BY TypeInit, LockoutAssumption DEF Init, LockTimedInv, LockInv, LockKept, LockTimed, Locked
<1>2. LockTimedInv /\ [Next]_vars =>
        LockTimedInv' /\ [Restart \/ \A e \in Email : Locked(e) => unlockAt'[e] >= unlockAt[e]]_vars
  <2>1. TypeOK /\ [Next]_vars => TypeOK'
    BY StoreStep, HandlersStep, TypeParts DEF TypeOK, ClockTyped, StoreTyped, HandlersTyped
  <2> QED BY <2>1, LockKeptStep, LockTimedStep DEF LockTimedInv, LockInv
<1> QED BY <1>1, <1>2, PTL DEF Spec, LockNeverShortened
=============================================================================
