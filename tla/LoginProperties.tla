-------------------------- MODULE LoginProperties --------------------------
(***************************************************************************)
(* What the lockout store keeps while logins overlap, time passes, entries *)
(* are cleaned up and the process restarts.                                *)
(***************************************************************************)
EXTENDS LoginLockout, FiniteSets

\* The store keeps its shape; no counter reaches the threshold and stays.
TypeOK ==
  /\ now \in 1 .. (MaxTime + 1)
  /\ count \in [Email -> 0 .. (MaxAttempts - 1)]
  /\ lockoutCount \in [Email -> Nat] /\ lastAttempt \in [Email -> 0 .. now]
  /\ lockedAt \in [Email -> 0 .. now] /\ unlockAt \in [Email -> Nat]
  /\ stored \in [Email -> Nat]
  /\ pc \in [Request -> {"idle", "find", "verify", "track", "welcome", "stamp", "done"}]
  /\ task \in [Request -> [ email : Email \cup {NoEmail},
                            route : {"customer", "employee"}, held : Nat ]]
  /\ code \in [Request -> {"none", "200", "401", "403", "423", "500"}]
  /\ strikes \subseteq Request

Strikes(e) == Cardinality({r \in strikes : task[r].email = e})

\* Some login for e may have reached resetFailedAttempts: an employee's does so
\* before the save that may still fail it.
MayHaveReset(e) ==
  \E r \in Request : task[r].email = e /\ (code[r] \in {"200", "500"} \/ pc[r] = "stamp")

\* A lockout costs MaxAttempts failures of its own e-mail since the start, and
\* none is counted twice however they overlap; and until a success or a day
\* has passed, none is lost either (trackFailedAttempt, lockoutAccount).
LockEarned ==
  \A e \in Email :
    /\ lockoutCount[e] * MaxAttempts + count[e] <= Strikes(e)
    /\ now <= Day /\ ~MayHaveReset(e) =>
         lockoutCount[e] * MaxAttempts + count[e] = Strikes(e)

\* An account under a lockout is known to have been locked: the 24 hours after
\* which cleanupExpiredEntries forgets attempts never end inside a lockout.
LockRemembered == \A e \in Email : Locked(e) => lockoutCount[e] > 0

\* A lockout in force is not lifted or shortened by failures still in flight,
\* by a success or by the cleaning: only the end of its time, or of the
\* process, ends it.
LockNeverShortened ==
  [][Restart \/ \A e \in Email : Locked(e) => unlockAt'[e] >= unlockAt[e]]_vars

\* The stored counter never shows more failures than there were wrong
\* passwords (incrementFailedLogins on a copy read before the verification).
StoredNotInflated ==
  \A e \in Customer :
    stored[e] <= Cardinality({ r \in Request :
      /\ task[r].email = e /\ task[r].route = "customer"
      /\ pc[r] \in {"track", "done"} /\ code[r] \notin {"200", "403"} })
=============================================================================
