------------------------ MODULE DirectoryProperties ------------------------
(***************************************************************************)
(* What the employees' reads may say of customers and payments that change *)
(* while they are read.                                                    *)
(***************************************************************************)
EXTENDS CustomerDirectory, RegistrationProperties

Distance(m, n) == IF m < n THEN n - m ELSE m - n

\* The four states that statistics count and the submitted payments, which none
\* of the counts covers, miss the total by no more than the payments written
\* during the read: quiet reads add up, and each write costs one at most.
StatsWithinWrites ==
  \A r \in Reader : rpc[r] = "answer" /\ answer[r].kind = "stats" =>
    LET n == answer[r].counts
    IN  Distance(n.pending + n.verified + n.rejected + n.completed + answer[r].submitted, n.total)
          <= moved[r]

\* In the details of a customer every payment is pending or stands in one
\* employee's numbers, even one that is submitted or decided during the read.
DetailsAddUp ==
  \A r \in Reader : answer[r].kind = "details" =>
    LET d == answer[r].of
    IN  d.total = d.pending +
          FoldSet(LAMBDA e, sum : sum + d.perEmployee[e].accepted + d.perEmployee[e].rejected,
                  0, DOMAIN d.perEmployee)

\* In the list of customers the number of payments lies between what it was when
\* the list was asked for and what it is now, and the number of those submitted
\* too but for one for each write since then that took a payment back from them,
\* as a decision does that was checked before the submission and is saved after
\* it: where handlers do not overlap, no payment leaves the state it is counted in.
TalliesWithinRead ==
  \A r \in Reader : rpc[r] = "answer" /\ answer[r].kind = "customers" =>
    \A id \in DOMAIN answer[r].count :
      /\ answer[r].floor[id] <= answer[r].count[id]
      /\ answer[r].count[id] <= Cardinality(Of(id))
      /\ answer[r].held[id] <= answer[r].transacted[id] + moved[r]
      /\ answer[r].transacted[id] <= Cardinality(Submitted(id)) + moved[r]

\* What the employees' reads say, although every one is put together from
\* queries of different moments.
ReadsHold == StatsWithinWrites /\ DetailsAddUp /\ TalliesWithinRead
=============================================================================
