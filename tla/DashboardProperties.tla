------------------------ MODULE DashboardProperties ------------------------
(* What the payments page of an employee promises. *)
EXTENDS EmployeeDashboard

\* Type correctness of the page, its calls and the server's payments.
DashboardTypeOK ==
  /\ status \in [Payment -> PaymentStatus \cup {"absent"}]
  /\ decided \in [Payment -> SUBSET {"verified", "rejected"}] /\ told \subseteq Ask
  /\ tab \in Tab /\ list \subseteq Row
  /\ {loading, autoRefresh, actionLoading} \subseteq BOOLEAN
  /\ selectedTransaction \in Row \cup {NoRow}
  /\ selectedForSwift \subseteq Payment
  /\ confirmDialog \in [isOpen : BOOLEAN, ask : Ask, tab : Tab]
  /\ IsABag(reads)
  /\ \A r \in BagToSet(reads) : r.tab \in Tab /\ r.ans.rows \subseteq Row
  /\ calls \subseteq [ask : Ask, tab : Tab, left : SUBSET Payment,
                      ans : {"waiting", "saving", "ok", "refused"}]
  /\ failures \in 0 .. MaxFailures

\* However the employee clicks while answers are outstanding, the page has one
\* decision or submission in flight: a second confirmation cannot leave before
\* the first has been answered or has failed.
OneActionAtATime ==
  /\ actionLoading <=> calls # {}
  /\ \A c, d \in calls : c = d

\* The table is hidden behind the spinner only while a call that will take the
\* spinner away is in flight, also after a failure, and also when tabs are
\* changed before the answers of earlier ones.
LoadingMeansFetch == loading => \E r \in BagToSet(reads) : r.spinner

\* However the employee clicks and whatever fails, the page keeps its shape and
\* waits for nothing but calls that are in flight, one decision at most.
DashboardInv == DashboardTypeOK /\ OneActionAtATime /\ LoadingMeansFetch

\* What the server can hold of a payment about which these decisions were saved.
Held(decisions) ==
  decisions \cup IF "verified" \in decisions THEN {"submitted_to_swift"} ELSE {}

\* A decision the page reported as done was saved, and the server holds it until
\* another handler saves the opposite; pending it never is again.  And the page,
\* whose list may be old and whose calls may be lost and repeated, reports one
\* decision about a payment, never both.
ReportTrue ==
  \A ask \in told : \A p \in ask.ids :
    /\ ask.want \in decided[p]
    /\ status[p] \in Held(decided[p])
    /\ \A other \in told : p \in other.ids => other.want = ask.want

\* An answer to a fetch of another tab, overtaken on its way, may be shown on
\* the pending tab, but not for good: with auto-refresh on, the pending tab
\* comes to show pending payments and nothing else.
PendingTabRecovers ==
  <>[](tab = "pending" /\ autoRefresh) => <>[](\A row \in list : row.status = "pending")

\* A submission the server carried out is reported as such to the employee who
\* confirmed it, as the tests of the route expect of the answer.
SubmissionReported ==
  [][\A c \in calls : c.ans = "ok" /\ c \notin calls' =>
       c.ask \in told' \/ failures' # failures]_vars
=============================================================================
