------------------------- MODULE EmployeeDashboard -------------------------
(***************************************************************************)
(* The payments page of an employee (client/src/components/employee/       *)
(* EmployeeDashboard.jsx) and the three employee routes it calls.          *)
(*                                                                         *)
(* The page is React state plus closures: a fetch remembers the tab of the *)
(* render that started it, a confirmation remembers the payment and the    *)
(* decision it was opened for.  An answer is applied when it arrives,      *)
(* whatever the page shows by then.  A call fails when the network does:   *)
(* the request may still reach the server, late or never.                  *)
(*                                                                         *)
(* On the server, a handler looks at a payment's status before its awaits  *)
(* and saves by _id, whatever the status is by then.  The handlers of the  *)
(* page's calls are followed step by step; those of other employees, and   *)
(* of requests the page has given up, overlap in any number, and are seen  *)
(* in what they save.                                                      *)
(*                                                                         *)
(* Abstracted: amounts, names, notes, toasts, filters and paging (a row on *)
(* another page is one click away).                                        *)
(***************************************************************************)
EXTENDS Naturals, FiniteSets, FiniteSetsExt, Bags, BagsExt

CONSTANTS
  Payment,      \* the payments customers may come to create
  Visited,      \* the tabs the employee opens
  MaxInFlight,  \* how many requests of the page are in flight together
  MaxFailures,  \* how many calls the network, or the database, breaks
  NoRow         \* no transaction selected

Tab == {"pending", "verified", "submitted_to_swift", "all"}

ASSUME DashboardAssumption ==
  /\ "pending" \in Visited /\ Visited \subseteq Tab
  /\ MaxInFlight \in Nat \ {0}
  /\ MaxFailures \in Nat

VARIABLES
  \* the server
  status,       \* the status of each payment
  decided,      \* history: the decisions that were saved about each payment
  \* the page
  tab, list, loading, autoRefresh, selectedTransaction, selectedForSwift,
  confirmDialog, actionLoading,
  \* its calls, and what the employee was told
  reads,        \* a bag of list requests: answers overtake one another
  calls,        \* verify and submit requests
  told,         \* requests the page reported as done
  failures      \* calls broken so far

server == <<status, decided>>
table == <<tab, list, loading, autoRefresh>>
modal == <<selectedTransaction, selectedForSwift, confirmDialog>>
vars == <<server, table, modal, actionLoading, reads, calls, told, failures>>

-----------------------------------------------------------------------------
(* The server *)

PaymentStatus == {"pending", "verified", "rejected", "submitted_to_swift"}
Row == [id : Payment, status : PaymentStatus]

\* What an employee asks for: a decision about one payment, or a submission.
Ask == [ids : SUBSET Payment, want : {"verified", "rejected", "submitted_to_swift"}]

Rows(S) == {[id |-> p, status |-> status[p]] : p \in S}

\* GET /employee/pending, and GET /employee/all?status=...  The tab named all
\* sends an empty status, which the optional validator still matches against
\* the known ones.
ListAnswer(t) ==
  IF t = "all" THEN [got |-> "refused", rows |-> {}]
  ELSE [got |-> "rows", rows |-> Rows({p \in Payment : status[p] = t})]

\* POST /employee/verify/:id refuses a payment that is not pending; POST
\* /employee/submit-swift finds the verified ones among those it is sent and
\* refuses when there are none.
From(want) == IF want = "submitted_to_swift" THEN "verified" ELSE "pending"

\* Mutant: the verify route does not look at the status.
EligibleAgain(ask) ==
  {p \in ask.ids : status[p] = "verified" \/ (ask.want # "submitted_to_swift" /\ status[p] # "absent")}

Eligible(ask) == {p \in ask.ids : status[p] = From(ask.want)}

\* payment.verify and payment.submitToSwift: the save sets the status, without
\* a second look at the one it replaces.
Save(p, want) ==
  /\ status' = [status EXCEPT ![p] = want]
  /\ decided' = [decided EXCEPT ![p] = @ \cup ({want} \ {"submitted_to_swift"})]

\* A customer creates a payment (POST /api/payments).
CreatePayment(p) ==
  /\ status[p] = "absent"
  /\ status' = [status EXCEPT ![p] = "pending"]
  /\ UNCHANGED <<decided, table, modal, actionLoading, reads, calls, told, failures>>

\* A handler of another employee, or of a request the page has given up: it
\* found the payment pending, or approved, now or some time ago.
OtherHandler(p, want) ==
  /\ IF want = "submitted_to_swift" THEN "verified" \in decided[p] ELSE status[p] # "absent"
  /\ Save(p, want)
  /\ UNCHANGED <<table, modal, actionLoading, reads, calls, told, failures>>

AnswerList(r) ==
  /\ r.ans.got = "waiting"
  /\ reads' = BagAdd(BagRemove(reads, r), [r EXCEPT !.ans = ListAnswer(r.tab)])
  /\ UNCHANGED <<server, table, modal, actionLoading, calls, told, failures>>

\* The handler of a call looks at the payments it names, and is left with those
\* to save.
Replace(c, d) == calls' = (calls \ {c}) \cup {d}

FindPayments(c) ==
  /\ c.ans = "waiting"
  /\ Replace(c, [c EXCEPT !.left = Eligible(c.ask),
                           !.ans = IF Eligible(c.ask) = {} THEN "refused" ELSE "saving"])
  /\ UNCHANGED <<server, table, modal, actionLoading, reads, told, failures>>

\* It saves them one by one, and answers after the last.
SaveFound(c) == \E p \in c.left :
  /\ c.ans = "saving"
  /\ Save(p, c.ask.want)
  /\ Replace(c, [c EXCEPT !.left = @ \ {p},
                           !.ans = IF c.left = {p} THEN "ok" ELSE "saving"])
  /\ UNCHANGED <<table, modal, actionLoading, reads, told, failures>>

\* A save throws: the rest is given up, and what was saved stays.
SaveThrows(c) ==
  /\ c.ans = "saving" /\ failures < MaxFailures
  /\ failures' = failures + 1
  /\ Replace(c, [c EXCEPT !.left = {}, !.ans = "refused"])
  /\ UNCHANGED <<server, table, modal, actionLoading, reads, told>>

-----------------------------------------------------------------------------
(* Fetching the list *)

NewRead(t, spinner) ==
  [tab |-> t, spinner |-> spinner, ans |-> [got |-> "waiting", rows |-> {}]]

fetchTransactions(t, spinner) ==
  reads' = BagAdd(reads, NewRead(t, spinner))

\* Bounds the requests in flight; a call keeps its place for the fetch that
\* follows it.
Room == BagCardinality(reads) + Cardinality(calls) < MaxInFlight

\* Nothing covers the table: neither a dialog nor the details of a payment.
DetailsShown == selectedTransaction # NoRow /\ ~confirmDialog.isOpen
Uncovered == ~confirmDialog.isOpen /\ ~DetailsShown

\* The rows with their buttons; a spinner takes their place.
Shown(row) == ~loading /\ row \in list

\* The effect of a change of tab: the list of the new tab, behind a spinner.
TabEffect(t) == loading' = TRUE /\ fetchTransactions(t, TRUE)

SelectTab(t) ==
  /\ Uncovered /\ t # tab /\ Room
  /\ tab' = t
  /\ TabEffect(t)
  /\ UNCHANGED <<server, list, autoRefresh, modal, actionLoading, calls, told, failures>>

Refresh ==
  /\ Uncovered /\ ~loading /\ Room
  /\ fetchTransactions(tab, FALSE)
  /\ UNCHANGED <<server, table, modal, actionLoading, calls, told, failures>>

ToggleAutoRefresh ==
  /\ Uncovered
  /\ autoRefresh' = ~autoRefresh
  /\ UNCHANGED <<server, tab, list, loading, modal, actionLoading, reads, calls,
                 told, failures>>

\* Mutant: the interval is kept by the first tab that is not the pending one.
TickElsewhere ==
  /\ autoRefresh /\ tab # "pending" /\ Room
  /\ fetchTransactions(tab, FALSE)
  /\ UNCHANGED <<server, table, modal, actionLoading, calls, told, failures>>

\* The interval of 60 s, which runs on the pending tab alone.
Tick ==
  /\ autoRefresh /\ tab = "pending" /\ Room
  /\ fetchTransactions(tab, FALSE)
  /\ UNCHANGED <<server, table, modal, actionLoading, calls, told, failures>>

\* An answer arrives: rows replace the list, whichever tab they were asked for;
\* an error leaves it.  In both cases a spinner call ends the spinner.
Settle(r) ==
  /\ reads' = BagRemove(reads, r)
  /\ loading' = (loading /\ ~r.spinner)
  /\ UNCHANGED <<server, tab, autoRefresh, modal, actionLoading, calls, told>>

ListArrives(r) ==
  /\ r.ans.got # "waiting"
  /\ list' = IF r.ans.got = "rows" THEN r.ans.rows ELSE list
  /\ Settle(r)
  /\ UNCHANGED failures

ListFails(r) ==
  /\ failures < MaxFailures
  /\ failures' = failures + 1
  /\ list' = list
  /\ Settle(r)

-----------------------------------------------------------------------------
(* Deciding and submitting *)

Dialog(ask) == [isOpen |-> TRUE, ask |-> ask, tab |-> tab]

\* What a closed dialog keeps is replaced before it is shown again.
Closed == [isOpen |-> FALSE, ask |-> [ids |-> {}, want |-> "verified"], tab |-> "pending"]

\* Approve or reject, on a row or in the details that a cancelled dialog left
\* open: the closure keeps the payment, the decision and this render's fetch.
openVerifyDialog(row, want) ==
  /\ row.status = "pending" /\ ~actionLoading
  /\ selectedTransaction' = row
  /\ confirmDialog' = Dialog([ids |-> {row.id}, want |-> want])
  /\ UNCHANGED <<server, table, selectedForSwift, actionLoading, reads, calls,
                 told, failures>>

VerifyRow(row, want) == Uncovered /\ Shown(row) /\ openVerifyDialog(row, want)

VerifyDetails(want) ==
  /\ DetailsShown
  /\ openVerifyDialog(selectedTransaction, want)

ShowDetails(row) ==
  /\ Uncovered /\ Shown(row) /\ row.status # "pending"
  /\ selectedTransaction' = row
  /\ UNCHANGED <<server, table, selectedForSwift, confirmDialog, actionLoading,
                 reads, calls, told, failures>>

CloseDetails ==
  /\ DetailsShown
  /\ selectedTransaction' = NoRow
  /\ UNCHANGED <<server, table, selectedForSwift, confirmDialog, actionLoading,
                 reads, calls, told, failures>>

\* The checkbox of a row, whatever the status of the row.
ToggleSwift(row) ==
  /\ Uncovered /\ tab = "verified" /\ Shown(row)
  /\ selectedForSwift' = SymDiff(selectedForSwift, {row.id})
  /\ UNCHANGED <<server, table, selectedTransaction, confirmDialog, actionLoading,
                 reads, calls, told, failures>>

SwiftButton == tab = "verified" /\ selectedForSwift # {} /\ ~actionLoading

openSwiftDialog ==
  /\ Uncovered /\ SwiftButton
  /\ confirmDialog' = Dialog([ids |-> selectedForSwift, want |-> "submitted_to_swift"])
  /\ UNCHANGED <<server, table, selectedTransaction, selectedForSwift, actionLoading,
                 reads, calls, told, failures>>

Cancel ==
  /\ confirmDialog.isOpen
  /\ confirmDialog' = Closed
  /\ UNCHANGED <<server, table, selectedTransaction, selectedForSwift, actionLoading,
                 reads, calls, told, failures>>

\* The button of the dialog, or Enter.
ConfirmButton == confirmDialog.isOpen /\ ~actionLoading

NewCall ==
  [ask |-> confirmDialog.ask, tab |-> confirmDialog.tab, left |-> {}, ans |-> "waiting"]

\* Mutant: setActionLoading(true) is missing.
ConfirmUnmarked ==
  /\ ConfirmButton /\ Room
  /\ confirmDialog' = Closed
  /\ calls' = calls \cup {NewCall}
  /\ UNCHANGED <<server, table, selectedTransaction, selectedForSwift, actionLoading,
                 reads, told, failures>>

\* handleConfirm and handleSubmitToSwift, up to the request: the dialog closes
\* and the call leaves.
Confirm ==
  /\ ConfirmButton /\ Room
  /\ confirmDialog' = Closed
  /\ actionLoading' = TRUE
  /\ calls' = calls \cup {NewCall}
  /\ UNCHANGED <<server, table, selectedTransaction, selectedForSwift, reads,
                 told, failures>>

EndCall(c) == calls' = calls \ {c} /\ actionLoading' = FALSE

\* A decision that was carried out: the details close, and the list is read
\* again for the tab on which the dialog was opened.
VerifyDone(c) ==
  /\ c.ans = "ok" /\ c.ask.want # "submitted_to_swift"
  /\ EndCall(c)
  /\ selectedTransaction' = NoRow
  /\ fetchTransactions(c.tab, FALSE)
  /\ told' = told \cup {c.ask}
  /\ UNCHANGED <<server, table, selectedForSwift, confirmDialog,
                 failures>>

\* A submission that was carried out: the message reads a list that the answer
\* does not have, and the handler ends in its catch.
SwiftDone(c) ==
  /\ c.ans = "ok" /\ c.ask.want = "submitted_to_swift"
  /\ EndCall(c)
  /\ UNCHANGED <<server, table, modal, reads, told, failures>>

\* The catch of both handlers.
CallRefused(c) ==
  /\ c.ans = "refused"
  /\ EndCall(c)
  /\ UNCHANGED <<server, table, modal, reads, told, failures>>

\* The CSRF token, the request or its answer is lost.  A handler that runs on,
\* or a request that arrives after all, is now one of the other handlers.
CallFails(c) ==
  /\ failures < MaxFailures
  /\ failures' = failures + 1
  /\ EndCall(c)
  /\ UNCHANGED <<server, table, modal, reads, told>>

-----------------------------------------------------------------------------

Init ==
  /\ status = [p \in Payment |-> "absent"]
  /\ decided = [p \in Payment |-> {}]
  /\ tab = "pending" /\ list = {} /\ loading = TRUE /\ autoRefresh = TRUE
  /\ selectedTransaction = NoRow /\ selectedForSwift = {}
  /\ confirmDialog = Closed
  /\ actionLoading = FALSE
  /\ reads = SetToBag({NewRead("pending", TRUE)})
  /\ calls = {}
  /\ told = {}
  /\ failures = 0

Others == \E p \in Payment :
  \/ CreatePayment(p)
  \/ \E want \in {"verified", "rejected", "submitted_to_swift"} : OtherHandler(p, want)

ListsAnswered == \E r \in BagToSet(reads) : AnswerList(r)
CallsAnswered == \E c \in calls : FindPayments(c) \/ SaveFound(c)
ListsArrive == \E r \in BagToSet(reads) : ListArrives(r)
CallsEnd == \E c \in calls : VerifyDone(c) \/ SwiftDone(c) \/ CallRefused(c)

Fault ==
  \/ \E r \in BagToSet(reads) : ListFails(r)
  \/ \E c \in calls : CallFails(c) \/ SaveThrows(c)

EmployeeStep ==
  \/ \E t \in Visited : SelectTab(t)
  \/ Refresh
  \/ ToggleAutoRefresh
  \/ \E row \in list :
       \/ \E want \in {"verified", "rejected"} : VerifyRow(row, want)
       \/ ShowDetails(row)
       \/ ToggleSwift(row)
  \/ \E want \in {"verified", "rejected"} : VerifyDetails(want)
  \/ CloseDetails
  \/ openSwiftDialog
  \/ Cancel
  \/ Confirm

Next ==
  \/ Others \/ EmployeeStep \/ Tick \/ Fault
  \/ ListsAnswered \/ CallsAnswered \/ ListsArrive \/ CallsEnd

\* The server answers what reaches it, answers arrive, and the interval fires.
Fairness ==
  /\ WF_vars(ListsAnswered) /\ WF_vars(ListsArrive) /\ WF_vars(Tick)
  /\ WF_vars(CallsAnswered) /\ WF_vars(CallsEnd)

Spec == Init /\ [][Next]_vars /\ Fairness
=============================================================================
