---------------------------- MODULE PaymentTable ----------------------------
(***************************************************************************)
(* The table on an employee's payments page (EmployeeDashboard.jsx): the   *)
(* list of a tab as it was read, the rows that search and filters leave of *)
(* it, and the page of these rows that is shown.  One list is read at a    *)
(* time; EmployeeDashboard has the lists that overtake one another, the    *)
(* selection, the dialogs and the calls.                                   *)
(*                                                                         *)
(* A payment is what the filters look at, a currency and an amount (kept   *)
(* in db as its name); a search term narrows the list as a currency does.  *)
(***************************************************************************)
EXTENDS PortalData, Places, SequencesExt, FiniteSetsExt

CONSTANTS
  Kind,        \* a set of [currency, amount]
  PerPage,     \* itemsPerPage, 20
  TableLimit,  \* rows in an answer: 100 pending payments, 200 others
  Tabs,        \* the tabs the employee opens
  MaxFilled,   \* bound: how many fields of the filters are filled together
  MaxQueue     \* bound: the payments a behaviour makes

ASSUME TableAssumption == /\ PerPage \in Nat \ {0}
                          /\ TableLimit \in Nat \ {0}
                          /\ MaxFilled \in Nat
                          /\ MaxQueue \in Nat \ {0}
                          /\ Tabs \subseteq Status \ {"rejected"}

VARIABLES
  tab,          \* activeTab
  rows,         \* transactions, newest first
  filter,       \* filterCurrency, filterAmountMin and -Max; 0 is an empty field
  filtered,     \* filteredTransactions
  currentPage,
  spinner,      \* the page's loading
  reading       \* the request for the list under way, with its answer

table == <<tab, rows, filter, filtered, currentPage, spinner, reading>>

Currencies == {"all"} \cup { kind.currency : kind \in Kind }
Amounts == {0} \cup { kind.amount : kind \in Kind }
NoFilter == [currency |-> "all", min |-> 0, max |-> 0]
Idle == [state |-> "idle", list |-> << >>]

-----------------------------------------------------------------------------
(* The server *)

\* POST /api/payments by some customer.
QueuePayment(customer, kind) ==
  /\ Len(db) < MaxQueue
  /\ db' = Append(db, NewPayment(customer, kind))
  /\ UNCHANGED table

\* Of a list the entries that are in S.
Kept(list, S) == Picked(list, { i \in DOMAIN list : list[i] \in S })

\* GET /employee/pending, or /employee/all with a status.
Listed(status) ==
  LET newestFirst == Reverse([ p \in DOMAIN db |-> p ])
      found == Kept(newestFirst, { p \in DOMAIN db : db[p].status = status })
  IN  SubSeq(found, 1, Min({Len(found), TableLimit}))

-----------------------------------------------------------------------------
(* The rows and their pages *)

\* Fields that are empty let every payment through.
Passes(kind, f) ==
  /\ f.currency \in {"all", kind.currency}
  /\ f.min = 0 \/ kind.amount >= f.min
  /\ f.max = 0 \/ kind.amount <= f.max

Passing(f) == { p \in DOMAIN db : Passes(db[p].name, f) }

\* Mutant: the page that was shown is kept.
ApplyInPlace(list, f) ==
  /\ rows' = list /\ filter' = f
  /\ filtered' = Kept(list, Passing(f))
  /\ currentPage' = currentPage

\* The effect on a new list and on every change of search and filters.
ApplyFilters(list, f) ==
  /\ rows' = list /\ filter' = f
  /\ filtered' = Kept(list, Passing(f))
  /\ currentPage' = 1

TotalPages == (Len(filtered) + PerPage - 1) \div PerPage

\* slice from indexOfFirstItem to indexOfLastItem
RowsOn(n) == SubSeq(filtered, (n - 1) * PerPage + 1, Min({n * PerPage, Len(filtered)}))

\* The table: a spinner, the message that there are none, or the rows.
TableShown == IF spinner THEN << >> ELSE RowsOn(currentPage)

-----------------------------------------------------------------------------
(* What the employee does *)

Fetch == reading = Idle /\ reading' = [Idle EXCEPT !.state = "asked"]

\* The old rows stay behind the spinner.
SelectTab(t) ==
  /\ t # tab /\ Fetch
  /\ tab' = t /\ spinner' = TRUE
  /\ currentPage' = 1
  /\ UNCHANGED <<db, rows, filter, filtered>>

\* The refresh button, or the timer on the pending tab.
RefreshTable ==
  /\ ~spinner /\ Fetch
  /\ UNCHANGED <<db, tab, rows, filter, filtered, currentPage, spinner>>

\* One field is changed.
SetFilter(f) ==
  /\ f # filter
  /\ \E field \in DOMAIN f : f = [filter EXCEPT ![field] = f[field]]
  /\ Cardinality({ field \in DOMAIN f : f[field] # NoFilter[field] }) <= MaxFilled
  /\ ApplyFilters(rows, f)
  /\ UNCHANGED <<db, tab, spinner, reading>>

\* The button is there while some field is filled.
clearFilters ==
  /\ filter # NoFilter
  /\ ApplyFilters(rows, NoFilter)
  /\ UNCHANGED <<db, tab, spinner, reading>>

\* Buttons below a table of more than one page.
Turn(to) ==
  /\ TableShown # << >> /\ TotalPages > 1
  /\ to \in 1 .. TotalPages
  /\ currentPage' = to
  /\ UNCHANGED <<db, tab, rows, filter, filtered, spinner, reading>>

NextPage == Turn(currentPage + 1)
PreviousPage == Turn(currentPage - 1)

-----------------------------------------------------------------------------
(* The request for a list *)

ServeList ==
  /\ reading.state = "asked"
  /\ reading' = [state |-> "200", list |-> Listed(tab)]
  /\ UNCHANGED <<db, tab, rows, filter, filtered, currentPage, spinner>>

ListAnswered ==
  /\ reading.state = "200"
  /\ ApplyFilters(reading.list, filter)
  /\ spinner' = FALSE /\ reading' = Idle
  /\ UNCHANGED <<db, tab>>

\* Refused or lost: the rows stay, those of another tab too.
ListRefused ==
  /\ reading.state = "asked"
  /\ spinner' = FALSE /\ reading' = Idle
  /\ UNCHANGED <<db, tab, rows, filter, filtered, currentPage>>

TableInit ==
  /\ tab = "pending" /\ rows = << >> /\ filter = NoFilter /\ filtered = << >>
  /\ currentPage = 1 /\ spinner = TRUE /\ reading = [Idle EXCEPT !.state = "asked"]

TableNext ==
  \/ \E customer \in Customer, kind \in Kind : QueuePayment(customer, kind)
  \/ \E t \in Tabs : SelectTab(t)
  \/ RefreshTable
  \/ \E f \in [currency : Currencies, min : Amounts, max : Amounts] : SetFilter(f)
  \/ clearFilters
  \/ NextPage
  \/ PreviousPage
  \/ ServeList
  \/ ListAnswered
  \/ ListRefused
=============================================================================
