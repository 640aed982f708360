# A TLA+ verification of the payment portal

The repository is an international payment portal: an Express and Mongoose
server (`src/server`), a React client (`src/client`) and a few scripts over the
same MongoDB database (`src/server/utils`). A customer registers, logs in and
creates payments; an employee approves or rejects each one and submits the
approved ones to SWIFT; an approval issues an invoice.

This directory holds the modules, the TLC instances and the TLAPS proofs about
it. Paths below are relative to `src/`.

## 1. Inventory

| Component | State | Operations | What makes it correct | Modules |
|---|---|---|---|---|
| Payment workflow: `server/routes/payments.js`, `models/Payment.js`, `models/Invoice.js` | the Payment and Invoice collections; what each handler in flight holds | create, verify (approve / reject), submit-swift | a decision stands; only approved payments reach SWIFT; an approval has one invoice | PaymentWorkflow, PaymentLifecycle |
| Invoice script: `utils/seedInvoices.js` | reads Payment and Employee, writes Payment and Invoice | invoices for payments that have none; sample payments | it repairs what it finds, never a second invoice | InvoiceSeeding |
| Employees: `utils/seedData.js`, `utils/resetEmployeePasswords.js`, `config/database.js` | the Employee collection | seeding at start-up, deletion and re-creation | all accounts are there whatever runs beside the seeding | EmployeeSeeding |
| Login and lockout: `routes/auth.js`, `middleware/accountLockout.js` | attempts and lockouts in memory; a stored counter | both logins, hourly cleaning | a lockout is earned, is not shortened and ends | LoginLockout |
| Registration: `routes/auth.js`, `models/Customer.js` | the Customer collection and its two unique indexes | register | e-mail and account number are unique; a refusal has a reason | CustomerRegistration, CustomerRegistry |
| Directory and statistics: `routes/customers.js`, the listings of `routes/payments.js` | none; several queries in one answer | statistics, details, lists | numbers read while payments move are off by no more than the writes | CustomerDirectory |
| Sessions: `utils/jwtSecurity.js`, `routes/auth.js`, `client/src/App.jsx`, login and registration forms | the browser's cookies, what each tab shows | sign in, register, log out, token end | requests are served as the user the page shows; a logout ends the session | Portal |
| Rate limit: `index.js` | a fixed window and its count | count, refuse, reopen | fewer than twice the limit in any span; nobody stays out for ever | Portal |
| Validation: `middleware/inputSanitization.js`, `comprehensiveValidation.js`, `utils/validation.js` | none (pure) | clean, match | ordinary names, passwords and e-mails survive; what is registered can log in | InputPipeline, Credentials |
| Customer's pages: `client/src/components` | React state, requests under way | pay, list transactions, list invoices | what is shown is the customer's; forms come back | CustomerPages |
| Employee's payments page: `employee/EmployeeDashboard.jsx` | tab, list, selection, dialogs, calls; filters and page of the table | fetch, refresh, decide, submit, filter, turn pages | one action at a time, reports of what was saved, no endless spinner, no page beyond the rows | EmployeeDashboard, PaymentTable |
| Employee's other views: `CustomerListView.jsx`, `AcceptedPaymentsView.jsx` | list, selection, details; the archive | select, open, leave | details follow the selection; the archive keeps what nobody decided again | EmployeePages |
| Security monitoring, CSRF check, `utils/passwordSecurity.js`, superseded files, visual components, build | | | | not modelled (section 10) |

How they interact. The client calls the routes. A route runs its middleware
(limiter, cleaning, lockout check, token, validators) and then one `async`
handler; between two `await`s the handler runs alone, and at each `await` any
other handler may run. Handlers share the database and, for lockouts and the
limiter, the process's memory. The scripts share the database with the running
server. There are no transactions, no document versions are compared, and
uniqueness is enforced only by the unique indexes of the schemas. Pages are React
state and closures: an answer is applied when it arrives, whatever is shown then.

What is hard, and where tests hardly reach: two handlers between the status
check and the save; a batch that fails half way; the process stopping between
an approval and its invoice; scripts beside the server; lockout boundaries in
time; answers that reach a page out of order, late or never; several tabs with
one cookie. `PROJECT.json` lists each at its line under `hazards`.

## 2. How the project is built, and what it could still grow

| Step | Modules | Theorems | State |
|---|---|---|---|
| 1 | PaymentWorkflow, PaymentLifecycle, PaymentProperties | PaymentProofs | done |
| 2 | InvoiceSeeding (EXTENDS PaymentWorkflow), SeedingProperties | SeedingProofs | done |
| 3 | LoginLockout, LoginProperties | LoginProofs | done |
| 4 | EmployeeSeeding, StaffProperties | StaffProofs | done |
| 5 | CustomerRegistration, CustomerRegistry, RegistrationProperties; CustomerDirectory, DirectoryProperties on top of it | RegistrationProofs | done |
| 6 | EmployeeDashboard, DashboardProperties | DashboardProofs | done |
| 7 | Places, PortalData and InputPipeline; CustomerPages, EmployeePages, PaymentTable over them; PortalPages composes the three; PagesProperties | PagesProofs | done |
| 8 | Portal and Credentials, PortalProperties | PortalProofs | done |
| 9 | the patterns for amounts, SWIFT codes and account numbers beside InputPipeline; the event map of security monitoring | | open |

The abstract specifications are PaymentLifecycle, which PaymentWorkflow implements while
requests about one payment do not overlap, and CustomerRegistry, which
CustomerRegistration implements always; runs show it on an instance, PaymentProofs and
RegistrationProofs for any constants. `Places` (entries picked from a list by their
places) is shared by what filters tables and what cleans texts. Properties are kept in
modules of their own, apart from the components; `MC*` modules hold symmetry and
constants that a `.cfg` cannot write. Eight modules named `*Proofs` hold the theorems;
each proof of an invariant names its inductive invariant as a definition, which TLC has
found to hold on the module's instance. Where a proof needs what a recursive definition
computes (`FoldSet`, `Lengthened`), it takes a smallest counterexample (`WFMin`), since
the library's induction theorems cannot be used with the provers at hand. No module that
a theorem needs declares a RECURSIVE operator. An operator whose comment begins with
"Mutant:" is a plausible wrong version of the one that follows; no specification uses
it: it is what the properties were tried against.

## 3. The payment workflow

### PaymentWorkflow.tla

| Variable | In the code |
|---|---|
| `payments` | the Payment collection: the paths some later step depends on. `validId` says whether the generated `transactionId` matches the validator's pattern; `failureReason` is the employee whose notes were copied into it; `swiftReference` is the request that produced it |
| `invoices` | the Invoice collection; the invoice number is the request that drew it |
| `employees` | whether each employee document exists, or existed |
| `pc`, `task` | the `await` each handler is at, and the local variables it holds (employee, decision, documents found) |
| `wrote`, `code` | what the handler saved and the status code it answered with |

| Action | In the code |
|---|---|
| `CreatePayment` | `POST /api/payments`. One action: the customer it reads is never deleted |
| `StartVerify`, `RefuseVerify` | the verify handler up to `payment.verify(...)`: validation, `findOne`, status check |
| `SaveVerify` | the save in `Payment.verify` and the look-up of the employee |
| `CreateInvoice`, `InvoiceError` | the invoice branch, and its inner `catch` |
| `StartSubmit`, `RefuseSubmit`, `SubmitOne` | the submit-swift handler: `find`, then one save per turn of the loop |
| `SaveError` | a save that throws: the outer `catch` answers 500. The update may have reached the database |
| `Crash` | the process stops with handlers in flight |
| `HireEmployee`, `ResetEmployees` | the employee scripts, as the payment routes see them |

A Mongoose `save()` on a document that was read is a `$set` of the modified
paths with the `_id` as its only condition. So `Verified` and `Submitted` change
the *stored* document, and keep what they do not set. This is what makes overlapping
requests interesting: nothing re-checks the status.

Left out: amounts, names and notes, which nothing branches on after validation;
the customer look-up, since nothing deletes customers; security events and logs.

`Request` is the set of requests of a behaviour; each is handled once, so a
finished request is also the history the properties refer to. `OneAtATime`
restricts the callers, not the server: with it, a request is not sent while another
about the same payment is being handled.

### PaymentLifecycle.tla

The workflow the README of the repository draws: pending, then verified or
rejected by one employee, then submitted, then completed, with at most one
invoice. `PaymentProperties!FollowsLifecycle` maps the detailed module to it
(status, deciding employee, set of invoice numbers per payment).

### Properties (PaymentProperties.tla)

However requests overlap and fail: `SwiftOnlyApproved`, `InvoiceFromApproval`,
`DecisionRecorded` and the action property `NothingWithdrawn`. When requests
about one payment do not overlap: `AnswerStands` and `FollowsLifecycle`, the
refinement, which contains that a decision is final, that a rejected payment is
never submitted and that a payment has at most one invoice. Liveness:
`ApprovalInvoiced`: the request that saved an approval issues its invoice whatever
becomes of the payment meanwhile, unless the employee's document is deleted.

### Runs

| Run | Instance | Result |
|---|---|---|
| `payment_overlap` | 2 payments, 2 employees, 3 requests, overlaps and faults | the first group holds |
| `payment_serial` | the same, requests about one payment one at a time, faults | the second group holds |
| `payment_progress` | 2 payments, 2 employees, 2 requests, no faults, fair | liveness holds |
| `payment_double_invoice` | 1 payment, 3 requests, overlaps | two invoices for one payment |

Bounds. Two payments are enough for a batch that is partly submitted, and no
property relates more than two payments. Three requests are enough for a
decision, its overlapping rival and a submission. Two employees are enough to
tell whose decision stands and to keep one while the other is deleted.
`RandomDigits` holds one length that gives a valid id and one that does not.
`CHECK_DEADLOCK FALSE`: requests are used up, so a behaviour may come to rest.
Symmetry is used for safety runs only.

Fairness. `FairSpec` has weak fairness on each handler's own steps: Node resumes
a handler when its database call returns. Nothing obliges users to send requests
or scripts to run. The liveness run has no faults: with them, an approval may
lose its invoice for ever (`InvoiceError`, `Crash`), and nothing in the server
retries.

### Proofs (PaymentProofs.tla)

For every set of payments, employees and requests, with overlaps and faults, and
from `WorkflowAssumption` alone:

- `TypeCorrect`: `Spec => []TypeOK`
- `SwiftNeedsApproval`: `Spec => []SwiftOnlyApproved`
- `InvoicesComeFromApprovals`: `Spec => []InvoiceFromApproval`
- `DecisionsAreRecorded`: `Spec => []DecisionRecorded`
- `NothingIsWithdrawn`: `Spec => NothingWithdrawn`

The inductive invariant `Ind` adds to these `HandlerInv` (what a handler holds
at each `await`: a saving verify handler has written nothing yet, one in the
invoice branch has saved an approval and issued nothing) and `WrittenDecided`
(what a handler saved has left pending). They are needed together: a submission keeps
`DecisionRecorded` only because what it submits was approved, and an approval
that was saved was decided. The proof first describes a step by its shape
(`StepShape`: which documents it may change, and how), then each invariant uses
the shape instead of the thirteen actions.

With `OneAtATime` as a hypothesis, which is what the run `payment_serial` assumes:

- `SerialInductive`: `OneAtATime /\ Spec => []SerialInd`
- `AnswersStand`: `OneAtATime /\ Spec => []AnswerStands`
- `InvoicedOnce`: `OneAtATime /\ Spec => []OneInvoicePerPayment`, the very formula that
  `payment_double_invoice` finds violated without the hypothesis
- `ImplementsLifecycle`: `OneAtATime /\ Spec => FollowsLifecycle`

`SerialInd` adds to `Ind` that requests in flight hold different payments (`Apart`),
that what a handler read is still so when it saves (`ReadsFresh`), and that what it saved
stands, by one decision per payment (`SavedStands`, `DecidedOnce`, `AnsweredWhenSaved`).
`ReadsFresh` is what overlap takes away: the code checks the status when it reads and
not when it saves. The refinement goes step by step: each step changes the documents of
one payment at most, by a step of the lifecycle, or is a stutter; an invoice is issued
for a payment whose set of invoice numbers is empty, which needs that the request is the
one that decided it.

Without `OneAtATime`, and without faults, as the run `payment_progress` has it:

- `ApprovalsAreOwedInvoices`: `~Faults /\ Spec => []InvoiceOwed`, the safety half of
  `ApprovalInvoiced`. A saved approval has its invoice from the same request, or the handler
  is about to issue it, or the employee's document was deleted.
  Its invariant adds that whoever decides was hired (`ActorsHired`), so that an employee
  who is not found was deleted. With faults the formula is false: `InvoiceError` and
  `Crash` are exactly what loses an invoice.

Model-checked only: that a handler which can go on does so in the end (`ApprovalInvoiced`),
which is liveness and out of the prover's reach.

## 4. The invoice script

`InvoiceSeeding` runs `utils/seedInvoices.js` any number of times (`Run`) beside the
actions of PaymentWorkflow. The Invoice collection is `invoices` (those of
handlers) together with `seeded` (those of the script).

| Variable | In the code |
|---|---|
| `rpc` | the call each run awaits |
| `found`, `todo`, `current` | the copies `Payment.find` returned; those the loop has not come to; the one being invoiced |
| `created` | what the function under way has counted as created |
| `staff` | the employees found for samples |
| `failed` | history: the run met an error or was stopped |

| Action | In the code |
|---|---|
| `FindApproved` | the start and the query of `generateInvoicesForExistingPayments` |
| `CheckInvoice`, `SeedInvoice` | one turn of its loop: the look-ups, and `Invoice.create` from the copy |
| `LoopError` | its `catch`, which returns 0 so that samples follow |
| `FindStaff`, `SamplePayment`, `SampleInvoice`, `SampleError` | `createSamplePaymentsAndInvoices` |
| `Interrupt` | the process ends between two calls |

The look-ups of invoice and employee are one action, because an employee deleted
between them makes the loop skip the payment either way. The samples take
employees in turn; the model lets any of them be taken. `Samples` is the number
of active customers, at most three in the code. A run for whose sample no
document of `Payment` is left stays where it is, a bound of the instance.

`plan` says which runs are started apart from all else and which beside the
requests; it restricts the operator, not the script.

| Run | Instance | Result |
|---|---|---|
| `seeding` | 2 payments, 2 employees, 2 requests (not about one payment at once), faults; either 2 runs, one after the other and apart from the requests, or 1 run beside them | `RunRepairs`, `SeededFromApproval` hold; for runs apart `NoSecondInvoice` and `EverythingInvoiced` |

Runs apart are what the script is for: a request that approved a payment and
lost its invoice, a crash in between, a run that failed half way, and then a run
that makes it good and repeats nothing. One request approves and the other submits, so
that a missing invoice may belong to a submitted payment. Beside the server, the
findOne and the create of a run leave room for the verify handler, or another run,
to issue the same invoice; so `NoSecondInvoice` is stated of runs apart. One sample
per run is enough, since samples are alike. `EverythingInvoiced` speaks of single
steps, so symmetry is sound here.

Proved (SeedingProofs.tla), for all constants, overlaps and faults, on top of the
lemmas of PaymentProofs: `SeedingTypeCorrect` (`SeedingSpec => []SeedingTypeOK`) and
`RunsRepair` (`SeedingSpec => []RunRepairs`). The first is proved and not run. The
inductive invariant says that every
copy found is still to do or settled (`LoopInv`), and that every employee a
document or a task names has been hired (`HiredInv`): only then does "not found" mean
"deleted", which is for ever. Server steps are used through what they keep
(invoices stay, deleted employees stay deleted), and the steps after the loop through
one lemma (`AfterLoopStep`).

Three more parts make `FullInd` (`SeedingInductive`):

- `BackedInd`: where requests do not overlap, every approved payment, every copy still to
  do and every invoice of the script is backed by a saved approval of the employee it
  names, or is a sample that no request has taken up. From it
  `ScriptFollowsApprovals`: `OneAtATime /\ SeedingSpec => []SeededFromApproval`.
- `CoveredInd`: while a run that is apart has not failed, every approved payment is among
  those it found, or has its invoice, or is the sample in its hands. From it
  `ScriptMakesGood`: `SeedingSpec => EverythingInvoiced`, which needs no `OneAtATime`:
  requests that overlapped before the run are repaired too.
- `OnceInd`: with no run beside the server, a payment in the hands of a run, or invoiced
  by one, is in the hands of no handler that could still invoice it. From it
  `ScriptInvoicesOnce`: `OneAtATime /\ SeedingSpec => []NoSecondInvoice`.

## 5. Login and lockout

`LoginLockout` models `POST /login` and `POST /employee-login` over the two maps of
`middleware/accountLockout.js`, which they share, and the counter stored with a
customer.

| Variable | In the code |
|---|---|
| `count`, `lockoutCount`, `lastAttempt` | `accountAttempts`; an absent entry is zeros |
| `lockedAt`, `unlockAt` | `accountLockouts`; zero when absent |
| `stored` | `Customer.failedLoginAttempts` |
| `now` | `Date.now()`, in units that divide the configured durations |
| `pc`, `task`, `code` | the await, the e-mail, route and counter read, and the answer of each request |
| `strikes` | history: the requests counted as failures since the process started |

| Action | In the code |
|---|---|
| `Arrive`, `TurnAway` | `checkAccountLockout`, which forgets a lockout that is over |
| `FindNobody`, `FindSuspended`, `Find` | the `findOne` of either route and what follows it |
| `WrongPassword`, `Strike` | a customer's failure is saved, then counted in memory; an employee's is counted at once |
| `RightPassword`, `Welcome`, `RightEmployeePassword`, `Stamp` | the two success paths, which clear memory and document in opposite orders |
| `Fail` | the `catch`: 500, the rest of the handler not done |
| `CleanUp`, `Tick`, `Restart` | `cleanupExpiredEntries`, time, and a new process with empty maps and the old database |

The code caps the lockouts after the first only; `LockoutDuration <= Day` is assumed,
as configured, so the cap of `Duration` is idle on the first.

| Run | Instance | Result |
|---|---|---|
| `login_overlap` | 2 e-mails (one suspended), both routes, 4 requests, threshold 2, duration 1, multiplier 2, a day of 3, clock up to 5, faults | the invariants and `LockNeverShortened` hold |

With a threshold of two, four requests reach a second lockout, whose duration is
doubled; with a day of three the clock passes the point at which attempts are
forgotten. The properties: a lockout costs its number of failures, none counted
twice and, until a success or a day has passed, none lost (`LockEarned`); what is
under a lockout is remembered (`LockRemembered`); a lockout in force is not
shortened (`LockNeverShortened`); the stored counter never exceeds the failures
(`StoredNotInflated`). The type invariant is proved and not
run. No fairness is assumed and no liveness stated.

Proved (LoginProofs.tla), for all constants allowed by `LockoutAssumption`, and so for
any number of accounts and requests and any configuration: every property of the run.

- `LoginTypeCorrect`, `LocksAreRemembered`: the invariant `LockKept` bounds the end of a
  lockout by a day after the last attempt, which is exactly what keeps an entry from
  being forgotten.
- `LockoutsAreEarned`, `StoredCounterHonest`: the invariant `CountInd` adds that a request
  is counted when it is answered and answered once (`AnsweredOnce`), and that a handler
  that verifies a password holds a copy of the stored counter no larger than the wrong
  passwords so far. The properties compare counters with the sizes of sets of requests;
  the proof follows a step by which request it adds to which set.
- `LocksAreNotShortened`: the invariant `LockTimed` says that a lockout in force ends no
  later than one of the same number would that began now; that the next number is at
  least as long is `DurationGrows`. `Math.pow` is the recursive function `Lengthened`
  (the prover knows nothing of `^`); that the function exists and never falls is
  proved by a smallest counterexample.

## 6. The employee collection

`EmployeeSeeding` runs server starts (`Boot`) and reset scripts (`Reset`) side by
side, each a process with a loop over the same list of accounts.

| Variable | In the code |
|---|---|
| `employees` | the Employee collection; of a document, its account and who wrote it |
| `pc`, `at`, `outcome` | the call a process awaits, the account its loop is at, how it ended |
| `faulted`, `cleared`, `alone` | history: processes struck by a fault, the last to delete, those beside which nothing has run |

`Connect`, `Count`, `Find`, `Clear`, `Create`, `Duplicate` and `Report` are the awaits
in their order; `Throw` is a call that throws, whose write may have happened, and
`Kill` ends the process. E-mail and employee id belong together, so the two unique
indexes are one.

Run `staff`: 2 starts, 2 resets, 3 accounts, faults, any part of the accounts there at
first. Two of each let every pair cross; three accounts give a loop a first, a
middle and a last. It shows that all accounts
are there when the last process has ended and no fault struck
(`FullStaffAtTheEnd`), that a reset that exits with 0 wrote every account itself
(`ResetReplacesAll`), and that a start with nothing beside it repairs the rest
(`StartRepairs`).

Proved (StaffProofs.tla), for any number of starts, resets and accounts:
`StaffTypeCorrect` (no account has two documents), `StaffIsFull`, `ResetReplaces`,
`StartRepairsStaff`. The hard one is `StaffIsFull`: a duplicate ends the loop that meets
it, so one must show that somebody goes on. "For every missing account some process is
on its way to it" is not inductive, since that process may meet a document written
behind its back. The invariant `HeirForMissing` says it for every written account *j*
and every missing *k* after it: between the two some process is on its way to *k*. The
author of the document that ends a loop is then the heir.

## 7. Registration, directory and statistics

`CustomerRegistration` is `POST /api/auth/register`: `Register`, `FindEmail`,
`FindAccount`, `Create` or `CreateRefused` (the unique index), `IssueTokens`, with
`RegistrationError` and `Crash`. State: `customers`, and per request `pc`, `asked`,
`code`, `signedIn`, and the history `struck`.

`CustomerRegistry` is what registration promises, as if each request were one step:
`Apply`, `Enrol`, `Welcome`, `TurnAway`. Nobody is enrolled beside a customer with the
same e-mail or account number, nobody is turned away but for a customer who is there, a
welcome is for the enrolled, and nothing is taken back. `FollowsRegistry` maps the
collection, the answers and the sessions to it; each `await` of the handler is one step of
the registry or a stutter, and so is a fault (a create that throws may have enrolled).

`CustomerDirectory` EXTENDS it with what employees read: the six counts of
`GET /customers/employee/stats` one by one (`AskStats`, `Count`), the details of a
customer (`AskDetails`, `ReadDetails`) and the list with two queries per customer
(`AskCustomers`, `TallyCount`, `TallySum`), while payments are created, decided and
submitted. The handlers that decide and submit are seen in their saves, as any number of
overlapping ones make them: a handler may have found a payment pending at any time since
it was created, so `Decide` saves over whatever the status is by now, and one that submits
may have found it approved at any time since an approval was saved (`approved`), so
`Submit` does. A submitted payment can thereby become verified or rejected.

Run `accounts`: 2 e-mails, 2 account numbers, 3 registrations of which any two may
share either; or one of them (`Beside`), with one wish (`OneWish`: no other stands
beside it), next to 1 resident customer, 2 payments, 1 deciding employee, 1 reader and
2 writes that a number may miss (`MaxMoved`). Three applicants are enough for two to collide with
a third in different ways, or for a circle of refusals, if there could be one.
The two parts are not combined in full: the directory reads customers and
registration reads no payments (`Room`). What holds: `FollowsRegistry`, `AnswersTrue`
(nobody is refused for the sake of somebody who is not there, `RefusalHasWinner`; a 201
answer, its session and the document stand together, `WelcomeStands`), `ReadsHold`, and
`RegistrationSettles`, a liveness property under weak fairness of each handler's
own steps. The parts of `ReadsHold`: the counts miss the total by at most the
writes during the read (`StatsWithinWrites`), each payment stands once in the details
of a customer (`DetailsAddUp`), each number of payments in the list lies between its
values at the beginning and the end of the read, and so does each number of those
submitted, but for one per write since the beginning that took a payment back from them
(`TalliesWithinRead`). Such a write is a decision that was checked before a submission and
saved after it. Where handlers do not overlap there is none, and the list's numbers are exact;
where they do, a list may count as submitted what no longer is.

Proved (RegistrationProofs.tla), for any number of applicants, overlaps and faults:

- `RegistrationTypeCorrect` and `AnswersAreTrue` (`RegistrationSpec => []AnswersTrue`). The
  invariant `RegistrationInv` adds that a customer was created by a request past its
  creation (`CreatorIsPast`), that a request at its tokens has created its customer, and
  that a request has no answer, no session and no fault before its end and one of them
  after (`AnsweredAtEnd`).
- `ImplementsRegistry` (`RegistrationSpec => FollowsRegistry`). The look-ups before the
  create do not matter for it: what keeps two customers apart is the unique index at the
  create, and `CreatorIsPast` tells that no request creates twice. The refinement needs to
  know that a request that has not arrived has asked for nothing (`AskedOnArrival`).
- `RegistrationMovesOn`, the safety half of `RegistrationSettles`: a request that has ended
  without a fault leaves its e-mail or its account number taken, no step sends a request
  back, and each of its own steps brings it nearer to its end (`Remaining`).
- `AccountsRegister`: all this still holds with payments and readers beside it
  (`AccountsSpec`, what the run checks).

The same module proves, for any finite set of payments and any readers, `AccountsInductive`
(`AccountsSpec => []AccountsInd`) and `ReadsSayWhatHolds` (`AccountsSpec => []ReadsHold`).
A payment in each status has what it must (`PaymentsOK`). For the statistics, `StatsOK`
says for every await what has been counted, together with what is still to be counted as it
is now, misses the total by no more than the writes since: a write moves one payment, so it
shifts such a sum by one at most, and a count moves a number from one side to the
other. For the lists (`TallyOK`) payments stay with their customer, so that their numbers only
grow, and each write that withdraws a submission, the only one that lowers the number of those
submitted, is counted (`moved`). For the details, every payment of the customer that is not pending
names the employee who decided it; `FoldSet` over the employees is shown to add these up
(`FoldAddsUp`). `DirectoryAssumption` asks that `Payment` is finite, as
a collection is, and that the sentinel is nobody's id.

## 8. The pages

### EmployeeDashboard.tla (runs `dashboard`, `dashboard_report`)

The page with its tab, list, spinner, timer, details, selection, dialogs and calls,
and of the server the status of each payment. A fetch remembers the tab it was
started for, a confirmation the payment and the decision of its dialog. `reads` is a
bag of list requests, so answers overtake one another. The handler of a call looks at
the payments first (`FindPayments`) and saves them one by one later (`SaveFound`), over
whatever other handlers saved in between; a save may throw (`SaveThrows`). Those other
handlers (`OtherHandler`) are of other employees and of requests that the page has given up
(`CallFails`) and that go on, or arrive, without it. As any number of them overlap, one may
have found a payment pending at any time since it was created, and saves its decision
whatever the payment is by now. `decided` keeps, as history, which decisions were saved.

Instance: 1 payment, tabs pending, verified and all, 2 requests in flight, 1 broken
call or save. One payment passes through every status; two requests are what it takes for an
answer to overtake another, or to arrive under another tab. It shows
`DashboardInv` (the page waits for nothing but calls in flight, one decision at
most), `ReportTrue` and, under fairness, `PendingTabRecovers`.
`ReportTrue` says what a message of success is worth: the decision was saved; the
server holds it as long as nobody has saved the opposite, and never holds the payment as pending
again; and the page never reports both decisions about one payment, although its list
may be old and a lost call repeated. That the decision reported stays is not so: an
overlapping handler, the page's own lost attempt among them, can replace it (section 9).
Fairness: the server's handlers go on, answers arrive, the interval fires; the employee
and other handlers owe nothing. `dashboard_report` finds a submission that was carried out and reported as
failed (section 9).

### PortalPages.tla (run `pages`)

One browser over `PortalData`, the payments with the writes of others. It composes

- `CustomerPages`: form, transactions and invoices of PaymentDashboard, with requests
  that are served, refused, lost, or answered after the page has been left. Of the
  form's fields the recipient's name stands for all; `InputPipeline` says what the
  server's cleaning and matching do to it, as sequences of a few kinds of parts;
- `EmployeePages`: the directory with details that come back in any order (a click
  asks twice), and the archive filtered from the newest payments;
- `PaymentTable`: filters and pages of the table of EmployeeDashboard, which the module
  of that name leaves out.

The variable `side` says which of them a behaviour is about; they share nothing but the
server's payments. The first to sign in is always the same customer, and so is the one
whose payments an employee sees (customers are alike). The handlers of `PortalData`
overlap in any number, as in section 7: `Decide` and `Submit` save over whatever the status is
by then, and `again` keeps, as history, that a decision was saved over an earlier one. An approval
makes an invoice due, and `IssueInvoice` issues it, or never does, when the create fails
or the process stops. Of these writes a customer's pages show the invoices and an employee's
the decisions, so a customer's side has no submissions and an employee's no invoices
(`EmployeesWork`). Instance: 2 customers, 2 employees, 2 payments, 2 sign-ins, 2 requests
at once, 2 openings of an employee's view, 2 requests for details. Two sign-ins on one page
are enough for an answer to come to another's page; two payments are two pages of one row
(`PerPage` 1) that the filters, one filled at a time (`MaxFilled` 1), tell apart; `Limit` 1
lets the archive lose an older payment. One payment at most is decided again, which is
enough for one to leave an archive and another to stay in it.
With two payments at most, a list never reaches `TableLimit`: that newer payments hide older
ones is seen in the archive. `NamesSurvive` tries every text of up to four parts, and of up
to six (`MaxKnot`) over the halves of one or two listed words and hyphens, where one deletion makes
room for another.

The properties are in PagesProperties: what a page shows is its user's own
(`ShownIsTheirs`), what was made is reported (`EveryPaymentReported`), the archive shows again what it
has shown unless newer payments or a decision saved over the employee's took it away
(`ArchiveKeeps`), details
belong to the customer selected (`DetailsFollowSelection`), spinners and buttons wait
for requests that are under way, and a form is shut exactly while its payment is sent
(`CustomerWaits`), one payment at a time (`PagesInv`), the table's pages are the rows
that pass its filters (`PagesCoverRows`), ordinary names are stored as typed and what is
stored of any other is parts of it, in their order, among letters, spaces and hyphens
(`NamesSurvive`), and a form that is sending can be used again (`FormComesBack`). Fairness: a
customer's request that is not lost is served and its answer arrives; on the employee's side
nothing needs it.

`InputPipeline` follows the sanitizer's patterns in their order: listed words, pairs of
hyphens, `waitfor` and `delay` with the spaces behind them, and then the words listed last,
whose deletion may bring hyphens together again.

### Portal.tla and Credentials.tla (run `portal`)

Tabs of one browser, each with its route, its form and whom it shows; one jar of
cookies for all; the token that ends after `Quarter` ticks; the limiter before
`/api/auth`. A request is served in one step (`Handle`) and its answer and cookies
arrive in a later one (`CustomerAnswered`, `EmployeeAnswered`, `RegisterAnswered`,
`LogoutAnswered`), or never (`Lose`). LoginForm shows its customer a second later
(`due`, `ShowCustomer`). `careful` restricts the users: they send nothing while an
answer is under way and show themselves in one tab at a time. That is what
`ServedAsShown` needs; `LoggedOutMeansOut` and the limiter's promise (`LimiterHolds`, a
part of `PortalInv`) hold without it.

Instance: 2 tabs, 2 customers, 1 employee, a limit of 2, a window of 2 ticks, 2
requests under way. Two customers and an employee cover both roles and a change of
person within one; a window of two ticks lets two windows meet in one span. The only
fairness is that time passes, which is what `LimitedServedAgain` rests on.

`Credentials` are pure operators: a password through form, cleaning, hashing and
login, and an e-mail through the four rules it meets, with the server's maxima
(`MaxPassword`, `MaxLocal`, `MaxEmail`; 128, 64 and 254 characters in the code) and those
patterns of `sanitizeXSS` that can match what EMAIL_REGEX lets through: `@import` and the
attributes of events (`on`, letters, `=`). `CredentialsHold` says that what was
registered logs in (`CredentialsStand`) and that ordinary ones within the maxima are taken as
they are (`CredentialsSurvive`); an e-mail is not ordinary if its domain begins with `import`, or if
it has other characters than letters, digits, hyphens and full stops before the @. The run tries
every password of up to six parts with a maximum of five, and every e-mail with up to three parts
before the @, or five of an event's, and up to four after it, with maxima of three
and seven: a password has four classes of parts, so five leave room for one more of any
and six pass the maximum, and five parts are an event's attribute with a letter to spare.

### Proofs about the pages

DashboardProofs.tla, for any payments, tabs, requests in flight and broken calls:
`PageWaitsForCallsInFlight` (`DashboardInv`) and `ReportsAreTrue` (`ReportTrue`). The
inductive invariant (`DashboardInductive`) is `Shape`, that the page acts exactly while one
call is in flight and that every list request is one it made, and `Truth`: what the server
holds is one of the decisions saved (`Fits`), and a handler that has found its one payment
pending has found one about which nothing was saved and so nothing was reported, which stays
so until it answers (`CallTrue`), since nobody but this page adds to `told` and the page has
one call. Nothing else is used of other handlers but that no save forgets a decision.

PagesProofs.tla, for any customers, employees, payments, names, limits and bounds
(`PagesInductive`): `PagesShowWhomTheyBelongTo` (`ShownIsTheirs`), `SuccessIsReported`
(`EveryPaymentReported`), `PanelShowsTheSelected` (`DetailsFollowSelection`), `ArchivesKeep`
(`ArchiveKeeps`), `PagesKeepTheirShape` (`PagesInv`) and `TheTableIsPaged` (`PagesCoverRows`).
Assumed: there are finitely many customers, and the bounds on pages and payments are
positive. On the customer's side the invariant says of each call which visit made it, for
whom it was served and that one report at most is under way (`CallOK`, `OneReport`), of the
page that history and list are the customer's (`HistoryTrue`, `ListTrue`), that an open form
has no payment under way (`FormFree`) and that a shut one has, as a spinner has its
request (`Waiting`). On the employee's side it says which customer each
answer about details is for and when a later request has overtaken it (`AsksOK`, `DetailsOK`),
and that an archive that was read holds whatever it has shown unless it is too old or was
decided again (`ArchivedOK`, `CoveredOK`). Payments are only appended, keep their customer, their
invoice and the mark of having been decided again, and without that mark what is accepted
stays so and by whom (`Forward`): that is all these proofs use of the server.

For the table, the rows shown are always what the filters leave of the list read last
(`TableOK`). That such a list (`Kept`) has one row for each place it keeps, and in their
order, is an argument about ranks: the n-th place is the one with n kept places up to
its own (`PlacesInOrder`, `KeptOf`). A list of the server is therefore without
repetition and no longer than there are payments, and so are the rows, also when
payments came in since; the page number is within the pages after each change
(`PageBounds`). The types of `PagesInv` need invariants of their own: an invoice is
chosen of a list that changes no more, since a visit asks for its invoices once
(`ShownTypes`), the requests under way are bounded (`CallsBounded`), and the cursor is
within the directory, which has each customer once (`DirectoryIs`, by the pigeonhole
principle).

`NamesSurviveCleaning` (`NamesSurvive`) is about texts of any length. What a filter leaves of
a text are the entries at some places (`Picked`), so the same ranks serve: through every pass
what is left are parts of the text in their order, and what trimming leaves is an interval.
The second cleaning may still alter a name that was validated: `Uni--on -Lee` becomes
`Union -Lee`, then `-Lee`, which the pattern would refuse; and `Jo-ca-cat-t-Lee` becomes
`Jo-ca--t-Lee`, then `Jo-cat-Lee`, then `Jo--Lee`, with the pair of hyphens that is
deleted elsewhere. So `NamesSurvive` does not say that a stored name is one the server would accept.

PortalProofs.tla, for any tabs, users, lifetimes and limits (`PortalInductive`):
`LimiterKeepsItsPromise` (`PortalInv`), `LogoutsAreFinal` (`LoggedOutMeansOut`),
`PagesServeWhomTheyShow` (`ServedAsShown`), `RefusalsEnd` and `CredentialsSurviveCleaning`
(`CredentialsHold`). For the limiter the requests of the last span are
split into those of the open window, which are counted, and those of an earlier one, of which
there are fewer than the limit because the first of them is a window's length old when
the next window opens (`Windows`). For `ServedAsShown` one thing at a time is under way
(`OneThing`): a request, or the second a customer waits for the page. `RefusalsEnd` is the
safety half of `LimitedServedAgain`: whoever is refused waits for a window that is open,
asking again does not put off its end, and each tick brings it nearer. For the credentials a
text in which a filter finds nothing stays as it is, and a password or an e-mail is cleaned
in the same way when it is registered and when it is used.

Model-checked only is liveness under fairness, here and in the sections before:
`ApprovalInvoiced`, `RegistrationSettles`, `PendingTabRecovers`, `FormComesBack` and
`LimitedServedAgain`. Each rests on a safety half that is proved: `ApprovalsAreOwedInvoices`,
`RegistrationMovesOn`, `PageWaitsForCallsInFlight`, the waits in `PagesKeepTheirShape`, and
`RefusalsEnd`.

## 9. Where the code and its documents differ

Shown by a run:

- Two overlapping approvals issue two invoices; the invoice script and its
  comments assume one (`payment_double_invoice`).
- A submission that succeeded is reported as failed, since the page reads
  `results.successful` and the server sends a list (`dashboard_report`).

Seen while modelling, and how the models treat them (they follow the code):

Server.
- A handler checks a payment's status and saves later by `_id` alone (payments.js:247, :255;
  :345, :360). So a decision can replace another that was answered with 200, take an approval out of the archive
  of the employee who made it, and turn a submitted payment back into a verified or rejected one;
  an employee's own lost first attempt can do so too. The models allow it, and what
  `ReportTrue`, `ArchiveKeeps` and `TalliesWithinRead` promise is what is left.
- A payment that is rejected while a batch is under way is submitted from the copy
  read before (payments.js:360; a test says otherwise, integration.test.js:345).
  `FollowsLifecycle` therefore asks that requests about one payment do not overlap.
- A generated transaction id may be too short for the validator (payments.js:67); the
  payment can then be neither decided nor submitted. `validId` records it.
- Nothing calls `Payment.complete` (Payment.js:135), so no payment is ever completed.
- Lockouts after the first last longer than the 15 minutes that the answer
  (auth.js:216) and the README (:120) name, and their number survives a successful
  login (accountLockout.js:70).
- The invoice script announces "No existing verified payments" and adds samples also
  when all of them have invoices, or after an error (seedInvoices.js:231). Its invoices
  show the status their payment had when it began.
- A registration may answer 500 although the customer exists (`IssueTokens` fails); the
  retry is refused. Registration signs in, though the page says to log in.
- An employee who logs in between a reset's delete and create is told that the
  credentials are invalid.
- The limiter counts every request under `/api/auth`, not only logins (README:119).
- Lists end at 50, 100 or 200 documents, so that new payments hide old ones.
- Cleaning deletes words such as `Union` from names, and `$` and `&` from passwords:
  one whose only special characters these are is refused, others are shortened
  silently, at login too. A second cleaning after validation may change a value, or
  empty it (500).
- E-mails with an apostrophe (400) or a plus sign (500) pass the form and not the
  server; nor do those whose domain begins with `import`, since `@import` is deleted
  (inputSanitization.js:84): `john@importers.com` is answered 400. An event's attribute is
  deleted before the @: `jones=bob@x.com` becomes `jbob@x.com`, which is registered, and
  logs in by either.
- The forms have no maximum length; the server takes 128 characters of a password
  (validation.js:38) and 254 of an e-mail (:25).

Pages.
- The tab "All" is always refused: it sends an empty status (EmployeeDashboard.jsx:79).
- The dialog of a submission counts the whole selection and adds up the listed rows
  only; search compares unformatted amounts; an empty table says "Showing 1-0 of 0";
  auto-refresh returns to page 1; `handleVerifyTransaction` has no caller.
- The folder's badge counts the payments of the current tab while the archive shows the
  employee's own.
- The form takes names with full stops, apostrophes at the ends, or of two letters, that the server
  refuses; what is typed while a payment is sent is wiped on its success; a retry
  after a lost answer makes a second payment.
- `invoiceCount` reads `payments` where the server sends transactions; the invoices
  have no way back to the form.
- A click in the directory asks for the details twice, and an overtaken answer shows
  another customer's details.
- A logout that is refused by the limiter, or lost, leaves the token in place while the
  page shows the login form (README:63). A failed login clears the cookies of all tabs.
  Nothing refreshes a token: a session ends after fifteen minutes.

Security monitoring.
- `trackFailedLogin` and `blockIP` have no caller outside the file, the session check
  runs before `req.user` is set, the keys of two events can coincide
  (securityMonitoring.js:116), and its dashboard is not mounted.

## 10. Not modelled

- Security monitoring: a log and a map that only an unmounted dashboard reads; nothing
  else depends on it.
- The CSRF check (only the token's endpoint is mounted; that it fails is one of the
  failures of a call), helmet, CORS, the redirect to HTTPS: no state.
- `utils/passwordSecurity.js` (its tests only), `checkEmployees.js` (a listing),
  superseded files (`*.BACKUP.js`, `*.DATABASE.js`, `EmployeeDashboard.backup.jsx`).
- `unlockAccount` and `getLockoutStats` of the lockout store, `requireDepartment` and
  `preventEmployeeRegistration`: no caller.
- The limiter of the other routes, whose limit no instance reaches; the refresh token,
  which nothing reads.
- The patterns for amounts, SWIFT codes, countries and account numbers.
- Visual components, build and CI files, certificates.
- Behind the pages of PortalPages and Portal and the reads of CustomerDirectory, the
  awaits inside a handler: there handlers that write payments are seen in their saves alone, as
  overlapping ones can make them in any order (sections 7 and 8), and a handler that reads one list,
  or that registers or signs in (Portal), is one step. PaymentWorkflow, EmployeeDashboard,
  LoginLockout and CustomerRegistration take such handlers apart.
