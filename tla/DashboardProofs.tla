-------------------------- MODULE DashboardProofs --------------------------
(***************************************************************************)
(* Proofs about the payments page of an employee, for every set of         *)
(* payments, every choice of visited tabs and all bounds.                  *)
(*                                                                         *)
(* DashboardInv is not inductive as it stands: that a spinner is ended      *)
(* needs the shape of the reads in the bag.  Nor is ReportTrue: it depends *)
(* on what the handlers of calls in flight have found, on every decision   *)
(* being about one payment, and on a payment that is still pending having  *)
(* been reported to nobody.                                                *)
(***************************************************************************)
EXTENDS DashboardProperties, TLAPS

Want == {"verified", "rejected", "submitted_to_swift"}
ListReply == [got : {"waiting", "rows", "refused"}, rows : SUBSET Row]
Read == [tab : Tab, spinner : BOOLEAN, ans : ListReply]
Call == [ask : Ask, tab : Tab, left : SUBSET Payment,
         ans : {"waiting", "saving", "ok", "refused"}]
DialogType == [isOpen : BOOLEAN, ask : Ask, tab : Tab]

\* The bag of list requests, with what a request is.
ReadsTyped == IsABag(reads) /\ DOMAIN reads \subseteq Read

\* The call in flight, if there is one.
OneCall == IF actionLoading THEN \E c \in Call : calls = {c} ELSE calls = {}

\* A decision is about one payment, a submission about any number.
AboutOne(ask) ==
  ask.want # "submitted_to_swift" => \A p, q \in ask.ids : p = q

DecisionsAboutOne ==
  /\ AboutOne(confirmDialog.ask)
  /\ \A c \in calls : AboutOne(c.ask)

\* The server holds what was saved: nothing, or one of the decisions.
Fits ==
  \A p \in Payment :
    \/ status[p] \in {"absent", "pending"} /\ decided[p] = {}
    \/ status[p] \in Held(decided[p])

\* A decision was saved about every payment it names.
Saved(ask) == \A p \in ask.ids : ask.want \in decided[p]

\* A handler submits what was approved; one that decides found its payment
\* pending, so nothing had been reported about it, and says ok once it saved.
CallTrue(c) ==
  /\ c.left \subseteq c.ask.ids
  /\ c.ask.want = "submitted_to_swift" => \A p \in c.left : "verified" \in decided[p]
  /\ c.ask.want # "submitted_to_swift" /\ c.ans \in {"saving", "ok"} =>
       \A ask \in told : ask.ids \cap c.ask.ids = {}
  /\ c.ask.want # "submitted_to_swift" /\ c.ans = "ok" => Saved(c.ask)

CallsTrue == \A c \in calls : CallTrue(c)

\* What was reported was saved, and nothing contrary to it was reported.
ToldTrue ==
  \A ask \in told :
    /\ Saved(ask)
    /\ \A other \in told : \A p \in ask.ids : p \in other.ids => other.want = ask.want

Shape ==
  /\ DashboardTypeOK
  /\ ReadsTyped
  /\ OneCall
  /\ LoadingMeansFetch

Truth == DecisionsAboutOne /\ Fits /\ CallsTrue /\ ToldTrue

DashboardInd == Shape /\ Truth

-----------------------------------------------------------------------------
(* Bags *)

\* Adding to a bag gives a bag with that element, whatever it had before.
LEMMA AddToBag ==
  ASSUME NEW B, IsABag(B), NEW x
  PROVE  IsABag(BagAdd(B, x)) /\ DOMAIN BagAdd(B, x) = DOMAIN B \cup {x}
<1>1. CASE x \in DOMAIN B
  <2>1. \A e \in DOMAIN B : B[e] \in Nat /\ B[e] > 0
    BY DEF IsABag
  <2>2. BagAdd(B, x) = [e \in DOMAIN B |-> IF e = x THEN B[e] + 1 ELSE B[e]]
    BY <1>1 DEF BagAdd
  <2>3. \A e \in DOMAIN B : (IF e = x THEN B[e] + 1 ELSE B[e]) \in {n \in Nat : n > 0}
    BY <2>1
  <2>4. DOMAIN B \cup {x} = DOMAIN B
    BY <1>1
  <2> QED BY <2>2, <2>3, <2>4 DEF IsABag
<1>2. CASE x \notin DOMAIN B
  BY <1>2 DEF IsABag, BagAdd
<1> QED BY <1>1, <1>2

\* Removing from a bag gives a bag that keeps every other element.
LEMMA RemoveFromBag ==
  ASSUME NEW B, IsABag(B), NEW x
  PROVE  /\ IsABag(BagRemove(B, x))
         /\ DOMAIN BagRemove(B, x) \subseteq DOMAIN B
         /\ DOMAIN B \ {x} \subseteq DOMAIN BagRemove(B, x)
<1>1. CASE x \notin DOMAIN B
  BY <1>1 DEF BagRemove
<1>2. CASE x \in DOMAIN B /\ B[x] = 1
  BY <1>2 DEF IsABag, BagRemove
<1>3. CASE x \in DOMAIN B /\ B[x] # 1
  <2>1. B[x] \in Nat /\ B[x] > 1
    BY <1>3 DEF IsABag
  <2> QED BY <1>3, <2>1 DEF IsABag, BagRemove
<1> QED BY <1>1, <1>2, <1>3

-----------------------------------------------------------------------------
(* What is saved about a payment *)

Typed ==
  /\ status \in [Payment -> PaymentStatus \cup {"absent"}]
  /\ decided \in [Payment -> SUBSET {"verified", "rejected"}]

\* A decision that was saved has been saved for good.
Grows == \A p \in Payment : decided[p] \subseteq decided'[p]

\* A save keeps the types, and forgets no decision.
LEMMA SaveGrows ==
  ASSUME Typed, NEW p \in Payment, NEW want \in Want, Save(p, want)
  PROVE  Typed' /\ Grows
<1>1. status' \in [Payment -> PaymentStatus \cup {"absent"}]
  BY DEF Save, Typed, Want, PaymentStatus
<1>2. decided[p] \cup ({want} \ {"submitted_to_swift"}) \in SUBSET {"verified", "rejected"}
  BY DEF Typed, Want
<1>3. decided' \in [Payment -> SUBSET {"verified", "rejected"}]
  BY <1>2 DEF Save, Typed
<1>4. Grows
  BY DEF Save, Typed, Grows
<1> QED BY <1>1, <1>3, <1>4 DEF Typed

\* What a save leaves fits, if what is submitted was approved.
LEMMA SaveFits ==
  ASSUME Typed, Fits, NEW p \in Payment, NEW want \in Want, Save(p, want),
         want = "submitted_to_swift" => "verified" \in decided[p]
  PROVE  Fits'
<1>1. /\ status' = [status EXCEPT ![p] = want]
      /\ decided' = [decided EXCEPT ![p] = @ \cup ({want} \ {"submitted_to_swift"})]
  BY DEF Save
<1>2. status'[p] \in Held(decided'[p])
  BY <1>1 DEF Typed, Held, Want
<1>3. \A q \in Payment \ {p} : status'[q] = status[q] /\ decided'[q] = decided[q]
  BY <1>1 DEF Typed
<1> QED BY <1>2, <1>3 DEF Fits

\* The three steps of the handler of a call replace it by one that asks the same,
\* and leave the page alone.
LEMMA HandlerStep ==
  ASSUME DashboardTypeOK, NEW c \in calls,
         FindPayments(c) \/ SaveFound(c) \/ SaveThrows(c)
  PROVE  /\ \E d \in Call : d.ask = c.ask /\ calls' = (calls \ {c}) \cup {d}
         /\ UNCHANGED <<table, modal, actionLoading, reads, told>>
<1>1. c \in Call /\ c.ask \in Ask
  BY DEF DashboardTypeOK, Call
<1>2. CASE FindPayments(c)
  <2> DEFINE d == [c EXCEPT !.left = Eligible(c.ask),
                            !.ans = IF Eligible(c.ask) = {} THEN "refused" ELSE "saving"]
  <2>1. Eligible(c.ask) \subseteq Payment
    BY <1>1 DEF Eligible, Ask
  <2>2. d \in Call /\ d.ask = c.ask
    BY <1>1, <2>1 DEF Call
  <2>3. calls' = (calls \ {c}) \cup {d} /\ UNCHANGED <<table, modal, actionLoading, reads, told>>
    BY <1>2 DEF FindPayments, Replace
  <2> HIDE DEF d
  <2> QED BY <2>2, <2>3
<1>3. CASE SaveFound(c)
  <2>1. PICK p \in c.left :
          /\ calls' = (calls \ {c}) \cup
               {[c EXCEPT !.left = @ \ {p}, !.ans = IF c.left = {p} THEN "ok" ELSE "saving"]}
          /\ UNCHANGED <<table, modal, actionLoading, reads, told>>
    BY <1>3 DEF SaveFound, Replace
  <2> DEFINE d == [c EXCEPT !.left = @ \ {p},
                            !.ans = IF c.left = {p} THEN "ok" ELSE "saving"]
  <2>2. d \in Call /\ d.ask = c.ask
    BY <1>1 DEF Call
  <2>3. calls' = (calls \ {c}) \cup {d}
    BY <2>1
  <2> HIDE DEF d
  <2> QED BY <2>1, <2>2, <2>3
<1>4. CASE SaveThrows(c)
  <2> DEFINE d == [c EXCEPT !.left = {}, !.ans = "refused"]
  <2>1. d \in Call /\ d.ask = c.ask
    BY <1>1 DEF Call
  <2>2. calls' = (calls \ {c}) \cup {d} /\ UNCHANGED <<table, modal, actionLoading, reads, told>>
    BY <1>4 DEF SaveThrows, Replace
  <2> HIDE DEF d
  <2> QED BY <2>1, <2>2
<1> QED BY <1>2, <1>3, <1>4

\* Every step keeps the types, and forgets no decision.
LEMMA StatusStep ==
  ASSUME DashboardTypeOK, [Next]_vars
  PROVE  Typed' /\ Grows
<1>0. Typed
  BY DEF DashboardTypeOK, Typed
<1>1. CASE UNCHANGED server
  BY <1>0, <1>1 DEF server, Typed, Grows
<1>2. ASSUME NEW p \in Payment, CreatePayment(p)
      PROVE  Typed' /\ Grows
  BY <1>0, <1>2 DEF CreatePayment, Typed, Grows, PaymentStatus
<1>3. ASSUME NEW p \in Payment, NEW want \in Want, OtherHandler(p, want)
      PROVE  Typed' /\ Grows
  BY <1>0, <1>3, SaveGrows DEF OtherHandler
<1>4. ASSUME NEW c \in calls, SaveFound(c)
      PROVE  Typed' /\ Grows
  <2>1. c \in Call
    BY DEF DashboardTypeOK, Call
  <2>2. c.left \subseteq Payment /\ c.ask.want \in Want
    BY <2>1 DEF Call, Ask, Want
  <2> QED BY <1>0, <1>4, <2>2, SaveGrows DEF SaveFound
<1>6. CASE Others
  BY <1>2, <1>3, <1>6 DEF Others, Want
<1>7. CASE EmployeeStep \/ Tick
  BY <1>1, <1>7 DEF EmployeeStep, SelectTab, Refresh, ToggleAutoRefresh, VerifyRow,
     openVerifyDialog, ShowDetails, ToggleSwift, VerifyDetails, CloseDetails,
     openSwiftDialog, Cancel, Confirm, Tick
<1>9. CASE Fault
  BY <1>1, <1>9 DEF Fault, ListFails, Settle, CallFails, SaveThrows
<1>10. CASE ListsAnswered \/ ListsArrive
  BY <1>1, <1>10 DEF ListsAnswered, AnswerList, ListsArrive, ListArrives, Settle
<1>11. CASE CallsAnswered
  BY <1>1, <1>4, <1>11 DEF CallsAnswered, FindPayments
<1>12. CASE CallsEnd
  BY <1>1, <1>12 DEF CallsEnd, VerifyDone, SwiftDone, CallRefused
<1>13. CASE UNCHANGED vars
  BY <1>1, <1>13 DEF vars
<1> QED
  BY <1>6, <1>7, <1>9, <1>10, <1>11, <1>12, <1>13 DEF Next

-----------------------------------------------------------------------------
(* The shape of the page *)

\* The page as it is mounted, with the first read on its way.
LEMMA InitShape == Init => Shape
<1> SUFFICES ASSUME Init PROVE Shape
  OBVIOUS
<1> DEFINE r0 == NewRead("pending", TRUE)
<1>1. r0 \in Read /\ r0.spinner /\ r0.tab \in Tab /\ r0.ans.rows \subseteq Row
  BY DEF NewRead, Read, ListReply, Tab
<1>2. IsABag(reads) /\ DOMAIN reads = {r0}
  BY DEF Init, SetToBag, IsABag
<1>3. Closed \in DialogType
  BY DEF Closed, DialogType, Ask, Tab
<1>4. \A r \in BagToSet(reads) : r.tab \in Tab /\ r.ans.rows \subseteq Row
  BY <1>1, <1>2 DEF BagToSet
<1>5. DashboardTypeOK
  <2>1. failures \in 0 .. MaxFailures
    BY DashboardAssumption DEF Init
  <2>2. Typed
    BY DEF Init, Typed
  <2>3. confirmDialog \in [isOpen : BOOLEAN, ask : Ask, tab : Tab]
    BY <1>3 DEF Init, DialogType
  <2> QED BY <1>2, <1>4, <2>1, <2>2, <2>3 DEF Init, DashboardTypeOK, Tab, Typed
<1>6. ReadsTyped
  BY <1>1, <1>2 DEF ReadsTyped
<1>7. OneCall
  BY DEF Init, OneCall
<1>8. LoadingMeansFetch
  BY <1>1, <1>2 DEF LoadingMeansFetch, BagToSet
<1> QED BY <1>5, <1>6, <1>7, <1>8 DEF Shape

\* The rows of an answer are rows, as the server knows them.
LEMMA ListAnswerTyped ==
  ASSUME NEW t \in Tab, status \in [Payment -> PaymentStatus \cup {"absent"}]
  PROVE  ListAnswer(t) \in ListReply
<1>1. CASE t = "all"
  BY <1>1 DEF ListAnswer, ListReply
<1>2. CASE t # "all"
  <2>1. t \in PaymentStatus
    BY <1>2 DEF Tab, PaymentStatus
  <2>2. \A p \in Payment : status[p] = t => [id |-> p, status |-> status[p]] \in Row
    BY <2>1 DEF Row
  <2>3. Rows({p \in Payment : status[p] = t}) \subseteq Row
    BY <2>2 DEF Rows
  <2> QED BY <1>2, <2>3 DEF ListAnswer, ListReply
<1> QED BY <1>1, <1>2

\* A request for a list that leaves the page is one more read, waiting.
LEMMA FetchShape ==
  ASSUME ReadsTyped, NEW t \in Tab, NEW s \in BOOLEAN, fetchTransactions(t, s)
  PROVE  /\ ReadsTyped'
         /\ DOMAIN reads' = DOMAIN reads \cup {NewRead(t, s)}
         /\ NewRead(t, s).spinner = s
<1>1. NewRead(t, s) \in Read /\ NewRead(t, s).spinner = s
  BY DEF NewRead, Read, ListReply
<1> QED BY <1>1, AddToBag DEF ReadsTyped, fetchTransactions

\* An answer on its way leaves the read what it was.
LEMMA AnswerListShape ==
  ASSUME Shape, NEW r \in BagToSet(reads), AnswerList(r)
  PROVE  ReadsTyped' /\ LoadingMeansFetch'
<1> DEFINE a == [r EXCEPT !.ans = ListAnswer(r.tab)]
<1>1. r \in Read /\ IsABag(reads) /\ DOMAIN reads \subseteq Read
  BY DEF Shape, ReadsTyped, BagToSet
<1>2. ListAnswer(r.tab) \in ListReply
  BY <1>1, ListAnswerTyped DEF Read, Shape, DashboardTypeOK
<1>3. a \in Read /\ a.spinner = r.spinner
  BY <1>1, <1>2 DEF Read
<1> HIDE DEF a
<1>4. reads' = BagAdd(BagRemove(reads, r), a)
  BY DEF AnswerList, a
<1>5. /\ IsABag(reads') /\ DOMAIN reads' \subseteq DOMAIN reads \cup {a}
      /\ (DOMAIN reads \ {r}) \cup {a} \subseteq DOMAIN reads'
  <2>1. /\ IsABag(BagRemove(reads, r))
        /\ DOMAIN BagRemove(reads, r) \subseteq DOMAIN reads
        /\ DOMAIN reads \ {r} \subseteq DOMAIN BagRemove(reads, r)
    BY <1>1, RemoveFromBag
  <2>2. IsABag(reads') /\ DOMAIN reads' = DOMAIN BagRemove(reads, r) \cup {a}
    BY <1>4, <2>1, AddToBag
  <2> QED BY <2>1, <2>2
<1>6. loading' = loading
  BY DEF AnswerList, table
<1>7. LoadingMeansFetch'
  <2> SUFFICES ASSUME loading PROVE \E q \in DOMAIN reads' : q.spinner
    BY <1>6 DEF LoadingMeansFetch, BagToSet
  <2>1. PICK q \in DOMAIN reads : q.spinner
    BY DEF Shape, LoadingMeansFetch, BagToSet
  <2> QED BY <1>3, <1>5, <2>1
<1> QED BY <1>1, <1>3, <1>5, <1>7 DEF ReadsTyped

\* A read that ends ends the spinner if it put it up, and leaves the others.
LEMMA SettleShape ==
  ASSUME Shape, NEW r \in BagToSet(reads), Settle(r)
  PROVE  ReadsTyped' /\ LoadingMeansFetch' /\ loading' \in BOOLEAN
<1>1. r \in Read /\ IsABag(reads) /\ DOMAIN reads \subseteq Read
  BY DEF Shape, ReadsTyped, BagToSet
<1>2. /\ IsABag(reads') /\ DOMAIN reads' \subseteq DOMAIN reads
      /\ DOMAIN reads \ {r} \subseteq DOMAIN reads'
  BY <1>1, RemoveFromBag DEF Settle
<1>3. LoadingMeansFetch'
  <2> SUFFICES ASSUME loading' PROVE \E q \in DOMAIN reads' : q.spinner
    BY DEF LoadingMeansFetch, BagToSet
  <2>1. loading /\ ~r.spinner
    BY DEF Settle
  <2>2. PICK q \in DOMAIN reads : q.spinner
    BY <2>1 DEF Shape, LoadingMeansFetch, BagToSet
  <2> QED BY <1>2, <2>1, <2>2
<1> QED BY <1>1, <1>2, <1>3 DEF ReadsTyped, Settle

\* What a read in the bag is, as the type of the page says it.
LEMMA ReadFields ==
  ASSUME ReadsTyped
  PROVE  IsABag(reads) /\ \A r \in BagToSet(reads) : r.tab \in Tab /\ r.ans.rows \subseteq Row
BY DEF ReadsTyped, BagToSet, Read, ListReply

\* Every step keeps the reads, and the spinner has one to end it.
LEMMA ReadsStep ==
  ASSUME Shape, [Next]_vars
  PROVE  ReadsTyped' /\ LoadingMeansFetch'
<1> USE DEF Shape
<1>1. CASE UNCHANGED <<reads, loading>>
  BY <1>1 DEF ReadsTyped, LoadingMeansFetch
<1>2. ASSUME NEW t \in Tab, NEW s \in BOOLEAN, fetchTransactions(t, s),
             loading' => loading \/ s
      PROVE  ReadsTyped' /\ LoadingMeansFetch'
  <2>1. /\ ReadsTyped'
        /\ DOMAIN reads' = DOMAIN reads \cup {NewRead(t, s)}
        /\ NewRead(t, s).spinner = s
    BY <1>2, FetchShape
  <2>2. loading => \E q \in DOMAIN reads : q.spinner
    BY DEF LoadingMeansFetch, BagToSet
  <2>3. loading' => \E q \in DOMAIN reads' : q.spinner
    BY <1>2, <2>1, <2>2
  <2> QED BY <2>1, <2>3 DEF LoadingMeansFetch, BagToSet
<1>3. tab \in Tab /\ Visited \subseteq Tab /\ \A c \in calls : c.tab \in Tab
  BY DashboardAssumption DEF DashboardTypeOK
<1>4. CASE Others
  BY <1>1, <1>4 DEF Others, CreatePayment, OtherHandler, table
<1>5. ASSUME NEW t \in Visited, SelectTab(t)
      PROVE  ReadsTyped' /\ LoadingMeansFetch'
  BY <1>2, <1>3, <1>5 DEF SelectTab, TabEffect
<1>6. CASE Refresh \/ Tick
  <2>1. fetchTransactions(tab, FALSE) /\ loading' = loading
    BY <1>6 DEF Refresh, Tick, table
  <2> QED BY <1>2, <1>3, <2>1
<1>7. CASE EmployeeStep
  BY <1>1, <1>5, <1>6, <1>7 DEF EmployeeStep, ToggleAutoRefresh, VerifyRow,
     openVerifyDialog, ShowDetails, ToggleSwift, VerifyDetails, CloseDetails,
     openSwiftDialog, Cancel, Confirm, table
<1>8. CASE Fault
  BY <1>1, <1>8, SettleShape DEF Fault, ListFails, CallFails, SaveThrows, table
<1>9. CASE ListsAnswered
  BY <1>9, AnswerListShape DEF ListsAnswered
<1>10. CASE ListsArrive
  BY <1>10, SettleShape DEF ListsArrive, ListArrives
<1>11. CASE CallsAnswered
  BY <1>1, <1>11 DEF CallsAnswered, FindPayments, SaveFound, table
<1>12. CASE CallsEnd
  <2>1. ASSUME NEW c \in calls, VerifyDone(c)
        PROVE  ReadsTyped' /\ LoadingMeansFetch'
    BY <1>2, <1>3, <2>1 DEF VerifyDone, table
  <2> QED BY <1>1, <1>12, <2>1 DEF CallsEnd, SwiftDone, CallRefused, table
<1>13. CASE UNCHANGED vars
  BY <1>1, <1>13 DEF vars, table
<1> QED
  BY <1>4, <1>6, <1>7, <1>8, <1>9, <1>10, <1>11, <1>12, <1>13 DEF Next

\* Every step keeps the one call in flight one: the button of the dialog works
\* only when there is none, and an answer replaces the call it answers.
LEMMA OneCallStep ==
  ASSUME Shape, [Next]_vars
  PROVE  OneCall' /\ (calls' = {} \/ \E c \in Call : calls' = {c})
<1> USE DEF Shape
<1> SUFFICES OneCall'
  BY DEF OneCall
<1>1. CASE UNCHANGED <<calls, actionLoading>>
  BY <1>1 DEF OneCall
<1>2. ASSUME NEW c \in calls, FindPayments(c) \/ SaveFound(c) \/ SaveThrows(c)
      PROVE  OneCall'
  <2>1. PICK d \in Call : calls' = (calls \ {c}) \cup {d} /\ actionLoading' = actionLoading
    BY <1>2, HandlerStep
  <2>2. actionLoading /\ calls = {c}
    BY DEF OneCall
  <2>3. calls' = {d}
    BY <2>1, <2>2
  <2> QED BY <2>1, <2>2, <2>3 DEF OneCall
<1>3. CASE Confirm
  <2> DEFINE n == NewCall
  <2>1. n \in Call
    BY DEF DashboardTypeOK, Call, NewCall
  <2>2. calls = {}
    BY <1>3 DEF OneCall, Confirm, ConfirmButton
  <2>3. calls' = {n} /\ actionLoading'
    BY <1>3, <2>2 DEF Confirm
  <2> HIDE DEF n
  <2> QED BY <2>1, <2>3 DEF OneCall
<1>4. ASSUME NEW c \in calls, EndCall(c)
      PROVE  OneCall'
  BY <1>4 DEF OneCall, EndCall
<1>5. CASE Others
  BY <1>1, <1>5 DEF Others, CreatePayment, OtherHandler
<1>6. CASE EmployeeStep
  BY <1>1, <1>3, <1>6 DEF EmployeeStep, SelectTab, Refresh, ToggleAutoRefresh, VerifyRow,
     openVerifyDialog, ShowDetails, ToggleSwift, VerifyDetails, CloseDetails,
     openSwiftDialog, Cancel
<1>7. CASE Tick
  BY <1>1, <1>7 DEF Tick
<1>8. CASE Fault
  BY <1>1, <1>2, <1>4, <1>8 DEF Fault, ListFails, Settle, CallFails
<1>9. CASE ListsAnswered \/ ListsArrive
  BY <1>1, <1>9 DEF ListsAnswered, AnswerList, ListsArrive, ListArrives, Settle
<1>10. CASE CallsAnswered
  BY <1>2, <1>10 DEF CallsAnswered
<1>11. CASE CallsEnd
  BY <1>4, <1>11 DEF CallsEnd, VerifyDone, SwiftDone, CallRefused
<1>12. CASE UNCHANGED vars
  BY <1>1, <1>12 DEF vars
<1> QED
  BY <1>3, <1>5, <1>6, <1>7, <1>8, <1>9, <1>10, <1>11, <1>12 DEF Next

\* The table keeps its type: rows come from answers alone.
LEMMA TableStep ==
  ASSUME Shape, [Next]_vars
  PROVE  /\ tab' \in Tab /\ list' \subseteq Row
         /\ {loading', autoRefresh', actionLoading'} \subseteq BOOLEAN
         /\ failures' \in 0 .. MaxFailures
<1> USE DEF Shape
<1>0. /\ tab \in Tab /\ list \subseteq Row
      /\ loading \in BOOLEAN /\ autoRefresh \in BOOLEAN /\ actionLoading \in BOOLEAN
      /\ failures \in 0 .. MaxFailures /\ MaxFailures \in Nat
      /\ \A r \in BagToSet(reads) : r.ans.rows \subseteq Row
      /\ Visited \subseteq Tab
  BY DashboardAssumption DEF DashboardTypeOK
<1>1. CASE UNCHANGED <<table, actionLoading, failures>>
  BY <1>0, <1>1 DEF table
<1>2. CASE Others
  BY <1>1, <1>2 DEF Others, CreatePayment, OtherHandler
<1>3. CASE EmployeeStep
  BY <1>0, <1>3 DEF EmployeeStep, SelectTab, TabEffect, Refresh, ToggleAutoRefresh,
     VerifyRow, openVerifyDialog, ShowDetails, ToggleSwift, VerifyDetails, CloseDetails,
     openSwiftDialog, Cancel, Confirm, table
<1>4. CASE Tick
  BY <1>1, <1>4 DEF Tick
<1>5. ASSUME NEW r \in BagToSet(reads), ListArrives(r) \/ ListFails(r)
      PROVE  /\ tab' \in Tab /\ list' \subseteq Row
             /\ {loading', autoRefresh', actionLoading'} \subseteq BOOLEAN
             /\ failures' \in 0 .. MaxFailures
  <2>1. loading' \in BOOLEAN
    BY <1>5, SettleShape DEF ListArrives, ListFails
  <2>2. failures' \in 0 .. MaxFailures
    BY <1>0, <1>5 DEF ListArrives, ListFails
  <2>3. list' \subseteq Row
    BY <1>0, <1>5 DEF ListArrives, ListFails
  <2> QED BY <1>0, <1>5, <2>1, <2>2, <2>3 DEF ListArrives, ListFails, Settle
<1>6. ASSUME NEW c \in calls, CallFails(c)
      PROVE  /\ tab' \in Tab /\ list' \subseteq Row
             /\ {loading', autoRefresh', actionLoading'} \subseteq BOOLEAN
             /\ failures' \in 0 .. MaxFailures
  <2>1. failures' \in 0 .. MaxFailures
    BY <1>0, <1>6 DEF CallFails
  <2> QED BY <1>0, <1>6, <2>1 DEF CallFails, EndCall, table
<1>7. CASE Fault
  <2>1. ASSUME NEW c \in calls, SaveThrows(c)
        PROVE  failures' \in 0 .. MaxFailures /\ UNCHANGED <<table, actionLoading>>
    BY <1>0, <2>1 DEF SaveThrows
  <2> QED BY <1>0, <1>5, <1>6, <1>7, <2>1 DEF Fault, table
<1>8. CASE ListsAnswered \/ ListsArrive
  BY <1>1, <1>5, <1>8 DEF ListsAnswered, AnswerList, ListsArrive
<1>9. CASE CallsAnswered
  BY <1>1, <1>9 DEF CallsAnswered, FindPayments, SaveFound
<1>10. CASE CallsEnd
  BY <1>0, <1>10 DEF CallsEnd, VerifyDone, SwiftDone, CallRefused, EndCall, table
<1>11. CASE UNCHANGED vars
  BY <1>1, <1>11 DEF vars
<1> QED
  BY <1>2, <1>3, <1>4, <1>7, <1>8, <1>9, <1>10, <1>11 DEF Next

\* The dialog and the selections keep their types.
LEMMA ModalStep ==
  ASSUME Shape, [Next]_vars
  PROVE  /\ selectedTransaction' \in Row \cup {NoRow}
         /\ selectedForSwift' \subseteq Payment
         /\ confirmDialog' \in DialogType
<1> DEFINE Modal == /\ selectedTransaction' \in Row \cup {NoRow}
                    /\ selectedForSwift' \subseteq Payment
                    /\ confirmDialog' \in DialogType
<1>0. /\ selectedTransaction \in Row \cup {NoRow} /\ selectedForSwift \subseteq Payment
      /\ confirmDialog \in DialogType /\ list \subseteq Row /\ tab \in Tab
  BY DEF Shape, DashboardTypeOK, DialogType
<1>1. CASE UNCHANGED modal
  BY <1>0, <1>1 DEF modal
<1>2. \A ask \in Ask : Dialog(ask) \in DialogType
  BY <1>0 DEF Dialog, DialogType
<1>3. Closed \in DialogType
  BY DEF Closed, DialogType, Ask, Tab
<1>4. ASSUME NEW row \in Row, NEW want \in {"verified", "rejected"},
             openVerifyDialog(row, want)
      PROVE  Modal
  <2>1. [ids |-> {row.id}, want |-> want] \in Ask
    BY DEF Ask, Row
  <2> QED BY <1>0, <1>2, <1>4, <2>1 DEF openVerifyDialog
<1>5. ASSUME NEW row \in list, ToggleSwift(row)
      PROVE  Modal
  <2>1. row.id \in Payment
    BY <1>0 DEF Row
  <2> QED BY <1>0, <1>5, <2>1 DEF ToggleSwift, SymDiff
<1>6. CASE openSwiftDialog
  <2>1. [ids |-> selectedForSwift, want |-> "submitted_to_swift"] \in Ask
    BY <1>0 DEF Ask
  <2> QED BY <1>0, <1>2, <1>6, <2>1 DEF openSwiftDialog
<1>7. ASSUME NEW want \in {"verified", "rejected"}, VerifyDetails(want)
      PROVE  Modal
  BY <1>0, <1>4, <1>7 DEF VerifyDetails, DetailsShown
<1>8. CASE Cancel \/ Confirm
  BY <1>0, <1>3, <1>8 DEF Cancel, Confirm
<1>9. CASE EmployeeStep
  <2>1. CASE \E row \in list : \/ \E want \in {"verified", "rejected"} : VerifyRow(row, want)
                               \/ ShowDetails(row)
                               \/ ToggleSwift(row)
    BY <1>0, <1>4, <1>5, <2>1 DEF VerifyRow, ShowDetails
  <2>2. CASE (\E t \in Visited : SelectTab(t)) \/ Refresh \/ ToggleAutoRefresh
    BY <1>1, <2>2 DEF SelectTab, Refresh, ToggleAutoRefresh
  <2>3. CASE CloseDetails
    BY <1>0, <2>3 DEF CloseDetails
  <2> QED BY <1>6, <1>7, <1>8, <1>9, <2>1, <2>2, <2>3 DEF EmployeeStep
<1>10. CASE Others
  BY <1>1, <1>10 DEF Others, CreatePayment, OtherHandler
<1>11. CASE Tick
  BY <1>1, <1>11 DEF Tick
<1>12. CASE Fault
  BY <1>1, <1>12 DEF Fault, ListFails, Settle, CallFails, SaveThrows
<1>13. CASE ListsAnswered \/ ListsArrive \/ CallsAnswered
  BY <1>1, <1>13 DEF ListsAnswered, AnswerList, ListsArrive, ListArrives, Settle,
     CallsAnswered, FindPayments, SaveFound
<1>14. CASE CallsEnd
  BY <1>0, <1>1, <1>14 DEF CallsEnd, VerifyDone, SwiftDone, CallRefused
<1>15. CASE UNCHANGED vars
  BY <1>1, <1>15 DEF vars
<1> QED
  BY <1>9, <1>10, <1>11, <1>12, <1>13, <1>14, <1>15 DEF Next

\* Only requests that the page made are reported.
LEMMA ToldStep ==
  ASSUME Shape, [Next]_vars
  PROVE  \/ UNCHANGED told
         \/ \E c \in calls : VerifyDone(c)
<1>1. CASE Others
  BY <1>1 DEF Others, CreatePayment, OtherHandler
<1>2. CASE EmployeeStep \/ Tick
  BY <1>2 DEF EmployeeStep, SelectTab, Refresh, ToggleAutoRefresh, VerifyRow,
     openVerifyDialog, ShowDetails, ToggleSwift, VerifyDetails, CloseDetails,
     openSwiftDialog, Cancel, Confirm, Tick
<1>3. CASE Fault
  BY <1>3 DEF Fault, ListFails, Settle, CallFails, SaveThrows
<1>4. CASE ListsAnswered \/ ListsArrive \/ CallsAnswered
  BY <1>4 DEF ListsAnswered, AnswerList, ListsArrive, ListArrives, Settle,
     CallsAnswered, FindPayments, SaveFound
<1>5. CASE CallsEnd
  BY <1>5 DEF CallsEnd, SwiftDone, CallRefused
<1>6. CASE UNCHANGED vars
  BY <1>6 DEF vars
<1> QED
  BY <1>1, <1>2, <1>3, <1>4, <1>5, <1>6 DEF Next

\* The page keeps its shape.
LEMMA ShapeStep ==
  ASSUME Shape, [Next]_vars
  PROVE  Shape'
<1>1. calls' \subseteq Call
  BY OneCallStep
<1>2. DashboardTypeOK'
  <2>1. /\ IsABag(reads')
        /\ \A r \in BagToSet(reads') : r.tab \in Tab /\ r.ans.rows \subseteq Row
    BY ReadsStep DEF ReadsTyped, BagToSet, Read, ListReply
  <2>2. Typed'
    BY StatusStep DEF Shape
  <2>3. confirmDialog' \in [isOpen : BOOLEAN, ask : Ask, tab : Tab]
    BY ModalStep DEF DialogType
  <2>4. calls' \subseteq [ask : Ask, tab : Tab, left : SUBSET Payment,
                          ans : {"waiting", "saving", "ok", "refused"}]
    BY <1>1 DEF Call
  <2>5. /\ tab' \in Tab /\ list' \subseteq Row
        /\ {loading', autoRefresh', actionLoading'} \subseteq BOOLEAN
        /\ failures' \in 0 .. MaxFailures
    BY TableStep
  <2>6. selectedTransaction' \in Row \cup {NoRow} /\ selectedForSwift' \subseteq Payment
    BY ModalStep
  <2>7. told' \subseteq Ask
    <3>1. told \subseteq Ask /\ \A c \in calls : c.ask \in Ask
      BY DEF Shape, DashboardTypeOK
    <3>2. ASSUME NEW c \in calls, VerifyDone(c) PROVE told' \subseteq Ask
      BY <3>1, <3>2 DEF VerifyDone
    <3>3. UNCHANGED told \/ \E c \in calls : VerifyDone(c)
      BY ToldStep
    <3> QED BY <3>1, <3>2, <3>3
  <2> QED BY <2>1, <2>2, <2>3, <2>4, <2>5, <2>6, <2>7 DEF DashboardTypeOK, Typed
<1> QED BY <1>2, ReadsStep, OneCallStep DEF Shape

-----------------------------------------------------------------------------
(* What is reported is true *)

\* Every step keeps a decision a decision about one payment.
LEMMA AboutOneStep ==
  ASSUME Shape, DecisionsAboutOne, [Next]_vars
  PROVE  DecisionsAboutOne'
<1>1. CASE UNCHANGED <<calls, confirmDialog>>
  BY <1>1 DEF DecisionsAboutOne
<1>2. AboutOne(Closed.ask)
  BY DEF AboutOne, Closed
<1>3. ASSUME NEW row, NEW want \in {"verified", "rejected"}, openVerifyDialog(row, want)
      PROVE  DecisionsAboutOne'
  BY <1>3 DEF openVerifyDialog, Dialog, DecisionsAboutOne, AboutOne
<1>4. CASE openSwiftDialog
  BY <1>4 DEF openSwiftDialog, Dialog, DecisionsAboutOne, AboutOne
<1>5. CASE Cancel
  BY <1>2, <1>5 DEF Cancel, DecisionsAboutOne
<1>6. CASE Confirm
  <2> DEFINE n == NewCall
  <2>1. n.ask = confirmDialog.ask /\ calls' = calls \cup {n} /\ confirmDialog' = Closed
    BY <1>6 DEF Confirm, NewCall
  <2> HIDE DEF n
  <2> QED BY <1>2, <2>1 DEF DecisionsAboutOne
<1>7. ASSUME NEW c \in calls, FindPayments(c) \/ SaveFound(c) \/ SaveThrows(c)
      PROVE  DecisionsAboutOne'
  <2>1. PICK d \in Call : d.ask = c.ask /\ calls' = (calls \ {c}) \cup {d}
    BY <1>7, HandlerStep DEF Shape
  <2>2. confirmDialog' = confirmDialog
    BY <1>7, HandlerStep DEF Shape, modal
  <2> QED BY <2>1, <2>2 DEF DecisionsAboutOne
<1>8. ASSUME NEW c \in calls, EndCall(c), UNCHANGED confirmDialog
      PROVE  DecisionsAboutOne'
  BY <1>8 DEF EndCall, DecisionsAboutOne
<1>9. CASE EmployeeStep
  BY <1>1, <1>3, <1>4, <1>5, <1>6, <1>9 DEF EmployeeStep, SelectTab, Refresh,
     ToggleAutoRefresh, VerifyRow, ShowDetails, ToggleSwift, VerifyDetails,
     CloseDetails, modal
<1>10. CASE Others \/ Tick
  BY <1>1, <1>10 DEF Others, CreatePayment, OtherHandler, Tick, modal
<1>11. CASE Fault
  BY <1>1, <1>7, <1>8, <1>11 DEF Fault, ListFails, Settle, CallFails, modal
<1>12. CASE ListsAnswered \/ ListsArrive \/ CallsAnswered
  BY <1>1, <1>7, <1>12 DEF ListsAnswered, AnswerList, ListsArrive, ListArrives, Settle,
     CallsAnswered, modal
<1>13. CASE CallsEnd
  BY <1>8, <1>13 DEF CallsEnd, VerifyDone, SwiftDone, CallRefused, modal
<1>14. CASE UNCHANGED vars
  BY <1>1, <1>14 DEF vars, modal
<1> QED
  BY <1>9, <1>10, <1>11, <1>12, <1>13, <1>14 DEF Next

\* What the handler of a call found and saved lets it submit only what was approved.
LEMMA FoundApproved ==
  ASSUME Shape, CallsTrue, NEW c \in calls, NEW p \in c.left
  PROVE  /\ p \in Payment /\ c.ask.want \in Want
         /\ c.ask.want = "submitted_to_swift" => "verified" \in decided[p]
<1>1. c \in Call
  BY DEF Shape, DashboardTypeOK, Call
<1>2. p \in Payment /\ c.ask.want \in Want
  BY <1>1 DEF Call, Ask, Want
<1> QED BY <1>2 DEF CallsTrue, CallTrue

\* Every step keeps what the server holds one of the decisions saved.
LEMMA FitsStep ==
  ASSUME Shape, Fits, CallsTrue, [Next]_vars
  PROVE  Fits'
<1>0. Typed
  BY DEF Shape, DashboardTypeOK, Typed
<1>1. CASE UNCHANGED server
  BY <1>1 DEF server, Fits
<1>2. ASSUME NEW p \in Payment, CreatePayment(p)
      PROVE  Fits'
  <2>1. decided' = decided /\ status' = [status EXCEPT ![p] = "pending"] /\ status[p] = "absent"
    BY <1>2 DEF CreatePayment
  <2>2. decided[p] = {}
    BY <1>0, <2>1 DEF Fits, Held, Typed
  <2> QED BY <1>0, <2>1, <2>2 DEF Fits, Typed
<1>3. ASSUME NEW p \in Payment, NEW want \in Want, OtherHandler(p, want)
      PROVE  Fits'
  BY <1>0, <1>3, SaveFits DEF OtherHandler
<1>4. ASSUME NEW c \in calls, SaveFound(c)
      PROVE  Fits'
  <2>1. PICK p \in c.left : Save(p, c.ask.want)
    BY <1>4 DEF SaveFound
  <2> QED BY <1>0, <2>1, FoundApproved, SaveFits
<1>6. CASE Others
  BY <1>2, <1>3, <1>6 DEF Others, Want
<1>7. CASE EmployeeStep \/ Tick
  BY <1>1, <1>7 DEF EmployeeStep, SelectTab, Refresh, ToggleAutoRefresh, VerifyRow,
     openVerifyDialog, ShowDetails, ToggleSwift, VerifyDetails, CloseDetails,
     openSwiftDialog, Cancel, Confirm, Tick
<1>9. CASE Fault
  BY <1>1, <1>9 DEF Fault, ListFails, Settle, CallFails, SaveThrows
<1>10. CASE ListsAnswered \/ ListsArrive
  BY <1>1, <1>10 DEF ListsAnswered, AnswerList, ListsArrive, ListArrives, Settle
<1>11. CASE CallsAnswered
  BY <1>1, <1>4, <1>11 DEF CallsAnswered, FindPayments
<1>12. CASE CallsEnd
  BY <1>1, <1>12 DEF CallsEnd, VerifyDone, SwiftDone, CallRefused
<1>13. CASE UNCHANGED vars
  BY <1>1, <1>13 DEF vars
<1> QED
  BY <1>6, <1>7, <1>9, <1>10, <1>11, <1>12, <1>13 DEF Next

\* A call that the step leaves alone stays true, unless something was reported.
LEMMA CallStaysTrue ==
  ASSUME NEW c \in Call, CallTrue(c), Grows, UNCHANGED told
  PROVE  CallTrue(c)'
<1>1. c.left \subseteq Payment /\ c.ask.ids \subseteq Payment
  BY DEF Call, Ask
<1> QED BY <1>1 DEF CallTrue, Saved, Grows

\* The handler of a decision goes on only if its payment is pending, so that
\* nothing has been saved about it and nothing has been reported.
LEMMA FindTrue ==
  ASSUME Shape, Truth, NEW c \in calls, FindPayments(c)
  PROVE  CallsTrue'
<1>0. PICK d : d = [c EXCEPT !.left = Eligible(c.ask),
                             !.ans = IF Eligible(c.ask) = {} THEN "refused" ELSE "saving"]
  OBVIOUS
<1>1. c \in Call /\ calls \subseteq Call
  BY DEF Shape, DashboardTypeOK, Call
<1>2. /\ d.ask = c.ask /\ d.left = Eligible(c.ask)
      /\ d.ans = IF Eligible(c.ask) = {} THEN "refused" ELSE "saving"
  BY <1>0, <1>1 DEF Call
<1>3. calls' = (calls \ {c}) \cup {d} /\ told' = told /\ decided' = decided
  BY <1>0 DEF FindPayments, Replace, server
<1>4. /\ Eligible(c.ask) \subseteq c.ask.ids
      /\ \A p \in Eligible(c.ask) : p \in Payment /\ status[p] = From(c.ask.want)
  BY <1>1 DEF Eligible, Call, Ask
<1>5. c.ask.want = "submitted_to_swift" => \A p \in Eligible(c.ask) : "verified" \in decided[p]
  BY <1>4 DEF From, Truth, Fits, Held
<1>6. ASSUME c.ask.want # "submitted_to_swift", Eligible(c.ask) # {}, NEW ask \in told
      PROVE  ask.ids \cap c.ask.ids = {}
  <2>1. PICK p \in Eligible(c.ask) : p \in Payment /\ status[p] = "pending"
    BY <1>4, <1>6 DEF From
  <2>2. decided[p] = {}
    <3>1. decided[p] \subseteq {"verified", "rejected"}
      BY <2>1 DEF Shape, DashboardTypeOK
    <3> QED BY <2>1, <3>1 DEF Truth, Fits, Held
  <2>3. \A q \in c.ask.ids : q = p
    BY <1>4, <1>6, <2>1 DEF Truth, DecisionsAboutOne, AboutOne
  <2>4. p \notin ask.ids
    BY <2>2 DEF Truth, ToldTrue, Saved
  <2> QED BY <2>3, <2>4
<1>7. CallTrue(d)'
  BY <1>2, <1>3, <1>4, <1>5, <1>6 DEF CallTrue
<1>8. \A e \in calls : CallTrue(e)'
  BY <1>1, <1>3, CallStaysTrue DEF Truth, CallsTrue, Grows
<1> QED BY <1>3, <1>7, <1>8 DEF CallsTrue

\* The handler says ok to a decision when it has saved it.
LEMMA SaveTrue ==
  ASSUME Shape, Truth, Grows, NEW c \in calls, SaveFound(c)
  PROVE  CallsTrue'
<1>1. c \in Call /\ calls \subseteq Call /\ Typed
  BY DEF Shape, DashboardTypeOK, Call, Typed
<1>2. PICK p \in c.left :
        /\ c.ans = "saving" /\ Save(p, c.ask.want) /\ told' = told
        /\ calls' = (calls \ {c}) \cup
             {[c EXCEPT !.left = @ \ {p}, !.ans = IF c.left = {p} THEN "ok" ELSE "saving"]}
  BY DEF SaveFound, Replace
<1> DEFINE d == [c EXCEPT !.left = @ \ {p},
                          !.ans = IF c.left = {p} THEN "ok" ELSE "saving"]
<1>3. /\ d.ask = c.ask /\ d.left = c.left \ {p}
      /\ calls' = (calls \ {c}) \cup {d}
  BY <1>1, <1>2 DEF Call
<1> HIDE DEF d
<1>4. CallTrue(c) /\ AboutOne(c.ask) /\ c.left \subseteq Payment /\ c.ask.ids \subseteq Payment
  BY <1>1 DEF Truth, CallsTrue, DecisionsAboutOne, Call, Ask
<1>5. c.ask.want # "submitted_to_swift" => Saved(c.ask)'
  <2>1. c.ask.want # "submitted_to_swift" => c.ask.want \in decided'[p]
    BY <1>1, <1>2, <1>4 DEF Save, Typed
  <2>2. c.ask.want # "submitted_to_swift" => \A q \in c.ask.ids : q = p
    BY <1>4 DEF AboutOne, CallTrue
  <2> QED BY <2>1, <2>2 DEF Saved
<1>6. CallTrue(d)'
  BY <1>2, <1>3, <1>4, <1>5 DEF CallTrue, Grows
<1>7. \A e \in calls : CallTrue(e)'
  BY <1>1, <1>2, CallStaysTrue DEF Truth, CallsTrue
<1> QED BY <1>3, <1>6, <1>7 DEF CallsTrue

\* Every step keeps what is known of the calls in flight.
LEMMA CallsTrueStep ==
  ASSUME Shape, Truth, [Next]_vars
  PROVE  CallsTrue'
<1>1. Grows /\ calls \subseteq Call
  BY StatusStep DEF Shape, DashboardTypeOK, Call
<1>2. ASSUME UNCHANGED told, \A c \in calls' : c \in calls \/ CallTrue(c)'
      PROVE  CallsTrue'
  BY <1>1, <1>2, CallStaysTrue DEF Truth, CallsTrue
<1>3. CASE UNCHANGED <<told, calls>>
  BY <1>2, <1>3
<1>4. CASE Confirm
  <2>0. PICK n : n = NewCall
    OBVIOUS
  <2>1. n.left = {} /\ n.ans = "waiting" /\ calls' = calls \cup {n} /\ told' = told
    BY <1>4, <2>0 DEF Confirm, NewCall
  <2>2. CallTrue(n)'
    BY <2>1 DEF CallTrue
  <2> QED BY <1>2, <2>1, <2>2
<1>5. ASSUME NEW c \in calls, SaveThrows(c)
      PROVE  CallsTrue'
  <2> DEFINE d == [c EXCEPT !.left = {}, !.ans = "refused"]
  <2>1. d.left = {} /\ d.ans = "refused"
    BY <1>1 DEF Call
  <2>2. calls' = (calls \ {c}) \cup {d} /\ told' = told
    BY <1>5 DEF SaveThrows, Replace
  <2> HIDE DEF d
  <2>3. CallTrue(d)'
    BY <2>1 DEF CallTrue
  <2> QED BY <1>2, <2>2, <2>3
<1>6. ASSUME NEW c \in calls, EndCall(c)
      PROVE  CallsTrue'
  <2>1. calls' = {}
    BY <1>6 DEF Shape, OneCall, EndCall
  <2> QED BY <2>1 DEF CallsTrue
<1>7. CASE EmployeeStep
  BY <1>3, <1>4, <1>7 DEF EmployeeStep, SelectTab, Refresh, ToggleAutoRefresh, VerifyRow,
     openVerifyDialog, ShowDetails, ToggleSwift, VerifyDetails, CloseDetails,
     openSwiftDialog, Cancel
<1>8. CASE Others \/ Tick
  BY <1>3, <1>8 DEF Others, CreatePayment, OtherHandler, Tick
<1>9. CASE Fault
  BY <1>3, <1>5, <1>6, <1>9 DEF Fault, ListFails, Settle, CallFails
<1>10. CASE ListsAnswered \/ ListsArrive
  BY <1>3, <1>10 DEF ListsAnswered, AnswerList, ListsArrive, ListArrives, Settle
<1>11. CASE CallsAnswered
  BY <1>1, <1>11, FindTrue, SaveTrue DEF CallsAnswered
<1>12. CASE CallsEnd
  BY <1>6, <1>12 DEF CallsEnd, VerifyDone, SwiftDone, CallRefused
<1>13. CASE UNCHANGED vars
  BY <1>3, <1>13 DEF vars
<1> QED
  BY <1>7, <1>8, <1>9, <1>10, <1>11, <1>12, <1>13 DEF Next

\* Every step keeps the reports true: only the ok of a decision is reported, and
\* about its payment nothing had been.
LEMMA ToldTrueStep ==
  ASSUME Shape, Truth, [Next]_vars
  PROVE  ToldTrue'
<1>1. Grows /\ \A ask \in told : ask.ids \subseteq Payment
  BY StatusStep DEF Shape, DashboardTypeOK, Ask
<1>2. \A ask \in told : Saved(ask)'
  BY <1>1 DEF Truth, ToldTrue, Saved, Grows
<1>3. CASE UNCHANGED told
  BY <1>2, <1>3 DEF Truth, ToldTrue
<1>4. ASSUME NEW c \in calls, VerifyDone(c)
      PROVE  ToldTrue'
  <2>1. told' = told \cup {c.ask} /\ decided' = decided
    BY <1>4 DEF VerifyDone, server
  <2>2. Saved(c.ask) /\ \A ask \in told : ask.ids \cap c.ask.ids = {}
    BY <1>4 DEF VerifyDone, Truth, CallsTrue, CallTrue
  <2>3. Saved(c.ask)'
    BY <2>1, <2>2 DEF Saved
  <2>4. \A ask, other \in told' : \A p \in ask.ids : p \in other.ids => other.want = ask.want
    BY <2>1, <2>2 DEF Truth, ToldTrue
  <2> QED BY <1>2, <2>1, <2>3, <2>4 DEF ToldTrue
<1> QED
  BY <1>3, <1>4, ToldStep

-----------------------------------------------------------------------------

\* The inductive invariant of the page.
THEOREM DashboardInductive == Spec => []DashboardInd
<1>1. Init => DashboardInd
  <2>1. ASSUME Init PROVE Truth
    BY <2>1 DEF Init, Truth, DecisionsAboutOne, AboutOne, Fits, CallsTrue, ToldTrue, Closed
  <2> QED BY <2>1, InitShape DEF DashboardInd
<1>2. DashboardInd /\ [Next]_vars => DashboardInd'
  BY ShapeStep, AboutOneStep, FitsStep, CallsTrueStep, ToldTrueStep DEF DashboardInd, Truth
<1> QED BY <1>1, <1>2, PTL DEF Spec

\* For any number of payments and requests in flight, however the employee
\* clicks, answers overtake one another and calls fail: handleConfirm and
\* handleSubmitToSwift never have a second request out, and fetchTransactions
\* never leaves a spinner that nothing will take away.
THEOREM PageWaitsForCallsInFlight == Spec => []DashboardInv
<1>1. DashboardInd => DashboardInv
  <2>1. ASSUME OneCall PROVE OneActionAtATime
    BY <2>1 DEF OneCall, OneActionAtATime
  <2> QED BY <2>1 DEF DashboardInd, Shape, DashboardInv
<1> QED BY <1>1, DashboardInductive, PTL

\* The message of handleConfirm after a decision: for any number of employees at
\* work, of handlers that overlap and of requests of its own that were given up,
\* the decision was saved, no message says the contrary of it, and what the
\* server holds is a decision that was saved, never pending.
THEOREM ReportsAreTrue == Spec => []ReportTrue
<1>1. DashboardInd => ReportTrue
  <2> SUFFICES ASSUME DashboardInd, NEW ask \in told, NEW p \in ask.ids
               PROVE  /\ ask.want \in decided[p]
                      /\ status[p] \in Held(decided[p])
                      /\ \A other \in told : p \in other.ids => other.want = ask.want
    BY DEF ReportTrue
  <2>1. p \in Payment
    BY DEF DashboardInd, Shape, DashboardTypeOK, Ask
  <2>2. ask.want \in decided[p]
    BY DEF DashboardInd, Truth, ToldTrue, Saved
  <2>3. status[p] \in Held(decided[p])
    BY <2>1, <2>2 DEF DashboardInd, Truth, Fits
  <2> QED BY <2>2, <2>3 DEF DashboardInd, Truth, ToldTrue
<1> QED BY <1>1, DashboardInductive, PTL
=============================================================================
