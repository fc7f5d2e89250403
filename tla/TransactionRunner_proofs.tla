---------------------- MODULE TransactionRunner_proofs ----------------------
(***************************************************************************)
(* Theorems about TransactionRunner, for any number of requests, any usage  *)
(* and any faults unless an assumption of the theorem says otherwise.       *)
(***************************************************************************)
EXTENDS TransactionRunner, FiniteSetTheorems, TLAPS

USE DEF Reqs, Statuses, Registered, Answers, Outcomes, runVars, stateVars, browserVars

----------------------------------------------------------------------------
(* Type correctness.  The counter is left out: that it never goes below     *)
(* zero needs InflightExact, which is proved next.                          *)

TypeButCounter ==
  /\ scope \in {"start", "calling", "awaiting"} \cup Outcomes
  /\ future \in {"unmade", "running", "suspended", "done", "panicked", "dropped"}
  /\ result \in {"None", "Forbidden", "Ok", "Err"}
  /\ finished \in {"armed", "signalled", "dropped"}
  /\ inflight_requests \in Int
  /\ requests \in [Reqs -> Statuses]
  /\ transaction \in {"none", "active", "inactive", "committed", "aborted"}
  /\ issued \in 0 .. MaxReqs
  /\ delivered \in 0 .. issued

(* Dropping a future leaves its request in one of the known states.         *)
LEMMA AfterDropType == \A s \in Statuses : AfterDrop(s) \in Statuses
  BY DEF AfterDrop

LEMMA DroppedButType ==
  ASSUME requests \in [Reqs -> Statuses], NEW kept
  PROVE  DroppedBut(kept) \in [Reqs -> Statuses]
  BY AfterDropType DEF DroppedBut

LEMMA AllDroppedType ==
  ASSUME requests \in [Reqs -> Statuses]
  PROVE  AllDropped \in [Reqs -> Statuses]
  BY DroppedButType DEF AllDropped

(* What a panic does to the futures, whether it unwinds or traps.           *)
LEMMA PanicDrops ==
  ASSUME PollPanics
  PROVE  requests' = requests \/ \E kept \in Stashable : requests' = DroppedBut(kept)
  BY DEF PollPanics, PanicUnwinds, PanicTraps

LEMMA DroppedOrKept ==
  ASSUME requests' = requests \/ \E kept \in Stashable : requests' = DroppedBut(kept)
  PROVE  \A r \in Reqs : requests'[r] \in {requests[r], AfterDrop(requests[r])}
  BY DEF DroppedBut

LEMMA PollPanicsType ==
  ASSUME TypeButCounter, PollPanics
  PROVE  TypeButCounter'
<1>1. requests' \in [Reqs -> Statuses]
  BY PanicDrops, DroppedButType DEF TypeButCounter
<1> QED
  BY <1>1 DEF TypeButCounter, PollPanics, PanicUnwinds, PanicTraps, ControlReturns

LEMMA CallbackType ==
  ASSUME TypeButCounter, Callback
  PROVE  TypeButCounter'
<1> USE MaxReqsAssumption DEF TypeButCounter
<1>1. CASE Issue
  BY <1>1 DEF Issue
<1>2. CASE IssueInactive \/ CallbackPanics \/ \E r \in Reqs : TakeOddAnswer(r)
  BY <1>2, PollPanicsType DEF IssueInactive, CallbackPanics, TakeOddAnswer
<1>3. ASSUME NEW r \in Reqs, AddRequest(r) PROVE TypeButCounter'
  BY <1>3 DEF AddRequest, Counted
<1>4. ASSUME NEW r \in Reqs, TakeAnswer(r) PROVE TypeButCounter'
  BY <1>4 DEF TakeAnswer
<1>5. ASSUME NEW r \in Reqs, DropRequest(r) PROVE TypeButCounter'
  BY <1>5, AfterDropType DEF DropRequest
<1>6. CASE Suspend
  BY <1>6, AllDroppedType DEF Suspend, Misused, ControlReturns, ScopeWaits
<1>7. ASSUME NEW v \in {"Ok", "Err"}, Return(v) PROVE TypeButCounter'
  BY <1>7, AfterDropType DEF Return, DroppedBut, Signalled, AfterReturn, ControlReturns
<1> QED
  BY <1>1, <1>2, <1>3, <1>4, <1>5, <1>6, <1>7 DEF Callback

LEMMA OutcomeType == Outcome \subseteq Answers
  BY DEF Outcome

LEMMA BrowserType ==
  ASSUME TypeButCounter, Deliver \/ AutoCommit \/ BrowserAborts
  PROVE  TypeButCounter'
<1> USE MaxReqsAssumption DEF TypeButCounter
<1>1. CASE Deliver
  <2>1. delivered' \in 0 .. issued' /\ issued' \in 0 .. MaxReqs
    BY <1>1 DEF Deliver
  <2>2. PICK o \in Outcome : \/ FireUnhandled(delivered + 1, o)
                             \/ FireHandled(delivered + 1, o)
                             \/ FireStale(delivered + 1)
    BY <1>1 DEF Deliver
  <2>3. o \in Answers
    BY OutcomeType
  <2> QED
    BY <1>1, <2>1, <2>2, <2>3
    DEF Deliver, FireUnhandled, FireHandled, FireStale, Uncount, Stored, DuringEvent
<1>2. CASE AutoCommit
  BY <1>2 DEF AutoCommit
<1>3. CASE BrowserAborts
  BY <1>3 DEF BrowserAborts
<1> QED
  BY <1>1, <1>2, <1>3

LEMMA TypeStep ==
  ASSUME TypeButCounter, [Next]_vars
  PROVE  TypeButCounter'
<1>1. CASE Callback
  BY <1>1, CallbackType
<1>2. CASE Deliver \/ AutoCommit \/ BrowserAborts
  BY <1>2, BrowserType
<1>3. CASE RunRejected \/ RunStarts \/ Resume \/ Cancel
  BY <1>3 DEF TypeButCounter, RunRejected, RunStarts, Resume, Cancel, KeptAlive
<1>4. CASE UNCHANGED vars
  BY <1>4 DEF TypeButCounter, vars
<1> QED
  BY <1>1, <1>2, <1>3, <1>4 DEF Next, Ended

----------------------------------------------------------------------------
(* The requests that exist are those that were issued.                      *)

IssuedExactly == \A r \in Reqs : (requests[r] = "none") <=> issued < r

LEMMA AfterDropNone == \A s \in Statuses : (AfterDrop(s) = "none") <=> (s = "none")
  BY DEF AfterDrop

LEMMA AllDroppedIssued ==
  ASSUME TypeButCounter, IssuedExactly, requests' = AllDropped \/ requests' = requests,
         issued' = issued
  PROVE  IssuedExactly'
  BY AfterDropNone DEF TypeButCounter, AllDropped, DroppedBut, IssuedExactly

LEMMA PollPanicsIssued ==
  ASSUME TypeButCounter, IssuedExactly, PollPanics
  PROVE  IssuedExactly'
<1>1. \A r \in Reqs : requests'[r] \in {requests[r], AfterDrop(requests[r])}
  BY PanicDrops, DroppedOrKept
<1>2. issued' = issued
  BY DEF PollPanics
<1> QED
  BY <1>1, <1>2, AfterDropNone DEF TypeButCounter, IssuedExactly

LEMMA IssuedStep ==
  ASSUME TypeButCounter, IssuedExactly, [Next]_vars
  PROVE  IssuedExactly'
<1> USE MaxReqsAssumption DEF TypeButCounter, IssuedExactly
<1>1. CASE Issue
  BY <1>1 DEF Issue
<1>2. CASE IssueInactive \/ CallbackPanics \/ \E r \in Reqs : TakeOddAnswer(r)
  BY <1>2, PollPanicsIssued DEF IssueInactive, CallbackPanics, TakeOddAnswer
<1>3. ASSUME NEW r \in Reqs, AddRequest(r) \/ TakeAnswer(r) PROVE IssuedExactly'
  BY <1>3 DEF AddRequest, TakeAnswer
<1>4. ASSUME NEW r \in Reqs, DropRequest(r) PROVE IssuedExactly'
  BY <1>4, AfterDropNone DEF DropRequest
<1>5. CASE Suspend
  BY <1>5, AllDroppedIssued DEF Suspend
<1>6. ASSUME NEW v \in {"Ok", "Err"}, Return(v) PROVE IssuedExactly'
  BY <1>6, AfterDropNone DEF Return, DroppedBut
<1>7. CASE Deliver
  <2>1. PICK o \in Outcome : \/ FireUnhandled(delivered + 1, o)
                             \/ FireHandled(delivered + 1, o)
                             \/ FireStale(delivered + 1)
    BY <1>7 DEF Deliver
  <2>2. o \in Answers
    BY OutcomeType
  <2> QED
    BY <1>7, <2>1, <2>2 DEF Deliver, FireUnhandled, FireHandled, FireStale, Stored
<1>8. CASE AutoCommit \/ BrowserAborts \/ RunRejected \/ RunStarts \/ Resume \/ Cancel
  BY <1>8 DEF AutoCommit, BrowserAborts, RunRejected, RunStarts, Resume, Cancel
<1>9. CASE UNCHANGED vars
  BY <1>9 DEF vars
<1> QED
  BY <1>1, <1>2, <1>3, <1>4, <1>5, <1>6, <1>7, <1>8, <1>9 DEF Next, Callback, Ended

----------------------------------------------------------------------------
(* The counter, and the set of requests it stands for.                      *)

InFlight == Has({"awaited", "stale"})

LEMMA InFlightFinite == IsFiniteSet(InFlight)
<1>1. IsFiniteSet(Reqs)
  BY FS_Interval, MaxReqsAssumption
<1> QED
  BY <1>1, FS_Subset DEF InFlight, Has

LEMMA AfterDropCounts ==
  \A s \in Statuses : (AfterDrop(s) \in {"awaited", "stale"}) = (s \in {"awaited", "stale"})
  BY DEF AfterDrop

LEMMA AllDroppedCounts ==
  ASSUME TypeButCounter, requests' = AllDropped
  PROVE  InFlight' = InFlight
  BY AfterDropCounts DEF TypeButCounter, AllDropped, DroppedBut, InFlight, Has

LEMMA PollPanicsCounts ==
  ASSUME TypeButCounter, PollPanics
  PROVE  InFlight' = InFlight /\ inflight_requests' = inflight_requests
<1>1. \A r \in Reqs : requests'[r] \in {requests[r], AfterDrop(requests[r])}
  BY PanicDrops, DroppedOrKept
<1>2. InFlight' = InFlight
  BY <1>1, AfterDropCounts DEF TypeButCounter, InFlight, Has
<1> QED
  BY <1>2 DEF PollPanics

(* add_request adds one request to the set and one to the counter.          *)
LEMMA AddRequestCounts ==
  ASSUME TypeButCounter, InflightExact, NEW r \in Reqs, AddRequest(r)
  PROVE  InflightExact'
<1>1. InFlight' = InFlight \cup {r}
  BY DEF TypeButCounter, AddRequest, InFlight, Has
<1>2. r \notin InFlight
  BY DEF AddRequest, InFlight, Has
<1>3. Cardinality(InFlight') = Cardinality(InFlight) + 1
  BY <1>1, <1>2, InFlightFinite, FS_AddElement
<1> QED
  BY <1>3 DEF AddRequest, Counted, InflightExact, InFlight

(* A handler removes one request from the set and one from the counter.     *)
LEMMA FireHandledCounts ==
  ASSUME TypeButCounter, InflightExact, NEW r \in Reqs, NEW o \in Answers, FireHandled(r, o)
  PROVE  InflightExact'
<1>1. InFlight' = InFlight \ {r}
  BY DEF TypeButCounter, FireHandled, Stored, InFlight, Has
<1>2. r \in InFlight
  BY DEF FireHandled, InFlight, Has
<1>3. Cardinality(InFlight') = Cardinality(InFlight) - 1
  BY <1>1, <1>2, InFlightFinite, FS_RemoveElement
<1> QED
  BY <1>3 DEF FireHandled, Uncount, InflightExact, InFlight

LEMMA CallbackCounts ==
  ASSUME TypeButCounter, IssuedExactly, InflightExact, Callback
  PROVE  InflightExact'
<1>1. ASSUME InFlight' = InFlight, inflight_requests' = inflight_requests
      PROVE  InflightExact'
  BY <1>1 DEF InflightExact, InFlight
<1>2. CASE Issue
  <2>1. issued + 1 \in Reqs /\ requests[issued + 1] = "none"
    BY <1>2, MaxReqsAssumption DEF Issue, TypeButCounter, IssuedExactly
  <2>2. InFlight' = InFlight
    BY <1>2, <2>1 DEF Issue, TypeButCounter, InFlight, Has
  <2> QED
    BY <1>1, <1>2, <2>2 DEF Issue
<1>3. CASE IssueInactive \/ CallbackPanics \/ \E r \in Reqs : TakeOddAnswer(r)
  BY <1>1, <1>3, PollPanicsCounts DEF IssueInactive, CallbackPanics, TakeOddAnswer
<1>4. ASSUME NEW r \in Reqs, AddRequest(r) PROVE InflightExact'
  BY <1>4, AddRequestCounts
<1>5. ASSUME NEW r \in Reqs, TakeAnswer(r) PROVE InflightExact'
  BY <1>1, <1>5 DEF TakeAnswer, TypeButCounter, InFlight, Has
<1>6. ASSUME NEW r \in Reqs, DropRequest(r) PROVE InflightExact'
  BY <1>1, <1>6, AfterDropCounts DEF DropRequest, TypeButCounter, InFlight, Has
<1>7. CASE Suspend
  <2>1. requests' = AllDropped \/ requests' = requests
    BY <1>7 DEF Suspend
  <2>2. InFlight' = InFlight
    BY <2>1, AllDroppedCounts DEF InFlight, Has
  <2> QED
    BY <1>1, <1>7, <2>2 DEF Suspend
<1>8. ASSUME NEW v \in {"Ok", "Err"}, Return(v) PROVE InflightExact'
  BY <1>1, <1>8, AfterDropCounts DEF Return, DroppedBut, TypeButCounter, InFlight, Has
<1> QED
  BY <1>2, <1>3, <1>4, <1>5, <1>6, <1>7, <1>8 DEF Callback

LEMMA CountStep ==
  ASSUME TypeButCounter, IssuedExactly, InflightExact, [Next]_vars
  PROVE  InflightExact'
<1>1. CASE Callback
  BY <1>1, CallbackCounts
<1>2. CASE Deliver
  <2>1. delivered + 1 \in Reqs
    BY <1>2, MaxReqsAssumption DEF Deliver, TypeButCounter
  <2>2. PICK o \in Answers : \/ FireUnhandled(delivered + 1, o)
                             \/ FireHandled(delivered + 1, o)
                             \/ FireStale(delivered + 1)
    BY <1>2, OutcomeType DEF Deliver
  <2>3. CASE FireHandled(delivered + 1, o)
    BY <2>1, <2>3, FireHandledCounts
  <2>4. CASE FireUnhandled(delivered + 1, o) \/ FireStale(delivered + 1)
    BY <2>4 DEF FireUnhandled, FireStale, InflightExact, Has
  <2> QED
    BY <2>2, <2>3, <2>4
<1>3. CASE AutoCommit \/ BrowserAborts \/ RunRejected \/ RunStarts \/ Resume \/ Cancel
  BY <1>3 DEF AutoCommit, BrowserAborts, RunRejected, RunStarts, Resume, Cancel, InflightExact, Has
<1>4. CASE UNCHANGED vars
  BY <1>4 DEF vars, InflightExact, Has
<1> QED
  BY <1>1, <1>2, <1>3, <1>4 DEF Next, Ended

CountInv == TypeButCounter /\ IssuedExactly /\ InflightExact

LEMMA CountInitially == Init => CountInv
<1> SUFFICES ASSUME Init PROVE CountInv
  OBVIOUS
<1>1. Has({"awaited", "stale"}) = {}
  BY DEF Init, Has
<1>2. InflightExact
  BY <1>1, FS_EmptySet DEF Init, InflightExact
<1> QED
  BY <1>2, MaxReqsAssumption DEF Init, CountInv, TypeButCounter, IssuedExactly

(* The counter of requests in flight is always the number of requests whose *)
(* handlers are installed and have not run (runner.rs:145-158).             *)
THEOREM CounterIsExact == Spec => []InflightExact
<1>1. CountInv /\ [Next]_vars => CountInv'
  BY TypeStep, IssuedStep, CountStep DEF CountInv
<1>2. CountInv => InflightExact
  BY DEF CountInv
<1> QED
  BY CountInitially, <1>1, <1>2, PTL DEF Spec

(* Every variable keeps its type, and the counter does not underflow        *)
(* (runner.rs:155 and 168 subtract from a usize).                           *)
THEOREM TypeCorrect == Spec => []TypeOK
<1>1. CountInv /\ [Next]_vars => CountInv'
  BY TypeStep, IssuedStep, CountStep DEF CountInv
<1>2. CountInv => TypeOK
  <2> SUFFICES ASSUME CountInv PROVE TypeOK
    OBVIOUS
  <2>1. inflight_requests \in Nat
    BY InFlightFinite, FS_CardinalityType DEF CountInv, InflightExact, InFlight
  <2> QED
    BY <2>1 DEF CountInv, TypeButCounter, TypeOK
<1> QED
  BY CountInitially, <1>1, <1>2, PTL DEF Spec

----------------------------------------------------------------------------
(* One outcome.  While a poll runs, or may still come because a request is  *)
(* awaited, nothing was recorded or signalled.                              *)

Undecided == result = "None" /\ finished = "armed"

SettleInv ==
  /\ scope = "start" => future = "unmade"
  /\ future \in {"unmade", "running"} => Undecided
  /\ future = "suspended" /\ Has({"awaited"}) # {} => Undecided

LEMMA AwaitedIsCounted ==
  ASSUME InflightExact, inflight_requests = 0
  PROVE  InFlight = {}
  BY InFlightFinite, FS_EmptySet DEF InflightExact, InFlight

LEMMA SettleStep ==
  ASSUME CountInv, SettleInv, [Next]_vars
  PROVE  SettleInv'
<1> USE DEF Undecided
<1>1. CASE Issue \/ \E r \in Reqs : AddRequest(r) \/ TakeAnswer(r) \/ DropRequest(r)
  BY <1>1 DEF SettleInv, Issue, AddRequest, TakeAnswer, DropRequest
<1>2. CASE IssueInactive \/ CallbackPanics \/ \E r \in Reqs : TakeOddAnswer(r)
  BY <1>2 DEF SettleInv, IssueInactive, CallbackPanics, TakeOddAnswer,
              PollPanics, PanicUnwinds, PanicTraps
<1>3. CASE Suspend
  <2>1. CASE inflight_requests = 0
    <3>1. InFlight = {}
      BY <2>1, AwaitedIsCounted DEF CountInv
    <3>2. Has({"awaited"}) = {}
      BY <3>1 DEF InFlight, Has
    <3>3. scope # "start" /\ scope' \in {scope, "awaiting"}
      BY <1>3 DEF SettleInv, Suspend, ScopeWaits
    <3>4. future' \in {"suspended", "dropped"} /\ (future' = "suspended" => requests' = requests)
      BY <1>3 DEF Suspend
    <3> QED
      BY <3>2, <3>3, <3>4 DEF SettleInv, Has
  <2>2. CASE inflight_requests # 0
    BY <1>3, <2>2 DEF SettleInv, Suspend, NothingInFlight, ScopeWaits
  <2> QED
    BY <2>1, <2>2
<1>4. ASSUME NEW v \in {"Ok", "Err"}, Return(v) PROVE SettleInv'
  BY <1>4 DEF SettleInv, Return
<1>5. CASE Deliver
  <2>1. PICK o \in Answers : \/ FireUnhandled(delivered + 1, o)
                             \/ FireHandled(delivered + 1, o)
                             \/ FireStale(delivered + 1)
    BY <1>5, OutcomeType DEF Deliver
  <2>2. UNCHANGED << scope, result, finished >>
    BY <1>5 DEF Deliver
  <2>3. CASE FireHandled(delivered + 1, o)
    <3>1. delivered + 1 \in Has({"awaited"})
      BY <1>5, <2>3, MaxReqsAssumption DEF Deliver, FireHandled, CountInv, TypeButCounter, Has
    <3>2. CASE future = "suspended"
      BY <2>2, <2>3, <3>1, <3>2 DEF SettleInv, FireHandled
    <3>3. CASE future # "suspended"
      BY <2>2, <2>3, <3>3 DEF SettleInv, FireHandled
    <3> QED
      BY <3>2, <3>3
  <2>4. CASE FireUnhandled(delivered + 1, o) \/ FireStale(delivered + 1)
    BY <2>2, <2>4 DEF SettleInv, FireUnhandled, FireStale, Has
  <2> QED
    BY <2>1, <2>3, <2>4
<1>6. CASE AutoCommit \/ BrowserAborts \/ RunRejected \/ Resume \/ Cancel
  BY <1>6 DEF SettleInv, AutoCommit, BrowserAborts, RunRejected, Resume, Cancel, Has
<1>7. CASE RunStarts
  BY <1>7 DEF SettleInv, RunStarts
<1>8. CASE UNCHANGED vars
  BY <1>8 DEF vars, SettleInv, Has
<1> QED
  BY <1>1, <1>2, <1>3, <1>4, <1>5, <1>6, <1>7, <1>8 DEF Next, Callback, Ended

(* However the callback misuses its requests and whatever the browser does, *)
(* no poll finds an outcome already recorded: neither assertion on a second *)
(* completion (runner.rs:52 and 129) can fire.                              *)
THEOREM OutcomeIsSettledOnce == Spec => []SettlesOnce
<1>1. Init => CountInv /\ SettleInv
  <2>1. Init => SettleInv
    BY DEF Init, SettleInv, Undecided
  <2> QED
    BY <2>1, CountInitially
<1>2. CountInv /\ SettleInv /\ [Next]_vars => (CountInv /\ SettleInv)'
  BY TypeStep, IssuedStep, CountStep, SettleStep DEF CountInv
<1>3. SettleInv => SettlesOnce
  BY DEF SettleInv, SettlesOnce, Undecided
<1> QED
  BY <1>1, <1>2, <1>3, PTL DEF Spec
============================================================================
