----------------------- MODULE TransactionCommit_proofs -----------------------
(***************************************************************************)
(* The crate's central promise: a transaction commits only if its callback  *)
(* returned Ok.  It holds for every usage that awaits requests in the order *)
(* in which they were sent, if a panic cannot trap in the first poll.       *)
(***************************************************************************)
EXTENDS TransactionRunner_proofs

USE DEF Reqs, Statuses, Registered, Answers, Outcomes, runVars, stateVars, browserVars

InSendOrder   == "reorder" \notin Usage
PanicsUnwind  == "panic" \in Usage => Unwind

(* The requests whose futures were polled.                                  *)
Polled == Registered \cup {"taken", "stale"}

(* Polls follow the order of sending ...                                    *)
InOrder == \A r, s \in Reqs : requests[r] = "unpolled" /\ requests[s] \in Polled => s < r

(* ... so what the running callback has still to poll was not answered yet. *)
AheadOfBrowser ==
  future = "running" => \A r \in Reqs : requests[r] = "unpolled" => delivered < r

(* The event of a request dropped in flight has aborted, if it was fired.   *)
StaleAborts ==
  \A r \in Reqs : requests[r] = "stale" /\ r <= delivered => transaction = "aborted"

(* A callback that left its poll without deciding has aborted already or    *)
(* has a request counted, which keeps the transaction from committing.      *)
WaitsForRequest ==
  future \in {"suspended", "dropped"} =>
    transaction = "aborted" \/ \E r \in Reqs : requests[r] \in {"awaited", "stale"}

(* Before its first poll ends, the transaction is as the browser made it.   *)
FirstPollIsClean ==
  scope = "calling" /\ future = "running" =>
    transaction = "active" /\ \A r \in Reqs : requests[r] # "Odd"

Beginning ==
  /\ scope = "start" => future = "unmade"
  /\ future = "unmade" =>
       /\ transaction = "none" /\ issued = 0
       /\ \A r \in Reqs : requests[r] = "none"

(* How the callback ended decides about the transaction, unless a trap in   *)
(* the caller's own task left it to the browser.                            *)
Decided ==
  PanicsUnwind =>
    /\ future = "panicked" => transaction = "aborted"
    /\ future = "done" => result = "Ok" \/ transaction = "aborted"
    /\ transaction = "committed" => future = "done" /\ result = "Ok"

CommitInv ==
  /\ InOrder
  /\ AheadOfBrowser
  /\ NoLostEvent
  /\ StaleAborts
  /\ WaitsForRequest
  /\ FirstPollIsClean
  /\ Beginning
  /\ Decided

LEMMA AfterDropPolled ==
  \A s \in Statuses :
    /\ AfterDrop(s) \notin {"unpolled", "awaited"} \cup Answers
    /\ AfterDrop(s) \in Polled <=> s \in Polled
    /\ AfterDrop(s) = "stale" <=> s \in {"awaited", "stale"}
    /\ AfterDrop(s) = "none" <=> s = "none"
  BY DEF AfterDrop, Polled

LEMMA AllDroppedOrKept ==
  ASSUME requests' = AllDropped \/ requests' = requests
  PROVE  \A r \in Reqs : requests'[r] \in {requests[r], AfterDrop(requests[r])}
  BY DEF AllDropped, DroppedBut

USE DEF CountInv, TypeButCounter, CommitInv

LEMMA PollPanicsCommit ==
  ASSUME CountInv, CommitInv, PollPanics, future = "running",
         PanicsUnwind /\ scope = "calling" => Unwind
  PROVE  CommitInv'
<1>1. /\ PanicsUnwind \/ future' = "dropped" => transaction' = "aborted"
      /\ future' \in {"dropped", "panicked"} /\ scope' # "calling"
  BY DEF PollPanics, PanicUnwinds, PanicTraps
<1>2. issued' = issued /\ delivered' = delivered /\ (scope' = "start" => scope = "start")
  BY DEF PollPanics, PanicUnwinds, PanicTraps
<1>3. \A r \in Reqs : requests'[r] \in {requests[r], AfterDrop(requests[r])}
  BY PanicDrops, DroppedOrKept
<1>4. InOrder' /\ NoLostEvent'
  BY <1>2, <1>3, AfterDropPolled DEF InOrder, NoLostEvent, Polled
<1>5. StaleAborts'
  <2>1. CASE Unwind
    <3>1. transaction' = "aborted"
      BY <2>1 DEF PollPanics, PanicUnwinds
    <3> QED
      BY <1>2, <1>3, <3>1, AfterDropPolled DEF StaleAborts
  <2>2. CASE ~Unwind
    BY <1>2, <2>2 DEF PollPanics, PanicTraps, StaleAborts, ControlReturns
  <2> QED
    BY <2>1, <2>2
<1> QED
  BY <1>1, <1>2, <1>4, <1>5
  DEF AheadOfBrowser, WaitsForRequest, FirstPollIsClean, Beginning, Decided

LEMMA SuspendCommit ==
  ASSUME CountInv, CommitInv, Suspend
  PROVE  CommitInv'
<1>1. /\ future = "running" /\ future' \in {"suspended", "dropped"}
      /\ issued' = issued /\ delivered' = delivered
      /\ scope' = "start" => scope = "start"
      /\ transaction' \in {transaction, "aborted", "inactive"}
      /\ transaction = "aborted" => transaction' = "aborted"
  BY DEF Suspend, ScopeWaits, Misused, ControlReturns
<1>kept. \A r \in Reqs : requests'[r] \in {requests[r], AfterDrop(requests[r])}
  BY AllDroppedOrKept DEF Suspend
<1>2. InOrder' /\ NoLostEvent'
  BY <1>1, <1>kept, AfterDropPolled DEF InOrder, NoLostEvent, Polled
<1>3. StaleAborts'
  BY <1>1, <1>kept, AfterDropPolled DEF StaleAborts, NoLostEvent
<1>4. WaitsForRequest'
  <2>1. CASE inflight_requests = 0
    BY <2>1 DEF Suspend, NothingInFlight, Misused, WaitsForRequest
  <2>2. CASE inflight_requests # 0
    <3>1. InFlight # {}
      BY <2>2, FS_EmptySet DEF InflightExact, InFlight
    <3>2. PICK r \in Reqs : requests[r] \in {"awaited", "stale"}
      BY <3>1 DEF InFlight, Has
    <3>3. requests'[r] \in {"awaited", "stale"}
      BY <1>kept, <3>2, AfterDropPolled
    <3> QED
      BY <3>3 DEF WaitsForRequest
  <2> QED
    BY <2>1, <2>2
<1> QED
  BY <1>1, <1>2, <1>3, <1>4
  DEF AheadOfBrowser, FirstPollIsClean, Beginning, Decided

LEMMA ReturnCommit ==
  ASSUME CountInv, CommitInv, NEW v \in {"Ok", "Err"}, Return(v)
  PROVE  CommitInv'
<1>1. /\ future = "running" /\ future' = "done" /\ result' = v
      /\ issued' = issued /\ delivered' = delivered /\ scope' = scope
      /\ transaction' \in {transaction, "aborted", "inactive"}
      /\ transaction = "aborted" => transaction' = "aborted"
      /\ v = "Err" => transaction' = "aborted"
  BY DEF Return, AfterReturn, ControlReturns
<1>2. \A r \in Reqs : requests'[r] \in {requests[r], AfterDrop(requests[r])}
  BY DEF Return, DroppedBut
<1>3. InOrder' /\ NoLostEvent'
  BY <1>1, <1>2, AfterDropPolled DEF InOrder, NoLostEvent, Polled
<1>4. StaleAborts'
  BY <1>1, <1>2, AfterDropPolled DEF StaleAborts, NoLostEvent
<1> QED
  BY <1>1, <1>3, <1>4
  DEF AheadOfBrowser, WaitsForRequest, FirstPollIsClean, Beginning, Decided

LEMMA RequestCommit ==
  ASSUME CountInv, CommitInv, InSendOrder, NEW r \in Reqs,
         AddRequest(r) \/ TakeAnswer(r) \/ DropRequest(r)
  PROVE  CommitInv'
<1>1. /\ future = "running" /\ future' = future
      /\ UNCHANGED << runVars, browserVars >>
  BY DEF AddRequest, TakeAnswer, DropRequest
<1>2. CASE AddRequest(r)
  <2>1. requests' = [requests EXCEPT ![r] = "awaited"] /\ requests[r] = "unpolled"
    BY <1>2 DEF AddRequest
  <2>2. \A s \in Reqs : s < r => requests[s] # "unpolled"
    BY <1>2 DEF AddRequest, InSendOrder
  <2>3. InOrder'
    BY <2>1, <2>2, MaxReqsAssumption DEF InOrder, Polled
  <2>4. NoLostEvent'
    BY <1>1, <2>1 DEF NoLostEvent, AheadOfBrowser
  <2> QED
    BY <1>1, <2>1, <2>3, <2>4
    DEF AheadOfBrowser, StaleAborts, WaitsForRequest, FirstPollIsClean, Beginning, Decided
<1>3. CASE TakeAnswer(r)
  BY <1>1, <1>3
  DEF TakeAnswer, InOrder, Polled, AheadOfBrowser, NoLostEvent, StaleAborts, WaitsForRequest,
      FirstPollIsClean, Beginning, Decided
<1>4. CASE DropRequest(r)
  <2>1. requests' = [requests EXCEPT ![r] = AfterDrop(requests[r])]
    BY <1>4 DEF DropRequest
  <2>2. InOrder' /\ AheadOfBrowser' /\ NoLostEvent'
    BY <1>1, <2>1, AfterDropPolled DEF InOrder, Polled, AheadOfBrowser, NoLostEvent
  <2>3. StaleAborts'
    BY <1>1, <2>1, AfterDropPolled DEF StaleAborts, NoLostEvent
  <2>4. FirstPollIsClean'
    BY <1>1, <2>1, AfterDropPolled DEF FirstPollIsClean
  <2> QED
    BY <1>1, <2>2, <2>3, <2>4 DEF WaitsForRequest, Beginning, Decided
<1> QED
  BY <1>2, <1>3, <1>4

LEMMA IssueCommit ==
  ASSUME CountInv, CommitInv, Issue
  PROVE  CommitInv'
<1>1. /\ requests' = [requests EXCEPT ![issued + 1] = "unpolled"]
      /\ issued + 1 \in Reqs /\ future = "running" /\ future' = future
      /\ UNCHANGED << runVars, transaction, delivered >>
  BY MaxReqsAssumption DEF Issue
<1>2. InOrder'
  BY <1>1, MaxReqsAssumption DEF IssuedExactly, InOrder, Polled
<1>3. AheadOfBrowser'
  BY <1>1 DEF AheadOfBrowser
<1> QED
  BY <1>1, <1>2, <1>3
  DEF NoLostEvent, StaleAborts, WaitsForRequest, FirstPollIsClean, Beginning, Decided

LEMMA DeliverCommit ==
  ASSUME CountInv, CommitInv, Deliver
  PROVE  CommitInv'
<1> DEFINE r == delivered + 1
<1>1. r \in Reqs /\ delivered' = r
  BY MaxReqsAssumption DEF Deliver
<1>2. Idle /\ UNCHANGED << runVars, issued >>
  BY DEF Deliver
<1>3. PICK o \in Answers : FireUnhandled(r, o) \/ FireHandled(r, o) \/ FireStale(r)
  BY OutcomeType DEF Deliver
<1>4. future # "unmade"
  BY DEF Deliver, Beginning
<1> HIDE DEF r
<1>5. \A s \in Reqs : s <= delivered' <=> s <= delivered \/ s = r
  BY <1>1 DEF r
<1>6. CASE FireUnhandled(r, o)
  <2>1. /\ UNCHANGED stateVars /\ requests[r] \in {"unpolled", "forgotten"}
        /\ transaction' \in {transaction, "aborted"}
    BY <1>6 DEF FireUnhandled
  <2>2. NoLostEvent'
    BY <1>1, <1>5, <2>1 DEF NoLostEvent, r
  <2>3. StaleAborts'
    BY <1>5, <2>1 DEF StaleAborts
  <2> QED
    BY <1>2, <1>4, <2>1, <2>2, <2>3
    DEF Idle, InOrder, AheadOfBrowser, WaitsForRequest, FirstPollIsClean, Beginning, Decided
<1>7. CASE FireStale(r)
  <2>1. UNCHANGED stateVars /\ requests[r] = "stale" /\ transaction' = "aborted"
    BY <1>7 DEF FireStale
  <2>2. NoLostEvent'
    BY <1>1, <1>5, <2>1 DEF NoLostEvent, r
  <2> QED
    BY <1>2, <1>4, <2>1, <2>2
    DEF Idle, InOrder, AheadOfBrowser, StaleAborts, WaitsForRequest, FirstPollIsClean,
        Beginning, Decided
<1>8. CASE FireHandled(r, o)
  <2>1. /\ requests[r] = "awaited" /\ requests' = [requests EXCEPT ![r] = o]
        /\ future' \in {future, "running"}
        /\ future = "suspended" => future' = "running"
        /\ future # "suspended" => transaction' = "aborted"
        /\ transaction' \in {"active", "aborted"}
        /\ transaction = "aborted" => transaction' = "aborted"
    BY <1>8 DEF FireHandled, Stored, DuringEvent
  <2>2. InOrder'
    BY <1>1, <2>1 DEF InOrder, Polled
  <2>3. AheadOfBrowser'
    BY <1>1, <2>1 DEF InOrder, AheadOfBrowser, Polled
  <2>4. NoLostEvent'
    BY <1>1, <1>5, <2>1 DEF NoLostEvent, r
  <2>5. StaleAborts'
    BY <1>1, <1>5, <2>1 DEF StaleAborts
  <2>6. WaitsForRequest' /\ FirstPollIsClean'
    BY <1>2, <2>1 DEF Idle, WaitsForRequest, FirstPollIsClean
  <2>7. Beginning' /\ Decided'
    BY <1>2, <1>4, <2>1 DEF Idle, Beginning, Decided
  <2> QED
    BY <2>2, <2>3, <2>4, <2>5, <2>6, <2>7
<1> QED
  BY <1>3, <1>6, <1>7, <1>8

(* The browser finds the transaction inactive and waiting for nothing: the  *)
(* callback has returned Ok.                                                *)
LEMMA AutoCommitCommit ==
  ASSUME CountInv, CommitInv, AutoCommit
  PROVE  CommitInv'
<1>1. /\ Idle /\ transaction = "inactive" /\ delivered = issued
      /\ transaction' \in {"committed", "aborted"}
      /\ UNCHANGED << runVars, stateVars, issued, delivered >>
  BY DEF AutoCommit
<1>2. \A r \in Reqs : requests[r] \notin {"awaited", "stale"}
  BY <1>1, MaxReqsAssumption DEF IssuedExactly, NoLostEvent, StaleAborts
<1>3. PanicsUnwind => future = "done" /\ result = "Ok"
  BY <1>1, <1>2 DEF Idle, WaitsForRequest, Beginning, Decided
<1> QED
  BY <1>1, <1>2, <1>3
  DEF InOrder, AheadOfBrowser, NoLostEvent, StaleAborts, WaitsForRequest, FirstPollIsClean,
      Beginning, Decided

LEMMA ScopeCommit ==
  ASSUME CountInv, CommitInv, RunRejected \/ RunStarts \/ Resume \/ Cancel
  PROVE  CommitInv'
<1>1. CASE RunStarts
  BY <1>1
  DEF RunStarts, InOrder, AheadOfBrowser, NoLostEvent, StaleAborts, WaitsForRequest,
      FirstPollIsClean, Beginning, Decided
<1>2. CASE RunRejected \/ Resume \/ Cancel
  <2>1. UNCHANGED << result, finished, stateVars, browserVars >> /\ scope' \notin {"start", "calling"}
    BY <1>2 DEF RunRejected, Resume, Cancel, KeptAlive
  <2> QED
    BY <2>1
    DEF InOrder, AheadOfBrowser, NoLostEvent, StaleAborts, WaitsForRequest, FirstPollIsClean,
        Beginning, Decided
<1> QED
  BY <1>1, <1>2

LEMMA CommitStep ==
  ASSUME InSendOrder, CountInv, CommitInv, [Next]_vars
  PROVE  CommitInv'
<1>1. CASE Issue
  BY <1>1, IssueCommit
<1>2. CASE IssueInactive \/ CallbackPanics \/ \E r \in Reqs : TakeOddAnswer(r)
  <2>1. PanicsUnwind /\ scope = "calling" => Unwind
    BY <1>2 DEF IssueInactive, CallbackPanics, TakeOddAnswer, FirstPollIsClean, PanicsUnwind
  <2> QED
    BY <1>2, <2>1, PollPanicsCommit DEF IssueInactive, CallbackPanics, TakeOddAnswer
<1>3. CASE \E r \in Reqs : AddRequest(r) \/ TakeAnswer(r) \/ DropRequest(r)
  BY <1>3, RequestCommit
<1>4. CASE Suspend
  BY <1>4, SuspendCommit
<1>5. CASE \E v \in {"Ok", "Err"} : Return(v)
  BY <1>5, ReturnCommit
<1>6. CASE Deliver
  BY <1>6, DeliverCommit
<1>7. CASE AutoCommit
  BY <1>7, AutoCommitCommit
<1>8. CASE BrowserAborts
  BY <1>8
  DEF BrowserAborts, InOrder, AheadOfBrowser, NoLostEvent, StaleAborts, WaitsForRequest,
      FirstPollIsClean, Beginning, Decided, Idle
<1>9. CASE RunRejected \/ RunStarts \/ Resume \/ Cancel
  BY <1>9, ScopeCommit
<1>10. CASE UNCHANGED vars
  BY <1>10
  DEF vars, InOrder, AheadOfBrowser, NoLostEvent, StaleAborts, WaitsForRequest,
      FirstPollIsClean, Beginning, Decided
<1> QED
  BY <1>1, <1>2, <1>3, <1>4, <1>5, <1>6, <1>7, <1>8, <1>9, <1>10 DEF Next, Callback, Ended

LEMMA CommitInitially == Init => CommitInv
  BY MaxReqsAssumption
  DEF Init, InOrder, AheadOfBrowser, NoLostEvent, StaleAborts, WaitsForRequest, FirstPollIsClean,
      Beginning, Decided, Polled

LEMMA CommitInvariant ==
  ASSUME InSendOrder
  PROVE  Spec => [](CountInv /\ CommitInv)
<1>1. CountInv /\ CommitInv /\ [Next]_vars => (CountInv /\ CommitInv)'
  BY CommitStep, TypeStep, IssuedStep, CountStep
<1> QED
  BY <1>1, CountInitially, CommitInitially, PTL DEF Spec

(* Auto-commit is turned into abort: whatever the callback does to its      *)
(* requests, as long as it awaits them in the order of sending, and         *)
(* whatever the browser does, only an Ok commits (README.md:3).             *)
THEOREM OnlyOkCommits ==
  ASSUME InSendOrder, PanicsUnwind
  PROVE  Spec => []CommitOnlyIfOk
<1>1. CommitInv => CommitOnlyIfOk
  BY DEF Decided, CommitOnlyIfOk
<1> QED
  BY <1>1, CommitInvariant, PTL

(* For requests awaited in the order of sending, a handler is always        *)
(* installed in time (runner.rs:174-175).                                   *)
THEOREM NoEventIsLost ==
  ASSUME InSendOrder
  PROVE  Spec => []NoLostEvent
<1>1. CommitInv => NoLostEvent
  OBVIOUS
<1> QED
  BY <1>1, CommitInvariant, PTL
----------------------------------------------------------------------------
(* While `run` waits, something wakes it.                                   *)

(* Whoever could wake `run` exists: an armed channel has a callback, and a  *)
(* callback between two polls is owned by a registered request.             *)
WakeInv ==
  /\ finished = "armed" => future \notin {"done", "dropped"}
  /\ scope \in {"calling", "awaiting"} => future # "unmade"
  /\ future = "suspended" => KeptAlive

LEMMA WakeStep ==
  ASSUME CountInv, WakeInv, [Next]_vars
  PROVE  WakeInv'
<1> USE DEF WakeInv
<1>1. CASE Issue \/ \E r \in Reqs : AddRequest(r) \/ TakeAnswer(r) \/ DropRequest(r)
  BY <1>1 DEF Issue, AddRequest, TakeAnswer, DropRequest
<1>2. CASE IssueInactive \/ CallbackPanics \/ \E r \in Reqs : TakeOddAnswer(r)
  BY <1>2 DEF IssueInactive, CallbackPanics, TakeOddAnswer,
              PollPanics, PanicUnwinds, PanicTraps
<1>3. CASE Suspend
  <2>1. CASE KeptAlive
    BY <1>3, <2>1 DEF Suspend, KeptAlive, Has
  <2>2. CASE ~KeptAlive
    BY <1>3, <2>2 DEF Suspend
  <2> QED
    BY <2>1, <2>2
<1>4. ASSUME NEW v \in {"Ok", "Err"}, Return(v) PROVE WakeInv'
  BY <1>4 DEF Return, Signalled
<1>5. CASE Deliver
  <2>1. UNCHANGED runVars
    BY <1>5 DEF Deliver
  <2>2. \/ UNCHANGED stateVars
        \/ future' = future /\ future # "suspended"
        \/ future = "suspended" /\ future' = "running"
    BY <1>5 DEF Deliver, FireUnhandled, FireHandled, FireStale
  <2> QED
    BY <2>1, <2>2 DEF KeptAlive, Has
<1>6. CASE AutoCommit \/ BrowserAborts \/ RunRejected \/ Resume \/ Cancel
  BY <1>6 DEF AutoCommit, BrowserAborts, RunRejected, Resume, Cancel, KeptAlive, Has
<1>7. CASE RunStarts
  BY <1>7 DEF RunStarts
<1>8. CASE UNCHANGED vars
  BY <1>8 DEF vars, KeptAlive, Has
<1> QED
  BY <1>1, <1>2, <1>3, <1>4, <1>5, <1>6, <1>7, <1>8 DEF Next, Callback, Ended

LEMMA WakeFollows ==
  ASSUME CountInv, CommitInv, WakeInv
  PROVE  RunCanWake
<1> SUFFICES ASSUME future = "suspended", Has(Answers) = {}
             PROVE  \E r \in Has({"awaited"}) : delivered < r /\ r <= issued
  BY DEF RunCanWake, WakeInv
<1>1. PICK r \in Reqs : requests[r] = "awaited"
  BY DEF WakeInv, KeptAlive, Has
<1>2. r \in Has({"awaited"}) /\ delivered < r
  BY <1>1 DEF NoLostEvent, Has
<1>3. r <= issued
  BY <1>1, MaxReqsAssumption DEF IssuedExactly
<1> QED
  BY <1>2, <1>3

(* As long as requests are awaited in the order of sending, `run` waits for *)
(* nothing that will not come: what still keeps it from an outcome is a     *)
(* trap, an answer that the callback does not take, or the browser.         *)
THEOREM RunIsWoken ==
  ASSUME InSendOrder
  PROVE  Spec => []RunCanWake
<1>1. Init => WakeInv
  BY DEF Init, WakeInv
<1>2. CountInv /\ CommitInv /\ WakeInv /\ [Next]_vars => WakeInv'
  BY WakeStep
<1>3. CountInv /\ CommitInv /\ WakeInv => RunCanWake
  BY WakeFollows
<1> QED
  BY <1>1, <1>2, <1>3, CommitInvariant, PTL DEF Spec
============================================================================
