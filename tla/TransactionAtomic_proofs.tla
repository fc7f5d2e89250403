----------------------- MODULE TransactionAtomic_proofs -----------------------
(***************************************************************************)
(* When a run is atomic: when the callback finds its transaction open, when *)
(* an Ok that is reported takes effect, and when every step of              *)
(* TransactionRunner is a step of AtomicRun or none.                        *)
(***************************************************************************)
EXTENDS TransactionCommit_proofs, TransactionScope_proofs

USE DEF Reqs, Statuses, Registered, Answers, Outcomes, runVars, stateVars, browserVars

NoAbortByBrowser == "abort" \notin Faults
NoCommitFailure  == "commit" \notin Faults

----------------------------------------------------------------------------
(* The callback finds its transaction open.                                 *)

(* Nothing was dropped of what the callback still holds.                    *)
Whole == CanStillRun => \A r \in Reqs : requests[r] \notin {"stale", "forgotten"}

(* A callback that will be polled again is not aborted meanwhile.           *)
WaitsOpen ==
  future = "suspended" =>
    \/ transaction = "inactive"
    \/ transaction = "aborted" /\ \A r \in Reqs : requests[r] # "awaited"

(* What the other modules prove of requests awaited in the order of sending.*)
Common == CountInv /\ ChannelInv /\ CommitInv /\ SettleInv

LEMMA CommonInitially == Init => Common
<1>1. Init => SettleInv
  BY DEF Init, SettleInv, Undecided
<1> QED
  BY <1>1, CountInitially, ChannelInitially, CommitInitially DEF Common

LEMMA CommonStep ==
  ASSUME InSendOrder, Common, [Next]_vars
  PROVE  Common'
  BY TypeStep, IssuedStep, CountStep, ChannelStep, CommitStep, SettleStep DEF Common, CountInv

(* Between polls, what the browser answers next was polled, unless the      *)
(* callback will never run again.                                           *)
LEMMA NextIsAwaited ==
  ASSUME Common, Whole, WaitsOpen, future = "suspended", transaction # "aborted", delivered < issued
  PROVE  requests[delivered + 1] \notin {"unpolled", "forgotten", "stale"}
<1> DEFINE r == delivered + 1
<1>1. r \in Reqs
  BY MaxReqsAssumption DEF Common, CountInv, TypeButCounter
<1>2. PICK s \in Reqs : requests[s] \in {"awaited", "stale"}
  BY DEF Common, CommitInv, WaitsForRequest
<1>3. requests[s] = "awaited" /\ delivered < s
  BY <1>2 DEF Common, CommitInv, NoLostEvent, Whole, CanStillRun
<1>4. requests[r] = "unpolled" => s < r
  BY <1>1, <1>3 DEF Common, CommitInv, InOrder, Polled
<1> QED
  BY <1>1, <1>3, <1>4 DEF Common, CountInv, TypeButCounter, Whole, CanStillRun

(* As long as the callback has not decided, the browser does not commit.    *)
LEMMA NoCommitWhileWaiting ==
  ASSUME Common, Whole, AutoCommit
  PROVE  future # "suspended"
<1> SUFFICES ASSUME future = "suspended" PROVE FALSE
  OBVIOUS
<1>1. PICK s \in Reqs : requests[s] \in {"awaited", "stale"}
  BY DEF AutoCommit, Common, CommitInv, WaitsForRequest
<1>2. delivered < s /\ issued >= s
  BY <1>1 DEF Common, CommitInv, CountInv, TypeButCounter, IssuedExactly, NoLostEvent, Whole, CanStillRun
<1> QED
  BY <1>2 DEF AutoCommit, Common, CountInv, TypeButCounter

AcceptInv == AcceptsRequests /\ Whole /\ WaitsOpen

LEMMA AcceptStep ==
  ASSUME InSendOrder, NotDropped, NoAbortByBrowser, Common, AcceptInv, [Next]_vars
  PROVE  AcceptInv'
<1> USE DEF AcceptInv, AcceptsRequests, Whole, WaitsOpen, CanStillRun
<1>1. CASE Issue \/ \E r \in Reqs : AddRequest(r) \/ TakeAnswer(r)
  BY <1>1 DEF Issue, AddRequest, TakeAnswer, Common, CountInv, TypeButCounter
<1>2. CASE IssueInactive \/ CallbackPanics \/ \E r \in Reqs : TakeOddAnswer(r)
  BY <1>2 DEF IssueInactive, CallbackPanics, TakeOddAnswer,
              PollPanics, PanicUnwinds, PanicTraps
<1>3. ~\E r \in Reqs : DropRequest(r)
  BY DEF DropRequest, NotDropped
<1>4. CASE Suspend
  <2>1. transaction = "active" /\ future = "running"
    BY <1>4 DEF Suspend
  <2>2. \/ future' = "dropped"
        \/ future' = "suspended" /\ requests' = requests
    BY <1>4 DEF Suspend
  <2>3. CASE NothingInFlight
    <3>1. Has({"awaited", "stale"}) = {}
      BY <2>3, AwaitedIsCounted DEF NothingInFlight, InFlight, Common, CountInv
    <3>2. transaction' = "aborted"
      BY <1>4, <2>3 DEF Suspend, Misused
    <3> QED
      BY <2>1, <2>2, <3>1, <3>2 DEF Has
  <2>4. CASE ~NothingInFlight
    <3>1. transaction' = "inactive"
      BY <1>4, <2>1, <2>4 DEF Suspend, ControlReturns
    <3> QED
      BY <2>1, <2>2, <3>1
  <2> QED
    BY <2>3, <2>4
<1>5. ASSUME NEW v \in {"Ok", "Err"}, Return(v) PROVE AcceptInv'
  BY <1>5 DEF Return
<1>6. CASE Deliver
  <2> DEFINE r == delivered + 1
  <2>1. r \in Reqs /\ future # "running" /\ delivered < issued
    BY <1>6, MaxReqsAssumption DEF Deliver, Idle, Common, CountInv, TypeButCounter
  <2>2. PICK o \in Answers : FireUnhandled(r, o) \/ FireHandled(r, o) \/ FireStale(r)
    BY <1>6, OutcomeType DEF Deliver
  <2> HIDE DEF r
  <2>3. CASE future = "suspended" /\ transaction # "aborted"
    <3>1. FireHandled(r, o)
      BY <2>1, <2>2, <2>3, NextIsAwaited DEF r, FireUnhandled, FireStale
    <3>2. requests' = [requests EXCEPT ![r] = o] /\ future' = "running" /\ transaction' = "active"
      BY <2>3, <3>1 DEF FireHandled, Stored, DuringEvent
    <3> QED
      BY <2>1, <2>3, <3>2 DEF Common, CountInv, TypeButCounter
  <2>4. CASE future = "suspended" /\ transaction = "aborted"
    <3>1. UNCHANGED stateVars /\ transaction' = "aborted"
      BY <2>1, <2>2, <2>4 DEF FireUnhandled, FireHandled, FireStale
    <3> QED
      BY <2>4, <3>1
  <2>5. CASE future # "suspended"
    <3>1. future' = future
      BY <2>2, <2>5 DEF FireUnhandled, FireHandled, FireStale
    <3> QED
      BY <2>1, <2>5, <3>1
  <2> QED
    BY <2>3, <2>4, <2>5
<1>7. CASE AutoCommit
  <2>1. future \notin {"running", "suspended"} /\ future' = future
    BY <1>7, NoCommitWhileWaiting DEF AutoCommit, Idle
  <2> QED
    BY <2>1
<1>8. ~BrowserAborts
  BY DEF BrowserAborts, NoAbortByBrowser
<1>9. CASE RunStarts
  BY <1>9 DEF RunStarts, Common, ChannelInv
<1>10. CASE RunRejected \/ Resume \/ Cancel
  BY <1>10 DEF RunRejected, Resume, Cancel
<1>11. CASE UNCHANGED vars
  BY <1>11 DEF vars
<1> QED
  BY <1>1, <1>2, <1>3, <1>4, <1>5, <1>6, <1>7, <1>8, <1>9, <1>10, <1>11 DEF Next, Callback, Ended

LEMMA AcceptInitially == Init => AcceptInv
  BY DEF Init, AcceptInv, AcceptsRequests, Whole, WaitsOpen, CanStillRun

(* Whenever the callback runs, the browser accepts its requests, provided   *)
(* that it drops none, awaits them in the order of sending, and the browser *)
(* does not abort by itself (runner.rs:157).                                *)
THEOREM CallbackFindsItActive ==
  ASSUME InSendOrder, NotDropped, NoAbortByBrowser
  PROVE  Spec => []AcceptsRequests
<1>1. Common /\ AcceptInv /\ [Next]_vars => (Common /\ AcceptInv)'
  BY CommonStep, AcceptStep
<1>2. AcceptInv => AcceptsRequests
  BY DEF AcceptInv
<1> QED
  BY <1>1, <1>2, CommonInitially, AcceptInitially, PTL DEF Spec

----------------------------------------------------------------------------
(* An Ok that is reported takes effect.                                     *)

TakenWereDelivered ==
  \A r \in Reqs : requests[r] \in Answers \cup {"taken"} => r <= delivered

LEMMA AfterDropTaken ==
  \A s \in Statuses : AfterDrop(s) \in Answers \cup {"taken"} => s \in Answers \cup {"taken"}
  BY DEF AfterDrop

LEMMA TakenStep ==
  ASSUME CountInv, TakenWereDelivered, [Next]_vars
  PROVE  TakenWereDelivered'
<1> USE DEF TakenWereDelivered
<1>0. /\ requests \in [Reqs -> Statuses] /\ delivered \in Int
      /\ \A r \in Reqs : requests[r] \in Statuses
  BY MaxReqsAssumption DEF CountInv, TypeButCounter
<1>1. ASSUME UNCHANGED delivered,
             \A r \in Reqs : requests'[r] \in {requests[r], AfterDrop(requests[r]), "unpolled", "awaited"}
      PROVE  TakenWereDelivered'
  BY <1>0, <1>1, AfterDropTaken
<1>2. CASE Issue \/ \E r \in Reqs : AddRequest(r)
  BY <1>0, <1>1, <1>2 DEF Issue, AddRequest
<1>3. ASSUME NEW r \in Reqs, TakeAnswer(r) PROVE TakenWereDelivered'
  BY <1>0, <1>3 DEF TakeAnswer
<1>4. ASSUME NEW r \in Reqs, DropRequest(r) PROVE TakenWereDelivered'
  <2>1. UNCHANGED delivered /\ \A s \in Reqs : requests'[s] \in {requests[s], AfterDrop(requests[s])}
    BY <1>0, <1>4 DEF DropRequest
  <2> QED
    BY <1>1, <2>1
<1>5. CASE \/ IssueInactive \/ CallbackPanics \/ Suspend
           \/ \E r \in Reqs : TakeOddAnswer(r)
  <2>1. CASE Suspend
    BY <1>1, <2>1, AllDroppedOrKept DEF Suspend
  <2>2. CASE PollPanics
    BY <1>1, <2>2, PanicDrops, DroppedOrKept DEF PollPanics
  <2> QED
    BY <1>5, <2>1, <2>2 DEF IssueInactive, CallbackPanics, TakeOddAnswer
<1>6. ASSUME NEW v \in {"Ok", "Err"}, Return(v) PROVE TakenWereDelivered'
  <2>1. UNCHANGED delivered /\ \A s \in Reqs : requests'[s] \in {requests[s], AfterDrop(requests[s])}
    BY <1>6 DEF Return, DroppedBut
  <2> QED
    BY <1>1, <2>1
<1>7. CASE Deliver
  <2>1. delivered' = delivered + 1
    BY <1>7 DEF Deliver
  <2>2. \A s \in Reqs : s = delivered + 1 \/ requests'[s] = requests[s]
    BY <1>0, <1>7 DEF Deliver, FireUnhandled, FireHandled, FireStale
  <2> QED
    BY <1>0, <2>1, <2>2
<1>8. CASE AutoCommit \/ BrowserAborts \/ RunRejected \/ RunStarts \/ Resume \/ Cancel \/ UNCHANGED vars
  BY <1>8 DEF AutoCommit, BrowserAborts, RunRejected, RunStarts, Resume, Cancel, vars
<1> QED
  BY <1>2, <1>3, <1>4, <1>5, <1>6, <1>7, <1>8 DEF Next, Callback, Ended

(* The transaction of a callback that runs has not ended, or was aborted.   *)
PollsOpen == future = "running" => transaction \in {"active", "aborted"}

(* An abort leaves a mark that a callback cannot return Ok with and be      *)
(* believed: a request that it has still to poll, that never ends, or whose *)
(* answer makes it panic.                                                   *)
Blemished ==
  CanStillRun /\ transaction = "aborted" =>
    result = "Forbidden" \/ \E r \in Reqs : requests[r] \in {"unpolled", "awaited", "Odd"}

(* Who returned Ok waits for nothing, or is found out when `run` resumes.   *)
OkEffect ==
  result = "Ok" /\ scope # "cancelled" =>
    KeptAlive \/ (transaction \in {"inactive", "committed"} /\ delivered = issued)

OkTold == scope = "ok" => result = "Ok" /\ ~KeptAlive

OkBase == CountInv /\ ChannelInv /\ SettleInv

OkInv == TakenWereDelivered /\ Whole /\ PollsOpen /\ Blemished /\ OkEffect /\ OkTold

LEMMA OkBaseStep ==
  ASSUME OkBase, [Next]_vars
  PROVE  OkBase'
  BY TypeStep, IssuedStep, CountStep, ChannelStep, SettleStep DEF OkBase, CountInv

LEMMA WholeStep ==
  ASSUME NotDropped, CountInv, ChannelInv, Whole, [Next]_vars
  PROVE  Whole'
<1> USE DEF Whole, CanStillRun
<1>0. requests \in [Reqs -> Statuses]
  BY DEF CountInv, TypeButCounter
<1>1. CASE Issue \/ \E r \in Reqs : AddRequest(r) \/ TakeAnswer(r)
  BY <1>0, <1>1 DEF Issue, AddRequest, TakeAnswer
<1>2. CASE \/ IssueInactive \/ CallbackPanics
           \/ \E r \in Reqs : TakeOddAnswer(r)
           \/ \E v \in {"Ok", "Err"} : Return(v)
  BY <1>2 DEF IssueInactive, CallbackPanics, TakeOddAnswer,
              PollPanics, PanicUnwinds, PanicTraps, Return
<1>3. ~\E r \in Reqs : DropRequest(r)
  BY DEF DropRequest, NotDropped
<1>4. CASE Suspend
  BY <1>4 DEF Suspend
<1>5. CASE Deliver
  <2>1. PICK o \in Answers : \/ FireUnhandled(delivered + 1, o)
                             \/ FireHandled(delivered + 1, o)
                             \/ FireStale(delivered + 1)
    BY <1>5, OutcomeType DEF Deliver
  <2> QED
    BY <1>0, <2>1 DEF FireUnhandled, FireHandled, FireStale, Stored
<1>6. CASE RunStarts
  BY <1>6 DEF RunStarts, ChannelInv
<1>7. CASE AutoCommit \/ BrowserAborts \/ RunRejected \/ Resume \/ Cancel \/ UNCHANGED vars
  BY <1>7 DEF AutoCommit, BrowserAborts, RunRejected, Resume, Cancel, vars
<1> QED
  BY <1>1, <1>2, <1>3, <1>4, <1>5, <1>6, <1>7 DEF Next, Callback, Ended

LEMMA PollsOpenStep ==
  ASSUME OkBase, PollsOpen, [Next]_vars
  PROVE  PollsOpen'
<1> USE DEF PollsOpen
<1>1. CASE Issue \/ \E r \in Reqs : AddRequest(r) \/ TakeAnswer(r) \/ DropRequest(r)
  BY <1>1 DEF Issue, AddRequest, TakeAnswer, DropRequest
<1>2. CASE \/ IssueInactive \/ CallbackPanics \/ Suspend
           \/ \E r \in Reqs : TakeOddAnswer(r)
           \/ \E v \in {"Ok", "Err"} : Return(v)
  BY <1>2 DEF IssueInactive, CallbackPanics, TakeOddAnswer,
              PollPanics, PanicUnwinds, PanicTraps, Suspend, Return
<1>3. CASE Deliver
  BY <1>3 DEF Deliver, Idle, FireUnhandled, FireHandled, FireStale, DuringEvent
<1>4. CASE AutoCommit \/ BrowserAborts \/ RunRejected \/ RunStarts \/ Resume \/ Cancel \/ UNCHANGED vars
  BY <1>4 DEF AutoCommit, BrowserAborts, Idle, RunRejected, RunStarts, Resume, Cancel, vars
<1> QED
  BY <1>1, <1>2, <1>3, <1>4 DEF Next, Callback, Ended

(* A request that the browser has not answered yet is such a mark.          *)
LEMMA UndeliveredIsBlemish ==
  ASSUME OkBase, TakenWereDelivered, Whole, CanStillRun, delivered < issued
  PROVE  \E r \in Reqs : requests[r] \in {"unpolled", "awaited"}
<1> DEFINE r == delivered + 1
<1>1. r \in Reqs /\ r <= issued /\ ~(r <= delivered) /\ ~(issued < r)
  BY MaxReqsAssumption DEF OkBase, CountInv, TypeButCounter
<1> HIDE DEF r
<1>2. requests[r] \in Statuses /\ requests[r] # "none"
  BY <1>1 DEF OkBase, CountInv, TypeButCounter, IssuedExactly
<1>3. requests[r] \in {"unpolled", "awaited"}
  BY <1>1, <1>2 DEF TakenWereDelivered, Whole
<1> QED
  BY <1>1, <1>3

LEMMA BlemishedStep ==
  ASSUME NotDropped, NoCommitFailure, OkBase, TakenWereDelivered, Whole, PollsOpen, Blemished,
         [Next]_vars
  PROVE  Blemished'
<1> USE DEF Blemished, CanStillRun
<1>0. /\ requests \in [Reqs -> Statuses]
      /\ future = "running" => result = "None"
  BY DEF OkBase, CountInv, TypeButCounter, SettleInv, Undecided
<1>1. CASE Issue \/ \E r \in Reqs : AddRequest(r) \/ TakeAnswer(r)
  BY <1>0, <1>1 DEF Issue, AddRequest, TakeAnswer
<1>2. CASE \/ IssueInactive \/ CallbackPanics
           \/ \E r \in Reqs : TakeOddAnswer(r)
           \/ \E v \in {"Ok", "Err"} : Return(v)
  BY <1>2 DEF IssueInactive, CallbackPanics, TakeOddAnswer,
              PollPanics, PanicUnwinds, PanicTraps, Return
<1>3. ~\E r \in Reqs : DropRequest(r)
  BY DEF DropRequest, NotDropped
<1>4. CASE Suspend
  <2>1. CASE NothingInFlight
    BY <1>4, <2>1 DEF Suspend
  <2>2. CASE ~NothingInFlight
    <3>1. future = "running" /\ (transaction' = "aborted" => transaction = "aborted")
      BY <1>4, <2>2 DEF Suspend, ControlReturns
    <3>2. future' = "suspended" => requests' = requests
      BY <1>4 DEF Suspend
    <3>3. future' \in {"suspended", "dropped"}
      BY <1>4 DEF Suspend
    <3> QED
      BY <1>0, <3>1, <3>2, <3>3
  <2> QED
    BY <2>1, <2>2
<1>5. CASE Deliver
  <2> DEFINE r == delivered + 1
  <2>1. r \in Reqs /\ future # "running" /\ delivered < issued /\ UNCHANGED runVars
    BY <1>5, MaxReqsAssumption DEF Deliver, Idle, OkBase, CountInv, TypeButCounter
  <2>2. PICK o \in Outcome : FireUnhandled(r, o) \/ FireHandled(r, o) \/ FireStale(r)
    BY <1>5 DEF Deliver
  <2> HIDE DEF r
  <2>3. CASE future # "suspended"
    <3>1. future' = future
      BY <2>2, <2>3 DEF FireUnhandled, FireHandled, FireStale
    <3> QED
      BY <2>1, <2>3, <3>1
  <2>4. CASE future = "suspended" /\ UNCHANGED stateVars
    BY <2>1, <2>4, UndeliveredIsBlemish
  <2>5. CASE future = "suspended" /\ FireHandled(r, o)
    <3>1. requests' = [requests EXCEPT ![r] = o]
      BY <2>5 DEF FireHandled, Stored
    <3>2. transaction' = "aborted" => transaction = "aborted" /\ o = "Odd"
      BY <2>2, <2>5 DEF FireHandled, DuringEvent, Outcome
    <3> QED
      BY <1>0, <2>1, <3>1, <3>2
  <2> QED
    BY <2>2, <2>3, <2>4, <2>5 DEF FireUnhandled, FireStale
<1>6. CASE BrowserAborts
  BY <1>6, UndeliveredIsBlemish DEF BrowserAborts
<1>7. CASE AutoCommit
  BY <1>7 DEF AutoCommit, NoCommitFailure
<1>8. CASE RunStarts
  BY <1>8 DEF RunStarts
<1>9. CASE RunRejected \/ Resume \/ Cancel \/ UNCHANGED vars
  BY <1>9 DEF RunRejected, Resume, Cancel, vars
<1> QED
  BY <1>1, <1>2, <1>3, <1>4, <1>5, <1>6, <1>7, <1>8, <1>9 DEF Next, Callback, Ended

(* Without a drop, a callback that leaves nothing behind has taken every    *)
(* answer, and the browser has nothing left to say.                         *)
LEMMA ReturnedEmpty ==
  ASSUME NotDropped, OkBase, TakenWereDelivered, Whole,
         NEW v \in {"Ok", "Err"}, Return(v), ~KeptAlive'
  PROVE  delivered = issued /\ \A r \in Reqs : requests[r] \in {"none", "taken"}
<1>1. PICK kept \in SUBSET Has(Registered) :
        /\ Has({"unpolled"} \cup Registered) \subseteq kept
        /\ requests' = [r \in Reqs |-> IF r \in kept THEN requests[r] ELSE AfterDrop(requests[r])]
  BY DEF Return, Stashable, DroppedBut, NotDropped
<1>2. \A r \in Reqs : requests[r] \notin {"unpolled"} \cup Registered
  <2> SUFFICES ASSUME NEW r \in Reqs, requests[r] \in {"unpolled"} \cup Registered PROVE FALSE
    OBVIOUS
  <2>1. r \in kept
    BY <1>1 DEF Has
  <2>2. requests[r] \in Registered /\ requests'[r] = requests[r]
    BY <1>1, <2>1 DEF Has
  <2> QED
    BY <2>2 DEF KeptAlive, Has
<1>3. future = "running"
  BY DEF Return
<1>4. \A r \in Reqs : requests[r] \in {"none", "taken"}
  BY <1>2, <1>3 DEF OkBase, CountInv, TypeButCounter, Whole, CanStillRun
<1>5. CASE issued = 0
  BY <1>4, <1>5 DEF OkBase, CountInv, TypeButCounter
<1>6. CASE issued # 0
  <2>1. issued \in Reqs /\ requests[issued] # "none"
    BY <1>6, MaxReqsAssumption DEF OkBase, CountInv, TypeButCounter, IssuedExactly
  <2>2. issued <= delivered
    BY <1>4, <2>1 DEF TakenWereDelivered
  <2> QED
    BY <1>4, <2>2, MaxReqsAssumption DEF OkBase, CountInv, TypeButCounter
<1> QED
  BY <1>5, <1>6

LEMMA OkEffectStep ==
  ASSUME NotDropped, NoCommitFailure, OkBase, OkInv, [Next]_vars
  PROVE  OkEffect' /\ OkTold'
<1> USE DEF OkEffect, OkTold
<1>0. OkEffect /\ OkTold
  BY DEF OkInv
<1>1. CASE \/ Issue \/ IssueInactive \/ CallbackPanics \/ Suspend
           \/ \E r \in Reqs : AddRequest(r) \/ TakeAnswer(r) \/ TakeOddAnswer(r) \/ DropRequest(r)
  <2>1. future = "running" /\ result # "Ok"
    BY <1>1
    DEF Issue, IssueInactive, CallbackPanics, Suspend, AddRequest, TakeAnswer, TakeOddAnswer,
        DropRequest, OkBase, SettleInv, Undecided
  <2>2. result' \in {result, "Forbidden"} /\ (scope' = "ok" => scope = "ok")
    BY <1>1
    DEF Issue, IssueInactive, CallbackPanics, Suspend, ScopeWaits, AddRequest, TakeAnswer, TakeOddAnswer,
        DropRequest, PollPanics, PanicUnwinds, PanicTraps
  <2> QED
    BY <1>0, <2>1, <2>2
<1>2. ASSUME NEW v \in {"Ok", "Err"}, Return(v) PROVE OkEffect' /\ OkTold'
  <2>1. future = "running" /\ result = "None" /\ scope' = scope /\ scope # "ok" /\ result' = v
    BY <1>0, <1>2 DEF Return, OkBase, SettleInv, Undecided
  <2>2. UNCHANGED << issued, delivered >> /\ transaction' = AfterReturn(v)
    BY <1>2 DEF Return
  <2>3. ASSUME ~KeptAlive', v = "Ok", scope # "cancelled"
        PROVE  transaction' = "inactive" /\ delivered = issued
    <3>1. delivered = issued /\ \A r \in Reqs : requests[r] \in {"none", "taken"}
      BY <1>2, <2>3, ReturnedEmpty DEF OkInv
    <3>2. transaction = "active"
      BY <2>1, <3>1 DEF OkInv, PollsOpen, Blemished, CanStillRun
    <3> QED
      BY <2>2, <2>3, <3>1, <3>2 DEF AfterReturn, ControlReturns
  <2> QED
    BY <2>1, <2>2, <2>3
<1>3. CASE Deliver
  <2>1. delivered # issued /\ UNCHANGED runVars
    BY <1>3 DEF Deliver, OkBase, CountInv, TypeButCounter
  <2>2. KeptAlive => KeptAlive'
    <3>1. PICK o \in Answers : \/ FireUnhandled(delivered + 1, o)
                               \/ FireHandled(delivered + 1, o)
                               \/ FireStale(delivered + 1)
      BY <1>3, OutcomeType DEF Deliver
    <3> QED
      BY <3>1
      DEF FireUnhandled, FireHandled, FireStale, Stored, KeptAlive, Has, OkBase, CountInv, TypeButCounter
  <2> QED
    BY <1>0, <2>1, <2>2
<1>4. CASE AutoCommit
  BY <1>0, <1>4 DEF AutoCommit, NoCommitFailure, KeptAlive, Has
<1>5. CASE BrowserAborts
  <2>1. delivered # issued
    BY <1>5 DEF BrowserAborts, OkBase, CountInv, TypeButCounter
  <2> QED
    BY <1>0, <1>5, <2>1 DEF BrowserAborts, KeptAlive, Has
<1>6. CASE RunRejected \/ RunStarts
  BY <1>6 DEF RunRejected, RunStarts, OkBase, ChannelInv
<1>7. CASE Resume
  BY <1>0, <1>7 DEF Resume, KeptAlive, Has
<1>8. CASE Cancel \/ UNCHANGED vars
  BY <1>0, <1>8 DEF Cancel, vars, KeptAlive, Has
<1> QED
  BY <1>1, <1>2, <1>3, <1>4, <1>5, <1>6, <1>7, <1>8 DEF Next, Callback, Ended

LEMMA OkStep ==
  ASSUME NotDropped, NoCommitFailure, OkBase, OkInv, [Next]_vars
  PROVE  OkInv'
<1>1. TakenWereDelivered'
  BY TakenStep DEF OkInv, OkBase
<1>2. Whole'
  BY WholeStep DEF OkInv, OkBase
<1>3. PollsOpen'
  BY PollsOpenStep DEF OkInv
<1>4. Blemished'
  BY BlemishedStep DEF OkInv
<1> QED
  BY <1>1, <1>2, <1>3, <1>4, OkEffectStep DEF OkInv

LEMMA OkInitially == Init => OkBase /\ OkInv
<1>1. Init => SettleInv
  BY DEF Init, SettleInv, Undecided
<1>2. Init => OkInv
  BY DEF Init, OkInv, TakenWereDelivered, Whole, PollsOpen, Blemished, OkEffect, OkTold, CanStillRun
<1> QED
  BY <1>1, <1>2, CountInitially, ChannelInitially DEF OkBase

(* When `run` reports Ok, the transaction is committed or about to be, if   *)
(* the callback drops no request and the commit itself cannot fail, in      *)
(* whatever order the callback awaits and whatever it keeps, also if the    *)
(* browser aborts the transaction under way (transaction.rs:91).            *)
THEOREM ReportedOkCommits ==
  ASSUME NotDropped, NoCommitFailure
  PROVE  Spec => []OkIsHonoured
<1>1. OkBase /\ OkInv /\ [Next]_vars => (OkBase /\ OkInv)'
  BY OkBaseStep, OkStep
<1>2. OkInv => OkIsHonoured
  BY DEF OkInv, OkEffect, OkTold, OkIsHonoured
<1> QED
  BY <1>1, <1>2, OkInitially, PTL DEF Spec

----------------------------------------------------------------------------
(* Every step is a step of AtomicRun, or none.                              *)

(* What a run needs to be atomic.  The callback awaits in the order of      *)
(* sending, drops no request and lets none outlive it; a panic does not     *)
(* trap in the caller's own task; the commit itself does not fail.  It may  *)
(* panic, await forbidden things and hold answers, its caller may drop      *)
(* `run`, and the browser may abort or answer with any error.               *)
Disciplined ==
  InSendOrder /\ NotDropped /\ NotStashed /\ PanicsUnwind /\ NoCommitFailure

(* What was recorded is what becomes of the transaction.                    *)
EndsInv ==
  /\ result = "Forbidden" => transaction = "aborted"
  /\ result = "Ok" =>
       transaction = "aborted" \/ (transaction \in {"inactive", "committed"} /\ delivered = issued)
  /\ future = "dropped" => finished = "dropped"

RunInv == Common /\ OkInv /\ NobodyLeft /\ FailInv /\ WakeInv /\ EndsInv

(* A callback that returns has taken every answer, on an open transaction.  *)
LEMMA DisciplinedReturn ==
  ASSUME Disciplined, RunInv, NEW v \in {"Ok", "Err"}, Return(v)
  PROVE  delivered = issued /\ transaction = "active"
<1>1. \A r \in Reqs : requests'[r] = AfterDrop(requests[r]) /\ requests[r] \in Statuses
  BY DEF Return, Stashable, DroppedBut, Disciplined, NotStashed, RunInv, Common, CountInv,
         TypeButCounter
<1>2. ~KeptAlive'
  BY <1>1, DroppedNotRegistered DEF KeptAlive, Has
<1>3. delivered = issued /\ \A r \in Reqs : requests[r] \in {"none", "taken"}
  BY <1>2, ReturnedEmpty DEF Disciplined, RunInv, Common, OkBase, OkInv
<1>4. future = "running" /\ result = "None"
  BY DEF Return, RunInv, Common, SettleInv, Undecided
<1> QED
  BY <1>3, <1>4 DEF RunInv, OkInv, PollsOpen, Blemished, CanStillRun

LEMMA EndsStep ==
  ASSUME Disciplined, RunInv, [Next]_vars
  PROVE  EndsInv'
<1> USE DEF EndsInv
<1>0. EndsInv /\ (future = "running" => result = "None")
  BY DEF RunInv, Common, SettleInv, Undecided
<1>1. CASE Issue \/ \E r \in Reqs : AddRequest(r) \/ TakeAnswer(r) \/ DropRequest(r)
  BY <1>0, <1>1 DEF Issue, AddRequest, TakeAnswer, DropRequest
<1>2. CASE IssueInactive \/ CallbackPanics \/ \E r \in Reqs : TakeOddAnswer(r)
  BY <1>0, <1>2 DEF IssueInactive, CallbackPanics, TakeOddAnswer,
              PollPanics, PanicUnwinds, PanicTraps
<1>3. CASE Suspend
  BY <1>0, <1>3 DEF Suspend, Misused
<1>4. ASSUME NEW v \in {"Ok", "Err"}, Return(v) PROVE EndsInv'
  BY <1>4, DisciplinedReturn DEF Return, AfterReturn, ControlReturns
<1>5. CASE Deliver
  <2>1. /\ delivered # issued /\ UNCHANGED runVars
        /\ future' = "dropped" => future = "dropped"
        /\ transaction = "aborted" => transaction' = "aborted"
    BY <1>5
    DEF Deliver, FireUnhandled, FireHandled, FireStale, DuringEvent,
        RunInv, Common, CountInv, TypeButCounter
  <2> QED
    BY <1>0, <2>1
<1>6. CASE AutoCommit \/ BrowserAborts
  BY <1>0, <1>6 DEF AutoCommit, BrowserAborts
<1>7. CASE RunStarts
  BY <1>7 DEF RunStarts, RunInv, Common, ChannelInv
<1>8. CASE RunRejected \/ Resume \/ Cancel \/ UNCHANGED vars
  BY <1>0, <1>8 DEF RunRejected, Resume, Cancel, vars
<1> QED
  BY <1>1, <1>2, <1>3, <1>4, <1>5, <1>6, <1>7, <1>8 DEF Next, Callback, Ended

LEMMA RunStep ==
  ASSUME Disciplined, RunInv, [Next]_vars
  PROVE  RunInv'
<1>1. Common'
  BY CommonStep DEF Disciplined, RunInv
<1>2. OkInv'
  BY OkStep DEF Disciplined, RunInv, Common, OkBase
<1>3. NobodyLeft'
  BY NobodyLeftStep DEF Disciplined, RunInv, Common, Ground
<1>4. FailInv'
  BY FailStep DEF Disciplined, RunInv, Common, Ground
<1>5. WakeInv'
  BY WakeStep DEF RunInv, Common
<1> QED
  BY <1>1, <1>2, <1>3, <1>4, <1>5, EndsStep DEF RunInv

LEMMA RunInitially == Init => RunInv
<1>1. Init => NobodyLeft /\ FailInv /\ WakeInv /\ EndsInv
  BY DEF Init, NobodyLeft, FailInv, AllWaitedFor, WhyResolved, FailureAborts, CanStillRun, WakeInv, EndsInv
<1> QED
  BY <1>1, CommonInitially, OkInitially DEF RunInv

----------------------------------------------------------------------------
(* The step simulation.                                                     *)

LEMMA StartsAtomically == Init => Atomic!AtomicInit
  BY DEF Init, Atomic!AtomicInit

(* Whoever aborts a transaction that is open and undecided refuses the run. *)
LEMMA AbortRefuses ==
  ASSUME RunInv, transaction \in {"active", "inactive"}, transaction' = "aborted",
         result = "None", scope' = scope
  PROVE  Atomic!AtomicNext
<1>1. CASE result' = "Err"
  <2>1. Atomic!Refuse
    BY <1>1 DEF Atomic!Refuse
  <2> QED
    BY <2>1 DEF Atomic!AtomicNext
<1>2. CASE result' # "Err"
  <2>1. Atomic!Refuse
    BY <1>2 DEF Atomic!Refuse
  <2> QED
    BY <2>1 DEF Atomic!AtomicNext
<1> QED
  BY <1>1, <1>2

LEMMA PanicIsAtomic ==
  ASSUME Disciplined, RunInv, IssueInactive \/ CallbackPanics \/ \E r \in Reqs : TakeOddAnswer(r)
  PROVE  [Atomic!AtomicNext]_(Atomic!atomicVars)
<1>1. future = "running" /\ PollPanics /\ result = "None" /\ result' = "None"
  BY DEF IssueInactive, CallbackPanics, TakeOddAnswer, PollPanics, RunInv, Common, SettleInv,
         Undecided
<1>2. transaction \in {"active", "aborted"}
  BY <1>1 DEF RunInv, OkInv, PollsOpen
<1>3. CASE scope = "calling"
  <2>1. transaction = "active" /\ \A r \in Reqs : requests[r] # "Odd"
    BY <1>1, <1>3 DEF RunInv, Common, CommitInv, FirstPollIsClean
  <2>2. Unwind
    BY <1>3, <2>1 DEF IssueInactive, CallbackPanics, TakeOddAnswer, Disciplined, PanicsUnwind
  <2>3. transaction' = "aborted" /\ scope' = "panicked"
    <3>1. Stashable = {{}}
      BY DEF Disciplined, NotStashed, Stashable
    <3> QED
      BY <1>1, <1>3, <2>2, <3>1 DEF PollPanics, PanicUnwinds
  <2>4. Atomic!Crash
    BY <1>1, <1>3, <2>1, <2>3 DEF Atomic!Crash
  <2> QED
    BY <2>4 DEF Atomic!AtomicNext
<1>4. CASE scope # "calling"
  <2>1. transaction' = "aborted" /\ scope' = scope
    BY <1>1, <1>4 DEF PollPanics, PanicUnwinds, PanicTraps
  <2>2. CASE transaction = "aborted"
    BY <1>1, <2>1, <2>2 DEF Atomic!atomicVars
  <2>3. CASE transaction = "active"
    BY <1>1, <2>1, <2>3, AbortRefuses
  <2> QED
    BY <1>2, <2>2, <2>3
<1> QED
  BY <1>3, <1>4

LEMMA SuspendIsAtomic ==
  ASSUME RunInv, Suspend
  PROVE  [Atomic!AtomicNext]_(Atomic!atomicVars)
<1>1. future = "running" /\ result = "None" /\ transaction \in {"active", "aborted"}
  BY DEF Suspend, RunInv, Common, SettleInv, Undecided, OkInv, PollsOpen
<1>2. scope' = scope \/ (scope = "calling" /\ scope' = "awaiting")
  BY DEF Suspend, ScopeWaits
<1>3. CASE ~NothingInFlight
  <2>1. result' = "None" /\ transaction' = IF transaction = "active" THEN "inactive" ELSE transaction
    BY <1>1, <1>3 DEF Suspend, ControlReturns
  <2> QED
    BY <1>1, <1>2, <2>1 DEF Atomic!atomicVars
<1>4. CASE NothingInFlight
  <2>1. result' = "Forbidden" /\ transaction' = "aborted"
    BY <1>4 DEF Suspend, Misused
  <2>2. CASE transaction = "aborted"
    BY <1>1, <1>2, <2>1, <2>2 DEF Atomic!atomicVars
  <2>3. CASE transaction = "active"
    <3>1. Atomic!Refuse
      BY <1>1, <1>2, <2>1, <2>3 DEF Atomic!Refuse
    <3> QED
      BY <3>1 DEF Atomic!AtomicNext
  <2> QED
    BY <1>1, <2>2, <2>3
<1> QED
  BY <1>3, <1>4

(* An Ok is accepted, unless nobody waits for it any more.                  *)
LEMMA ReturnIsAtomic ==
  ASSUME Disciplined, RunInv, NEW v \in {"Ok", "Err"}, Return(v)
  PROVE  Atomic!AtomicNext
<1>1. transaction = "active"
  BY DisciplinedReturn
<1>2. result = "None" /\ scope' = scope /\ result' = v
  BY DEF Return, RunInv, Common, SettleInv, Undecided
<1>3. transaction' = IF v = "Err" \/ scope = "cancelled" THEN "aborted" ELSE "inactive"
  BY <1>1 DEF Return, AfterReturn, ControlReturns
<1>4. CASE v = "Ok" /\ scope # "cancelled"
  <2>1. Atomic!Accept
    BY <1>1, <1>2, <1>3, <1>4 DEF Atomic!Accept
  <2> QED
    BY <2>1 DEF Atomic!AtomicNext
<1>5. CASE v = "Err" \/ scope = "cancelled"
  BY <1>1, <1>2, <1>3, <1>5, AbortRefuses
<1> QED
  BY <1>4, <1>5

LEMMA CallbackIsAtomic ==
  ASSUME Disciplined, RunInv, Callback
  PROVE  [Atomic!AtomicNext]_(Atomic!atomicVars)
<1>1. CASE Issue \/ \E r \in Reqs : AddRequest(r) \/ TakeAnswer(r) \/ DropRequest(r)
  BY <1>1 DEF Issue, AddRequest, TakeAnswer, DropRequest, Atomic!atomicVars
<1> QED
  BY <1>1, PanicIsAtomic, SuspendIsAtomic, ReturnIsAtomic DEF Callback

(* What the browser does to a transaction that is not over either keeps it  *)
(* open or refuses the run.                                                 *)
LEMMA BrowserIsAtomic ==
  ASSUME Disciplined, RunInv, Deliver \/ BrowserAborts
  PROVE  [Atomic!AtomicNext]_(Atomic!atomicVars)
<1>1. /\ delivered # issued /\ UNCHANGED runVars
      /\ transaction = "aborted" => transaction' = "aborted"
      /\ transaction \in {"active", "inactive"} => transaction' \in {"active", "inactive", "aborted"}
  BY DEF Deliver, BrowserAborts, FireUnhandled, FireHandled, FireStale, DuringEvent,
         RunInv, Common, CountInv, TypeButCounter
<1>2. transaction \notin {"none", "committed"}
  <2>1. issued # 0
    BY <1>1, MaxReqsAssumption DEF RunInv, Common, CountInv, TypeButCounter
  <2>2. transaction # "none"
    BY <1>1, <2>1, MaxReqsAssumption DEF RunInv, Common, ChannelInv, CommitInv, Beginning
  <2>3. transaction = "committed" => result = "Ok"
    BY DEF RunInv, Common, CommitInv, Decided, Disciplined
  <2> QED
    BY <1>1, <2>2, <2>3 DEF RunInv, EndsInv
<1>3. CASE transaction = "aborted"
  BY <1>1, <1>3 DEF Atomic!atomicVars
<1>4. CASE transaction \in {"active", "inactive"}
  <2>1. result = "None" /\ result' = "None" /\ scope' = scope
    BY <1>1, <1>4 DEF RunInv, EndsInv, FailInv, WhyResolved, Common, CountInv, TypeButCounter
  <2>2. CASE transaction' \in {"active", "inactive"}
    BY <1>4, <2>1, <2>2 DEF Atomic!atomicVars
  <2>3. CASE transaction' = "aborted"
    BY <1>4, <2>1, <2>3, AbortRefuses
  <2> QED
    BY <1>1, <1>4, <2>2, <2>3
<1> QED
  BY <1>2, <1>3, <1>4 DEF RunInv, Common, CountInv, TypeButCounter

LEMMA ResumeIsAtomic ==
  ASSUME Disciplined, RunInv, Resume
  PROVE  Atomic!Tell
<1>1. /\ scope \in {"calling", "awaiting"} /\ finished \in {"signalled", "dropped"}
      /\ UNCHANGED << result, transaction >>
  BY DEF Resume, Resolved, RunInv, Common, CountInv, TypeButCounter
<1>2. ~KeptAlive
  BY <1>1 DEF KeptAlive, RunInv, NobodyLeft
<1>3. CASE result = "Ok"
  <2>1. scope' = "ok" /\ transaction # "aborted"
    BY <1>1, <1>2, <1>3 DEF Resume, RunInv, OkInv, OkEffect
  <2> QED
    BY <1>1, <1>3, <2>1 DEF Atomic!Tell, Atomic!Verdict
<1>4. CASE result = "Err"
  <2>1. scope' = "err"
    BY <1>2, <1>4 DEF Resume
  <2> QED
    BY <1>1, <1>4, <2>1 DEF Atomic!Tell, Atomic!Verdict
<1>5. CASE result \notin {"Ok", "Err"}
  <2>1. scope' = "panicked"
    BY <1>2, <1>5 DEF Resume
  <2>2. transaction = "aborted"
    BY <1>1, <1>5 DEF RunInv, FailInv, WhyResolved
  <2> QED
    BY <1>1, <1>5, <2>1, <2>2 DEF Atomic!Tell, Atomic!Verdict
<1> QED
  BY <1>3, <1>4, <1>5

LEMMA StepIsAtomic ==
  ASSUME Disciplined, RunInv, [Next]_vars
  PROVE  [Atomic!AtomicNext]_(Atomic!atomicVars)
<1>1. CASE Callback
  BY <1>1, CallbackIsAtomic
<1>2. CASE RunRejected
  <2>1. /\ scope = "start" /\ scope' = "err"
        /\ transaction = "none" /\ result = "None" /\ UNCHANGED << result, transaction >>
    BY <1>2 DEF RunRejected, RunInv, Common, ChannelInv
  <2>2. Atomic!Reject
    BY <2>1 DEF Atomic!Reject
  <2> QED
    BY <2>2 DEF Atomic!AtomicNext
<1>3. CASE RunStarts
  <2>1. /\ scope = "start" /\ scope' = "calling" /\ transaction = "none" /\ transaction' = "active"
        /\ result = "None" /\ result' = result
    BY <1>3 DEF RunStarts, RunInv, Common, ChannelInv
  <2>2. Atomic!Open
    BY <2>1 DEF Atomic!Open
  <2> QED
    BY <2>2 DEF Atomic!AtomicNext
<1>4. CASE Resume
  BY <1>4, ResumeIsAtomic DEF Atomic!AtomicNext
<1>5. CASE Cancel
  <2>1. scope = "awaiting" /\ scope' = "cancelled" /\ UNCHANGED << result, transaction >>
    BY <1>5 DEF Cancel
  <2>2. transaction # "none"
    BY <2>1 DEF RunInv, WakeInv, Common, ChannelInv
  <2>3. Atomic!Abandon
    BY <2>1, <2>2 DEF Atomic!Abandon
  <2> QED
    BY <2>3 DEF Atomic!AtomicNext
<1>6. CASE Deliver \/ BrowserAborts
  BY <1>6, BrowserIsAtomic
<1>7. CASE AutoCommit
  <2>1. transaction = "inactive" /\ transaction' = "committed" /\ UNCHANGED << scope, result >>
    BY <1>7 DEF AutoCommit, Disciplined, NoCommitFailure
  <2>2. RunInv'
    BY RunStep
  <2>3. result' = "Ok"
    BY <2>1, <2>2 DEF RunInv, Common, CommitInv, Decided, Disciplined
  <2>4. Atomic!Commit
    BY <2>1, <2>3 DEF Atomic!Commit
  <2> QED
    BY <2>4 DEF Atomic!AtomicNext
<1>8. CASE UNCHANGED vars
  BY <1>8 DEF vars, Atomic!atomicVars
<1> QED
  BY <1>1, <1>2, <1>3, <1>4, <1>5, <1>6, <1>7, <1>8 DEF Next, Ended

(* A disciplined run does nothing that AtomicRun does not do: it decides    *)
(* once, commits after an Ok and only then, aborts in the step that decides *)
(* otherwise, whoever decides, and reports what was decided.  (That it gets *)
(* there in the end is the fairness of AtomicRun, left to the runs.)        *)
THEOREM RunIsAtomic ==
  ASSUME Disciplined
  PROVE  Spec => Atomic!AtomicInit /\ [][Atomic!AtomicNext]_(Atomic!atomicVars)
<1>1. RunInv /\ [Next]_vars => RunInv'
  BY RunStep
<1>2. RunInv /\ [Next]_vars => [Atomic!AtomicNext]_(Atomic!atomicVars)
  BY StepIsAtomic
<1> QED
  BY <1>1, <1>2, RunInitially, StartsAtomically, PTL DEF Spec
============================================================================
