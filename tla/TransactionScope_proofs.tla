------------------------ MODULE TransactionScope_proofs ------------------------
(***************************************************************************)
(* What the scope of `run` guarantees, each under the one restriction that  *)
(* it needs: the callback is not polled once the scope has ended, the scope *)
(* never aborts the process, and a failure that `run` reports has aborted   *)
(* the transaction.                                                         *)
(***************************************************************************)
EXTENDS TransactionRunner_proofs

USE DEF Reqs, Statuses, Registered, Answers, Outcomes, runVars, stateVars, browserVars

NotCancelled == "cancel" \notin Usage
NotStashed   == "stash" \notin Usage
NotDropped   == "drop" \notin Usage

CanStillRun == future \in {"running", "suspended"}

----------------------------------------------------------------------------
(* The channel stays armed as long as the callback can still run.           *)

ChannelInv ==
  /\ scope = "start" => transaction = "none" /\ result = "None"
  /\ transaction = "none" => future = "unmade" /\ \A r \in Reqs : requests[r] = "none"
  /\ future = "unmade" \/ CanStillRun => finished = "armed"

LEMMA ChannelInitially == Init => ChannelInv
  BY DEF Init, ChannelInv, CanStillRun

(* Who has a transaction has left the start behind.                         *)
LEMMA ChannelStep ==
  ASSUME CountInv, ChannelInv, [Next]_vars
  PROVE  ChannelInv'
<1> USE DEF ChannelInv, CanStillRun
<1>1. CASE Issue \/ \E r \in Reqs : AddRequest(r) \/ TakeAnswer(r) \/ DropRequest(r)
  BY <1>1 DEF Issue, AddRequest, TakeAnswer, DropRequest
<1>2. CASE IssueInactive \/ CallbackPanics \/ \E r \in Reqs : TakeOddAnswer(r)
  BY <1>2 DEF IssueInactive, CallbackPanics, TakeOddAnswer, ControlReturns,
              PollPanics, PanicUnwinds, PanicTraps
<1>3. CASE Suspend
  BY <1>3 DEF Suspend, ScopeWaits, Misused, ControlReturns
<1>4. ASSUME NEW v \in {"Ok", "Err"}, Return(v) PROVE ChannelInv'
  BY <1>4 DEF Return, AfterReturn, ControlReturns
<1>5. CASE Deliver
  <2>1. transaction # "none" /\ transaction' # "none"
    BY <1>5, MaxReqsAssumption
    DEF Deliver, FireUnhandled, FireHandled, FireStale, DuringEvent, CountInv, TypeButCounter
  <2>2. /\ UNCHANGED << scope, finished >>
        /\ future' = future \/ (future = "suspended" /\ future' = "running")
    BY <1>5 DEF Deliver, FireUnhandled, FireHandled, FireStale
  <2> QED
    BY <2>1, <2>2
<1>6. CASE AutoCommit \/ BrowserAborts \/ RunRejected \/ Resume \/ Cancel
  BY <1>6 DEF AutoCommit, BrowserAborts, RunRejected, Resume, Cancel, KeptAlive
<1>7. CASE RunStarts
  BY <1>7 DEF RunStarts
<1>8. CASE UNCHANGED vars
  BY <1>8 DEF vars
<1> QED
  BY <1>1, <1>2, <1>3, <1>4, <1>5, <1>6, <1>7, <1>8 DEF Next, Callback, Ended

Ground == CountInv /\ ChannelInv

LEMMA GroundInvariant == Spec => []Ground
<1>1. Ground /\ [Next]_vars => Ground'
  BY ChannelStep, TypeStep, IssuedStep, CountStep DEF Ground, CountInv
<1> QED
  BY <1>1, CountInitially, ChannelInitially, PTL DEF Spec, Ground

----------------------------------------------------------------------------
(* No poll after the scope.                                                 *)

ScopeLasts == CanStillRun => scope \in {"calling", "awaiting"}

(* `run` resumes only on the channel, which is armed while the callback can *)
(* still run; nothing else ends the scope before.                           *)
LEMMA ScopeLastsStep ==
  ASSUME NotCancelled, Ground, ScopeLasts, [Next]_vars
  PROVE  ScopeLasts'
<1> USE DEF ScopeLasts, CanStillRun
<1>1. CASE Issue \/ \E r \in Reqs : AddRequest(r) \/ TakeAnswer(r) \/ DropRequest(r)
  BY <1>1 DEF Issue, AddRequest, TakeAnswer, DropRequest
<1>2. CASE IssueInactive \/ CallbackPanics \/ \E r \in Reqs : TakeOddAnswer(r)
  BY <1>2 DEF IssueInactive, CallbackPanics, TakeOddAnswer,
              PollPanics, PanicUnwinds, PanicTraps
<1>3. CASE Suspend
  BY <1>3 DEF Suspend, ScopeWaits
<1>4. ASSUME NEW v \in {"Ok", "Err"}, Return(v) PROVE ScopeLasts'
  BY <1>4 DEF Return
<1>5. CASE Deliver
  BY <1>5 DEF Deliver, FireUnhandled, FireHandled, FireStale
<1>6. CASE Resume \/ RunRejected
  <2>1. ~CanStillRun /\ future' = future
    BY <1>6 DEF Resume, Resolved, RunRejected, Ground, ChannelInv
  <2> QED
    BY <2>1
<1>7. CASE AutoCommit \/ BrowserAborts \/ RunStarts
  BY <1>7 DEF AutoCommit, BrowserAborts, RunStarts
<1>8. CASE UNCHANGED vars
  BY <1>8 DEF vars
<1> QED
  BY <1>1, <1>2, <1>3, <1>4, <1>5, <1>6, <1>7, <1>8
  DEF Next, Callback, Ended, Cancel, NotCancelled

(* If the future of `run` is not dropped, the callback whose lifetime was   *)
(* extended is never polled after the scope it borrows from has ended       *)
(* (unsafe_jar.rs:42-48).                                                   *)
THEOREM PolledWithinScope ==
  ASSUME NotCancelled
  PROVE  Spec => []NoPollAfterScope
<1>1. Init => ScopeLasts
  BY DEF Init, ScopeLasts, CanStillRun
<1>2. Ground /\ ScopeLasts /\ [Next]_vars => ScopeLasts'
  BY ScopeLastsStep
<1>3. ScopeLasts => NoPollAfterScope
  BY DEF ScopeLasts, CanStillRun, NoPollAfterScope
<1> QED
  BY <1>1, <1>2, <1>3, GroundInvariant, PTL DEF Spec

----------------------------------------------------------------------------
(* The process is never aborted.                                            *)

(* When `run` can resume, no request of the callback is registered.         *)
NobodyLeft == finished # "armed" => Has(Registered) = {}

JarInv == NobodyLeft /\ JarNeverAborts

LEMMA DroppedNotRegistered == \A s \in Statuses : AfterDrop(s) \notin Registered
  BY DEF AfterDrop

LEMMA AllDroppedNotRegistered ==
  ASSUME TypeButCounter, requests' = AllDropped
  PROVE  Has(Registered)' = {}
  BY DroppedNotRegistered DEF TypeButCounter, AllDropped, DroppedBut, Has

(* Without a stash, a panic that unwinds takes every future with it.        *)
LEMMA PanicLeavesNobody ==
  ASSUME NotStashed, PollPanics
  PROVE  /\ Unwind => requests' = AllDropped
         /\ ~Unwind => finished' = finished
         /\ scope' \in {scope, "panicked", "trapped"}
<1>1. Stashable = {{}}
  BY DEF NotStashed, Stashable
<1> QED
  BY <1>1 DEF PollPanics, PanicUnwinds, PanicTraps, AllDropped

LEMMA NobodyLeftStep ==
  ASSUME NotStashed, Ground, NobodyLeft, [Next]_vars
  PROVE  NobodyLeft'
<1> USE DEF NobodyLeft, Ground, CountInv
<1>1. CASE Issue \/ \E r \in Reqs : AddRequest(r) \/ TakeAnswer(r) \/ DropRequest(r)
  <2>1. finished' = "armed"
    BY <1>1 DEF Issue, AddRequest, TakeAnswer, DropRequest, ChannelInv, CanStillRun
  <2> QED
    BY <2>1
<1>2. CASE IssueInactive \/ CallbackPanics \/ \E r \in Reqs : TakeOddAnswer(r)
  <2>1. finished = "armed" /\ PollPanics
    BY <1>2 DEF IssueInactive, CallbackPanics, TakeOddAnswer, ChannelInv, CanStillRun
  <2> QED
    BY <2>1, PanicLeavesNobody, AllDroppedNotRegistered
<1>3. CASE Suspend
  <2>1. finished = "armed"
    BY <1>3 DEF Suspend, ChannelInv, CanStillRun
  <2> QED
    BY <1>3, <2>1, AllDroppedNotRegistered DEF Suspend
<1>4. ASSUME NEW v \in {"Ok", "Err"}, Return(v) PROVE NobodyLeft'
  <2>1. \A r \in Reqs : requests'[r] = AfterDrop(requests[r])
    BY <1>4 DEF Return, Stashable, DroppedBut, NotStashed
  <2> QED
    BY <2>1, DroppedNotRegistered DEF TypeButCounter, Has
<1>5. CASE Deliver
  <2>1. delivered + 1 \in Reqs /\ finished' = finished
    BY <1>5, MaxReqsAssumption DEF Deliver, TypeButCounter
  <2>2. PICK o \in Answers : \/ FireUnhandled(delivered + 1, o)
                             \/ FireHandled(delivered + 1, o)
                             \/ FireStale(delivered + 1)
    BY <1>5, OutcomeType DEF Deliver
  <2>3. FireHandled(delivered + 1, o) => delivered + 1 \in Has(Registered)
    BY <2>1 DEF FireHandled, Has
  <2> QED
    BY <2>1, <2>2, <2>3 DEF FireUnhandled, FireStale, Has
<1>6. CASE AutoCommit \/ BrowserAborts \/ RunRejected \/ RunStarts \/ Resume \/ Cancel
  BY <1>6 DEF AutoCommit, BrowserAborts, RunRejected, RunStarts, Resume, Cancel, Has
<1>7. CASE UNCHANGED vars
  BY <1>7 DEF vars, Has
<1> QED
  BY <1>1, <1>2, <1>3, <1>4, <1>5, <1>6, <1>7 DEF Next, Callback, Ended

LEMMA JarStep ==
  ASSUME NotStashed, Ground, JarInv, [Next]_vars
  PROVE  JarInv'
<1>1. NobodyLeft'
  BY NobodyLeftStep DEF JarInv
<1>2. CASE Resume
  <2>1. ~KeptAlive
    BY <1>2 DEF Resume, Resolved, KeptAlive, JarInv, NobodyLeft
  <2>2. scope' \in {"ok", "err", "panicked"}
    BY <1>2, <2>1 DEF Resume
  <2> QED
    BY <1>1, <2>2 DEF JarInv, JarNeverAborts
<1>3. CASE IssueInactive \/ CallbackPanics \/ \E r \in Reqs : TakeOddAnswer(r)
  <2>1. PollPanics
    BY <1>3 DEF IssueInactive, CallbackPanics, TakeOddAnswer
  <2> QED
    BY <1>1, <2>1, PanicLeavesNobody DEF JarInv, JarNeverAborts
<1>4. CASE ~Resume /\ ~(IssueInactive \/ CallbackPanics \/ \E r \in Reqs : TakeOddAnswer(r))
  <2>1. scope' = scope \/ scope' \in {"err", "calling", "cancelled", "awaiting"}
    BY <1>4
    DEF Next, Callback, Ended, vars, RunRejected, RunStarts, Cancel, Issue, AddRequest,
        TakeAnswer, DropRequest, Suspend, ScopeWaits, Return, Deliver, AutoCommit, BrowserAborts
  <2> QED
    BY <1>1, <2>1 DEF JarInv, JarNeverAborts
<1> QED
  BY <1>2, <1>3, <1>4

(* The strong_count check aborts the process only on a callback that moved  *)
(* a polled request's future out of itself (unsafe_jar.rs:67-79).           *)
THEOREM ProcessSurvives ==
  ASSUME NotStashed
  PROVE  Spec => []JarNeverAborts
<1>1. Init => JarInv
  BY DEF Init, JarInv, NobodyLeft, JarNeverAborts
<1>2. Ground /\ JarInv /\ [Next]_vars => JarInv'
  BY JarStep
<1>3. JarInv => JarNeverAborts
  BY DEF JarInv
<1> QED
  BY <1>1, <1>2, <1>3, GroundInvariant, PTL DEF Spec

----------------------------------------------------------------------------
(* A failure that is reported has aborted.                                  *)

AllWaitedFor == CanStillRun => \A r \in Reqs : requests[r] # "stale"

(* Why the channel of `run` is no longer armed: the callback returned, or   *)
(* it ended in a way that aborted.                                          *)
WhyResolved ==
  /\ finished = "signalled" => result \in {"Ok", "Err"}
  /\ finished = "dropped" => transaction = "aborted"
  /\ result = "Err" => transaction = "aborted"

FailInv == AllWaitedFor /\ WhyResolved /\ FailureAborts

LEMMA NobodyInFlight ==
  ASSUME Ground, AllWaitedFor, future = "running", ~KeptAlive
  PROVE  NothingInFlight
<1>1. InFlight = {}
  BY DEF InFlight, KeptAlive, Has, AllWaitedFor, CanStillRun
<1> QED
  BY <1>1, FS_EmptySet DEF Ground, CountInv, InflightExact, InFlight, NothingInFlight

(* Without a drop, the callback returns only when all its requests ended.   *)
LEMMA CallbackFail ==
  ASSUME NotDropped, Ground, FailInv, Callback
  PROVE  FailInv'
<1> USE DEF Ground, CountInv, TypeButCounter, ChannelInv, CanStillRun
<1> USE DEF FailInv, AllWaitedFor, WhyResolved, FailureAborts
<1>1. CASE Issue
  BY <1>1 DEF Issue
<1>2. CASE IssueInactive \/ CallbackPanics \/ \E r \in Reqs : TakeOddAnswer(r)
  <2>1. future = "running" /\ PollPanics
    BY <1>2 DEF IssueInactive, CallbackPanics, TakeOddAnswer
  <2> QED
    BY <2>1 DEF PollPanics, PanicUnwinds, PanicTraps, ControlReturns
<1>3. ASSUME NEW r \in Reqs, AddRequest(r) \/ TakeAnswer(r) PROVE FailInv'
  BY <1>3 DEF AddRequest, TakeAnswer
<1>4. ASSUME NEW r \in Reqs, DropRequest(r) PROVE FALSE
  BY <1>4 DEF DropRequest, NotDropped
<1>5. CASE Suspend
  <2>1. /\ future = "running" /\ finished = "armed"
        /\ result' \in {result, "Forbidden"} /\ scope' \in {scope, "awaiting"}
        /\ transaction = "aborted" => transaction' = "aborted"
    BY <1>5 DEF Suspend, ScopeWaits, Misused, ControlReturns
  <2>2. CASE KeptAlive
    <3>1. UNCHANGED << finished, requests >>
      BY <1>5, <2>2 DEF Suspend
    <3> QED
      BY <1>5, <2>1, <3>1 DEF Suspend, Misused, ControlReturns
  <2>3. CASE ~KeptAlive
    <3>1. future' = "dropped" /\ finished' = "dropped" /\ transaction' = "aborted"
      BY <1>5, <2>1, <2>3, NobodyInFlight DEF Suspend, Misused
    <3> QED
      BY <2>1, <3>1
  <2> QED
    BY <2>2, <2>3
<1>6. ASSUME NEW v \in {"Ok", "Err"}, Return(v) PROVE FailInv'
  BY <1>6 DEF Return, Signalled, AfterReturn, ControlReturns
<1> QED
  BY <1>1, <1>2, <1>3, <1>4, <1>5, <1>6 DEF Callback

LEMMA ResumeFail ==
  ASSUME Ground, FailInv, Resume
  PROVE  FailInv'
<1>1. UNCHANGED << result, finished, stateVars, browserVars >>
  BY DEF Resume
<1>2. CASE KeptAlive
  <2>1. scope' = "processAborted"
    BY <1>2 DEF Resume
  <2> QED
    BY <1>1, <2>1 DEF FailInv, AllWaitedFor, CanStillRun, WhyResolved, FailureAborts
<1>3. CASE ~KeptAlive /\ result = "Ok"
  <2>1. scope' = "ok"
    BY <1>3 DEF Resume
  <2> QED
    BY <1>1, <2>1 DEF FailInv, AllWaitedFor, CanStillRun, WhyResolved, FailureAborts
<1>4. CASE result # "Ok"
  <2>1. finished \in {"signalled", "dropped"}
    BY DEF Resume, Resolved, Ground, CountInv, TypeButCounter
  <2>2. transaction = "aborted"
    BY <1>4, <2>1 DEF FailInv, WhyResolved
  <2> QED
    BY <1>1, <2>2 DEF FailInv, AllWaitedFor, CanStillRun, WhyResolved, FailureAborts
<1> QED
  BY <1>2, <1>3, <1>4

LEMMA FailStep ==
  ASSUME NotDropped, Ground, FailInv, [Next]_vars
  PROVE  FailInv'
<1> USE DEF Ground, ChannelInv, CanStillRun
<1> USE DEF FailInv, AllWaitedFor, WhyResolved, FailureAborts
<1>1. CASE Callback
  BY <1>1, CallbackFail
<1>2. CASE Resume
  BY <1>2, ResumeFail
<1>3. CASE Deliver
  <2>1. PICK o \in Answers : \/ FireUnhandled(delivered + 1, o)
                             \/ FireHandled(delivered + 1, o)
                             \/ FireStale(delivered + 1)
    BY <1>3, OutcomeType DEF Deliver
  <2>2. UNCHANGED runVars
    BY <1>3 DEF Deliver
  <2>3. transaction = "aborted" => transaction' = "aborted"
    BY <2>1 DEF FireUnhandled, FireHandled, FireStale, DuringEvent
  <2>4. AllWaitedFor'
    BY <2>1 DEF FireUnhandled, FireHandled, FireStale, Stored, CountInv, TypeButCounter
  <2>5. transaction # "none"
    BY <1>3, MaxReqsAssumption
    DEF Deliver, FireUnhandled, FireHandled, FireStale, CountInv, TypeButCounter
  <2> QED
    BY <2>2, <2>3, <2>4, <2>5
<1>4. CASE AutoCommit \/ BrowserAborts
  BY <1>4 DEF AutoCommit, BrowserAborts
<1>5. CASE RunRejected \/ RunStarts \/ Cancel
  BY <1>5 DEF RunRejected, RunStarts, Cancel
<1>6. CASE UNCHANGED vars
  BY <1>6 DEF vars
<1> QED
  BY <1>1, <1>2, <1>3, <1>4, <1>5, <1>6 DEF Next, Ended

(* If no request's future is dropped before its answer is taken, the        *)
(* transaction is aborted at the moment `run` reports an error or panics    *)
(* (transaction.rs:91-92, runner.rs:48-51 and 115-120).                     *)
THEOREM ReportedFailureAborted ==
  ASSUME NotDropped
  PROVE  Spec => []FailureAborts
<1>1. Init => FailInv
  BY DEF Init, FailInv, AllWaitedFor, WhyResolved, FailureAborts, CanStillRun
<1>2. Ground /\ FailInv /\ [Next]_vars => FailInv'
  BY FailStep
<1>3. FailInv => FailureAborts
  BY DEF FailInv
<1> QED
  BY <1>1, <1>2, <1>3, GroundInvariant, PTL DEF Spec
============================================================================
