------------------------- MODULE TransactionRunner -------------------------
(***************************************************************************)
(* One transaction of the indexed-db crate: `TransactionBuilder::run`       *)
(* (src/transaction.rs), the poll loop that drives the user's callback      *)
(* (src/transaction/runner.rs) and the scope that bounds its lifetime       *)
(* (src/transaction/unsafe_jar.rs), together with the browser's IndexedDB   *)
(* transaction as the crate uses it.                                        *)
(*                                                                          *)
(* Three actors take steps: the callback's future, while some poll of it is *)
(* on the stack; the browser, which answers requests in the order they were *)
(* sent and commits a transaction that has none left; and the task that     *)
(* awaits `run`.                                                            *)
(***************************************************************************)
EXTENDS Naturals, FiniteSets

CONSTANTS
  MaxReqs,   \* bound: how many requests the callback may send
  Usage,     \* what callback and caller do beyond the documented discipline
  Faults,    \* what the browser may do besides answering with success
  Unwind     \* TRUE: a panic unwinds; FALSE: it traps (panic=abort, wasm today)

ASSUME MaxReqsAssumption == MaxReqs \in Nat

ASSUME UsageAssumption ==
  Usage \subseteq {
    "reorder",    \* await a request after one that was sent later
    "hold",       \* await again without polling a request that has an answer
    "drop",       \* drop the future of a request before its answer is taken
    "stash",      \* let the future of a polled request outlive the callback
    "external",   \* await something that is not a request
    "panic",      \* panic
    "cancel" }    \* drop the future of `run` itself

ASSUME FaultsAssumption ==
  Faults \subseteq {
    "constraint", \* a request fails with an error the crate has a name for
    "unknown",    \* a request fails with an error the crate panics on
    "abort",      \* the browser aborts the transaction while requests wait
    "commit" }    \* the commit itself fails

ASSUME UnwindAssumption == Unwind \in BOOLEAN

Reqs == 1 .. MaxReqs    \* the requests, numbered in the order they are sent

VARIABLES
  scope,             \* the future of `run`, as its caller sees it
  future,            \* RunnableTransaction::future
  result,            \* the RefCell<Option<TransactionResult>> of `run`
  finished,          \* the oneshot channel from poll_it to `run`
  inflight_requests, \* RunnableTransaction::inflight_requests
  requests,          \* the future of each request
  transaction,       \* the browser's IDBTransaction
  issued,            \* requests sent to the browser so far
  delivered          \* requests whose event the browser has fired so far

runVars     == << scope, result, finished >>
stateVars   == << future, inflight_requests, requests >>
browserVars == << transaction, issued, delivered >>
vars        == << runVars, stateVars, browserVars >>

(* A request is "unpolled" when the JS request exists but its Rust future    *)
(* was never polled, "awaited" once add_request installed its handlers, "Ok",   *)
(* "Err" or "Odd" (an error the crate panics on) once a handler stored the  *)
(* event, and "taken" after FakeFuture returned it.  A future dropped       *)
(* before its first poll is "forgotten", one dropped in flight is "stale":  *)
(* its closures are gone but the browser still refers to them.              *)
Answers   == {"Ok", "Err", "Odd"}
Registered == {"awaited"} \cup Answers
Statuses  == {"none", "unpolled", "taken", "forgotten", "stale"} \cup Registered

Outcomes == {"ok", "err", "panicked", "trapped", "cancelled", "processAborted"}

TypeOK ==
  /\ scope \in {"start", "calling", "awaiting"} \cup Outcomes
  /\ future \in {"unmade", "running", "suspended", "done", "panicked", "dropped"}
  /\ result \in {"None", "Forbidden", "Ok", "Err"}
  /\ finished \in {"armed", "signalled", "dropped"}
  /\ inflight_requests \in Nat
  /\ requests \in [Reqs -> Statuses]
  /\ transaction \in {"none", "active", "inactive", "committed", "aborted"}
  /\ issued \in 0 .. MaxReqs
  /\ delivered \in 0 .. issued

Init ==
  /\ scope = "start"
  /\ future = "unmade"
  /\ result = "None"
  /\ finished = "armed"
  /\ inflight_requests = 0
  /\ requests = [r \in Reqs |-> "none"]
  /\ transaction = "none"
  /\ issued = 0
  /\ delivered = 0

----------------------------------------------------------------------------
(* Helpers.                                                                 *)

Has(status) == {r \in Reqs : requests[r] \in status}

(* Mutant: something else owns the RunnableTransaction as well.             *)
Leaked == TRUE

(* The two closures of a registered request own an Rc of the                *)
(* RunnableTransaction, and its future owns them: the cycle keeps the state *)
(* alive until the request's future is polled to its end or dropped.        *)
KeptAlive == Has(Registered) # {}

AfterDrop(status) ==
  CASE status = "unpolled" -> "forgotten"
    [] status = "awaited"  -> "stale"
    [] status \in Answers  -> "taken"
    [] OTHER               -> status

DroppedBut(kept) ==
  [r \in Reqs |-> IF r \in kept THEN requests[r] ELSE AfterDrop(requests[r])]

AllDropped == DroppedBut({})

(* Sets of polled futures that the callback may have moved out of itself.   *)
Stashable == IF "stash" \in Usage THEN SUBSET Has(Registered) ELSE {{}}

(* The browser deactivates the transaction when control returns to it.      *)
ControlReturns == IF transaction = "active" THEN "inactive" ELSE transaction

(* Nothing of the crate is on the stack.  The first poll runs inside the    *)
(* caller's own poll of `run`, which ends only when `run` has to wait.      *)
Idle == future # "running" /\ scope # "calling"

(* The first poll leaves the channel unresolved: `run` awaits finished_rx.  *)
ScopeWaits == IF scope = "calling" THEN "awaiting" ELSE scope

----------------------------------------------------------------------------
(* TransactionBuilder::run.                                                 *)

(* The browser refuses to open the transaction: `run` returns the error.    *)
RunRejected ==
  /\ scope = "start"
  /\ scope' = "err"
  /\ UNCHANGED << result, finished, stateVars, browserVars >>

(* The transaction opens and ScopeCallback::run polls the callback at once. *)
RunStarts ==
  /\ scope = "start"
  /\ scope' = "calling"
  /\ future' = "running"
  /\ transaction' = "active"
  /\ UNCHANGED << result, finished, inflight_requests, requests, issued, delivered >>

(* Mutant: `run` does not wait for finished_rx.                             *)
ResolvedEarly == TRUE

Resolved == finished # "armed"

(* `run` wakes up on the channel, takes the result and leaves the scope,    *)
(* where a RunnableTransaction that is still alive aborts the process.      *)
Resume ==
  /\ scope \in {"calling", "awaiting"}
  /\ future # "running"
  /\ Resolved
  /\ scope' = CASE KeptAlive                     -> "processAborted"
                [] ~KeptAlive /\ result = "Ok"   -> "ok"
                [] ~KeptAlive /\ result = "Err"  -> "err"
                [] OTHER                         -> "panicked"
  /\ UNCHANGED << result, finished, stateVars, browserVars >>

(* The caller drops the future of `run` (a timeout, a select) while waiting.*)
Cancel ==
  /\ "cancel" \in Usage
  /\ scope = "awaiting"
  /\ future # "running"
  /\ scope' = "cancelled"
  /\ UNCHANGED << result, finished, stateVars, browserVars >>

----------------------------------------------------------------------------
(* The callback, while poll_it polls it.                                    *)

(* Unwinding drops the frames of the callback, and poll_it aborts.  Futures *)
(* that were moved out survive, their closures keep the state, and the      *)
(* sender with it: the scope aborts the process, or `run` is never told.    *)
PanicUnwinds ==
  /\ transaction' = "aborted"
  /\ \E kept \in Stashable :
       /\ requests' = DroppedBut(kept)
       /\ IF kept = {}
          THEN /\ future' = "dropped" /\ finished' = "dropped"
               /\ scope' = IF scope = "calling" THEN "panicked" ELSE scope
          ELSE /\ future' = "panicked" /\ finished' = finished
               /\ scope' = IF scope = "calling" THEN "processAborted" ELSE scope

(* A trap leaves everything where it is and surfaces as an exception: out   *)
(* of an event handler the browser aborts the transaction, out of the       *)
(* caller's own task it does not.                                           *)
PanicTraps ==
  /\ future' = "panicked"
  /\ transaction' = IF scope = "calling" THEN ControlReturns ELSE "aborted"
  /\ scope' = IF scope = "calling" THEN "trapped" ELSE scope
  /\ UNCHANGED << finished, requests >>

PollPanics ==
  /\ IF Unwind THEN PanicUnwinds ELSE PanicTraps
  /\ UNCHANGED << result, inflight_requests, issued, delivered >>

(* A method of ObjectStore or Index sends its request to the browser when   *)
(* it is called, not when its future is polled.                             *)
Issue ==
  /\ future = "running"
  /\ transaction = "active"
  /\ issued < MaxReqs
  /\ issued' = issued + 1
  /\ requests' = [requests EXCEPT ![issued + 1] = "unpolled"]
  /\ UNCHANGED << runVars, future, inflight_requests, transaction, delivered >>

(* On a transaction that is over the browser throws                         *)
(* TransactionInactiveError, on which every map_*_err panics.               *)
IssueInactive ==
  /\ future = "running"
  /\ transaction # "active"
  /\ issued < MaxReqs
  /\ PollPanics

(* Mutant: the request is not counted.                                      *)
Uncounted == inflight_requests

Counted == inflight_requests + 1

(* The first poll of a request's future: add_request counts the request and *)
(* installs its handlers.                                                   *)
AddRequest(r) ==
  /\ future = "running"
  /\ requests[r] = "unpolled"
  /\ "reorder" \in Usage \/ \A s \in Reqs : s < r => requests[s] # "unpolled"
  /\ inflight_requests' = Counted
  /\ requests' = [requests EXCEPT ![r] = "awaited"]
  /\ UNCHANGED << runVars, future, browserVars >>

(* FakeFuture finds the event in its slot, and the request's future ends.   *)
TakeAnswer(r) ==
  /\ future = "running"
  /\ requests[r] \in {"Ok", "Err"}
  /\ requests' = [requests EXCEPT ![r] = "taken"]
  /\ UNCHANGED << runVars, future, inflight_requests, browserVars >>

(* The same, for an error that from_dom_exception has no variant for.       *)
TakeOddAnswer(r) ==
  /\ future = "running"
  /\ requests[r] = "Odd"
  /\ PollPanics

DropRequest(r) ==
  /\ "drop" \in Usage
  /\ future = "running"
  /\ requests[r] \in {"unpolled"} \cup Registered
  /\ requests' = [requests EXCEPT ![r] = AfterDrop(@)]
  /\ UNCHANGED << runVars, future, inflight_requests, browserVars >>

(* After a cancellation `result` refers to memory that was freed, so the    *)
(* assertion on its old content may fail for no fault of the callback.      *)
CallbackPanics ==
  /\ future = "running"
  /\ "panic" \in Usage \/ scope = "cancelled"
  /\ PollPanics

(* Mutant: off by one.                                                      *)
AlmostNothingInFlight == inflight_requests <= 1

(* The test of poll_it on a pending callback.                               *)
NothingInFlight == inflight_requests = 0

(* Mutant: the misuse is recorded but nothing aborts.                       *)
MisuseIgnored == ControlReturns

Misused == "aborted"

(* The callback awaits again.  With no request in flight poll_it aborts and *)
(* records the misuse.  The poll over, the RunnableTransaction lives on only*)
(* if the closures of some request still own it; otherwise it is dropped,   *)
(* and the sender of the channel with it.                                   *)
Suspend ==
  /\ future = "running"
  /\ "external" \in Usage \/ Has({"awaited"}) # {}
  /\ "hold" \in Usage \/ Has(Answers) = {}
  /\ IF NothingInFlight
     THEN transaction' = Misused /\ result' = "Forbidden"
     ELSE transaction' = ControlReturns /\ result' = result
  /\ IF KeptAlive
     THEN /\ future' = "suspended"
          /\ scope' = ScopeWaits
          /\ UNCHANGED << finished, requests >>
     ELSE /\ future' = "dropped"
          /\ finished' = "dropped"
          /\ requests' = AllDropped
          /\ scope' = scope
  /\ UNCHANGED << inflight_requests, issued, delivered >>

(* Mutants: an Err does not abort; an Ok does; `run` is not told.           *)
ErrNotAborted(v) == IF scope = "cancelled" THEN "aborted" ELSE ControlReturns
OkAborted(v) == IF v = "Ok" \/ scope = "cancelled" THEN "aborted" ELSE ControlReturns
NotSignalled == finished

(* An Err aborts, and so does a signal that nobody receives any more.       *)
AfterReturn(v) == IF v = "Err" \/ scope = "cancelled" THEN "aborted" ELSE ControlReturns

Signalled == "signalled"

(* The callback returns v.  The request futures it still owned are dropped, *)
(* save those that were moved out of it.                                    *)
Return(v) ==
  /\ future = "running"
  /\ \E kept \in Stashable :
       /\ "drop" \in Usage \/ Has({"unpolled"} \cup Registered) \subseteq kept
       /\ requests' = DroppedBut(kept)
  /\ future' = "done"
  /\ result' = v
  /\ finished' = Signalled
  /\ transaction' = AfterReturn(v)
  /\ UNCHANGED << scope, inflight_requests, issued, delivered >>

Callback ==
  \/ Issue
  \/ IssueInactive
  \/ \E r \in Reqs : AddRequest(r) \/ TakeAnswer(r) \/ TakeOddAnswer(r) \/ DropRequest(r)
  \/ CallbackPanics
  \/ Suspend
  \/ \E v \in {"Ok", "Err"} : Return(v)

----------------------------------------------------------------------------
(* The browser.                                                             *)

(* Requests of a transaction that was aborted fail with AbortError.         *)
Outcome ==
  IF transaction = "aborted" THEN {"Odd"}
  ELSE {"Ok"} \cup (IF "constraint" \in Faults THEN {"Err"} ELSE {})
              \cup (IF "unknown" \in Faults THEN {"Odd"} ELSE {})

(* The event of a request without handlers.  Nobody prevents the default    *)
(* action of an error: the transaction aborts.                              *)
FireUnhandled(r, o) ==
  /\ requests[r] \in {"unpolled", "forgotten"}
  /\ transaction' = IF o = "Ok" THEN transaction ELSE "aborted"
  /\ UNCHANGED stateVars

(* Mutants: on_error does not uncount; it does not store the event; it does *)
(* not prevent the default action; the poll is put off until after the event*)
ErrNotUncounted(o) == IF o = "Ok" THEN inflight_requests - 1 ELSE inflight_requests
ErrNotStored(r, o) == IF o = "Ok" THEN o ELSE requests[r]
ErrNotPrevented(o) == IF o = "Ok" /\ transaction # "aborted" THEN "active" ELSE "aborted"
PolledLater(o)     == transaction

Uncount(o)     == inflight_requests - 1
Stored(r, o)   == o
DuringEvent(o) == IF transaction = "aborted" THEN "aborted" ELSE "active"

(* on_success or on_error: uncount the request, store the event, poll.  A   *)
(* future that is done or was left half-way by a trap cannot be polled: the *)
(* handler throws and the browser aborts the transaction.                   *)
FireHandled(r, o) ==
  /\ requests[r] = "awaited"
  /\ inflight_requests' = Uncount(o)
  /\ requests' = [requests EXCEPT ![r] = Stored(r, o)]
  /\ IF future = "suspended"
     THEN future' = "running" /\ transaction' = DuringEvent(o)
     ELSE future' = future /\ transaction' = "aborted"

(* The closure was dropped: wasm-bindgen throws out of the event handler.   *)
FireStale(r) ==
  /\ requests[r] = "stale"
  /\ transaction' = "aborted"
  /\ UNCHANGED stateVars

Deliver ==
  /\ Idle
  /\ delivered < issued
  /\ delivered' = delivered + 1
  /\ \E o \in Outcome : \/ FireUnhandled(delivered + 1, o)
                        \/ FireHandled(delivered + 1, o)
                        \/ FireStale(delivered + 1)
  /\ UNCHANGED << runVars, issued >>

(* A transaction that waits for nothing commits.                            *)
AutoCommit ==
  /\ Idle
  /\ transaction = "inactive"
  /\ delivered = issued
  /\ transaction' \in {"committed"} \cup (IF "commit" \in Faults THEN {"aborted"} ELSE {})
  /\ UNCHANGED << runVars, stateVars, issued, delivered >>

BrowserAborts ==
  /\ "abort" \in Faults
  /\ Idle
  /\ transaction = "inactive"
  /\ delivered < issued
  /\ transaction' = "aborted"
  /\ UNCHANGED << runVars, stateVars, issued, delivered >>

----------------------------------------------------------------------------
(* Everything has ended: `run` gave its outcome, or a panic means that it   *)
(* never will, and the browser is done with the transaction.                *)
Ended ==
  /\ scope \in Outcomes \/ future = "panicked"
  /\ transaction \in {"none", "committed", "aborted"}
  /\ delivered = issued
  /\ UNCHANGED vars

Next ==
  \/ RunRejected \/ RunStarts \/ Resume \/ Cancel
  \/ Callback
  \/ Deliver \/ AutoCommit \/ BrowserAborts
  \/ Ended

(* A poll returns; the event loop fires every queued event, commits, and    *)
(* runs every task that was woken.                                          *)
Fairness ==
  /\ WF_vars(Callback)
  /\ WF_vars(Deliver)
  /\ WF_vars(AutoCommit)
  /\ WF_vars(Resume)

Spec == Init /\ [][Next]_vars /\ Fairness

----------------------------------------------------------------------------
(* Properties.  Each names the Usage and Faults under which it holds; the   *)
(* runs and the README say what happens beyond them.                        *)

(* A request counts from add_request until one of its handlers runs, and    *)
(* for ever if its future was dropped in between: the counter that decides  *)
(* whether the callback awaited a forbidden thing is never off and never    *)
(* underflows (runner.rs:145-158).  Any usage, any fault.                   *)
InflightExact == inflight_requests = Cardinality(Has({"awaited", "stale"}))

(* No poll finds an outcome already recorded or signalled, so neither       *)
(* "Transaction completed multiple times" (runner.rs:52) nor "Transaction   *)
(* finished multiple times" (runner.rs:129) can fire.  Any usage, any fault.*)
SettlesOnce == future = "running" => result = "None" /\ finished = "armed"

(* A transaction commits only if its callback returned Ok: whatever else    *)
(* happens, the crate turns auto-commit into abort (README.md:3).  Any      *)
(* fault; any usage but "reorder", and "panic" only if panics unwind.       *)
CommitOnlyIfOk == transaction = "committed" => result = "Ok"

(* The event of a request that has handlers installed is still to come:     *)
(* awaiting it cannot wait for ever (runner.rs:174-175).  Any fault; any    *)
(* usage but "reorder".                                                     *)
NoLostEvent == \A r \in Reqs : requests[r] = "awaited" => delivered < r

(* Whenever the callback runs, the browser accepts requests: the poll       *)
(* happens inside the event handler, not after it (runner.rs:157).  For a   *)
(* browser that does not abort, and futures that are not dropped or         *)
(* reordered.                                                               *)
AcceptsRequests == future = "running" => transaction = "active"

(* When `run` reports an error or panics, the transaction is aborted at     *)
(* that very moment (transaction.rs:91-92).  Any fault; any usage but       *)
(* "drop", after which the abort may come only with a later event.          *)
FailureAborts ==
  scope \in {"err", "panicked"} /\ transaction # "none" => transaction = "aborted"

(* What a callback sent before it panicked is not committed (README.md:72), *)
(* also where the panic traps in the first poll, in the caller's own task.  *)
PanicAborts == scope = "trapped" /\ transaction = "committed" => issued = 0

(* When `run` reports Ok, the transaction is committed or about to be       *)
(* (transaction.rs:91).  Any usage but "drop"; any fault but "commit".      *)
OkIsHonoured == scope = "ok" => transaction \in {"inactive", "committed"}

(* The callback's future, whose lifetime unsafe_jar extended, is not polled *)
(* once the scope that owns its data has ended (unsafe_jar.rs:42-48).  Any  *)
(* fault; any usage but "cancel".                                           *)
NoPollAfterScope == future = "running" => scope \in {"calling", "awaiting"}

(* The strong_count check that aborts the process never hits                *)
(* (unsafe_jar.rs:70-74).  Any fault; any usage but "stash".                *)
JarNeverAborts == scope # "processAborted"

(* While `run` waits, something is still to happen that wakes it: the        *)
(* callback is being polled, or it waits for a request whose event the      *)
(* browser has yet to fire, and otherwise its state is gone and with it the *)
(* sender of the channel (runner.rs:112-121, 145-158).  Beyond that lie a   *)
(* panic that traps, or past which a future of the callback lives on, and a *)
(* callback that sits on an answer.  Any fault; any usage but "reorder".    *)
RunCanWake ==
  scope = "awaiting" /\ finished = "armed" /\ Has(Answers) = {} =>
    \/ future \in {"running", "panicked"}
    \/ future = "suspended" /\ \E r \in Has({"awaited"}) : delivered < r /\ r <= issued

(* `run` always gives an outcome.                                           *)
RunSettles == (scope = "calling") ~> (scope \in Outcomes)

(* After an Ok the commit does happen.                                      *)
OkCommits == (scope = "ok") ~> (transaction = "committed")

(* Awaiting something that is not a request aborts the transaction and      *)
(* panics (transaction.rs:84-87).                                           *)
MisuseIsReported == (result = "Forbidden") ~> (scope = "panicked")

(* Seen from the caller and from the database, a run is atomic: an abort is *)
(* a decision, whoever aborts.                                              *)
Atomic == INSTANCE AtomicRun WITH
  decision <- CASE result = "Err" -> "Err"
                [] result # "Err" /\ transaction = "aborted" -> "failed"
                [] result = "Ok" /\ transaction # "aborted" -> "Ok"
                [] OTHER -> "none",
  store    <- IF transaction \in {"active", "inactive"} THEN "open" ELSE transaction,
  answer   <- IF scope \in {"start", "calling", "awaiting"} THEN "none" ELSE scope

RefinesAtomicRun == Atomic!AtomicSpec
============================================================================
