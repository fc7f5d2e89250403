------------------------- MODULE CurrentTransaction -------------------------
(***************************************************************************)
(* Several transactions of one page, on one thread: which of them a request *)
(* is counted in and which callback its event polls.                        *)
(*                                                                          *)
(* poll_it (src/transaction/runner.rs) sets the scoped thread local CURRENT *)
(* to the transaction it polls.  The first poll of a request's future, in   *)
(* add_request, counts the request in CURRENT and gives its closures a      *)
(* reference to it.  A callback may call `run` itself, whose first poll     *)
(* polls the inner callback on top of the outer one ("nest"), and await     *)
(* there a request on an object store of another transaction ("share").     *)
(*                                                                          *)
(* What one callback can do wrong by itself is the subject of               *)
(* TransactionRunner: here each awaits what it sends as soon as it sends it *)
(* and nothing that is neither a request nor a `run`.  A panic is a trap,   *)
(* as on wasm (src/transaction/runner.rs:99): nothing that was being polled *)
(* is left as a return would leave it, and the browser goes on.             *)
(***************************************************************************)
EXTENDS Integers, Sequences, FiniteSets

CONSTANTS
  MaxTxs,    \* bound: how many transactions are opened
  MaxReqs,   \* bound: how many requests they send in all
  Usage      \* what the callbacks do that the crate does not ask for

ASSUME MaxTxsAssumption == MaxTxs \in Nat
ASSUME MaxReqsAssumption == MaxReqs \in Nat
ASSUME UsageAssumption == Usage \subseteq {"nest", "share"}

Txs  == 1 .. MaxTxs     \* the transactions, in the order they are opened
Page == 0               \* a task of the page, which is no callback
Reqs == 1 .. MaxReqs    \* the requests, in the order they are sent

VARIABLES
  stack,     \* the transactions being polled; CURRENT is the last
  future,    \* RunnableTransaction::future
  inflight_requests,
  run,       \* what the future of `run` has given to whoever awaits it
  outer,     \* who that is
  live,      \* the browser's IDBTransaction
  ahead,     \* the transactions with a common store that it has to wait for
  dispatching, \* the transaction whose event handler is running
  sent,      \* requests sent so far
  home,      \* the transaction a request was sent in
  owner      \* the transaction its closures refer to, until one of them runs

(* What the properties remember.                                            *)
VARIABLES
  shared,    \* some callback has awaited a request of another transaction
  waited     \* inner transactions whose outer callback was left waiting

pollVars    == << stack, future, inflight_requests >>
runVars     == << run, outer >>
browserVars == << live, ahead, dispatching >>
reqVars     == << sent, home, owner >>
vars        == << pollVars, runVars, browserVars, reqVars, shared, waited >>

TypeOK ==
  /\ stack \in Seq(Txs)
  /\ future \in [Txs -> {"unmade", "polled", "suspended", "done", "dropped", "trapped"}]
  /\ inflight_requests \in [Txs -> Nat]
  /\ run \in [Txs -> {"none", "awaiting", "Ok", "Err", "forbidden", "cancelled"}]
  /\ outer \in [Txs -> Txs \cup {Page}]
  /\ live \in [Txs -> {"none", "active", "inactive", "committed", "aborted"}]
  /\ ahead \in [Txs -> SUBSET Txs]
  /\ dispatching \in Txs \cup {Page}
  /\ sent \in 0 .. MaxReqs
  /\ home \in [Reqs -> Txs \cup {Page}] /\ owner \in [Reqs -> Txs \cup {Page}]
  /\ \A r \in Reqs : (r > sent => home[r] = Page) /\ (home[r] = Page => owner[r] = Page)
  /\ shared \in BOOLEAN
  /\ waited \subseteq Txs

Init ==
  /\ stack = << >>
  /\ future = [t \in Txs |-> "unmade"]
  /\ inflight_requests = [t \in Txs |-> 0]
  /\ run = [t \in Txs |-> "none"]
  /\ outer = [t \in Txs |-> Page]
  /\ live = [t \in Txs |-> "none"]
  /\ ahead = [t \in Txs |-> {}]
  /\ dispatching = Page
  /\ sent = 0
  /\ home = [r \in Reqs |-> Page] /\ owner = [r \in Reqs |-> Page]
  /\ shared = FALSE
  /\ waited = {}

----------------------------------------------------------------------------
Polling == stack # << >>
Top == stack[Len(stack)]

(* Mutant: CURRENT.set does not override the value of an enclosing poll.    *)
Outermost == stack[1]

CURRENT == Top

Push(t) == stack' = Append(stack, t)
Pop == stack' = SubSeq(stack, 1, Len(stack) - 1)

OnStack == {stack[i] : i \in 1 .. Len(stack)}
Open == {t \in Txs : live[t] \in {"active", "inactive"}}

InFlight  == {r \in Reqs : owner[r] # Page}
Awaits(t) == {r \in Reqs : owner[r] = t}
Inner(t)  == {u \in Txs : outer[u] = t /\ run[u] = "awaiting"}

(* A panic traps: no poll on the stack ends, and the future of each stays   *)
(* borrowed.  The browser aborts the transaction whose event handler has    *)
(* thrown, if that is where it happens, and no other one.                   *)
Traps(after, left) ==
  /\ stack' = << >>
  /\ future' = [t \in Txs |-> IF left[t] = "polled" THEN "trapped" ELSE left[t]]
  /\ live' = [t \in Txs |-> IF t = dispatching THEN "aborted" ELSE after[t]]

(* The end of an inner callback has trapped over the waker of this one.     *)
Broken(t) == \E u \in Inner(t) : future[u] \in {"done", "dropped"}

----------------------------------------------------------------------------
(* `run`.                                                                   *)

(* A task of the page calls it, or the callback that is being polled.       *)
Callable(t) ==
  /\ future[t] = "unmade" /\ \A u \in Txs : future[u] = "unmade" => t <= u
  /\ stack = << >> \/ "nest" \in Usage

(* The browser lets it wait for some transactions opened before, depending  *)
(* on their modes and stores.                                               *)
Run(t) ==
  /\ Callable(t)
  /\ run' = [run EXCEPT ![t] = "awaiting"]
  /\ outer' = [outer EXCEPT ![t] = IF stack = << >> THEN Page ELSE Top]
  /\ live' = [live EXCEPT ![t] = "active"]
  /\ \E before \in SUBSET Open : ahead' = [ahead EXCEPT ![t] = before]
  /\ dispatching' = IF stack = << >> THEN Page ELSE dispatching
  /\ future' = [future EXCEPT ![t] = "polled"]
  /\ Push(t)
  /\ UNCHANGED << inflight_requests, reqVars, shared, waited >>

(* The browser refuses to open it.                                          *)
RunRejected(t) ==
  /\ Callable(t)
  /\ run' = [run EXCEPT ![t] = "Err"]
  /\ future' = [future EXCEPT ![t] = "dropped"]
  /\ UNCHANGED << stack, inflight_requests, outer, browserVars, reqVars, shared, waited >>

(* Mutant: waking the outer callback does nothing.                          *)
SilentWaker(t) == FALSE

(* The waker that an outer callback left behind is panic_waker.             *)
WakePanics(t) == outer[t] # Page /\ run[t] = "awaiting" /\ future[outer[t]] # "polled"

(* The callback that is polled ends: its sender wakes whoever awaits `run`. *)
(* On a `run` that was dropped there is nobody to receive the signal.       *)
Return(v) ==
  /\ Polling
  /\ Awaits(Top) = {} /\ Inner(Top) = {}
  /\ LET left  == [future EXCEPT ![Top] = "done"]
         after == [live EXCEPT ![Top] = IF v = "Err" \/ run[Top] = "cancelled"
                                        THEN "aborted" ELSE @]
     IN IF WakePanics(Top)
        THEN Traps(after, left) /\ UNCHANGED run
        ELSE /\ Pop
             /\ future' = left
             /\ live' = after
             /\ run' = [run EXCEPT ![Top] = IF @ = "cancelled" THEN @ ELSE v]
  /\ UNCHANGED << inflight_requests, outer, ahead, dispatching, reqVars, shared, waited >>

(* Mutant: any request of the page counts.                                  *)
NothingOnPage(t) == \A u \in Txs : inflight_requests[u] = 0

NothingInFlight(t) == inflight_requests[t] = 0

(* It awaits requests, or the `run` of inner transactions.                  *)
Pending == Awaits(Top) # {} \/ Inner(Top) # {}

Suspend ==
  /\ Polling
  /\ Pending /\ ~Broken(Top)
  /\ ~NothingInFlight(Top)
  /\ future' = [future EXCEPT ![Top] = "suspended"]
  /\ waited' = waited \cup Inner(Top)
  /\ Pop
  /\ UNCHANGED << inflight_requests, runVars, browserVars, reqVars, shared >>

(* With nothing in flight poll_it aborts.  No closure keeps the transaction *)
(* alive: it is dropped, with the futures of the inner runs, and its `run`  *)
(* panics, in the outer callback if there is one; if that callback was left *)
(* waiting, then its waker does, when the sender is dropped.                *)
Forbid ==
  /\ Polling
  /\ Pending /\ ~Broken(Top)
  /\ NothingInFlight(Top)
  /\ run' = [u \in Txs |-> IF u \in Inner(Top) THEN "cancelled"
                           ELSE IF u = Top /\ run[u] # "cancelled" /\ ~WakePanics(u)
                           THEN "forbidden" ELSE run[u]]
  /\ LET left  == [future EXCEPT ![Top] = "dropped"]
         after == [live EXCEPT ![Top] = "aborted"]
     IN IF outer[Top] # Page /\ run[Top] = "awaiting" THEN Traps(after, left)
        ELSE Pop /\ future' = left /\ live' = after
  /\ UNCHANGED << inflight_requests, outer, ahead, dispatching, reqVars, shared, waited >>

(* It polls the `run` of an inner transaction whose end has trapped.  The   *)
(* signal is there, but not what a return leaves: the process aborts, or    *)
(* `run` panics.                                                            *)
PollBroken ==
  /\ Polling
  /\ Broken(Top)
  /\ Traps(live, future)
  /\ UNCHANGED << inflight_requests, runVars, ahead, dispatching, reqVars, shared, waited >>

(* A `run` that was dropped has freed what the callback's future refers to. *)
UseFreed ==
  /\ Polling
  /\ run[Top] = "cancelled"
  /\ Traps(live, future)
  /\ UNCHANGED << inflight_requests, runVars, ahead, dispatching, reqVars, shared, waited >>

----------------------------------------------------------------------------
(* Requests.                                                                *)

Sendable(h) ==
  /\ Polling
  /\ sent < MaxReqs
  /\ h = Top \/ ("share" \in Usage /\ live[h] # "none")

(* A method on a store of h, whose future is then polled: add_request.      *)
Request(h) ==
  /\ Sendable(h)
  /\ live[h] = "active"
  /\ LET r == sent + 1
     IN /\ sent' = r
        /\ home' = [home EXCEPT ![r] = h]
        /\ owner' = [owner EXCEPT ![r] = CURRENT]
  /\ inflight_requests' = [inflight_requests EXCEPT ![CURRENT] = @ + 1]
  /\ shared' = (shared \/ h # Top)
  /\ UNCHANGED << stack, future, runVars, browserVars, waited >>

(* The browser throws TransactionInactiveError, and the call panics.        *)
RequestInactive(h) ==
  /\ Sendable(h)
  /\ live[h] # "active"
  /\ Traps(live, future)
  /\ shared' = (shared \/ h # Top)
  /\ UNCHANGED << inflight_requests, runVars, ahead, dispatching, reqVars, waited >>

Callback ==
  \/ Suspend \/ Forbid \/ PollBroken \/ UseFreed
  \/ \E v \in {"Ok", "Err"} : Return(v)
  \/ \E h \in Txs : Request(h) \/ RequestInactive(h)
  \/ stack # << >> /\ \E t \in Txs : Run(t) \/ RunRejected(t)

----------------------------------------------------------------------------
(* The browser.                                                             *)

(* Control returns to the event loop.                                       *)
TaskEnds ==
  /\ stack = << >>
  /\ dispatching # Page \/ \E t \in Txs : live[t] = "active"
  /\ live' = [t \in Txs |-> IF live[t] = "active" THEN "inactive" ELSE live[t]]
  /\ dispatching' = Page
  /\ UNCHANGED << pollVars, runVars, ahead, reqVars, shared, waited >>

AtRest == stack = << >> /\ dispatching = Page /\ \A t \in Txs : live[t] # "active"

(* The requests of a transaction are answered in the order of sending, once *)
(* it has started or was aborted.                                           *)
Started(t) == ahead[t] \cap Open = {}
Due == {r \in InFlight : /\ Started(home[r]) \/ live[home[r]] = "aborted"
                         /\ \A q \in InFlight : home[q] = home[r] => r <= q}

(* Mutants: the closure takes its transaction for that of the request; it   *)
(* does not poll.                                                           *)
UncountedAtHome(r) == [inflight_requests EXCEPT ![home[r]] = @ - 1]
NotPolled(r) == stack

Uncounted(r) == [inflight_requests EXCEPT ![owner[r]] = @ - 1]
Polled(r) == Append(stack, owner[r])

(* on_success uncounts the request and polls the transaction it refers to.  *)
Fire(r) ==
  /\ AtRest
  /\ r \in Due
  /\ live[home[r]] = "inactive" /\ future[owner[r]] = "suspended"
  /\ live' = [live EXCEPT ![home[r]] = "active"]
  /\ dispatching' = home[r]
  /\ owner' = [owner EXCEPT ![r] = Page]
  /\ inflight_requests' = Uncounted(r)
  /\ stack' = Polled(r)
  /\ future' = [future EXCEPT ![owner[r]] = IF stack' = stack THEN @ ELSE "polled"]
  /\ UNCHANGED << runVars, ahead, sent, home, shared, waited >>

(* The same, or on_error for a transaction that was aborted, and the        *)
(* handler throws: the callback panics over an AbortError, or its future is *)
(* still borrowed by a poll that trapped.                                   *)
FireThrows(r) ==
  /\ AtRest
  /\ r \in Due
  /\ \/ live[home[r]] = "aborted"
     \/ live[home[r]] = "inactive" /\ future[owner[r]] # "suspended"
  /\ live' = [live EXCEPT ![home[r]] = "aborted"]
  /\ owner' = [owner EXCEPT ![r] = Page]
  /\ inflight_requests' = Uncounted(r)
  /\ future' = [future EXCEPT ![owner[r]] = "trapped"]
  /\ UNCHANGED << stack, runVars, ahead, dispatching, sent, home, shared, waited >>

Commit(t) ==
  /\ AtRest
  /\ live[t] = "inactive"
  /\ Started(t)
  /\ \A r \in InFlight : home[r] # t
  /\ live' = [live EXCEPT ![t] = "committed"]
  /\ UNCHANGED << pollVars, runVars, ahead, dispatching, reqVars, shared, waited >>

Browser ==
  \/ TaskEnds
  \/ \E r \in Reqs : Fire(r) \/ FireThrows(r)
  \/ \E t \in Txs : Commit(t)

PageTask == stack = << >> /\ \E t \in Txs : Run(t) \/ RunRejected(t)

Next == Callback \/ Browser \/ PageTask

(* A callback that is polled comes to an end of the poll, and the browser   *)
(* goes on.                                                                 *)
Fairness == WF_vars(Callback) /\ WF_vars(Browser)

Spec == Init /\ [][Next]_vars /\ Fairness

----------------------------------------------------------------------------
(* Each transaction counts exactly the requests whose events will poll it,  *)
(* whichever transactions they were sent in, however the polls were nested  *)
(* and whichever of them trapped (runner.rs:140-180).                       *)
CountsOwn == \A t \in Txs : inflight_requests[t] = Cardinality(Awaits(t))

(* Whenever a callback runs, the browser accepts its requests: CURRENT is   *)
(* back at the outer transaction after an inner one was polled, and events  *)
(* poll the transaction they belong to (runner.rs:86, 144).  Until a future *)
(* of one transaction is awaited in another.                                *)
ActiveWhenPolled ==
  Polling /\ ~shared => \A t \in OnStack : live[t] = "active"

(* A transaction that commits is whole or empty: its callback has returned  *)
(* Ok, or a poll of it trapped and nothing was ever sent in it.  The abort  *)
(* of poll_it, when a callback is left waiting for an inner `run`, and that *)
(* of the browser, when a handler throws, come before the auto-commit       *)
(* (runner.rs:99-119).  Until futures are shared.                           *)
CommitsWhole ==
  ~shared => \A t \in Txs : live[t] = "committed" =>
    \/ future[t] = "done" /\ run[t] = "Ok"
    \/ future[t] = "trapped" /\ \A r \in Reqs : home[r] # t

(* "Transactions cannot be nested" (src/transaction.rs:98): an inner        *)
(* transaction that its outer callback had to wait for never commits.  If   *)
(* the outer one was not aborted first, then the end of the inner callback  *)
(* panics over the outer one's waker, and so in the event handler of the    *)
(* inner transaction (runner.rs:74).  Until futures are shared.             *)
NestedNeverCommits == ~shared => \A t \in waited : live[t] # "committed"

(* What the caller of `run` hears is what happened: an Ok is never followed *)
(* by an abort, be it by the panic of another callback, and with any error  *)
(* nothing commits (src/transaction.rs:55-91, runner.rs:104-124).  Until    *)
(* futures are shared.                                                      *)
AnswersAreTrue ==
  ~shared => \A t \in Txs :
    /\ run[t] = "Ok" => live[t] # "aborted"
    /\ run[t] \in {"Err", "forbidden"} => live[t] \in {"none", "aborted"}

(* A `run` that nobody will answer: a poll of its callback trapped, or the  *)
(* end of an inner callback did, over the waker of the outer one.           *)
Stranded(t) ==
  \/ future[t] = "trapped"
  \/ future[t] \in {"done", "dropped"} /\ outer[t] # Page

(* With the event loop in control, as long as some `run` is to be answered  *)
(* or some transaction is open, there is an event that can fire: neither    *)
(* inner runs that are waited for, nor transactions that wait for those     *)
(* before them, wait in a circle, also when a callback has trapped          *)
(* (runner.rs:112-124, 140-180).  Until futures are shared.                 *)
Answerable(r) == r \in Due /\ live[home[r]] \in {"inactive", "aborted"}

Finished(t) == live[t] = "inactive" /\ Started(t) /\ \A r \in InFlight : home[r] # t

NoDeadlock ==
  AtRest /\ ~shared /\ (\E t \in Txs : t \in Open \/ (run[t] = "awaiting" /\ ~Stranded(t))) =>
    (\E r \in Reqs : Answerable(r)) \/ (\E t \in Txs : Finished(t))

(* No `run` waits for ever: not for a transaction that waits for it, not    *)
(* for an inner one that cannot start before it ends.  It is answered, or   *)
(* cancelled with the outer callback, unless a trap has stranded it; until  *)
(* futures are shared.                                                      *)
RunsEnd ==
  \A t \in Txs : (run[t] = "awaiting") ~> (run[t] # "awaiting" \/ Stranded(t) \/ shared)
=============================================================================
