--------------------- MODULE CurrentTransaction_proofs ---------------------
(***************************************************************************)
(* Theorems about CurrentTransaction, for any number of transactions and    *)
(* requests and any usage.                                                  *)
(***************************************************************************)
EXTENDS CurrentTransaction, FiniteSetTheorems, SequenceTheorems, WellFoundedInduction, TLAPS

USE DEF Txs, Page, Reqs, pollVars, runVars, browserVars, reqVars

----------------------------------------------------------------------------
(* The stack of polls.                                                      *)

LEMMA TopFacts ==
  ASSUME stack \in Seq(Txs), stack # << >>
  PROVE  /\ Len(stack) \in Nat \ {0}
         /\ Top \in Txs
         /\ Top \in OnStack
<1>1. Len(stack) \in Nat \ {0} /\ Len(stack) \in 1 .. Len(stack)
  BY EmptySeq
<1> QED
  BY <1>1, ElementOfSeq DEF Top, OnStack

LEMMA PopFacts ==
  ASSUME stack \in Seq(Txs), stack # << >>, Pop
  PROVE  /\ stack' \in Seq(Txs)
         /\ Len(stack') = Len(stack) - 1
         /\ \A i \in 1 .. Len(stack') : stack'[i] = stack[i]
<1>1. Len(stack) \in Nat \ {0}
  BY EmptySeq
<1>2. \A i \in 1 .. Len(stack) : stack[i] \in Txs
  BY ElementOfSeq
<1> DEFINE n == Len(stack) - 1
<1>3. n \in Nat /\ 1 \in Int /\ n \in Int /\ \A i \in 1 .. n : stack[i] \in Txs
  BY <1>1, <1>2
<1>4. stack' = SubSeq(stack, 1, n)
  BY DEF Pop
<1> HIDE DEF n
<1>5. /\ SubSeq(stack, 1, n) \in Seq(Txs)
      /\ Len(SubSeq(stack, 1, n)) = IF 1 <= n THEN n - 1 + 1 ELSE 0
      /\ \A i \in 1 .. n - 1 + 1 : SubSeq(stack, 1, n)[i] = stack[1 + i - 1]
  BY <1>3, SubSeqProperties
<1>6. stack' \in Seq(Txs) /\ Len(stack') = n /\ \A i \in 1 .. n : stack'[i] = stack[i]
  BY <1>3, <1>4, <1>5
<1> QED
  BY <1>6 DEF n

LEMMA PushFacts ==
  ASSUME stack \in Seq(Txs), NEW t \in Txs, stack' = Append(stack, t)
  PROVE  /\ stack' \in Seq(Txs)
         /\ Len(stack') = Len(stack) + 1
         /\ stack'[Len(stack')] = t
         /\ \A i \in 1 .. Len(stack) : stack'[i] = stack[i]
         /\ stack' # << >>
  BY AppendProperties, LenProperties

----------------------------------------------------------------------------
(* Type correctness and the counters.                                       *)

LEMMA AwaitsFinite ==
  \A t : IsFiniteSet(Awaits(t)) /\ Cardinality(Awaits(t)) \in Nat
<1> SUFFICES ASSUME NEW t PROVE IsFiniteSet(Awaits(t)) /\ Cardinality(Awaits(t)) \in Nat
  OBVIOUS
<1>1. IsFiniteSet(Reqs)
  BY MaxReqsAssumption, FS_Interval
<1> QED
  BY <1>1, FS_Subset, FS_CardinalityType DEF Awaits

TypeInv == TypeOK /\ CountsOwn

Futures == {"unmade", "polled", "suspended", "done", "dropped", "trapped"}
Lives   == {"none", "active", "inactive", "committed", "aborted"}

(* A trap changes nothing that is counted.                                  *)
LEMMA TrapsType ==
  ASSUME TypeOK, NEW after \in [Txs -> Lives], NEW left \in [Txs -> Futures], Traps(after, left)
  PROVE  stack' \in Seq(Txs) /\ future' \in [Txs -> Futures] /\ live' \in [Txs -> Lives]
  BY EmptySeq DEF Traps, TypeOK, Futures, Lives

(* What is the same before and after leaves the counters exact.             *)
LEMMA SameCounts ==
  ASSUME CountsOwn, UNCHANGED << inflight_requests, owner >>
  PROVE  CountsOwn'
  BY DEF CountsOwn, Awaits

LEMMA RequestCounts ==
  ASSUME TypeInv, NEW h \in Txs, Request(h)
  PROVE  TypeInv'
<1>1. Top \in Txs
  BY TopFacts DEF TypeInv, TypeOK, Request, Sendable, Polling
<1> DEFINE r == sent + 1
<1>2. r \in Reqs /\ owner[r] = Page
  BY MaxReqsAssumption DEF TypeInv, TypeOK, Request, Sendable
<1>3. TypeOK'
  <2>1. inflight_requests' \in [Txs -> Nat]
    <3>1. inflight_requests \in [Txs -> Nat]
      BY DEF TypeInv, TypeOK
    <3>2. inflight_requests' = [inflight_requests EXCEPT ![Top] = @ + 1]
      BY DEF Request, CURRENT
    <3> QED
      BY <1>1, <3>1, <3>2
  <2>2. sent' \in 0 .. MaxReqs /\ home' \in [Reqs -> Txs \cup {Page}]
        /\ owner' \in [Reqs -> Txs \cup {Page}]
    BY <1>1, <1>2 DEF TypeInv, TypeOK, Request, CURRENT
  <2>3. \A q \in Reqs : (q > sent' => home'[q] = Page) /\ (home'[q] = Page => owner'[q] = Page)
    <3>1. home' = [home EXCEPT ![r] = h] /\ owner' = [owner EXCEPT ![r] = Top] /\ sent' = r
      BY DEF Request, CURRENT
    <3>2. h # Page /\ sent \in Nat
      BY MaxTxsAssumption, MaxReqsAssumption DEF Txs, Page, TypeInv, TypeOK
    <3>3. ASSUME NEW q \in Reqs, q # r
          PROVE  (q > sent' => home'[q] = Page) /\ (home'[q] = Page => owner'[q] = Page)
      <4>1. q > r => q > sent
        BY <3>2 DEF Reqs
      <4> QED
        BY <3>1, <3>3, <4>1 DEF TypeInv, TypeOK
    <3>4. home'[r] = h /\ ~(r > sent')
      BY <1>2, <3>1, <3>2 DEF TypeInv, TypeOK
    <3> QED
      BY <3>2, <3>3, <3>4
  <2> QED
    BY <2>1, <2>2, <2>3 DEF TypeInv, TypeOK, Request
<1>4. ASSUME NEW t \in Txs
      PROVE  inflight_requests'[t] = Cardinality(Awaits(t)')
  <2>1. CASE t = Top
    <3>1. Awaits(t)' = Awaits(t) \cup {r} /\ r \notin Awaits(t)
      BY <1>1, <1>2, <2>1 DEF TypeInv, TypeOK, Request, CURRENT, Awaits
    <3>2. Cardinality(Awaits(t)') = Cardinality(Awaits(t)) + 1
      BY <3>1, AwaitsFinite, FS_AddElement
    <3> QED
      BY <3>2, <2>1 DEF TypeInv, TypeOK, CountsOwn, Request, CURRENT
  <2>2. CASE t # Top
    <3>1. Awaits(t)' = Awaits(t)
      BY <1>1, <1>2, <2>2 DEF TypeInv, TypeOK, Request, CURRENT, Awaits
    <3> QED
      BY <3>1, <2>2 DEF TypeInv, TypeOK, CountsOwn, Request, CURRENT
  <2> QED
    BY <2>1, <2>2
<1> QED
  BY <1>3, <1>4 DEF TypeInv, CountsOwn

(* Uncount leaves every counter exact, and no counter was zero.             *)
LEMMA UncountedCounts ==
  ASSUME TypeInv, NEW r \in InFlight,
         owner' = [owner EXCEPT ![r] = Page], inflight_requests' = Uncounted(r)
  PROVE  CountsOwn' /\ inflight_requests' \in [Txs -> Nat] /\ owner[r] \in Txs
<1>1. owner[r] \in Txs /\ r \in Reqs /\ r \in Awaits(owner[r])
  BY DEF InFlight, Awaits, TypeInv, TypeOK
<1>2. ASSUME NEW t \in Txs
      PROVE  inflight_requests'[t] \in Nat /\ inflight_requests'[t] = Cardinality(Awaits(t)')
  <2>1. CASE t = owner[r]
    <3>1. Awaits(t)' = Awaits(t) \ {r}
      BY <1>1, <2>1 DEF TypeInv, TypeOK, Awaits
    <3>2. Cardinality(Awaits(t)') = Cardinality(Awaits(t)) - 1 /\ Cardinality(Awaits(t)') \in Nat
      <4>1. IsFiniteSet(Awaits(t)) /\ r \in Awaits(t)
        BY <1>1, <2>1, AwaitsFinite
      <4>2. Cardinality(Awaits(t) \ {r}) = Cardinality(Awaits(t)) - 1
        BY <4>1, FS_RemoveElement
      <4>3. Cardinality(Awaits(t) \ {r}) \in Nat
        BY <4>1, FS_Subset, FS_CardinalityType
      <4> QED
        BY <3>1, <4>2, <4>3
    <3> QED
      BY <3>2, <2>1 DEF TypeInv, TypeOK, CountsOwn, Uncounted
  <2>2. CASE t # owner[r]
    <3>1. Awaits(t)' = Awaits(t)
      BY <1>1, <2>2 DEF TypeInv, TypeOK, Awaits
    <3> QED
      BY <3>1, <2>2 DEF TypeInv, TypeOK, CountsOwn, Uncounted
  <2> QED
    BY <2>1, <2>2
<1>3. DOMAIN inflight_requests' = Txs /\ inflight_requests' \in [Txs -> Int]
  BY <1>1 DEF Uncounted, TypeInv, TypeOK
<1> QED
  BY <1>1, <1>2, <1>3 DEF CountsOwn

LEMMA TypeStep ==
  ASSUME TypeInv, [Next]_vars
  PROVE  TypeInv'
<1> USE DEF TypeInv
<1>0. future \in [Txs -> Futures] /\ live \in [Txs -> Lives]
  BY DEF TypeOK, Futures, Lives
<1>1. ASSUME NEW t \in Txs, Run(t) PROVE TypeInv'
  <2>1. stack' \in Seq(Txs)
    BY <1>1, PushFacts DEF Run, Push, TypeOK
  <2>2. outer' \in [Txs -> Txs \cup {Page}]
    BY <1>1, TopFacts DEF Run, TypeOK
  <2>3. ahead' \in [Txs -> SUBSET Txs]
    BY <1>1 DEF Run, TypeOK, Open
  <2>4. TypeOK'
    BY <1>1, <2>1, <2>2, <2>3 DEF Run, TypeOK
  <2> QED
    BY <1>1, <2>4, SameCounts DEF Run
<1>2. ASSUME NEW t \in Txs, RunRejected(t) PROVE TypeInv'
  <2>1. TypeOK'
    BY <1>2 DEF RunRejected, TypeOK
  <2> QED
    BY <1>2, <2>1, SameCounts DEF RunRejected
<1>3. ASSUME NEW v \in {"Ok", "Err"}, Return(v) PROVE TypeInv'
  <2> DEFINE left  == [future EXCEPT ![Top] = "done"]
             after == [live EXCEPT ![Top] = IF v = "Err" \/ run[Top] = "cancelled"
                                            THEN "aborted" ELSE @]
  <2>1. Top \in Txs
    BY <1>3, TopFacts DEF Return, Polling, TypeOK
  <2>2. after \in [Txs -> Lives] /\ left \in [Txs -> Futures]
    BY <1>0, <2>1 DEF Lives, Futures
  <2>3. run' \in [Txs -> {"none", "awaiting", "Ok", "Err", "forbidden", "cancelled"}]
    BY <1>3, <2>1 DEF Return, TypeOK
  <2>4. stack' \in Seq(Txs) /\ future' \in [Txs -> Futures] /\ live' \in [Txs -> Lives]
    <3>1. Traps(after, left) \/ (Pop /\ future' = left /\ live' = after)
      BY <1>3 DEF Return
    <3> HIDE DEF after, left
    <3> QED
      BY <1>3, <2>2, <3>1, TrapsType, PopFacts DEF Return, Polling, TypeOK
  <2>5. TypeOK'
    BY <1>3, <2>3, <2>4 DEF Return, TypeOK, Futures, Lives
  <2> QED
    BY <1>3, <2>5, SameCounts DEF Return
<1>4. CASE Suspend
  <2>1. stack' \in Seq(Txs) /\ Top \in Txs
    BY <1>4, PopFacts, TopFacts DEF Suspend, Polling, TypeOK
  <2>2. TypeOK'
    BY <1>4, <2>1 DEF Suspend, TypeOK, Inner
  <2> QED
    BY <1>4, <2>2, SameCounts DEF Suspend
<1>5. CASE Forbid
  <2> DEFINE left  == [future EXCEPT ![Top] = "dropped"]
             after == [live EXCEPT ![Top] = "aborted"]
  <2>1. Top \in Txs
    BY <1>5, TopFacts DEF Forbid, Polling, TypeOK
  <2>2. after \in [Txs -> Lives] /\ left \in [Txs -> Futures]
    BY <1>0, <2>1 DEF Lives, Futures
  <2>3. run' \in [Txs -> {"none", "awaiting", "Ok", "Err", "forbidden", "cancelled"}]
    BY <1>5, <2>1 DEF Forbid, TypeOK
  <2>4. stack' \in Seq(Txs) /\ future' \in [Txs -> Futures] /\ live' \in [Txs -> Lives]
    <3>1. Traps(after, left) \/ (Pop /\ future' = left /\ live' = after)
      BY <1>5 DEF Forbid
    <3> HIDE DEF after, left
    <3> QED
      BY <1>5, <2>2, <3>1, TrapsType, PopFacts DEF Forbid, Polling, TypeOK
  <2>5. TypeOK'
    BY <1>5, <2>3, <2>4 DEF Forbid, TypeOK, Futures, Lives
  <2> QED
    BY <1>5, <2>5, SameCounts DEF Forbid
<1>6. CASE PollBroken \/ UseFreed
  <2>1. Traps(live, future)
    BY <1>6 DEF PollBroken, UseFreed
  <2>2. TypeOK'
    BY <1>0, <1>6, <2>1, TrapsType DEF PollBroken, UseFreed, TypeOK, Futures, Lives
  <2> QED
    BY <1>6, <2>2, SameCounts DEF PollBroken, UseFreed
<1>7. ASSUME NEW h \in Txs, RequestInactive(h) PROVE TypeInv'
  <2>1. Traps(live, future)
    BY <1>7 DEF RequestInactive
  <2>2. TypeOK'
    BY <1>0, <1>7, <2>1, TrapsType DEF RequestInactive, TypeOK, Futures, Lives
  <2> QED
    BY <1>7, <2>2, SameCounts DEF RequestInactive
<1>8. CASE TaskEnds
  <2>1. TypeOK'
    BY <1>8 DEF TaskEnds, TypeOK
  <2> QED
    BY <1>8, <2>1, SameCounts DEF TaskEnds
<1>9. ASSUME NEW r \in Reqs, Fire(r) PROVE TypeInv'
  <2>1. r \in InFlight /\ home[r] \in Txs
    BY <1>9 DEF Fire, Due, InFlight, TypeOK
  <2>2. CountsOwn' /\ inflight_requests' \in [Txs -> Nat] /\ owner[r] \in Txs
    BY <1>9, <2>1, UncountedCounts DEF Fire
  <2>3. stack' \in Seq(Txs)
    BY <1>9, <2>2, PushFacts DEF Fire, Polled, TypeOK
  <2>4. TypeOK'
    BY <1>9, <2>1, <2>2, <2>3 DEF Fire, TypeOK
  <2> QED
    BY <2>2, <2>4
<1>10. ASSUME NEW r \in Reqs, FireThrows(r) PROVE TypeInv'
  <2>1. r \in InFlight
    BY <1>10 DEF FireThrows, Due, InFlight
  <2>2. CountsOwn' /\ inflight_requests' \in [Txs -> Nat]
    BY <1>10, <2>1, UncountedCounts DEF FireThrows
  <2>3. TypeOK'
    BY <1>10, <2>2 DEF FireThrows, TypeOK
  <2> QED
    BY <2>2, <2>3
<1>11. ASSUME NEW t \in Txs, Commit(t) PROVE TypeInv'
  <2>1. TypeOK'
    BY <1>11 DEF Commit, TypeOK
  <2> QED
    BY <1>11, <2>1, SameCounts DEF Commit
<1>12. CASE UNCHANGED vars
  <2>1. TypeOK'
    BY <1>12 DEF vars, TypeOK
  <2> QED
    BY <1>12, <2>1, SameCounts DEF vars
<1> QED
  BY <1>1, <1>2, <1>3, <1>4, <1>5, <1>6, <1>7, <1>8, <1>9, <1>10, <1>11, <1>12, RequestCounts
  DEF Next, Callback, Browser, PageTask

LEMMA TypeInit ==
  ASSUME Init
  PROVE  TypeInv
<1>1. TypeOK
  <2>1. stack \in Seq(Txs)
    BY EmptySeq DEF Init
  <2>2. sent \in 0 .. MaxReqs
    BY MaxReqsAssumption DEF Init
  <2> QED
    BY <2>1, <2>2 DEF Init, TypeOK
<1>2. \A t \in Txs : Awaits(t) = {}
  BY DEF Init, Awaits
<1> QED
  BY <1>1, <1>2, FS_EmptySet DEF Init, CountsOwn, TypeInv

----------------------------------------------------------------------------
(* The shape of the stack.                                                  *)

(* A future that has not returned and was not dropped.                      *)
Alive == {"polled", "suspended", "trapped"}

(* The stack holds the polled callbacks, each opened after the one below.   *)
(* The lowest one is polled by a task of the page, or by its own event.     *)
StackInv ==
  /\ \A i, j \in 1 .. Len(stack) : i < j => stack[i] < stack[j]
  /\ \A i \in 1 .. Len(stack) : future[stack[i]] = "polled"
  /\ \A t \in Txs : future[t] = "polled" => t \in OnStack
  /\ stack # << >> /\ dispatching = Page => outer[stack[1]] = Page
  /\ ~shared /\ stack # << >> /\ dispatching # Page => stack[1] = dispatching
  /\ dispatching # Page => future[dispatching] # "unmade"

(* Transactions are opened in order, an inner one after its outer one.      *)
OrderInv ==
  /\ \A t, u \in Txs : t < u /\ future[u] # "unmade" => future[t] # "unmade"
  /\ \A t \in Txs : outer[t] < t

(* A `run` is awaited by a callback that has neither returned nor was       *)
(* dropped, and so is a request.                                            *)
RunInv ==
  /\ \A t \in Txs : future[t] = "unmade" => run[t] = "none" /\ live[t] = "none"
  /\ \A t \in Txs : future[t] \in Alive => run[t] \in {"awaiting", "cancelled"}
  /\ \A t \in Txs : run[t] = "awaiting" /\ outer[t] # Page => future[outer[t]] \in Alive

RequestInv ==
  \A r \in InFlight : future[owner[r]] \in Alive /\ (~shared => home[r] = owner[r])

(* What is nested on the stack was called by the callback below it, and has *)
(* been polled without a break; a `run` that was waited for never yields Ok.*)
WaitedInv ==
  /\ \A t \in waited : outer[t] # Page /\ run[t] # "Ok" /\ future[t] # "unmade"
  /\ \A i \in 2 .. Len(stack) : stack[i] \notin waited
  /\ \A i \in 2 .. Len(stack) : outer[stack[i]] = stack[i - 1]

StructInv == StackInv /\ OrderInv /\ RunInv /\ RequestInv /\ WaitedInv

(* The last of the stack is above, and opened after, all the others.        *)
LEMMA TopIsLatest ==
  ASSUME TypeOK, StackInv, stack # << >>
  PROVE  /\ Top \in Txs /\ future[Top] = "polled"
         /\ \A i \in 1 .. Len(stack) - 1 : stack[i] \in Txs /\ stack[i] < Top
         /\ \A t \in OnStack : t \in Txs /\ t <= Top
<1>1. stack \in Seq(Txs) /\ Len(stack) \in Nat \ {0} /\ Top \in Txs
  BY TopFacts DEF TypeOK
<1>2. \A i \in 1 .. Len(stack) : stack[i] \in Txs
  BY <1>1, ElementOfSeq
<1> QED
  BY <1>1, <1>2 DEF StackInv, Top, OnStack

LEMMA PopOnStack ==
  ASSUME TypeOK, StackInv, stack # << >>, Pop
  PROVE  /\ OnStack' = OnStack \ {Top}
         /\ Len(stack') = Len(stack) - 1 /\ Len(stack) \in Nat \ {0}
         /\ \A i \in 1 .. Len(stack') : stack'[i] = stack[i] /\ stack[i] # Top
         /\ stack' # << >> => 1 \in 1 .. Len(stack')
<1>1. stack \in Seq(Txs) /\ Len(stack) \in Nat \ {0}
  BY TopFacts DEF TypeOK
<1>2. /\ stack' \in Seq(Txs)
      /\ Len(stack') = Len(stack) - 1
      /\ \A i \in 1 .. Len(stack') : stack'[i] = stack[i]
  BY PopFacts DEF TypeOK
<1>3. \A i \in 1 .. Len(stack) - 1 : stack[i] \in Txs /\ stack[i] < Top
  BY TopIsLatest
<1>4. Top \in Txs
  BY TopIsLatest
<1>5. \A i \in 1 .. Len(stack') : stack[i] # Top
  BY <1>2, <1>3, <1>4
<1>6. stack' # << >> => 1 \in 1 .. Len(stack')
  BY <1>2, EmptySeq
<1>7. OnStack' = OnStack \ {Top}
  <2>1. OnStack' = {stack[i] : i \in 1 .. Len(stack) - 1}
    BY <1>2 DEF OnStack
  <2>2. 1 .. Len(stack) = 1 .. (Len(stack) - 1) \cup {Len(stack)}
    BY <1>1
  <2> QED
    BY <2>1, <2>2, <1>2, <1>5 DEF OnStack, Top
<1> QED
  BY <1>1, <1>2, <1>5, <1>6, <1>7

LEMMA PushOnStack ==
  ASSUME TypeOK, NEW t \in Txs, stack' = Append(stack, t)
  PROVE  /\ OnStack' = OnStack \cup {t}
         /\ Len(stack') = Len(stack) + 1 /\ Len(stack) \in Nat
         /\ stack'[Len(stack')] = t
         /\ \A i \in 1 .. Len(stack) : stack'[i] = stack[i]
         /\ stack # << >> => Len(stack) \in Nat \ {0}
         /\ stack = << >> => Len(stack) = 0
<1>1. stack \in Seq(Txs) /\ Len(stack) \in Nat
  BY LenProperties DEF TypeOK
<1>2. /\ Len(stack') = Len(stack) + 1
      /\ stack'[Len(stack')] = t
      /\ \A i \in 1 .. Len(stack) : stack'[i] = stack[i]
  BY <1>1, PushFacts
<1>3. OnStack' = OnStack \cup {t}
  <2>1. 1 .. Len(stack') = 1 .. Len(stack) \cup {Len(stack')}
    BY <1>1, <1>2
  <2> QED
    BY <2>1, <1>2 DEF OnStack
<1> QED
  BY <1>1, <1>2, <1>3, EmptySeq

(* What is called next was opened after everything else.                    *)
LEMMA CallableIsNew ==
  ASSUME TypeOK, StructInv, NEW t \in Txs, Callable(t)
  PROVE  /\ future[t] = "unmade" /\ run[t] = "none" /\ live[t] = "none"
         /\ \A u \in Txs : u < t <=> future[u] # "unmade"
         /\ \A i \in 1 .. Len(stack) : stack[i] \in Txs /\ stack[i] < t
         /\ t \notin waited /\ t \notin OnStack
<1>1. future[t] = "unmade" /\ \A u \in Txs : future[u] = "unmade" => t <= u
  BY DEF Callable
<1>2. \A u \in Txs : u < t <=> future[u] # "unmade"
  BY <1>1 DEF StructInv, OrderInv
<1>3. \A i \in 1 .. Len(stack) : stack[i] \in Txs /\ stack[i] < t
  BY <1>2, ElementOfSeq DEF StructInv, StackInv, TypeOK
<1> QED
  BY <1>1, <1>2, <1>3 DEF StructInv, RunInv, WaitedInv, OnStack

LEMMA RunStruct ==
  ASSUME TypeInv, StructInv, NEW t \in Txs, Run(t)
  PROVE  StructInv'
<1> USE DEF TypeInv, StructInv
<1>1. /\ future[t] = "unmade" /\ run[t] = "none" /\ live[t] = "none"
      /\ \A u \in Txs : u < t <=> future[u] # "unmade"
      /\ \A i \in 1 .. Len(stack) : stack[i] \in Txs /\ stack[i] < t
      /\ t \notin waited /\ t \notin OnStack
  BY CallableIsNew DEF Run
<1>2. /\ OnStack' = OnStack \cup {t}
      /\ Len(stack') = Len(stack) + 1 /\ Len(stack) \in Nat
      /\ stack'[Len(stack')] = t
      /\ \A i \in 1 .. Len(stack) : stack'[i] = stack[i]
      /\ stack # << >> => Len(stack) \in Nat \ {0}
      /\ stack = << >> => Len(stack) = 0
  BY PushOnStack DEF Run, Push
<1>3. stack # << >> => Top = stack[Len(stack)] /\ Top \in Txs /\ future[Top] = "polled" /\ Top < t
  BY <1>1, TopIsLatest DEF Top
<1>4. StackInv'
  <2>1. \A i, j \in 1 .. Len(stack') : i < j => stack'[i] < stack'[j]
    <3>1. SUFFICES ASSUME NEW i \in 1 .. Len(stack'), NEW j \in 1 .. Len(stack'), i < j
                   PROVE  stack'[i] < stack'[j]
      OBVIOUS
    <3>2. i \in 1 .. Len(stack) /\ stack'[i] = stack[i]
      BY <1>2, <3>1
    <3>3. CASE j \in 1 .. Len(stack)
      BY <1>2, <3>1, <3>2, <3>3 DEF StackInv
    <3>4. CASE j = Len(stack')
      BY <1>1, <1>2, <3>2, <3>4
    <3> QED
      BY <1>2, <3>3, <3>4
  <2>2. \A i \in 1 .. Len(stack') : future'[stack'[i]] = "polled"
    BY <1>1, <1>2 DEF StackInv, Run, TypeOK
  <2>3. \A u \in Txs : future'[u] = "polled" => u \in OnStack'
    BY <1>2 DEF StackInv, Run, TypeOK, Callable
  <2>4. dispatching' = Page => outer'[stack'[1]] = Page
    BY <1>1, <1>2 DEF StackInv, Run, TypeOK
  <2>5. ~shared' /\ dispatching' # Page => stack'[1] = dispatching'
    BY <1>2 DEF StackInv, Run
  <2>6. dispatching' # Page => future'[dispatching'] # "unmade"
    BY DEF StackInv, Run, TypeOK
  <2> QED
    BY <2>1, <2>2, <2>3, <2>4, <2>5, <2>6 DEF StackInv
<1>5. OrderInv'
  <2>1. \A u \in Txs : outer'[u] < u
    BY <1>3 DEF OrderInv, Run, TypeOK
  <2> QED
    BY <1>1, <2>1 DEF OrderInv, Run, TypeOK
<1>6. RunInv'
  <2>1. \A u \in Txs : run'[u] = "awaiting" /\ outer'[u] # Page => future'[outer'[u]] \in Alive
    BY <1>3 DEF RunInv, Run, TypeOK, Alive
  <2> QED
    BY <2>1 DEF RunInv, Run, TypeOK
<1>7. RequestInv'
  BY DEF RequestInv, Run, TypeOK, InFlight, Alive
<1>8. WaitedInv'
  <2>1. \A u \in waited' : outer'[u] # Page /\ run'[u] # "Ok" /\ future'[u] # "unmade"
    BY <1>1 DEF WaitedInv, Run, TypeOK
  <2>2. \A i \in 2 .. Len(stack') : stack'[i] \notin waited'
    BY <1>1, <1>2 DEF WaitedInv, Run
  <2>3. \A i \in 2 .. Len(stack') : outer'[stack'[i]] = stack'[i - 1]
    <3> SUFFICES ASSUME NEW i \in 2 .. Len(stack')
                 PROVE  outer'[stack'[i]] = stack'[i - 1]
      OBVIOUS
    <3>1. i - 1 \in 1 .. Len(stack) /\ stack'[i - 1] = stack[i - 1]
      BY <1>2
    <3>2. CASE i \in 2 .. Len(stack)
      <4>1. stack'[i] = stack[i] /\ stack[i] # t /\ stack[i] \in Txs
        BY <1>1, <1>2, <3>2
      <4> QED
        BY <3>1, <3>2, <4>1 DEF WaitedInv, Run, TypeOK
    <3>3. CASE i = Len(stack')
      <4>1. stack # << >> /\ i - 1 = Len(stack) /\ stack'[i] = t
        BY <1>2, <3>3
      <4> QED
        BY <1>3, <3>1, <4>1 DEF Run, TypeOK
    <3> QED
      BY <1>2, <3>2, <3>3
  <2> QED
    BY <2>1, <2>2, <2>3 DEF WaitedInv
<1> QED
  BY <1>4, <1>5, <1>6, <1>7, <1>8

LEMMA RejectedStruct ==
  ASSUME TypeInv, StructInv, NEW t \in Txs, RunRejected(t)
  PROVE  StructInv'
<1> USE DEF TypeInv, StructInv
<1>1. /\ future[t] = "unmade" /\ run[t] = "none" /\ live[t] = "none"
      /\ \A u \in Txs : u < t <=> future[u] # "unmade"
      /\ \A i \in 1 .. Len(stack) : stack[i] \in Txs /\ stack[i] < t
      /\ t \notin waited /\ t \notin OnStack
  BY CallableIsNew DEF RunRejected
<1>2. StackInv'
  BY <1>1 DEF StackInv, RunRejected, TypeOK, OnStack
<1>3. OrderInv'
  BY <1>1 DEF OrderInv, RunRejected, TypeOK
<1>4. RunInv'
  BY <1>1 DEF RunInv, RunRejected, TypeOK, Alive
<1>5. RequestInv'
  BY <1>1 DEF RequestInv, RunRejected, TypeOK, InFlight, Alive
<1>6. WaitedInv'
  BY <1>1 DEF WaitedInv, RunRejected, TypeOK
<1> QED
  BY <1>2, <1>3, <1>4, <1>5, <1>6

(* What a poll that ends leaves of the stack, if only the future of its own *)
(* transaction changes.                                                     *)
LEMMA PopStruct ==
  ASSUME TypeInv, StructInv, Polling, Pop, NEW state \in {"suspended", "done", "dropped"},
         future' = [future EXCEPT ![Top] = state],
         UNCHANGED << outer, dispatching, shared >>
  PROVE  /\ StackInv' /\ OrderInv'
         /\ \A i \in 2 .. Len(stack') : outer'[stack'[i]] = stack'[i - 1]
<1> USE DEF TypeInv, StructInv
<1>1. /\ OnStack' = OnStack \ {Top}
      /\ Len(stack') = Len(stack) - 1 /\ Len(stack) \in Nat \ {0}
      /\ \A i \in 1 .. Len(stack') : stack'[i] = stack[i] /\ stack[i] # Top
      /\ stack' # << >> => 1 \in 1 .. Len(stack')
  BY PopOnStack DEF Polling
<1>2. Top \in Txs /\ future[Top] = "polled"
      /\ \A i \in 1 .. Len(stack) - 1 : stack[i] \in Txs /\ stack[i] < Top
  BY TopIsLatest DEF Polling
<1>3. StackInv'
  <2>1. \A i, j \in 1 .. Len(stack') : i < j => stack'[i] < stack'[j]
    BY <1>1 DEF StackInv
  <2>2. \A i \in 1 .. Len(stack') : future'[stack'[i]] = "polled"
    BY <1>1, <1>2 DEF StackInv, TypeOK
  <2>3. \A t \in Txs : future'[t] = "polled" => t \in OnStack'
    BY <1>1, <1>2 DEF StackInv, TypeOK
  <2>4. stack' # << >> => stack'[1] = stack[1] /\ stack # << >>
    BY <1>1 DEF Polling
  <2>5. dispatching' # Page => future'[dispatching'] # "unmade"
    BY <1>2 DEF StackInv, TypeOK
  <2> QED
    BY <2>1, <2>2, <2>3, <2>4, <2>5 DEF StackInv
<1>4. OrderInv'
  BY <1>2 DEF OrderInv, TypeOK
<1>5. \A i \in 2 .. Len(stack') : outer'[stack'[i]] = stack'[i - 1]
  BY <1>1 DEF WaitedInv
<1> QED
  BY <1>3, <1>4, <1>5

(* A trap empties the stack: what was polled is what the stack held.        *)
LEMMA TrapsStruct ==
  ASSUME TypeInv, StructInv, Polling, NEW after, NEW left \in [Txs -> Futures], Traps(after, left),
         \A t \in Txs : t # Top => left[t] = future[t],
         left[Top] \in {"polled", "done", "dropped"},
         UNCHANGED << outer, dispatching >>
  PROVE  /\ StackInv' /\ OrderInv' /\ OnStack' = {}
         /\ \A i \in 2 .. Len(stack') : FALSE
         /\ \A t \in Txs : t # Top => future'[t] = IF t \in OnStack THEN "trapped" ELSE future[t]
         /\ future'[Top] \in {"trapped", "done", "dropped"}
<1> USE DEF TypeInv, StructInv
<1>1. stack' = << >> /\ Len(stack') = 0 /\ OnStack' = {}
  <2>1. stack' = << >> /\ Len(stack') = 0
    BY EmptySeq DEF Traps
  <2> QED
    BY <2>1 DEF OnStack
<1>2. Top \in Txs /\ future[Top] = "polled"
  BY TopIsLatest DEF Polling
<1>3. \A t \in Txs : t \in OnStack <=> future[t] = "polled"
  BY DEF StackInv, OnStack
<1>4. /\ \A t \in Txs : t # Top => future'[t] = IF t \in OnStack THEN "trapped" ELSE future[t]
      /\ future'[Top] \in {"trapped", "done", "dropped"}
  BY <1>2, <1>3 DEF Traps
<1>5. \A t \in Txs : future'[t] # "polled" /\ (future'[t] = "unmade" <=> future[t] = "unmade")
  BY <1>2, <1>3, <1>4
<1>6. StackInv'
  BY <1>1, <1>5 DEF StackInv, TypeOK
<1>7. OrderInv'
  BY <1>5 DEF OrderInv
<1> QED
  BY <1>1, <1>4, <1>6, <1>7

(* The panic over an outer callback's waker: the callback that ends is      *)
(* polled by its own event.                                                 *)
LEMMA WakePanicsInEvent ==
  ASSUME TypeInv, StructInv, Polling, WakePanics(Top)
  PROVE  /\ Len(stack) = 1 /\ Top = stack[1] /\ dispatching # Page
         /\ ~shared => dispatching = Top
<1> USE DEF TypeInv, StructInv
<1>1. Len(stack) \in Nat \ {0} /\ Top = stack[Len(stack)]
  BY TopFacts DEF Top, Polling, TypeOK
<1>2. outer[Top] # Page /\ future[outer[Top]] # "polled"
  BY DEF WakePanics
<1>3. Len(stack) = 1
  <2>1. SUFFICES ASSUME Len(stack) # 1 PROVE FALSE
    OBVIOUS
  <2>2. Len(stack) \in 2 .. Len(stack) /\ Len(stack) - 1 \in 1 .. Len(stack)
    <3>1. \A n \in Nat \ {0} : n # 1 => n \in 2 .. n /\ n - 1 \in 1 .. n
      OBVIOUS
    <3> QED
      BY <1>1, <2>1, <3>1
  <2>3. outer[Top] = stack[Len(stack) - 1]
    BY <1>1, <2>2 DEF WaitedInv
  <2>4. future[outer[Top]] = "polled"
    BY <2>2, <2>3 DEF StackInv
  <2> QED
    BY <1>2, <2>4
<1> QED
  BY <1>1, <1>2, <1>3 DEF StackInv, Polling

(* A callback left waiting by its outer one never returns into it.          *)
LEMMA WaitedWakePanics ==
  ASSUME TypeInv, StructInv, Polling, Top \in waited, run[Top] = "awaiting"
  PROVE  WakePanics(Top)
<1> USE DEF TypeInv, StructInv
<1>1. Len(stack) \in Nat \ {0} /\ Top \in Txs /\ Top = stack[Len(stack)]
  BY TopFacts DEF Top, Polling, TypeOK
<1>2. Len(stack) = 1
  <2>1. SUFFICES ASSUME Len(stack) # 1 PROVE FALSE
    OBVIOUS
  <2>2. Len(stack) \in 2 .. Len(stack)
    <3>1. \A n \in Nat \ {0} : n # 1 => n \in 2 .. n
      OBVIOUS
    <3> QED
      BY <1>1, <2>1, <3>1
  <2> QED
    BY <1>1, <2>2 DEF WaitedInv
<1>3. outer[Top] \in Txs /\ outer[Top] # Top /\ outer[Top] # Page
  BY <1>1 DEF WaitedInv, OrderInv, TypeOK
<1>4. future[outer[Top]] # "polled"
  BY <1>1, <1>2, <1>3 DEF StackInv, OnStack, Polling
<1> QED
  BY <1>3, <1>4 DEF WakePanics

(* The end of a poll, by a return or by a trap.                             *)
PollEnds(state) ==
  \/ Pop /\ future' = [future EXCEPT ![Top] = state]
  \/ \E after : Traps(after, [future EXCEPT ![Top] = state])

LEMMA PollEndsStruct ==
  ASSUME TypeInv, StructInv, Polling, NEW state \in {"done", "dropped"}, PollEnds(state),
         UNCHANGED << outer, dispatching, shared >>
  PROVE  /\ StackInv' /\ OrderInv'
         /\ \A i \in 2 .. Len(stack') : /\ outer'[stack'[i]] = stack'[i - 1]
                                        /\ stack'[i] \notin waited
         /\ OnStack' \subseteq OnStack \ {Top}
         /\ Top \in Txs /\ future[Top] = "polled" /\ future'[Top] = state
         /\ \A t \in Txs : t # Top => /\ future'[t] \in Alive <=> future[t] \in Alive
                                      /\ future'[t] \notin Alive => future'[t] = future[t]
<1> USE DEF TypeInv, StructInv
<1> DEFINE left == [future EXCEPT ![Top] = state]
<1>1. Top \in Txs /\ future[Top] = "polled"
  BY TopIsLatest DEF Polling
<1>2. left \in [Txs -> Futures] /\ left[Top] = state /\ \A t \in Txs : t # Top => left[t] = future[t]
  BY <1>1 DEF TypeOK, Futures
<1>3. CASE Pop /\ future' = left
  <2>1. /\ StackInv' /\ OrderInv'
        /\ \A i \in 2 .. Len(stack') : outer'[stack'[i]] = stack'[i - 1]
    BY <1>3, PopStruct
  <2>2. /\ OnStack' = OnStack \ {Top}
        /\ \A i \in 2 .. Len(stack') : stack'[i] = stack[i] /\ i \in 2 .. Len(stack)
    BY <1>3, PopOnStack DEF Polling
  <2>3. \A i \in 2 .. Len(stack') : stack'[i] \notin waited
    BY <2>2 DEF WaitedInv
  <2> QED
    BY <1>1, <1>2, <1>3, <2>1, <2>2, <2>3
<1>4. ASSUME NEW after, Traps(after, left)
      PROVE  /\ StackInv' /\ OrderInv' /\ OnStack' = {}
             /\ \A i \in 2 .. Len(stack') : FALSE
             /\ \A t \in Txs : t # Top => future'[t] = IF t \in OnStack THEN "trapped" ELSE future[t]
             /\ future'[Top] = state
  <2> HIDE DEF left
  <2>1. left[Top] \in {"polled", "done", "dropped"}
    BY <1>2
  <2>2. /\ StackInv' /\ OrderInv' /\ OnStack' = {}
        /\ \A i \in 2 .. Len(stack') : FALSE
        /\ \A t \in Txs : t # Top => future'[t] = IF t \in OnStack THEN "trapped" ELSE future[t]
    BY <1>2, <1>4, <2>1, TrapsStruct
  <2>3. future'[Top] = state
    BY <1>1, <1>2, <1>4 DEF Traps
  <2> QED
    BY <2>2, <2>3
<1>5. ASSUME NEW t \in OnStack
      PROVE  future[t] \in Alive
  BY DEF StackInv, OnStack, Alive
<1> QED
  BY <1>1, <1>3, <1>4, <1>5 DEF PollEnds, Alive

LEMMA ReturnStruct ==
  ASSUME TypeInv, StructInv, NEW v \in {"Ok", "Err"}, Return(v)
  PROVE  StructInv'
<1> USE DEF TypeInv, StructInv
<1>1. /\ Polling /\ PollEnds("done")
      /\ UNCHANGED << outer, dispatching, shared, waited, home, owner >>
  BY DEF Return, PollEnds
<1>2. /\ StackInv' /\ OrderInv'
      /\ \A i \in 2 .. Len(stack') : /\ outer'[stack'[i]] = stack'[i - 1]
                                     /\ stack'[i] \notin waited
      /\ Top \in Txs /\ future[Top] = "polled" /\ future'[Top] = "done"
      /\ \A t \in Txs : t # Top => /\ future'[t] \in Alive <=> future[t] \in Alive
                                   /\ future'[t] \notin Alive => future'[t] = future[t]
  BY <1>1, PollEndsStruct
<1>3. run[Top] \in {"awaiting", "cancelled"}
  BY <1>2 DEF RunInv, Alive
<1>4. \/ UNCHANGED run
      \/ /\ ~WakePanics(Top)
         /\ run' = [run EXCEPT ![Top] = IF @ = "cancelled" THEN @ ELSE v]
  BY DEF Return
<1>5. \A t \in Txs : t # Top => run'[t] = run[t]
  BY <1>4 DEF TypeOK
<1>6. \A t \in Txs : future[t] = "unmade" => live'[t] = live[t]
  <2>1. \A t \in Txs : t # Top /\ t # dispatching => live'[t] = live[t]
    BY DEF Return, Traps, TypeOK
  <2> QED
    BY <1>2, <2>1 DEF StackInv
<1>7. RunInv'
  <2>1. \A t \in Txs : future'[t] = "unmade" => run'[t] = "none" /\ live'[t] = "none"
    BY <1>2, <1>5, <1>6 DEF RunInv, Alive
  <2>2. \A t \in Txs : future'[t] \in Alive => run'[t] \in {"awaiting", "cancelled"}
    BY <1>2, <1>5 DEF RunInv, Alive
  <2>3. \A t \in Txs : run'[t] = "awaiting" => run[t] = "awaiting"
    BY <1>4 DEF TypeOK
  <2>4. \A t \in Txs : outer[t] # Page => outer[t] \in Txs
    BY DEF TypeOK
  <2>5. \A t \in Txs : run'[t] = "awaiting" /\ outer[t] # Page =>
           outer[t] # Top /\ future'[outer[t]] \in Alive
    BY <1>2, <2>3, <2>4 DEF RunInv, Return, Inner
  <2> QED
    BY <1>1, <2>1, <2>2, <2>5 DEF RunInv
<1>8. RequestInv'
  <2>1. \A r \in InFlight : owner[r] \in Txs /\ owner[r] # Top
    BY DEF Return, Awaits, InFlight, TypeOK
  <2> QED
    BY <1>1, <1>2, <2>1 DEF RequestInv, InFlight
<1>9. WaitedInv'
  <2>1. \A t \in waited : run'[t] # "Ok"
    BY <1>1, <1>3, <1>4, <1>5, WaitedWakePanics DEF WaitedInv, TypeOK
  <2>2. \A t \in waited : future'[t] # "unmade"
    <3> SUFFICES ASSUME NEW t \in waited PROVE future'[t] # "unmade"
      OBVIOUS
    <3>1. t \in Txs /\ future[t] # "unmade"
      BY DEF WaitedInv, TypeOK
    <3>2. CASE t = Top
      BY <1>2, <3>2
    <3>3. CASE t # Top
      <4>1. /\ future'[t] \in Alive <=> future[t] \in Alive
            /\ future'[t] \notin Alive => future'[t] = future[t]
        BY <1>2, <3>1, <3>3
      <4> QED
        BY <3>1, <4>1 DEF Alive
    <3> QED
      BY <3>2, <3>3
  <2> QED
    BY <1>1, <1>2, <2>1, <2>2 DEF WaitedInv
<1> QED
  BY <1>2, <1>7, <1>8, <1>9

LEMMA SuspendStruct ==
  ASSUME TypeInv, StructInv, Suspend
  PROVE  StructInv'
<1> USE DEF TypeInv, StructInv
<1>1. /\ Polling /\ Pop /\ future' = [future EXCEPT ![Top] = "suspended"]
      /\ waited' = waited \cup Inner(Top)
      /\ UNCHANGED << outer, dispatching, shared, run, live, home, owner >>
  BY DEF Suspend
<1>2. /\ StackInv' /\ OrderInv'
      /\ \A i \in 2 .. Len(stack') : outer'[stack'[i]] = stack'[i - 1]
  BY <1>1, PopStruct
<1>3. Top \in Txs /\ future[Top] = "polled"
      /\ \A i \in 1 .. Len(stack) - 1 : stack[i] \in Txs /\ stack[i] < Top
  BY <1>1, TopIsLatest DEF Polling
<1>4. RunInv'
  BY <1>1, <1>3 DEF RunInv, TypeOK, Alive
<1>5. RequestInv'
  BY <1>1, <1>3 DEF RequestInv, InFlight, TypeOK, Alive
<1>6. WaitedInv'
  <2>1. \A t \in Inner(Top) : /\ t \in Txs /\ outer[t] = Top /\ Top < t
                              /\ run[t] = "awaiting" /\ future[t] # "unmade"
    BY <1>3 DEF Inner, OrderInv, RunInv
  <2>2. \A t \in waited' : outer'[t] # Page /\ run'[t] # "Ok" /\ future'[t] # "unmade"
    BY <1>1, <1>3, <2>1 DEF WaitedInv, TypeOK
  <2>3. \A i \in 1 .. Len(stack') : stack'[i] = stack[i] /\ i \in 1 .. Len(stack) - 1
    BY <1>1, PopOnStack DEF Polling
  <2>4. \A i \in 1 .. Len(stack') : stack'[i] \notin Inner(Top)
    BY <1>3, <2>1, <2>3
  <2>5. \A i \in 2 .. Len(stack') : stack'[i] \notin waited
    BY <2>3 DEF WaitedInv
  <2> QED
    BY <1>1, <1>2, <2>2, <2>4, <2>5 DEF WaitedInv
<1> QED
  BY <1>2, <1>4, <1>5, <1>6

LEMMA ForbidStruct ==
  ASSUME TypeInv, StructInv, Forbid
  PROVE  StructInv'
<1> USE DEF TypeInv, StructInv
<1>1. /\ Polling /\ PollEnds("dropped")
      /\ UNCHANGED << outer, dispatching, shared, waited, home, owner >>
  BY DEF Forbid, PollEnds
<1>2. /\ StackInv' /\ OrderInv'
      /\ \A i \in 2 .. Len(stack') : /\ outer'[stack'[i]] = stack'[i - 1]
                                     /\ stack'[i] \notin waited
      /\ Top \in Txs /\ future[Top] = "polled" /\ future'[Top] = "dropped"
      /\ \A t \in Txs : t # Top => /\ future'[t] \in Alive <=> future[t] \in Alive
                                   /\ future'[t] \notin Alive => future'[t] = future[t]
  BY <1>1, PollEndsStruct
<1>3. run[Top] \in {"awaiting", "cancelled"}
  BY <1>2 DEF RunInv, Alive
<1>4. /\ run' \in [Txs -> {"none", "awaiting", "Ok", "Err", "forbidden", "cancelled"}]
      /\ \A t \in Txs : \/ t # Top /\ t \notin Inner(Top) /\ run'[t] = run[t]
                        \/ t = Top /\ run'[t] \in {"awaiting", "forbidden", "cancelled"}
                        \/ t \in Inner(Top) /\ run'[t] = "cancelled"
  BY <1>3 DEF Forbid, TypeOK
<1>5. \A t \in Txs : future[t] = "unmade" => live'[t] = live[t] /\ t \notin Inner(Top) /\ t # Top
  <2>1. \A t \in Txs : t # Top /\ t # dispatching => live'[t] = live[t]
    BY DEF Forbid, Traps, TypeOK
  <2>2. \A t \in Txs : future[t] = "unmade" => t \notin Inner(Top)
    BY DEF RunInv, Inner
  <2> QED
    BY <1>2, <2>1, <2>2 DEF StackInv
<1>6. Awaits(Top) = {}
  <2>1. Cardinality(Awaits(Top)) = 0
    BY <1>2 DEF Forbid, NothingInFlight, CountsOwn
  <2> QED
    BY <2>1, AwaitsFinite, FS_EmptySet
<1>7. RunInv'
  <2>1. \A t \in Txs : future'[t] = "unmade" => run'[t] = "none" /\ live'[t] = "none"
    BY <1>2, <1>4, <1>5 DEF RunInv, Alive
  <2>2. \A t \in Txs : future'[t] \in Alive => run'[t] \in {"awaiting", "cancelled"}
    BY <1>2, <1>4 DEF RunInv, Alive
  <2>3. \A t \in Txs : run'[t] = "awaiting" => run[t] = "awaiting" /\ outer[t] # Top
    <3>1. \A t \in Txs : run'[t] = "awaiting" => run[t] = "awaiting"
      BY <1>3 DEF Forbid, TypeOK
    <3>2. outer[Top] # Top
      BY <1>2 DEF OrderInv, TypeOK
    <3> QED
      BY <1>4, <3>1, <3>2 DEF Inner
  <2>4. \A t \in Txs : outer[t] # Page => outer[t] \in Txs
    BY DEF TypeOK
  <2>5. \A t \in Txs : run'[t] = "awaiting" /\ outer[t] # Page => future'[outer[t]] \in Alive
    BY <1>2, <2>3, <2>4 DEF RunInv
  <2> QED
    BY <1>1, <2>1, <2>2, <2>5 DEF RunInv
<1>8. RequestInv'
  <2>1. \A r \in InFlight : owner[r] \in Txs /\ owner[r] # Top
    BY <1>6 DEF Awaits, InFlight, TypeOK
  <2> QED
    BY <1>1, <1>2, <2>1 DEF RequestInv, InFlight
<1>9. WaitedInv'
  <2>1. \A t \in waited : run'[t] # "Ok"
    BY <1>4 DEF WaitedInv, TypeOK
  <2>2. \A t \in waited : future'[t] # "unmade"
    BY <1>2 DEF WaitedInv, TypeOK, Alive
  <2> QED
    BY <1>1, <1>2, <2>1, <2>2 DEF WaitedInv
<1> QED
  BY <1>2, <1>7, <1>8, <1>9

(* A trap in the middle of a poll, which answers and drops nothing.         *)
LEMMA TrapStruct ==
  ASSUME TypeInv, StructInv, Polling, Traps(live, future), shared => shared',
         UNCHANGED << outer, dispatching, run, waited, home, owner >>
  PROVE  StructInv'
<1> USE DEF TypeInv, StructInv
<1>1. future \in [Txs -> Futures] /\ Top \in Txs /\ future[Top] = "polled"
  BY TopIsLatest DEF Polling, TypeOK, Futures
<1>2. StackInv' /\ OrderInv' /\ \A i \in 2 .. Len(stack') : FALSE
  BY <1>1, TrapsStruct
<1>3. \A t \in Txs : /\ future'[t] \in Alive <=> future[t] \in Alive
                     /\ future'[t] \notin Alive => future'[t] = future[t]
  BY <1>1 DEF Traps, Alive
<1>4. \A t \in Txs : future[t] = "unmade" => live'[t] = live[t]
  BY DEF Traps, StackInv
<1>5. RunInv'
  <2>1. \A t \in Txs : outer[t] # Page => outer[t] \in Txs
    BY DEF TypeOK
  <2>2. \A t \in Txs : run[t] = "awaiting" /\ outer[t] # Page => future'[outer[t]] \in Alive
    BY <1>3, <2>1 DEF RunInv
  <2>3. \A t \in Txs : future'[t] = "unmade" => future[t] = "unmade"
    BY <1>3 DEF Alive
  <2> QED
    BY <1>3, <1>4, <2>2, <2>3 DEF RunInv
<1>6. RequestInv'
  <2>1. \A r \in InFlight : owner[r] \in Txs
    BY DEF InFlight, TypeOK
  <2> QED
    BY <1>3, <2>1 DEF RequestInv, InFlight
<1>7. WaitedInv'
  <2>1. \A t \in waited : future'[t] # "unmade"
    BY <1>3 DEF WaitedInv, TypeOK, Alive
  <2> QED
    BY <1>2, <2>1 DEF WaitedInv
<1> QED
  BY <1>2, <1>5, <1>6, <1>7

LEMMA FireStruct ==
  ASSUME TypeInv, StructInv, NEW r \in Reqs, Fire(r)
  PROVE  StructInv'
<1> USE DEF TypeInv, StructInv
<1> DEFINE o == owner[r]
<1>1. /\ stack = << >> /\ r \in InFlight
      /\ o \in Txs /\ home[r] \in Txs /\ future[o] \in Alive
      /\ ~shared => home[r] = o
  BY DEF Fire, AtRest, Due, InFlight, TypeOK, RequestInv
<1>2. /\ OnStack' = {o} /\ Len(stack') = 1 /\ stack'[1] = o /\ stack' # stack
  <2>1. stack' = Append(stack, o) /\ Len(stack) = 0
    BY <1>1, PushOnStack DEF Fire, Polled
  <2>2. OnStack' = OnStack \cup {o} /\ Len(stack') = 1 /\ stack'[1] = o
    BY <1>1, <2>1, PushOnStack
  <2>3. OnStack = {}
    BY <2>1 DEF OnStack
  <2> QED
    BY <2>1, <2>2, <2>3
<1>3. /\ future' = [future EXCEPT ![o] = "polled"] /\ dispatching' = home[r]
      /\ UNCHANGED << run, outer, waited, shared, home >>
  BY <1>2 DEF Fire
<1>4. live[home[r]] = "inactive" /\ live' = [live EXCEPT ![home[r]] = "active"]
  BY DEF Fire
<1>5. future[home[r]] # "unmade"
  BY <1>1, <1>4 DEF RunInv
<1>6. StackInv'
  <2>1. \A t \in Txs : future[t] # "polled"
    BY <1>1 DEF StackInv, OnStack
  <2> QED
    BY <1>1, <1>2, <1>3, <1>5, <2>1 DEF StackInv, TypeOK
<1>7. OrderInv'
  BY <1>1, <1>3 DEF OrderInv, TypeOK, Alive
<1>8. RunInv'
  BY <1>1, <1>3, <1>4, <1>5 DEF RunInv, TypeOK, Alive
<1>9. RequestInv'
  BY <1>1, <1>3 DEF RequestInv, Fire, InFlight, TypeOK, Alive
<1>10. WaitedInv'
  BY <1>1, <1>2, <1>3 DEF WaitedInv, TypeOK, Alive
<1> QED
  BY <1>6, <1>7, <1>8, <1>9, <1>10

(* The event of a request for which the handler throws.                     *)
LEMMA ThrowsStruct ==
  ASSUME TypeInv, StructInv, NEW r \in Reqs, FireThrows(r)
  PROVE  StructInv'
<1> USE DEF TypeInv, StructInv
<1> DEFINE o == owner[r]
<1>1. /\ stack = << >> /\ OnStack = {} /\ dispatching = Page
      /\ o \in Txs /\ home[r] \in Txs /\ future[o] \in Alive
  <2>1. Len(stack) = 0
    BY EmptySeq DEF FireThrows, AtRest
  <2> QED
    BY <2>1 DEF FireThrows, AtRest, OnStack, Due, InFlight, TypeOK, RequestInv
<1>2. /\ future' = [future EXCEPT ![o] = "trapped"]
      /\ live' = [live EXCEPT ![home[r]] = "aborted"]
      /\ UNCHANGED << stack, dispatching, run, outer, waited, shared, home >>
  BY DEF FireThrows
<1>3. future[home[r]] # "unmade"
  BY <1>1 DEF FireThrows, RunInv
<1>4. StackInv'
  BY <1>1, <1>2 DEF StackInv, OnStack, TypeOK
<1>5. OrderInv'
  BY <1>1, <1>2 DEF OrderInv, TypeOK, Alive
<1>6. RunInv'
  BY <1>1, <1>2, <1>3 DEF RunInv, TypeOK, Alive
<1>7. RequestInv'
  BY <1>1, <1>2 DEF RequestInv, FireThrows, InFlight, TypeOK, Alive
<1>8. WaitedInv'
  BY <1>1, <1>2 DEF WaitedInv, TypeOK
<1> QED
  BY <1>4, <1>5, <1>6, <1>7, <1>8

LEMMA StructStep ==
  ASSUME TypeInv, StructInv, [Next]_vars
  PROVE  StructInv'
<1> USE DEF TypeInv, StructInv
<1>1. ASSUME UNCHANGED << stack, future, run, outer, shared, waited, home, owner, dispatching >>,
             \A t \in Txs : live[t] = "none" => live'[t] = "none"
      PROVE  StructInv'
  <2>1. StackInv'
    BY <1>1 DEF StackInv, OnStack
  <2>2. OrderInv' /\ RequestInv' /\ WaitedInv'
    BY <1>1 DEF OrderInv, RequestInv, WaitedInv, InFlight
  <2>3. RunInv'
    BY <1>1 DEF RunInv, StackInv
  <2> QED
    BY <2>1, <2>2, <2>3
<1>2. CASE PollBroken \/ UseFreed
  BY <1>2, TrapStruct DEF PollBroken, UseFreed
<1>3. ASSUME NEW h \in Txs, Request(h) PROVE StructInv'
  <2>1. Top \in Txs /\ future[Top] = "polled"
    BY <1>3, TopIsLatest DEF Request, Sendable, Polling
  <2>2. StackInv'
    BY <1>3 DEF Request, StackInv, OnStack, TypeOK
  <2>3. OrderInv' /\ WaitedInv'
    BY <1>3 DEF Request, OrderInv, WaitedInv
  <2>4. RunInv'
    BY <1>3 DEF Request, RunInv
  <2>5. RequestInv'
    BY <1>3, <2>1 DEF Request, CURRENT, RequestInv, InFlight, TypeOK, Alive
  <2> QED
    BY <2>2, <2>3, <2>4, <2>5
<1>4. ASSUME NEW h \in Txs, RequestInactive(h) PROVE StructInv'
  BY <1>4, TrapStruct DEF RequestInactive, Sendable
<1>5. CASE TaskEnds
  <2>1. stack = << >> /\ Len(stack) = 0
    BY <1>5, EmptySeq DEF TaskEnds
  <2>2. StackInv'
    BY <1>5, <2>1 DEF TaskEnds, StackInv, OnStack
  <2>3. OrderInv' /\ RequestInv' /\ WaitedInv'
    BY <1>5 DEF TaskEnds, OrderInv, RequestInv, WaitedInv, InFlight
  <2>4. RunInv'
    BY <1>5 DEF TaskEnds, RunInv, TypeOK
  <2> QED
    BY <2>2, <2>3, <2>4
<1>6. ASSUME NEW t \in Txs, Commit(t) PROVE StructInv'
  <2>1. live[t] = "inactive" /\ live' = [live EXCEPT ![t] = "committed"]
    BY <1>6 DEF Commit
  <2> QED
    BY <1>1, <1>6, <2>1 DEF Commit, TypeOK
<1>7. CASE UNCHANGED vars
  BY <1>1, <1>7 DEF vars
<1> QED
  BY <1>2, <1>3, <1>4, <1>5, <1>6, <1>7,
     RunStruct, RejectedStruct, ReturnStruct, SuspendStruct, ForbidStruct, FireStruct, ThrowsStruct
  DEF Next, Callback, Browser, PageTask

LEMMA StructInit ==
  ASSUME Init
  PROVE  StructInv
<1>1. Len(stack) = 0
  BY EmptySeq DEF Init
<1> QED
  BY <1>1 DEF Init, StructInv, StackInv, OrderInv, RunInv, RequestInv, WaitedInv, InFlight, Alive

----------------------------------------------------------------------------
(* What was sent.                                                           *)

Sent(t)        == \E r \in Reqs : home[r] = t
AllInFlight(t) == \A r \in Reqs : home[r] = t => owner[r] = t

(* A transaction whose event handler is running has sent something, and     *)
(* what another one on the stack has sent is in flight: this is its first   *)
(* poll.  A callback that has never sent anything is in its first poll, or  *)
(* was when it trapped; then so was the one that called it.                 *)
SentInv ==
  /\ \A r \in Reqs : home[r] # Page => future[home[r]] # "unmade"
  /\ ~shared =>
       /\ dispatching # Page => Sent(dispatching)
       /\ \A t \in OnStack : t # dispatching => AllInFlight(t)
       /\ \A t \in Txs : future[t] \in Alive =>
            \/ Sent(t) \/ t \in OnStack
            \/ future[t] = "trapped" /\ (outer[t] = Page \/ future[outer[t]] = "trapped")
       /\ \A t \in waited : Sent(t)

LEMMA TrapsSent ==
  ASSUME TypeInv, StructInv, SentInv, Polling, NEW after, NEW left \in [Txs -> Futures],
         Traps(after, left),
         \A t \in Txs : t # Top => left[t] = future[t],
         left[Top] \in {"polled", "done", "dropped"}, shared => shared',
         UNCHANGED << outer, dispatching, waited, home, owner >>
  PROVE  SentInv'
<1> USE DEF TypeInv, StructInv
<1>1. /\ OnStack' = {}
      /\ \A t \in Txs : t # Top => future'[t] = IF t \in OnStack THEN "trapped" ELSE future[t]
      /\ future'[Top] \in {"trapped", "done", "dropped"}
  BY TrapsStruct
<1>2. /\ Top \in Txs /\ future[Top] = "polled" /\ Top \in OnStack
      /\ \A t \in OnStack : t \in Txs /\ future[t] = "polled"
  BY TopIsLatest, TopFacts DEF Polling, TypeOK, StackInv, OnStack
<1>3. \A t \in Txs : future[t] = "trapped" => future'[t] = "trapped"
  BY <1>1, <1>2
<1>4. \A r \in Reqs : home[r] # Page => future'[home[r]] # "unmade"
  <2>1. \A r \in Reqs : home[r] # Page => home[r] \in Txs
    BY DEF TypeOK
  <2> QED
    BY <1>1, <2>1 DEF SentInv
<1>5. ASSUME ~shared, NEW t \in OnStack, future'[t] \in Alive
      PROVE  \/ Sent(t)
             \/ future'[t] = "trapped" /\ (outer[t] = Page \/ future'[outer[t]] = "trapped")
  <2>1. PICK i \in 1 .. Len(stack) : t = stack[i]
    BY DEF OnStack
  <2>2. future'[t] = "trapped"
    BY <1>1, <1>2, <1>5 DEF Alive
  <2>3. CASE i = 1
    BY <1>5, <2>1, <2>2, <2>3 DEF StackInv, Polling, SentInv
  <2>4. CASE i # 1
    <3>1. Len(stack) \in Nat
      BY TopFacts DEF Polling, TypeOK
    <3>2. i \in 2 .. Len(stack) /\ i - 1 \in 1 .. Len(stack) - 1 /\ i - 1 \in 1 .. Len(stack)
      BY <2>4, <3>1
    <3>3. outer[t] = stack[i - 1] /\ stack[i - 1] \in OnStack
      BY <2>1, <3>2 DEF WaitedInv, OnStack
    <3>4. stack[i - 1] \in Txs /\ stack[i - 1] < Top
      BY <3>2, TopIsLatest DEF Polling
    <3>5. stack[i - 1] # Top
      BY <1>2, <3>4
    <3> QED
      BY <1>1, <2>2, <3>3, <3>4, <3>5
  <2> QED
    BY <2>3, <2>4
<1>6. ASSUME ~shared, NEW t \in Txs, t \notin OnStack, future'[t] \in Alive
      PROVE  \/ Sent(t)
             \/ future'[t] = "trapped" /\ (outer[t] = Page \/ future'[outer[t]] = "trapped")
  <2>1. t # Top /\ future'[t] = future[t]
    BY <1>1, <1>2, <1>6
  <2>2. outer[t] # Page => outer[t] \in Txs
    BY DEF TypeOK
  <2> QED
    BY <1>3, <1>6, <2>1, <2>2 DEF SentInv
<1> QED
  BY <1>1, <1>4, <1>5, <1>6 DEF SentInv, Sent

(* A poll that ends without a trap; a callback that is left suspended has   *)
(* sent something.                                                          *)
LEMMA PopSent ==
  ASSUME TypeInv, StructInv, SentInv, Polling, Pop,
         NEW state \in {"suspended", "done", "dropped"},
         future' = [future EXCEPT ![Top] = state],
         ~shared /\ state = "suspended" => Sent(Top),
         ~shared => \A t \in waited' : Sent(t),
         UNCHANGED << outer, dispatching, home, owner, shared >>
  PROVE  SentInv'
<1> USE DEF TypeInv, StructInv
<1>1. Top \in Txs /\ future[Top] = "polled" /\ OnStack' = OnStack \ {Top}
  BY TopIsLatest, PopOnStack DEF Polling
<1>2. /\ future'[Top] = state
      /\ \A t \in Txs : t # Top => future'[t] = future[t]
  BY <1>1 DEF TypeOK
<1>3. \A r \in Reqs : home[r] # Page => future'[home[r]] # "unmade"
  <2>1. \A r \in Reqs : home[r] # Page => home[r] \in Txs
    BY DEF TypeOK
  <2> QED
    BY <1>2, <2>1 DEF SentInv
<1>4. ASSUME ~shared, NEW t \in Txs, future'[t] \in Alive
      PROVE  \/ Sent(t) \/ t \in OnStack'
             \/ future'[t] = "trapped" /\ (outer[t] = Page \/ future'[outer[t]] = "trapped")
  <2>1. outer[t] # Page => outer[t] \in Txs
    BY DEF TypeOK
  <2>2. CASE t = Top
    BY <1>2, <1>4, <2>2 DEF Alive
  <2>3. CASE t # Top
    BY <1>1, <1>2, <1>4, <2>1, <2>3 DEF SentInv
  <2> QED
    BY <2>2, <2>3
<1> QED
  BY <1>1, <1>3, <1>4 DEF SentInv, Sent, AllInFlight

LEMMA SuspendSent ==
  ASSUME TypeInv, StructInv, SentInv, Suspend
  PROVE  SentInv'
<1> USE DEF TypeInv, StructInv
<1>1. /\ Polling /\ Pop /\ future' = [future EXCEPT ![Top] = "suspended"]
      /\ inflight_requests[Top] # 0 /\ ~Broken(Top) /\ waited' = waited \cup Inner(Top)
      /\ UNCHANGED << outer, dispatching, home, owner, shared >>
  BY DEF Suspend, NothingInFlight
<1>2. Top \in Txs /\ future[Top] = "polled" /\ \A t \in OnStack : t <= Top
  BY <1>1, TopIsLatest DEF Polling
<1>3. ~shared => Sent(Top)
  <2>1. Cardinality(Awaits(Top)) # 0
    BY <1>1, <1>2 DEF CountsOwn
  <2>2. PICK r \in Awaits(Top) : TRUE
    BY <2>1, FS_EmptySet
  <2>3. r \in InFlight /\ r \in Reqs /\ owner[r] = Top
    BY <1>2, <2>2 DEF Awaits, InFlight
  <2> QED
    BY <2>3 DEF RequestInv, Sent
<1>4. ASSUME ~shared, NEW t \in Inner(Top)
      PROVE  Sent(t)
  <2>1. t \in Txs /\ outer[t] = Top /\ Top < t /\ run[t] = "awaiting"
    BY <1>2 DEF Inner, OrderInv
  <2>2. future[t] \in Alive
    BY <1>1, <2>1 DEF Broken, RunInv, TypeOK, Alive
  <2>3. t \notin OnStack
    BY <1>2, <2>1
  <2>4. outer[t] # Page /\ future[outer[t]] # "trapped"
    BY <1>2, <2>1
  <2> QED
    BY <1>4, <2>1, <2>2, <2>3, <2>4 DEF SentInv
<1>5. ~shared => \A t \in waited' : Sent(t)
  BY <1>1, <1>4 DEF SentInv
<1> QED
  BY <1>1, <1>3, <1>5, PopSent

LEMMA ReturnSent ==
  ASSUME TypeInv, StructInv, SentInv, NEW v \in {"Ok", "Err"}, Return(v)
  PROVE  SentInv'
<1> USE DEF TypeInv, StructInv
<1> DEFINE left == [future EXCEPT ![Top] = "done"]
<1>1. Polling /\ UNCHANGED << outer, dispatching, waited, home, owner, shared >>
  BY DEF Return
<1>2. Top \in Txs
  BY <1>1, TopIsLatest DEF Polling
<1>3. left \in [Txs -> Futures] /\ left[Top] = "done" /\ \A t \in Txs : t # Top => left[t] = future[t]
  BY <1>2 DEF TypeOK, Futures
<1>4. (Pop /\ future' = left) \/ \E after : Traps(after, left)
  BY DEF Return
<1>5. CASE Pop /\ future' = left
  BY <1>1, <1>5, PopSent DEF SentInv
<1>6. CASE \E after : Traps(after, left)
  <2> HIDE DEF left
  <2> QED
    BY <1>1, <1>3, <1>6, TrapsSent
<1> QED
  BY <1>4, <1>5, <1>6

LEMMA ForbidSent ==
  ASSUME TypeInv, StructInv, SentInv, Forbid
  PROVE  SentInv'
<1> USE DEF TypeInv, StructInv
<1> DEFINE left == [future EXCEPT ![Top] = "dropped"]
<1>1. Polling /\ UNCHANGED << outer, dispatching, waited, home, owner, shared >>
  BY DEF Forbid
<1>2. Top \in Txs
  BY <1>1, TopIsLatest DEF Polling
<1>3. left \in [Txs -> Futures] /\ left[Top] = "dropped" /\ \A t \in Txs : t # Top => left[t] = future[t]
  BY <1>2 DEF TypeOK, Futures
<1>4. (Pop /\ future' = left) \/ \E after : Traps(after, left)
  BY DEF Forbid
<1>5. CASE Pop /\ future' = left
  BY <1>1, <1>5, PopSent DEF SentInv
<1>6. CASE \E after : Traps(after, left)
  <2> HIDE DEF left
  <2> QED
    BY <1>1, <1>3, <1>6, TrapsSent
<1> QED
  BY <1>4, <1>5, <1>6

LEMMA TrapSent ==
  ASSUME TypeInv, StructInv, SentInv, Polling, Traps(live, future), shared => shared',
         UNCHANGED << outer, dispatching, waited, home, owner >>
  PROVE  SentInv'
<1>1. future \in [Txs -> Futures] /\ future[Top] = "polled"
  BY TopIsLatest DEF Polling, TypeInv, TypeOK, Futures, StructInv
<1> QED
  BY <1>1, TrapsSent

LEMMA RunSent ==
  ASSUME TypeInv, StructInv, SentInv, NEW t \in Txs, Run(t)
  PROVE  SentInv'
<1> USE DEF TypeInv, StructInv
<1>1. future[t] = "unmade" /\ ~Sent(t) /\ stack' = Append(stack, t)
  BY CallableIsNew DEF Run, Push, SentInv, Sent
<1>2. OnStack' = OnStack \cup {t} /\ (stack = << >> => OnStack = {})
  <2>1. Len(stack) = 0 => OnStack = {}
    BY DEF OnStack
  <2> QED
    BY <1>1, <2>1, PushOnStack
<1>3. /\ future' = [future EXCEPT ![t] = "polled"]
      /\ dispatching' = IF stack = << >> THEN Page ELSE dispatching
      /\ \A u \in Txs : u # t => outer'[u] = outer[u] /\ future'[u] = future[u]
      /\ future'[t] = "polled"
      /\ UNCHANGED << home, owner, shared, waited >>
  BY DEF Run, TypeOK
<1>4. \A r \in Reqs : home[r] # Page => future'[home[r]] # "unmade"
  <2>1. \A r \in Reqs : home[r] # Page => home[r] \in Txs
    BY DEF TypeOK
  <2> QED
    BY <1>3, <2>1 DEF SentInv
<1>5. ASSUME ~shared, NEW u \in OnStack', u # dispatching'
      PROVE  AllInFlight(u)
  BY <1>1, <1>2, <1>3, <1>5 DEF SentInv, Sent, AllInFlight
<1>6. ASSUME ~shared, NEW u \in Txs, future'[u] \in Alive
      PROVE  \/ Sent(u) \/ u \in OnStack'
             \/ future'[u] = "trapped" /\ (outer'[u] = Page \/ future'[outer'[u]] = "trapped")
  <2>1. CASE u = t
    BY <1>2, <2>1
  <2>2. CASE u # t
    <3>1. outer'[u] = outer[u] /\ future'[u] = future[u] /\ (outer[u] # Page => outer[u] \in Txs)
      BY <1>3, <2>2 DEF TypeOK
    <3>2. \A w \in Txs : future[w] = "trapped" => future'[w] = "trapped"
      BY <1>1, <1>3
    <3> QED
      BY <1>2, <1>6, <3>1, <3>2 DEF SentInv
  <2> QED
    BY <2>1, <2>2
<1> QED
  BY <1>3, <1>4, <1>5, <1>6 DEF SentInv, Sent, AllInFlight

LEMMA RequestSent ==
  ASSUME TypeInv, StructInv, SentInv, NEW h \in Txs, Request(h)
  PROVE  SentInv'
<1> USE DEF TypeInv, StructInv
<1> DEFINE r == sent + 1
<1>1. Top \in Txs /\ Top \in OnStack /\ live[h] = "active" /\ (~shared' => ~shared /\ h = Top)
  BY TopFacts DEF Request, Sendable, Polling, TypeOK
<1>2. /\ r \in Reqs /\ home[r] = Page
      /\ home' = [home EXCEPT ![r] = h] /\ owner' = [owner EXCEPT ![r] = Top]
      /\ OnStack' = OnStack
      /\ UNCHANGED << future, outer, dispatching, waited >>
  BY MaxReqsAssumption DEF Request, Sendable, CURRENT, OnStack, TypeOK
<1>3. \A q \in Reqs : q # r => home'[q] = home[q] /\ owner'[q] = owner[q]
  BY <1>2 DEF TypeOK
<1>4. home'[r] = h /\ owner'[r] = Top
  BY <1>2 DEF TypeOK
<1>5. \A q \in Reqs : home'[q] # Page => future[home'[q]] # "unmade"
  BY <1>1, <1>3, <1>4 DEF SentInv, RunInv
<1>6. \A t \in Txs : Sent(t) => Sent(t)'
  BY <1>2, <1>3 DEF Sent
<1>7. ~shared' => \A t \in Txs : AllInFlight(t) => AllInFlight(t)'
  BY <1>1, <1>3, <1>4 DEF AllInFlight
<1>8. /\ dispatching # Page => dispatching \in Txs
      /\ \A t \in OnStack : t \in Txs
      /\ \A t \in waited : t \in Txs
  BY <1>1, TopIsLatest DEF TypeOK, Request, Sendable, Polling
<1> QED
  BY <1>1, <1>2, <1>5, <1>6, <1>7, <1>8 DEF SentInv

LEMMA EventSent ==
  ASSUME TypeInv, StructInv, SentInv, NEW r \in Reqs, Fire(r) \/ FireThrows(r)
  PROVE  SentInv'
<1> USE DEF TypeInv, StructInv
<1> DEFINE o == owner[r]
<1>1. /\ stack = << >> /\ Len(stack) = 0 /\ OnStack = {} /\ dispatching = Page
      /\ o \in Txs /\ (~shared => home[r] = o) /\ UNCHANGED << outer, home, shared, waited >>
  <2>1. stack = << >> /\ Len(stack) = 0 /\ dispatching = Page
    BY EmptySeq DEF Fire, FireThrows, AtRest
  <2>2. OnStack = {}
    BY <2>1 DEF OnStack
  <2> QED
    BY <2>1, <2>2 DEF Fire, FireThrows, Due, InFlight, TypeOK, RequestInv
<1>2. \/ /\ future[o] = "suspended" /\ future' = [future EXCEPT ![o] = "polled"]
         /\ OnStack' = {o} /\ dispatching' = home[r]
      \/ /\ future' = [future EXCEPT ![o] = "trapped"]
         /\ OnStack' = {} /\ dispatching' = Page
  <2>1. CASE Fire(r)
    <3>1. stack' = Append(stack, o) /\ OnStack' = {o} /\ stack' # stack
      BY <1>1, <2>1, PushOnStack DEF Fire, Polled
    <3> QED
      BY <2>1, <3>1 DEF Fire
  <2>2. CASE FireThrows(r)
    BY <1>1, <2>2 DEF FireThrows, OnStack
  <2> QED
    BY <2>1, <2>2
<1>3. ~shared => Sent(o) /\ Sent(home[r])
  BY <1>1 DEF Sent
<1>4. \A q \in Reqs : home[q] # Page => future'[home[q]] # "unmade"
  <2>1. \A q \in Reqs : home[q] # Page => home[q] \in Txs
    BY DEF TypeOK
  <2>2. \A t \in Txs : future'[t] = "unmade" => future[t] = "unmade"
    BY <1>1, <1>2 DEF TypeOK
  <2> QED
    BY <2>1, <2>2 DEF SentInv
<1>5. ASSUME ~shared, NEW t \in Txs, future'[t] \in Alive
      PROVE  \/ Sent(t)
             \/ future'[t] = "trapped" /\ (outer[t] = Page \/ future'[outer[t]] = "trapped")
  <2>1. CASE t = o
    BY <1>3, <1>5, <2>1
  <2>2. CASE t # o
    <3>1. future'[t] = future[t] /\ (outer[t] # Page => outer[t] \in Txs)
      BY <1>2, <2>2 DEF TypeOK
    <3>2. \A u \in Txs : future[u] = "trapped" => future'[u] = "trapped"
      BY <1>1, <1>2 DEF TypeOK
    <3> QED
      BY <1>1, <1>5, <3>1, <3>2 DEF SentInv
  <2> QED
    BY <2>1, <2>2
<1>6. ~shared => \A t \in OnStack' : t = dispatching'
  BY <1>1, <1>2
<1>7. ~shared /\ dispatching' # Page => Sent(dispatching')
  BY <1>2, <1>3
<1> QED
  BY <1>1, <1>4, <1>5, <1>6, <1>7 DEF SentInv, Sent

LEMMA SentStep ==
  ASSUME TypeInv, StructInv, SentInv, [Next]_vars
  PROVE  SentInv'
<1> USE DEF TypeInv, StructInv
<1>1. ASSUME NEW t \in Txs, RunRejected(t) PROVE SentInv'
  <2>1. future[t] = "unmade"
    BY <1>1, CallableIsNew DEF RunRejected
  <2>2. /\ \A u \in Txs : u # t => future'[u] = future[u]
        /\ future'[t] = "dropped"
        /\ UNCHANGED << stack, outer, dispatching, home, owner, shared, waited >>
    BY <1>1 DEF RunRejected, TypeOK
  <2>3. \A u \in Txs : outer[u] # Page => outer[u] \in Txs
    BY DEF TypeOK
  <2>4. \A r \in Reqs : home[r] # Page => home[r] \in Txs
    BY DEF TypeOK
  <2>5. \A r \in Reqs : home[r] # Page => future'[home[r]] # "unmade"
    BY <2>2, <2>4 DEF SentInv
  <2>6. \A u \in Txs : /\ future'[u] \in Alive => u # t /\ future'[u] = future[u]
                       /\ future[u] = "trapped" => future'[u] = "trapped"
    BY <2>1, <2>2 DEF Alive
  <2>7. OnStack' = OnStack
    BY <2>2 DEF OnStack
  <2> QED
    BY <2>2, <2>3, <2>5, <2>6, <2>7 DEF SentInv, Sent, AllInFlight
<1>2. CASE PollBroken \/ UseFreed
  BY <1>2, TrapSent DEF PollBroken, UseFreed
<1>3. ASSUME NEW h \in Txs, RequestInactive(h) PROVE SentInv'
  BY <1>3, TrapSent DEF RequestInactive, Sendable
<1>4. CASE TaskEnds
  <2>1. stack = << >> /\ OnStack = {}
    <3>1. stack = << >> /\ Len(stack) = 0
      BY <1>4, EmptySeq DEF TaskEnds
    <3> QED
      BY <3>1 DEF OnStack
  <2> QED
    BY <1>4, <2>1 DEF TaskEnds, SentInv, Sent, AllInFlight, OnStack
<1>5. CASE (\E t \in Txs : Commit(t)) \/ UNCHANGED vars
  BY <1>5 DEF Commit, vars, SentInv, Sent, AllInFlight, OnStack
<1> QED
  BY <1>1, <1>2, <1>3, <1>4, <1>5,
     RunSent, ReturnSent, SuspendSent, ForbidSent, RequestSent, EventSent
  DEF Next, Callback, Browser, PageTask

LEMMA SentInit ==
  ASSUME Init
  PROVE  SentInv
<1>1. OnStack = {}
  <2>1. Len(stack) = 0
    BY EmptySeq DEF Init
  <2> QED
    BY <2>1 DEF OnStack
<1> QED
  BY <1>1 DEF Init, SentInv, Alive

----------------------------------------------------------------------------
(* What commits.                                                            *)

(* While no future is shared, a transaction that the browser still has open *)
(* is being polled, or has an event coming that will poll it, or has done   *)
(* all it had to do; or a poll of it trapped with all it sent in flight.    *)
OpenInv ==
  ~shared => \A t \in Open :
    \/ t \in OnStack
    \/ future[t] = "suspended" /\ inflight_requests[t] # 0
    \/ future[t] = "done" /\ run[t] = "Ok"
    \/ future[t] = "trapped" /\ AllInFlight(t)

LiveInv == ActiveWhenPolled /\ OpenInv /\ CommitsWhole

(* A trap leaves the transactions on the stack open, but for the one whose  *)
(* event handler has thrown: it is the only one there that was answered.    *)
LEMMA TrapsLive ==
  ASSUME TypeInv, StructInv, SentInv, LiveInv, Polling,
         NEW after, NEW left \in [Txs -> Futures], Traps(after, left),
         \A t \in Txs : t # Top => left[t] = future[t] /\ after[t] = live[t],
         left[Top] \in {"polled", "done", "dropped"},
         \/ left[Top] = "polled" /\ after[Top] = live[Top]
         \/ ~shared => live'[Top] = "aborted",
         \A t \in Txs : t # Top /\ run[t] = "Ok" => run'[t] = "Ok",
         UNCHANGED << inflight_requests, outer, dispatching, home, owner >>, shared => shared'
  PROVE  LiveInv'
<1> USE DEF TypeInv, LiveInv
<1>1. /\ OnStack' = {}
      /\ \A t \in Txs : t # Top => future'[t] = IF t \in OnStack THEN "trapped" ELSE future[t]
  BY TrapsStruct
<1>2. /\ Top \in Txs /\ future[Top] = "polled" /\ Top \in OnStack
      /\ \A t \in OnStack : t \in Txs /\ future[t] = "polled"
  BY TopIsLatest, TopFacts DEF Polling, TypeOK, StructInv, StackInv, OnStack
<1>3. \A t \in Txs : live'[t] = IF t = dispatching THEN "aborted" ELSE after[t]
  BY DEF Traps
<1>4. ActiveWhenPolled'
  BY DEF ActiveWhenPolled, Polling, Traps
<1>5. OpenInv'
  <2> SUFFICES ASSUME ~shared, NEW t \in Txs, live'[t] \in {"active", "inactive"}
               PROVE  \/ future'[t] = "suspended" /\ inflight_requests[t] # 0
                      \/ future'[t] = "done" /\ run'[t] = "Ok"
                      \/ future'[t] = "trapped" /\ AllInFlight(t)
    BY DEF OpenInv, Open, AllInFlight
  <2>1. t # dispatching /\ live'[t] = after[t]
    BY <1>3
  <2>2. CASE t = Top
    <3>1. left[Top] = "polled"
      BY <2>2
    <3>2. future'[t] = "trapped"
      BY <2>2, <3>1 DEF Traps
    <3> QED
      BY <1>2, <2>1, <2>2, <3>2 DEF SentInv
  <2>3. CASE t # Top /\ t \in OnStack
    BY <1>1, <2>1, <2>3 DEF SentInv
  <2>4. CASE t # Top /\ t \notin OnStack
    <3>1. t \in Open /\ future'[t] = future[t]
      BY <1>1, <2>1, <2>4 DEF Open
    <3> QED
      BY <2>4, <3>1 DEF OpenInv
  <2> QED
    BY <2>2, <2>3, <2>4
<1>6. CommitsWhole'
  <2> SUFFICES ASSUME ~shared, NEW t \in Txs, live'[t] = "committed"
               PROVE  \/ future'[t] = "done" /\ run'[t] = "Ok"
                      \/ future'[t] = "trapped" /\ \A r \in Reqs : home[r] # t
    BY DEF CommitsWhole
  <2>1. live[t] = "committed"
    BY <1>3
  <2>2. t \notin OnStack /\ t # Top
    BY <1>2, <2>1 DEF CommitsWhole
  <2> QED
    BY <1>1, <2>1, <2>2 DEF CommitsWhole
<1> QED
  BY <1>4, <1>5, <1>6

LEMMA TrapLive ==
  ASSUME TypeInv, StructInv, SentInv, LiveInv, Polling, Traps(live, future), shared => shared',
         UNCHANGED << inflight_requests, run, outer, dispatching, home, owner >>
  PROVE  LiveInv'
<1>1. future \in [Txs -> Futures] /\ future[Top] = "polled"
  BY TopIsLatest DEF Polling, TypeInv, TypeOK, Futures, StructInv
<1> QED
  BY <1>1, TrapsLive

LEMMA RunLive ==
  ASSUME TypeInv, StructInv, LiveInv, NEW t \in Txs, Run(t)
  PROVE  LiveInv'
<1> USE DEF TypeInv, LiveInv
<1>1. future[t] = "unmade" /\ live[t] = "none" /\ t \notin OnStack
  BY CallableIsNew DEF Run
<1>2. OnStack' = OnStack \cup {t} /\ (stack = << >> => OnStack = {})
  <2>1. OnStack' = OnStack \cup {t} /\ (stack = << >> => Len(stack) = 0)
    BY PushOnStack DEF Run, Push
  <2>2. Len(stack) = 0 => OnStack = {}
    BY DEF OnStack
  <2> QED
    BY <2>1, <2>2
<1>3. live' = [live EXCEPT ![t] = "active"] /\ future' = [future EXCEPT ![t] = "polled"]
      /\ run' = [run EXCEPT ![t] = "awaiting"]
      /\ UNCHANGED << inflight_requests, shared, home, owner >>
  BY DEF Run
<1>4. ActiveWhenPolled'
  <2>1. \A u \in OnStack : u \in Txs
    BY <1>2, TopIsLatest DEF StructInv
  <2> QED
    BY <1>2, <1>3, <2>1 DEF ActiveWhenPolled, Polling, TypeOK
<1>5. OpenInv'
  <2>1. \A u \in Open' : u = t \/ u \in Open
    BY <1>3 DEF Open, TypeOK
  <2> QED
    BY <1>1, <1>2, <1>3, <2>1 DEF OpenInv, Open, AllInFlight, TypeOK
<1>6. CommitsWhole'
  BY <1>1, <1>3 DEF CommitsWhole, TypeOK
<1> QED
  BY <1>4, <1>5, <1>6

LEMMA ReturnLive ==
  ASSUME TypeInv, StructInv, SentInv, LiveInv, NEW v \in {"Ok", "Err"}, Return(v)
  PROVE  LiveInv'
<1> USE DEF TypeInv, LiveInv
<1> DEFINE left  == [future EXCEPT ![Top] = "done"]
           after == [live EXCEPT ![Top] = IF v = "Err" \/ run[Top] = "cancelled"
                                          THEN "aborted" ELSE @]
<1>1. Polling /\ UNCHANGED << inflight_requests, outer, dispatching, home, owner, shared >>
  BY DEF Return
<1>2. Top \in Txs /\ future[Top] = "polled" /\ run[Top] \in {"awaiting", "cancelled"}
      /\ \A t \in OnStack : t \in Txs
  BY <1>1, TopIsLatest DEF Polling, StructInv, RunInv, Alive
<1>3. /\ left \in [Txs -> Futures] /\ left[Top] = "done"
      /\ \A t \in Txs : t # Top => left[t] = future[t] /\ after[t] = live[t]
  BY <1>2 DEF TypeOK, Futures
<1>4. CASE WakePanics(Top)
  <2>1. Traps(after, left) /\ UNCHANGED run
    BY <1>4 DEF Return
  <2>2. ~shared => live'[Top] = "aborted"
    BY <1>1, <1>2, <1>4, <2>1, WakePanicsInEvent DEF Traps
  <2> HIDE DEF left, after
  <2> QED
    BY <1>1, <1>3, <2>1, <2>2, TrapsLive
<1>5. CASE ~WakePanics(Top)
  <2>1. /\ Pop /\ future' = left /\ live' = after
        /\ run' = [run EXCEPT ![Top] = IF @ = "cancelled" THEN @ ELSE v]
    BY <1>5 DEF Return
  <2>2. OnStack' = OnStack \ {Top}
    BY <1>1, <2>1, PopOnStack DEF Polling, StructInv
  <2>3. \A t \in Txs : t # Top => run'[t] = run[t] /\ future'[t] = future[t] /\ live'[t] = live[t]
    BY <2>1 DEF TypeOK
  <2>4. future'[Top] = "done" /\ (live'[Top] = "aborted" \/ (run'[Top] = "Ok" /\ live'[Top] = live[Top]))
    BY <1>2, <2>1 DEF TypeOK
  <2>5. ActiveWhenPolled'
    BY <1>1, <1>2, <2>2, <2>3 DEF ActiveWhenPolled, Polling
  <2>6. OpenInv'
    BY <1>1, <1>2, <2>2, <2>3, <2>4 DEF OpenInv, Open, AllInFlight
  <2>7. CommitsWhole'
    BY <1>1, <1>2, <2>3, <2>4 DEF CommitsWhole
  <2> QED
    BY <2>5, <2>6, <2>7
<1> QED
  BY <1>4, <1>5

LEMMA SuspendLive ==
  ASSUME TypeInv, StructInv, LiveInv, Suspend
  PROVE  LiveInv'
<1> USE DEF TypeInv, LiveInv
<1>1. /\ Polling /\ Pop /\ future' = [future EXCEPT ![Top] = "suspended"]
      /\ inflight_requests[Top] # 0
      /\ UNCHANGED << inflight_requests, shared, run, live, home, owner >>
  BY DEF Suspend, NothingInFlight
<1>2. Top \in Txs /\ future[Top] = "polled" /\ OnStack' = OnStack \ {Top}
  BY <1>1, TopIsLatest, PopOnStack DEF Polling, StructInv
<1>3. ActiveWhenPolled'
  BY <1>1, <1>2 DEF ActiveWhenPolled, Polling
<1>4. OpenInv'
  BY <1>1, <1>2 DEF OpenInv, Open, AllInFlight, TypeOK
<1>5. CommitsWhole'
  BY <1>1, <1>2 DEF CommitsWhole, TypeOK
<1> QED
  BY <1>3, <1>4, <1>5

LEMMA ForbidLive ==
  ASSUME TypeInv, StructInv, SentInv, LiveInv, Forbid
  PROVE  LiveInv'
<1> USE DEF TypeInv, LiveInv
<1> DEFINE left  == [future EXCEPT ![Top] = "dropped"]
           after == [live EXCEPT ![Top] = "aborted"]
<1>1. Polling /\ UNCHANGED << inflight_requests, outer, dispatching, home, owner, shared >>
  BY DEF Forbid
<1>2. Top \in Txs /\ future[Top] = "polled" /\ \A t \in OnStack : t \in Txs
  BY <1>1, TopIsLatest DEF Polling, StructInv
<1>3. /\ left \in [Txs -> Futures] /\ left[Top] = "dropped" /\ after[Top] = "aborted"
      /\ \A t \in Txs : t # Top => left[t] = future[t] /\ after[t] = live[t]
  BY <1>2 DEF TypeOK, Futures
<1>4. \A t \in Txs : t # Top /\ run[t] = "Ok" => run'[t] = "Ok"
  BY DEF Forbid, Inner
<1>5. Traps(after, left) \/ (Pop /\ future' = left /\ live' = after)
  BY DEF Forbid
<1>6. CASE Traps(after, left)
  <2>1. live'[Top] = "aborted"
    BY <1>2, <1>3, <1>6 DEF Traps
  <2> HIDE DEF left, after
  <2> QED
    BY <1>1, <1>3, <1>4, <1>6, <2>1, TrapsLive
<1>7. CASE Pop /\ future' = left /\ live' = after
  <2>1. OnStack' = OnStack \ {Top}
    BY <1>1, <1>7, PopOnStack DEF Polling, StructInv
  <2>2. ActiveWhenPolled'
    BY <1>1, <1>2, <1>3, <1>7, <2>1 DEF ActiveWhenPolled, Polling
  <2>3. OpenInv'
    BY <1>1, <1>2, <1>3, <1>4, <1>7, <2>1 DEF OpenInv, Open, AllInFlight
  <2>4. CommitsWhole'
    BY <1>1, <1>3, <1>4, <1>7 DEF CommitsWhole
  <2> QED
    BY <2>2, <2>3, <2>4
<1> QED
  BY <1>5, <1>6, <1>7

LEMMA RequestLive ==
  ASSUME TypeInv, StructInv, LiveInv, NEW h \in Txs, Request(h)
  PROVE  LiveInv'
<1> USE DEF TypeInv, LiveInv
<1>1. Top \in Txs /\ Top \in OnStack /\ future[Top] = "polled" /\ (~shared' => ~shared /\ h = Top)
  BY TopFacts, TopIsLatest DEF Request, Sendable, Polling, TypeOK, StructInv
<1>2. /\ OnStack' = OnStack
      /\ \A t \in Txs : inflight_requests[t] # 0 => inflight_requests'[t] # 0
      /\ UNCHANGED << stack, future, run, live >>
  BY <1>1 DEF Request, OnStack, CURRENT, TypeOK
<1>3. \A r \in Reqs : (home'[r] = home[r] /\ owner'[r] = owner[r]) \/ home'[r] = h
  BY DEF Request, TypeOK
<1>4. ActiveWhenPolled'
  BY <1>1, <1>2 DEF ActiveWhenPolled, Polling
<1>5. OpenInv'
  BY <1>1, <1>2, <1>3 DEF OpenInv, Open, AllInFlight
<1>6. CommitsWhole'
  BY <1>1, <1>2, <1>3 DEF CommitsWhole
<1> QED
  BY <1>4, <1>5, <1>6

LEMMA FireLive ==
  ASSUME TypeInv, StructInv, LiveInv, NEW r \in Reqs, Fire(r)
  PROVE  LiveInv'
<1> USE DEF TypeInv, LiveInv
<1> DEFINE o == owner[r]
<1>1. stack = << >> /\ Len(stack) = 0 /\ o \in Txs /\ (~shared => home[r] = o)
      /\ OnStack = {} /\ future[o] = "suspended" /\ UNCHANGED << shared, run, home >>
  <2>1. stack = << >> /\ Len(stack) = 0 /\ o \in Txs /\ (~shared => home[r] = o)
    BY EmptySeq DEF Fire, AtRest, Due, InFlight, TypeOK, StructInv, RequestInv
  <2> QED
    BY <2>1 DEF OnStack, Fire
<1>2. stack' = Append(stack, o) /\ OnStack' = {o} /\ stack' # stack
  BY <1>1, PushOnStack DEF Fire, Polled
<1>3. /\ future' = [future EXCEPT ![o] = "polled"]
      /\ inflight_requests' = [inflight_requests EXCEPT ![o] = @ - 1]
      /\ ~shared => live[o] = "inactive" /\ live' = [live EXCEPT ![o] = "active"]
  BY <1>1, <1>2 DEF Fire, Uncounted
<1>4. ActiveWhenPolled'
  <2>1. ~shared' => live'[o] = "active"
    BY <1>1, <1>3 DEF TypeOK
  <2> QED
    BY <1>2, <2>1 DEF ActiveWhenPolled
<1>5. OpenInv'
  <2> SUFFICES ASSUME ~shared, NEW t \in Txs, live'[t] \in {"active", "inactive"}
               PROVE  \/ t \in OnStack'
                      \/ future'[t] = "suspended" /\ inflight_requests'[t] # 0
                      \/ future'[t] = "done" /\ run[t] = "Ok"
                      \/ future'[t] = "trapped" /\ AllInFlight(t)'
    BY <1>1 DEF OpenInv, Open
  <2>1. \A q \in Reqs : q # r => owner'[q] = owner[q]
    BY DEF Fire, TypeOK
  <2>2. CASE t = o
    BY <1>2, <2>2
  <2>3. CASE t # o
    <3>1. t \in Open /\ future'[t] = future[t] /\ inflight_requests'[t] = inflight_requests[t]
      BY <1>1, <1>3, <2>3 DEF Open, TypeOK
    <3>2. AllInFlight(t) => AllInFlight(t)'
      BY <1>1, <2>1, <2>3 DEF AllInFlight
    <3> QED
      BY <1>1, <3>1, <3>2 DEF OpenInv
  <2> QED
    BY <2>2, <2>3
<1>6. CommitsWhole'
  <2> SUFFICES ASSUME ~shared, NEW t \in Txs, live'[t] = "committed"
               PROVE  \/ future'[t] = "done" /\ run[t] = "Ok"
                      \/ future'[t] = "trapped" /\ \A q \in Reqs : home[q] # t
    BY <1>1 DEF CommitsWhole
  <2>1. t # o /\ live[t] = "committed"
    BY <1>1, <1>3 DEF TypeOK
  <2>2. future'[t] = future[t]
    BY <1>1, <1>3, <2>1 DEF TypeOK
  <2> QED
    BY <2>1, <2>2 DEF CommitsWhole
<1> QED
  BY <1>4, <1>5, <1>6

LEMMA ThrowsLive ==
  ASSUME TypeInv, StructInv, LiveInv, NEW r \in Reqs, FireThrows(r)
  PROVE  LiveInv'
<1> USE DEF TypeInv, LiveInv
<1> DEFINE o == owner[r]
<1>1. /\ stack = << >> /\ o \in Txs /\ (~shared => home[r] = o)
      /\ OnStack' = OnStack /\ UNCHANGED << stack, shared, run, home >>
  BY DEF FireThrows, AtRest, Due, InFlight, OnStack, TypeOK, StructInv, RequestInv
<1>2. /\ \A t \in Txs : t # o => /\ future'[t] = future[t]
                                /\ inflight_requests'[t] = inflight_requests[t]
      /\ ~shared => live' = [live EXCEPT ![o] = "aborted"]
      /\ \A q \in Reqs : q # r => owner'[q] = owner[q]
  BY <1>1 DEF FireThrows, Uncounted, TypeOK
<1>3. ActiveWhenPolled'
  BY <1>1 DEF ActiveWhenPolled, Polling
<1>4. OpenInv'
  <2> SUFFICES ASSUME ~shared, NEW t \in Txs, live'[t] \in {"active", "inactive"}
               PROVE  \/ t \in OnStack
                      \/ future'[t] = "suspended" /\ inflight_requests'[t] # 0
                      \/ future'[t] = "done" /\ run[t] = "Ok"
                      \/ future'[t] = "trapped" /\ AllInFlight(t)'
    BY <1>1 DEF OpenInv, Open
  <2>1. t # o /\ t \in Open
    <3>1. /\ live \in [Txs -> {"none", "active", "inactive", "committed", "aborted"}]
          /\ live' = [live EXCEPT ![o] = "aborted"]
      BY <1>2 DEF TypeOK
    <3> HIDE DEF o
    <3> QED
      BY <3>1 DEF Open
  <2>2. AllInFlight(t) => AllInFlight(t)'
    BY <1>1, <1>2, <2>1 DEF AllInFlight
  <2>3. future'[t] = future[t] /\ inflight_requests'[t] = inflight_requests[t]
    BY <1>2, <2>1
  <2>4. \/ t \in OnStack
        \/ future[t] = "suspended" /\ inflight_requests[t] # 0
        \/ future[t] = "done" /\ run[t] = "Ok"
        \/ future[t] = "trapped" /\ AllInFlight(t)
    BY <2>1 DEF OpenInv
  <2> QED
    BY <2>2, <2>3, <2>4
<1>5. CommitsWhole'
  <2> SUFFICES ASSUME ~shared, NEW t \in Txs, live'[t] = "committed"
               PROVE  \/ future'[t] = "done" /\ run[t] = "Ok"
                      \/ future'[t] = "trapped" /\ \A q \in Reqs : home[q] # t
    BY <1>1 DEF CommitsWhole
  <2>1. t # o /\ live[t] = "committed"
    BY <1>1, <1>2 DEF TypeOK
  <2>2. future'[t] = future[t]
    BY <1>1, <1>2, <2>1 DEF TypeOK
  <2> QED
    BY <2>1, <2>2 DEF CommitsWhole
<1> QED
  BY <1>3, <1>4, <1>5

(* A transaction without requests that the browser may commit has returned, *)
(* or it trapped before it sent any.                                        *)
LEMMA CommitLive ==
  ASSUME TypeInv, StructInv, LiveInv, NEW t \in Txs, Commit(t)
  PROVE  LiveInv'
<1> USE DEF TypeInv, LiveInv
<1>1. /\ stack = << >> /\ OnStack = {} /\ live[t] = "inactive"
      /\ \A r \in InFlight : home[r] # t
      /\ live' = [live EXCEPT ![t] = "committed"]
      /\ UNCHANGED << pollVars, run, shared, home, owner >>
  <2>1. stack = << >> /\ Len(stack) = 0
    BY EmptySeq DEF Commit, AtRest
  <2> QED
    BY <2>1 DEF Commit, OnStack
<1>2. ~shared => \/ future[t] = "done" /\ run[t] = "Ok"
                 \/ future[t] = "trapped" /\ \A r \in Reqs : home[r] # t
  <2>1. ASSUME ~shared, future[t] = "suspended", inflight_requests[t] # 0
        PROVE  FALSE
    <3>1. Cardinality(Awaits(t)) # 0
      BY <2>1 DEF CountsOwn
    <3>2. PICK r \in Awaits(t) : TRUE
      BY <3>1, FS_EmptySet
    <3>3. r \in InFlight /\ owner[r] = t
      BY <3>2 DEF Awaits, InFlight
    <3> QED
      BY <1>1, <2>1, <3>3 DEF StructInv, RequestInv
  <2>2. ASSUME AllInFlight(t), NEW r \in Reqs
        PROVE  home[r] # t
    BY <1>1, <2>2 DEF AllInFlight, InFlight
  <2> QED
    BY <1>1, <2>1, <2>2 DEF OpenInv, Open
<1>3. ActiveWhenPolled'
  BY <1>1 DEF ActiveWhenPolled, Polling
<1>4. OpenInv'
  BY <1>1 DEF OpenInv, Open, AllInFlight, OnStack, TypeOK
<1>5. CommitsWhole'
  BY <1>1, <1>2 DEF CommitsWhole, TypeOK
<1> QED
  BY <1>3, <1>4, <1>5

LEMMA LiveStep ==
  ASSUME TypeInv, StructInv, SentInv, LiveInv, [Next]_vars
  PROVE  LiveInv'
<1> USE DEF TypeInv, LiveInv
<1>1. ASSUME NEW t \in Txs, RunRejected(t) PROVE LiveInv'
  <2>1. future[t] = "unmade" /\ live[t] = "none" /\ t \notin OnStack
    BY <1>1, CallableIsNew DEF RunRejected
  <2>2. ActiveWhenPolled'
    BY <1>1 DEF RunRejected, ActiveWhenPolled, Polling, OnStack
  <2>3. OpenInv'
    BY <1>1, <2>1 DEF RunRejected, OpenInv, Open, AllInFlight, OnStack, TypeOK
  <2>4. CommitsWhole'
    BY <1>1, <2>1 DEF RunRejected, CommitsWhole, TypeOK
  <2> QED
    BY <2>2, <2>3, <2>4
<1>2. CASE PollBroken \/ UseFreed
  BY <1>2, TrapLive DEF PollBroken, UseFreed
<1>3. ASSUME NEW h \in Txs, RequestInactive(h) PROVE LiveInv'
  BY <1>3, TrapLive DEF RequestInactive, Sendable
<1>4. CASE TaskEnds
  <2>1. stack = << >> /\ Open' = Open
        /\ \A t \in Txs : live'[t] = "committed" => live[t] = "committed"
    BY <1>4 DEF TaskEnds, Open, TypeOK
  <2>2. ActiveWhenPolled'
    BY <1>4, <2>1 DEF TaskEnds, ActiveWhenPolled, Polling
  <2>3. OpenInv'
    BY <1>4, <2>1 DEF TaskEnds, OpenInv, AllInFlight, OnStack
  <2>4. CommitsWhole'
    BY <1>4, <2>1 DEF TaskEnds, CommitsWhole
  <2> QED
    BY <2>2, <2>3, <2>4
<1>5. CASE UNCHANGED vars
  BY <1>5 DEF vars, ActiveWhenPolled, Polling, OnStack, OpenInv, Open, AllInFlight, CommitsWhole
<1> QED
  BY <1>1, <1>2, <1>3, <1>4, <1>5,
     RunLive, ReturnLive, SuspendLive, ForbidLive, RequestLive, FireLive, ThrowsLive, CommitLive
  DEF Next, Callback, Browser, PageTask

LEMMA LiveInit ==
  ASSUME Init
  PROVE  LiveInv
  BY DEF Init, LiveInv, ActiveWhenPolled, Polling, OpenInv, Open, CommitsWhole

----------------------------------------------------------------------------
(* What the caller of `run` hears.                                          *)

(* A trap aborts the transaction of the event whose handler is running.     *)
(* Its callback is still on the stack, so nobody has been answered.         *)
LEMMA PanicVictim ==
  ASSUME TypeInv, StructInv, Polling, ~shared, dispatching # Page
  PROVE  dispatching \in Txs /\ run[dispatching] \in {"awaiting", "cancelled"}
<1>1. Len(stack) \in Nat \ {0}
  BY TopFacts DEF TypeInv, TypeOK, Polling
<1>2. future[dispatching] = "polled"
  BY <1>1 DEF StructInv, StackInv, Polling
<1> QED
  BY <1>2 DEF TypeInv, TypeOK, StructInv, RunInv, Alive

LEMMA AnswersStep ==
  ASSUME TypeInv, StructInv, LiveInv, AnswersAreTrue, [Next]_vars
  PROVE  AnswersAreTrue'
<1> USE DEF TypeInv
<1>1. SUFFICES ASSUME ~shared' PROVE AnswersAreTrue'
  BY DEF AnswersAreTrue
<1>2. ~shared
  BY <1>1
  DEF Next, Callback, Browser, PageTask, vars, Suspend, Forbid, PollBroken, UseFreed, Return,
      Request, RequestInactive, Run, RunRejected, TaskEnds, Fire, FireThrows, Commit
<1>3. ASSUME Polling, Traps(live, future), UNCHANGED run
      PROVE  AnswersAreTrue'
  BY <1>2, <1>3, PanicVictim DEF AnswersAreTrue, Traps, TypeOK
<1>4. ASSUME NEW t \in Txs, Run(t) \/ RunRejected(t)
      PROVE  AnswersAreTrue'
  <2>1. live[t] = "none" /\ run[t] = "none"
    BY <1>4, CallableIsNew DEF Run, RunRejected
  <2>2. CASE Run(t)
    BY <1>2, <2>1, <2>2 DEF AnswersAreTrue, Run, TypeOK
  <2>3. CASE RunRejected(t)
    BY <1>2, <2>1, <2>3 DEF AnswersAreTrue, RunRejected, browserVars, TypeOK
  <2> QED
    BY <1>4, <2>2, <2>3
<1>5. ASSUME NEW v \in {"Ok", "Err"}, Return(v)
      PROVE  AnswersAreTrue'
  <2>1. Polling /\ Top \in Txs /\ run[Top] \in {"awaiting", "cancelled"} /\ live[Top] \in
          {"none", "active", "inactive", "committed", "aborted"}
    BY <1>5, TopIsLatest DEF Return, Polling, TypeOK, StructInv, RunInv, Alive
  <2>2. CASE WakePanics(Top)
    <3>1. dispatching = Top /\ UNCHANGED run
      BY <1>2, <1>5, <2>1, <2>2, WakePanicsInEvent DEF Return
    <3>2. \A t \in Txs : t # Top => live'[t] = live[t]
      BY <1>5, <2>2, <3>1 DEF Return, Traps, TypeOK
    <3> QED
      BY <1>2, <2>1, <3>1, <3>2 DEF AnswersAreTrue
  <2>3. CASE ~WakePanics(Top)
    <3>1. /\ run' = [run EXCEPT ![Top] = IF @ = "cancelled" THEN @ ELSE v]
          /\ live' = [live EXCEPT ![Top] = IF v = "Err" \/ run[Top] = "cancelled"
                                           THEN "aborted" ELSE @]
      BY <1>5, <2>3 DEF Return
    <3>2. live[Top] = "active"
      BY <1>2, <2>1, TopFacts DEF LiveInv, ActiveWhenPolled, Polling, TypeOK
    <3>3. \A t \in Txs : t # Top => run'[t] = run[t] /\ live'[t] = live[t]
      BY <3>1 DEF TypeOK
    <3>4. \/ run'[Top] = "cancelled"
          \/ run'[Top] = "Ok" /\ live'[Top] = "active"
          \/ live'[Top] = "aborted" /\ run'[Top] = "Err"
      <4>1. run'[Top] = IF run[Top] = "cancelled" THEN run[Top] ELSE v
        BY <2>1, <3>1 DEF TypeOK
      <4>2. live'[Top] = IF v = "Err" \/ run[Top] = "cancelled" THEN "aborted" ELSE live[Top]
        BY <2>1, <3>1 DEF TypeOK
      <4> QED
        BY <2>1, <3>2, <4>1, <4>2
    <3> QED
      BY <1>2, <2>1, <3>3, <3>4 DEF AnswersAreTrue
  <2> QED
    BY <2>2, <2>3
<1>6. CASE Forbid
  <2>1. Polling /\ Top \in Txs /\ run[Top] \in {"awaiting", "cancelled"}
    BY <1>6, TopIsLatest DEF Forbid, Polling, TypeOK, StructInv, RunInv, Alive
  <2>2. /\ live'[Top] = "aborted"
        /\ \A t \in Txs : t # Top => live'[t] = live[t] \/ t = dispatching
    BY <1>6, <2>1 DEF Forbid, Traps, TypeOK
  <2>3. /\ run'[Top] \in {"awaiting", "forbidden", "cancelled"}
        /\ \A t \in Txs : t # Top => run'[t] = run[t] \/ run'[t] = "cancelled"
    BY <1>6, <2>1 DEF Forbid, TypeOK
  <2>4. dispatching # Page => run[dispatching] \in {"awaiting", "cancelled"}
    BY <1>2, <2>1, PanicVictim
  <2> QED
    BY <1>2, <2>1, <2>2, <2>3, <2>4 DEF AnswersAreTrue, TypeOK
<1>7. CASE Suspend \/ \E h \in Txs : Request(h)
  BY <1>2, <1>7 DEF Suspend, Request, AnswersAreTrue
<1>8. CASE PollBroken \/ UseFreed \/ \E h \in Txs : RequestInactive(h)
  BY <1>3, <1>8 DEF PollBroken, UseFreed, RequestInactive, Sendable
<1>9. CASE TaskEnds
  BY <1>2, <1>9 DEF TaskEnds, AnswersAreTrue, TypeOK
<1>10. ASSUME NEW r \in Reqs, Fire(r)
       PROVE  AnswersAreTrue'
  BY <1>2, <1>10 DEF Fire, AnswersAreTrue, TypeOK
<1>11. ASSUME NEW r \in Reqs, FireThrows(r)
       PROVE  AnswersAreTrue'
  <2>1. owner[r] \in Txs /\ home[r] = owner[r] /\ future[owner[r]] \in Alive
    BY <1>2, <1>11 DEF FireThrows, Due, InFlight, TypeOK, StructInv, RequestInv
  <2>2. run[home[r]] \in {"awaiting", "cancelled"}
    BY <2>1 DEF StructInv, RunInv
  <2> QED
    BY <1>2, <1>11, <2>1, <2>2 DEF FireThrows, AnswersAreTrue, TypeOK
<1>12. ASSUME NEW t \in Txs, Commit(t)
       PROVE  AnswersAreTrue'
  BY <1>2, <1>12 DEF Commit, AnswersAreTrue, TypeOK
<1>13. CASE UNCHANGED vars
  BY <1>2, <1>13 DEF vars, AnswersAreTrue
<1> QED
  BY <1>4, <1>5, <1>6, <1>7, <1>8, <1>9, <1>10, <1>11, <1>12, <1>13
  DEF Next, Callback, Browser, PageTask

----------------------------------------------------------------------------
(* Progress.                                                                *)

(* The browser holds a transaction back only for earlier ones; a callback   *)
(* that waits has a request in flight, which an event will answer; and the  *)
(* page has an answer as soon as its callback has returned or is dropped.   *)
ProgressInv ==
  /\ \A t \in Txs : \A u \in ahead[t] : u < t
  /\ \A t \in Txs : future[t] = "suspended" => inflight_requests[t] # 0
  /\ \A t \in Txs : run[t] = "awaiting" /\ outer[t] = Page => future[t] \in Alive
  /\ \A r \in InFlight : live[home[r]] \in {"active", "inactive", "aborted"}

(* What a trap does to it.                                                  *)
LEMMA TrapsProgress ==
  ASSUME TypeInv, StructInv, ProgressInv, Polling,
         NEW after, NEW left \in [Txs -> Futures], Traps(after, left),
         \A t \in Txs : t # Top => left[t] = future[t] /\ after[t] = live[t],
         after[Top] \in {live[Top], "aborted"},
         \/ left[Top] = "polled"
         \/ left[Top] \in {"done", "dropped"} /\ (run'[Top] # "awaiting" \/ outer[Top] # Page),
         \A t \in Txs : run'[t] = "awaiting" => run[t] = "awaiting",
         UNCHANGED << inflight_requests, outer, ahead, home, owner >>
  PROVE  ProgressInv'
<1> USE DEF TypeInv
<1>1. Top \in Txs
  BY TopIsLatest DEF Polling, StructInv
<1>2. \A t \in Txs : live'[t] \in {live[t], "aborted"}
  BY <1>1 DEF Traps
<1>3. \A r \in InFlight : live'[home[r]] \in {"active", "inactive", "aborted"}
  <2>1. \A r \in InFlight : home[r] \in Txs
    BY DEF InFlight, TypeOK
  <2> QED
    BY <1>2, <2>1 DEF ProgressInv
<1>4. \A t \in Txs : future'[t] = "suspended" => inflight_requests[t] # 0
  BY <1>1 DEF Traps, ProgressInv
<1>5. \A t \in Txs : run'[t] = "awaiting" /\ outer[t] = Page => future'[t] \in Alive
  BY <1>1 DEF Traps, ProgressInv, Alive
<1> QED
  BY <1>3, <1>4, <1>5 DEF ProgressInv, InFlight

LEMMA ProgressStep ==
  ASSUME TypeInv, StructInv, ProgressInv, [Next]_vars
  PROVE  ProgressInv'
<1> USE DEF TypeInv
<1>0. future \in [Txs -> Futures]
  BY DEF TypeOK, Futures
<1>1. ASSUME Polling, Traps(live, future),
             UNCHANGED << inflight_requests, run, outer, ahead, home, owner >>
      PROVE  ProgressInv'
  <2>1. future[Top] = "polled"
    BY <1>1, TopIsLatest DEF Polling, StructInv
  <2> QED
    BY <1>0, <1>1, <2>1, TrapsProgress
<1>2. ASSUME NEW t \in Txs, Run(t)
      PROVE  ProgressInv'
  <2>1. live[t] = "none" /\ \A u \in Open : u < t
    BY <1>2, CallableIsNew DEF Run, Open, StructInv, RunInv
  <2>2. \A u \in Txs : \A w \in ahead'[u] : w < u
    BY <1>2, <2>1 DEF Run, ProgressInv, TypeOK
  <2>3. \A r \in InFlight : home[r] \in Txs /\ home[r] # t
    BY <2>1 DEF ProgressInv, InFlight, TypeOK
  <2>4. \A u \in Txs : u # t => outer'[u] = outer[u] /\ run'[u] = run[u] /\ future'[u] = future[u]
    BY <1>2 DEF Run, TypeOK
  <2>5. future'[t] = "polled"
    BY <1>2 DEF Run, TypeOK
  <2> QED
    BY <1>2, <2>2, <2>3, <2>4, <2>5 DEF Run, ProgressInv, InFlight, TypeOK, Alive
<1>3. ASSUME NEW t \in Txs, RunRejected(t)
      PROVE  ProgressInv'
  BY <1>3 DEF RunRejected, ProgressInv, InFlight, TypeOK, Alive
<1>4. ASSUME NEW v \in {"Ok", "Err"}, Return(v)
      PROVE  ProgressInv'
  <2> DEFINE left  == [future EXCEPT ![Top] = "done"]
             after == [live EXCEPT ![Top] = IF v = "Err" \/ run[Top] = "cancelled"
                                            THEN "aborted" ELSE @]
  <2>1. Polling /\ Top \in Txs /\ UNCHANGED << inflight_requests, outer, ahead, home, owner >>
    BY <1>4, TopIsLatest DEF Return, Polling, StructInv
  <2>2. /\ left \in [Txs -> Futures] /\ left[Top] = "done" /\ after[Top] \in {live[Top], "aborted"}
        /\ \A t \in Txs : t # Top => left[t] = future[t] /\ after[t] = live[t]
    BY <2>1 DEF TypeOK, Futures
  <2>3. CASE WakePanics(Top)
    <3>1. Traps(after, left) /\ UNCHANGED run /\ outer[Top] # Page
      BY <1>4, <2>3 DEF Return, WakePanics
    <3> HIDE DEF left, after
    <3> QED
      BY <2>1, <2>2, <3>1, TrapsProgress
  <2>4. CASE ~WakePanics(Top)
    <3>1. /\ future' = left /\ live' = after
          /\ run' = [run EXCEPT ![Top] = IF @ = "cancelled" THEN @ ELSE v]
      BY <1>4, <2>4 DEF Return
    <3>2. run'[Top] # "awaiting" /\ \A t \in Txs : t # Top => run'[t] = run[t]
      <4>1. run'[Top] = IF run[Top] = "cancelled" THEN run[Top] ELSE v
        BY <2>1, <3>1 DEF TypeOK
      <4>2. \A t \in Txs : t # Top => run'[t] = run[t]
        BY <3>1 DEF TypeOK
      <4> QED
        BY <4>1, <4>2
    <3>3. \A r \in InFlight : home[r] \in Txs
      BY DEF InFlight, TypeOK
    <3> HIDE DEF left, after
    <3>4. \A r \in InFlight : live'[home[r]] \in {"active", "inactive", "aborted"}
      BY <2>2, <3>1, <3>3 DEF ProgressInv
    <3>5. \A t \in Txs : future'[t] = "suspended" => inflight_requests[t] # 0
      BY <2>2, <3>1 DEF ProgressInv
    <3>6. \A t \in Txs : run'[t] = "awaiting" /\ outer[t] = Page => future'[t] \in Alive
      BY <2>2, <3>1, <3>2 DEF ProgressInv
    <3> QED
      BY <2>1, <3>4, <3>5, <3>6 DEF ProgressInv, InFlight
  <2> QED
    BY <2>3, <2>4
<1>5. CASE Suspend
  <2>1. Polling /\ Top \in Txs
    BY <1>5, TopIsLatest DEF Suspend, Polling, StructInv
  <2> QED
    BY <1>5, <2>1 DEF Suspend, NothingInFlight, ProgressInv, InFlight, TypeOK, Alive
<1>6. CASE Forbid
  <2> DEFINE left  == [future EXCEPT ![Top] = "dropped"]
             after == [live EXCEPT ![Top] = "aborted"]
  <2>1. Polling /\ Top \in Txs /\ UNCHANGED << inflight_requests, outer, ahead, home, owner >>
    BY <1>6, TopIsLatest DEF Forbid, Polling, StructInv
  <2>2. /\ left \in [Txs -> Futures] /\ left[Top] = "dropped" /\ after[Top] \in {live[Top], "aborted"}
        /\ \A t \in Txs : t # Top => left[t] = future[t] /\ after[t] = live[t]
    BY <2>1 DEF TypeOK, Futures
  <2>3. \A t \in Txs : run'[t] = "awaiting" => run[t] = "awaiting"
    BY <1>6 DEF Forbid, TypeOK
  <2>4. run'[Top] # "awaiting" \/ outer[Top] # Page
    BY <1>6, <2>1 DEF Forbid, WakePanics, TypeOK
  <2>5. Traps(after, left) \/ (Pop /\ future' = left /\ live' = after)
    BY <1>6 DEF Forbid
  <2> HIDE DEF left, after
  <2>6. CASE Traps(after, left)
    BY <2>1, <2>2, <2>3, <2>4, <2>6, TrapsProgress
  <2>7. CASE Pop /\ future' = left /\ live' = after
    <3>1. \A r \in InFlight : home[r] \in Txs
      BY DEF InFlight, TypeOK
    <3>2. \A r \in InFlight : live'[home[r]] \in {"active", "inactive", "aborted"}
      BY <2>2, <2>7, <3>1 DEF ProgressInv
    <3>3. \A t \in Txs : future'[t] = "suspended" => inflight_requests[t] # 0
      BY <2>2, <2>7 DEF ProgressInv
    <3>4. \A t \in Txs : run'[t] = "awaiting" /\ outer[t] = Page => future'[t] \in Alive
      BY <2>2, <2>3, <2>4, <2>7 DEF ProgressInv
    <3> QED
      BY <2>1, <3>2, <3>3, <3>4 DEF ProgressInv, InFlight
  <2> QED
    BY <2>5, <2>6, <2>7
<1>7. ASSUME NEW h \in Txs, Request(h)
      PROVE  ProgressInv'
  <2>1. Top \in Txs
    BY <1>7, TopFacts DEF Request, Sendable, Polling, TypeOK
  <2>2. \A r \in InFlight' : live[home'[r]] \in {"active", "inactive", "aborted"}
    BY <1>7, <2>1 DEF Request, ProgressInv, InFlight, CURRENT, TypeOK
  <2>3. \A t \in Txs : inflight_requests[t] # 0 => inflight_requests'[t] # 0
    BY <1>7, <2>1 DEF Request, CURRENT, TypeOK
  <2> QED
    BY <1>7, <2>2, <2>3 DEF Request, ProgressInv
<1>8. CASE PollBroken \/ UseFreed \/ \E h \in Txs : RequestInactive(h)
  BY <1>1, <1>8 DEF PollBroken, UseFreed, RequestInactive, Sendable
<1>9. CASE TaskEnds
  BY <1>9 DEF TaskEnds, ProgressInv, InFlight, TypeOK
<1>10. ASSUME NEW r \in Reqs, Fire(r) \/ FireThrows(r)
       PROVE  ProgressInv'
  <2>1. owner[r] \in Txs /\ stack = << >> /\ Len(stack) = 0
    BY <1>10, EmptySeq DEF Fire, FireThrows, AtRest, Due, InFlight, TypeOK
  <2>2. future' = [future EXCEPT ![owner[r]] = "polled"]
        \/ future' = [future EXCEPT ![owner[r]] = "trapped"]
    <3>1. Polled(r) # stack
      BY <2>1, PushFacts DEF Polled, TypeOK
    <3> QED
      BY <1>10, <3>1 DEF Fire, FireThrows
  <2>3. \A q \in InFlight' : q \in InFlight /\ home[q] \in Txs /\ q \in Reqs
    <3>1. owner' = [owner EXCEPT ![r] = Page]
      BY <1>10 DEF Fire, FireThrows
    <3> QED
      BY <3>1 DEF InFlight, TypeOK
  <2>4. \A q \in InFlight' : live'[home'[q]] \in {"active", "inactive", "aborted"}
    <3>1. home' = home /\ (\/ live' = [live EXCEPT ![home[r]] = "active"]
                          \/ live' = [live EXCEPT ![home[r]] = "aborted"])
      BY <1>10 DEF Fire, FireThrows
    <3>2. live \in [Txs -> {"none", "active", "inactive", "committed", "aborted"}]
      BY DEF TypeOK
    <3> SUFFICES ASSUME NEW q \in InFlight'
                 PROVE  live'[home[q]] \in {"active", "inactive", "aborted"}
      BY <3>1
    <3>3. home[q] \in Txs /\ live[home[q]] \in {"active", "inactive", "aborted"}
      BY <2>3 DEF ProgressInv
    <3> QED
      BY <3>1, <3>2, <3>3
  <2>5. \A t \in Txs : t # owner[r] => inflight_requests'[t] = inflight_requests[t]
    BY <1>10 DEF Fire, FireThrows, Uncounted, TypeOK
  <2>6. UNCHANGED << run, outer, ahead >>
    BY <1>10 DEF Fire, FireThrows
  <2> QED
    <3>1. \A t \in Txs : future'[t] = "suspended" => inflight_requests'[t] # 0
      <4> SUFFICES ASSUME NEW t \in Txs, future'[t] = "suspended"
                   PROVE  inflight_requests'[t] # 0
        OBVIOUS
      <4>1. t # owner[r] /\ future[t] = "suspended"
        BY <2>1, <2>2 DEF TypeOK
      <4> QED
        BY <2>5, <4>1 DEF ProgressInv
    <3>2. \A t \in Txs : future[t] \in Alive => future'[t] \in Alive
      BY <2>1, <2>2 DEF TypeOK, Alive
    <3> QED
      BY <2>4, <2>6, <3>1, <3>2 DEF ProgressInv
<1>11. ASSUME NEW t \in Txs, Commit(t)
       PROVE  ProgressInv'
  <2>1. \A r \in InFlight : live'[home[r]] = live[home[r]]
    BY <1>11 DEF Commit, InFlight, TypeOK
  <2> QED
    BY <1>11, <2>1 DEF Commit, ProgressInv, InFlight
<1>12. CASE UNCHANGED vars
  BY <1>12 DEF vars, ProgressInv, InFlight
<1> QED
  BY <1>2, <1>3, <1>4, <1>5, <1>6, <1>7, <1>8, <1>9, <1>10, <1>11, <1>12
  DEF Next, Callback, Browser, PageTask

LEMMA LeastExists ==
  ASSUME NEW S \in SUBSET Nat, S # {}
  PROVE  \E m \in S : \A k \in S : m <= k
<1> DEFINE R == OpToRel(<, Nat)
<1>1. IsWellFoundedOn(R, Nat)
  BY NatLessThanWellFounded, Zenon
<1>2. \A x, y \in Nat : y < x => << y, x >> \in R
  BY DEF OpToRel
<1> HIDE DEF R
<1>3. PICK m \in S : \A y \in S : << y, m >> \notin R
  BY <1>1, WFMin
<1>4. m \in Nat /\ \A k \in S : k \in Nat /\ ~(k < m)
  BY <1>2, <1>3, Zenon
<1> QED
  BY <1>4

(* The oldest request in flight of a transaction that has started, or was   *)
(* aborted, is due.                                                         *)
LEMMA OldestIsDue ==
  ASSUME TypeInv, NEW t \in Txs, Started(t) \/ live[t] = "aborted",
         NEW q \in InFlight, home[q] = t
  PROVE  \E r \in Reqs : r \in Due /\ home[r] = t
<1> DEFINE Q == {r \in InFlight : home[r] = t}
<1>1. Q \in SUBSET Nat /\ Q # {}
  BY MaxReqsAssumption DEF InFlight
<1>2. PICK r \in Q : \A k \in Q : r <= k
  BY <1>1, LeastExists
<1> QED
  BY <1>2 DEF Due, InFlight

LEMMA ProgressMeansNoDeadlock ==
  ASSUME TypeInv, StructInv, ProgressInv
  PROVE  NoDeadlock
<1> SUFFICES ASSUME AtRest, ~shared, NEW t \in Txs,
                    t \in Open \/ (run[t] = "awaiting" /\ ~Stranded(t))
             PROVE  (\E r \in Reqs : Answerable(r)) \/ (\E u \in Txs : Finished(u))
  BY DEF NoDeadlock
<1>1. CASE Open # {}
  <2>1. PICK l \in Open : \A u \in Open : l <= u
    <3>1. Open \in SUBSET Nat
      BY MaxTxsAssumption DEF Open
    <3> QED
      BY <1>1, <3>1, LeastExists
  <2>2. l \in Txs /\ live[l] = "inactive"
    BY DEF Open, AtRest
  <2>3. Started(l)
    <3>1. ASSUME NEW u \in ahead[l] \cap Open
          PROVE  FALSE
      BY <2>1, <2>2, <3>1 DEF ProgressInv, Open
    <3> QED
      BY <3>1 DEF Started
  <2>4. CASE \A r \in InFlight : home[r] # l
    BY <2>2, <2>3, <2>4 DEF Finished
  <2>5. ASSUME NEW q \in InFlight, home[q] = l
        PROVE  \E r \in Reqs : Answerable(r)
    BY <2>2, <2>3, <2>5, OldestIsDue DEF Answerable
  <2> QED
    BY <2>4, <2>5
<1>2. CASE Open = {}
  <2>1. future[t] = "suspended"
    <3>1. OnStack = {}
      BY EmptySeq DEF AtRest, OnStack
    <3>2. run[t] = "awaiting" /\ ~Stranded(t)
      BY <1>2
    <3>3. future[t] \in Alive
      BY <3>2 DEF Stranded, ProgressInv, StructInv, RunInv, TypeInv, TypeOK, Alive
    <3> QED
      BY <3>1, <3>2, <3>3 DEF Stranded, StructInv, StackInv, Alive
  <2>2. PICK q \in Awaits(t) : TRUE
    <3>1. Cardinality(Awaits(t)) # 0
      BY <2>1 DEF ProgressInv, TypeInv, CountsOwn
    <3> QED
      BY <3>1, FS_EmptySet
  <2>3. q \in InFlight /\ home[q] = t
    BY <2>2 DEF Awaits, InFlight, StructInv, RequestInv
  <2>4. live[t] = "aborted"
    BY <1>2, <2>3 DEF ProgressInv, Open
  <2> QED
    BY <2>3, <2>4, OldestIsDue DEF Answerable
<1> QED
  BY <1>1, <1>2

----------------------------------------------------------------------------
(* The theorems.                                                            *)

IInv == TypeInv /\ StructInv /\ SentInv /\ LiveInv

LEMMA Inductive == Spec => []IInv
<1>1. Init => IInv
  BY TypeInit, StructInit, SentInit, LiveInit DEF IInv
<1>2. IInv /\ [Next]_vars => IInv'
  BY TypeStep, StructStep, SentStep, LiveStep DEF IInv
<1> QED
  BY <1>1, <1>2, PTL DEF Spec

(* Every variable keeps its type: no counter goes below zero, and no request *)
(* is counted by something that is not a transaction.                        *)
THEOREM TypeCorrect == Spec => []TypeOK
<1>1. IInv => TypeOK
  BY DEF IInv, TypeInv
<1> QED
  BY <1>1, Inductive, PTL

(* However polls are nested and futures are passed between callbacks, every *)
(* transaction counts exactly the requests whose events will poll it.       *)
THEOREM CountersAreExact == Spec => []CountsOwn
<1>1. IInv => CountsOwn
  BY DEF IInv, TypeInv
<1> QED
  BY <1>1, Inductive, PTL

(* The browser accepts the requests of every callback that is being polled, *)
(* nested ones included, as long as no future is shared.                    *)
THEOREM PolledWhileActive == Spec => []ActiveWhenPolled
<1>1. IInv => ActiveWhenPolled
  BY DEF IInv, LiveInv
<1> QED
  BY <1>1, Inductive, PTL

(* Nothing commits whose callback has not returned Ok, but for transactions *)
(* in which nothing was ever sent: whatever traps, in an event handler or   *)
(* in a task of the page, and as long as no future is shared.               *)
THEOREM OnlyWholeTransactionsCommit == Spec => []CommitsWhole
<1>1. IInv => CommitsWhole
  BY DEF IInv, LiveInv
<1> QED
  BY <1>1, Inductive, PTL

(* An inner transaction that had to be waited for never commits.            *)
THEOREM NestingIsRefused == Spec => []NestedNeverCommits
<1>1. IInv => NestedNeverCommits
  <2> SUFFICES ASSUME IInv, ~shared, NEW t \in waited, live[t] = "committed"
               PROVE  FALSE
    BY DEF NestedNeverCommits
  <2>1. t \in Txs /\ run[t] # "Ok" /\ Sent(t)
    BY DEF IInv, TypeInv, TypeOK, StructInv, WaitedInv, SentInv
  <2>2. run[t] = "Ok" \/ ~Sent(t)
    BY <2>1 DEF IInv, LiveInv, CommitsWhole, Sent
  <2> QED
    BY <2>1, <2>2
<1> QED
  BY <1>1, Inductive, PTL

(* An Ok is never followed by an abort, and with an error nothing commits,  *)
(* as long as no future is shared.                                          *)
THEOREM AnswersHold == Spec => []AnswersAreTrue
<1>1. Init => AnswersAreTrue
  BY DEF Init, AnswersAreTrue
<1>2. IInv /\ AnswersAreTrue /\ [Next]_vars => AnswersAreTrue'
  BY AnswersStep DEF IInv
<1> QED
  BY <1>1, <1>2, Inductive, PTL DEF Spec

(* Nested runs and transactions that wait for one another never wait in a   *)
(* circle, for any number of transactions and requests.                     *)
THEOREM DeadlockFree == Spec => []NoDeadlock
<1>1. Init => ProgressInv
  BY DEF Init, ProgressInv, InFlight
<1>2. IInv /\ ProgressInv /\ [Next]_vars => ProgressInv'
  BY ProgressStep DEF IInv
<1>3. IInv /\ ProgressInv => NoDeadlock
  BY ProgressMeansNoDeadlock DEF IInv
<1> QED
  BY <1>1, <1>2, <1>3, Inductive, PTL DEF Spec
=============================================================================
