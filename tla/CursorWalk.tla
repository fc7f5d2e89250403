----------------------------- MODULE CursorWalk -----------------------------
(***************************************************************************)
(* A cursor (src/cursor.rs) over an object store or its index, walked by a  *)
(* callback that goes on using the store in between, or in another branch   *)
(* of a join!.                                                              *)
(*                                                                          *)
(* A step is sent in the first poll of its future, and the browser then     *)
(* finds the entry the step leads to; the cursor gets there with the event. *)
(* All steps share one IdbRequest.  While the future of a step exists it    *)
(* holds the Cursor by &mut: no other method can be called.  A future may   *)
(* be dropped in flight.                                                    *)
(***************************************************************************)
EXTENDS StoreReads

VARIABLES
  source,      \* store or index
  direction,   \* as given to the browser
  query,       \* CursorBuilder::query, an IDBKeyRange
  keyOnly,     \* opened by open_key
  sys,         \* Cursor::sys; unopened before there is a Cursor
  position,    \* the entry the cursor is at
  flight,      \* the event of open or of a step: awaited, or its future is dropped
  target,      \* the entry this event leads to, or Nowhere
  attached     \* the store and index the cursor was opened on still exist

(* What the properties remember of the walk.                                *)
VARIABLES
  asked,       \* the direction and the range the callback asked for
  seen,        \* records the walk has come by and that were not written since
  unseen       \* records it has still to come by, while it skips nothing

configVars == << source, direction, query, keyOnly, asked >>
cursorVars == << configVars, sys, position, flight, target, attached, seen, unseen >>
vars == << storeVars, cursorVars >>

Directions == {"Next", "NextUnique", "Prev", "PrevUnique"}

Nowhere == [key |-> 0, primary |-> 0]

EntryType == [key : Nat, primary : Nat]

TypeOK ==
  /\ StoreTypeOK
  /\ source \in {"store", "index"}
  /\ direction \in {"next", "nextunique", "prev", "prevunique"}
  /\ keyOnly \in BOOLEAN
  /\ sys \in {"unopened", "Some", "None"}
  /\ position \in EntryType /\ target \in EntryType
  /\ flight \in {"none", "awaited", "stale"}
  /\ attached \in BOOLEAN
  /\ asked \in [direction : Directions, range : RustRange]
  /\ query = IF asked.range = Everything THEN AllKeys ELSE KeyRangeOf(asked.range)
  /\ seen \subseteq Keys /\ unseen \subseteq Keys

Init ==
  /\ StoreInit
  /\ source = "store" /\ direction = "next" /\ query = AllKeys /\ keyOnly = FALSE
  /\ asked = [direction |-> "Next", range |-> Everything]
  /\ sys = "unopened" /\ flight = "none" /\ attached = TRUE
  /\ position = Nowhere /\ target = Nowhere
  /\ seen = {} /\ unseen = {}

----------------------------------------------------------------------------
(* How the browser iterates.                                                *)

Forward(dir) == dir \in {"next", "nextunique"}
Unique(dir)  == dir \in {"nextunique", "prevunique"}

(* The cursor comes to a before it comes to b.                              *)
Nearer(dir, a, b) == IF Forward(dir) THEN Before(a, b) ELSE Before(b, a)

(* A unique cursor leaves the key it is at, and of each key it shows the    *)
(* record with the lowest primary key, whatever its direction.              *)
Beyond(dir, p, e) ==
  \/ p = Nowhere
  \/ Nearer(dir, p, e) /\ (Unique(dir) => e.key # p.key)

Candidates(src, dir, range, p) ==
  LET all == Entries(src)
  IN {e \in all : /\ InKeyRange(range, e.key)
                  /\ Beyond(dir, p, e)
                  /\ Unique(dir) => \A f \in all : f.key = e.key => f.primary >= e.primary}

(* t is the n-th of the entries, or there are too few of them.              *)
IsNth(dir, entries, n, t) ==
  \/ t \in entries /\ Cardinality({f \in entries : Nearer(dir, f, t)}) = n - 1
  \/ t = Nowhere /\ Cardinality(entries) < n

Here == Candidates(source, direction, query, position)

----------------------------------------------------------------------------
(* The future of open, or of a step, is polled for the first time: the      *)
(* request is with the browser, its handlers are installed.                 *)

(* Records that a visit of t makes pass by.                                 *)
PassedAt(src, wish, t) ==
  {e.primary : e \in {f \in Entries(src) :
     f = t \/ (wish.direction \in {"NextUnique", "PrevUnique"} /\ f.key = t.key)}}

Sent(t) ==
  /\ flight' = "awaited"
  /\ target' = t
  /\ answer' = "none" /\ method' = "none"
  /\ UNCHANGED << schemaVars, records, tx, calls >>

(* Mutant: plain directions are taken for unique ones.                      *)
to_sys_unique(d) == IF d \in {"Next", "NextUnique"} THEN "nextunique" ELSE "prevunique"
(* Mutant: unique directions are taken for plain ones.                      *)
to_sys_plain(d) == IF d \in {"Next", "NextUnique"} THEN "next" ELSE "prev"
(* Mutant: the two plain directions are swapped.                            *)
to_sys_swapped(d) ==
  [Next |-> "prev", NextUnique |-> "nextunique", Prev |-> "next", PrevUnique |-> "prevunique"][d]

to_sys(d) ==
  [Next |-> "next", NextUnique |-> "nextunique", Prev |-> "prev", PrevUnique |-> "prevunique"][d]

(* Mutant: `range` forgets what it made.                                    *)
QueryForgotten(range) == AllKeys

Query(range) == KeyRangeOf(range)

(* cursor().range(..).direction(..), then open or open_key.                 *)
OpenCursor(src, dir, ranged, range, only) ==
  /\ Idle /\ sys = "unopened" /\ flight = "none"
  /\ LET made == IF ranged THEN Query(range) ELSE AllKeys
         wish == [direction |-> dir, range |-> IF ranged THEN range ELSE Everything]
         refusal == IF ranged THEN RangeError(range) ELSE "none"
         variant == SourceAnswer(src, map_open_cursor_err, refusal, "none")
     IN IF variant # "Ok"
        THEN Refused("open", variant) /\ UNCHANGED cursorVars
        ELSE \E t \in Entries(src) \cup {Nowhere} :
               /\ IsNth(to_sys(dir), Candidates(src, to_sys(dir), made, Nowhere), 1, t)
               /\ Sent(t)
               /\ source' = src /\ direction' = to_sys(dir) /\ query' = made
               /\ keyOnly' = only /\ asked' = wish
               /\ seen' = PassedAt(src, wish, t)
               /\ unseen' = {e.primary : e \in {f \in Entries(src) :
                                                RustContains(wish.range, f.key)}}
                              \ PassedAt(src, wish, t)
               /\ UNCHANGED << sys, position, attached >>

(* The event fires and the future ends: null means that the walk is over.   *)
(* Mutant: the result is not tested for null.                               *)
NullIgnored == "Some"

SysAfter == IF target = Nowhere THEN "None" ELSE "Some"

Arrive ==
  /\ Idle /\ flight = "awaited"
  /\ sys' = SysAfter
  /\ position' = IF target = Nowhere /\ sys' = "None" THEN position ELSE target
  /\ flight' = "none"
  /\ answer' = "Ok"
  /\ UNCHANGED << schemaVars, records, tx, method, calls, configVars, target, attached, seen,
                  unseen >>

(* The future is dropped while its event is due.                            *)
DropStep ==
  /\ Idle /\ flight = "awaited"
  /\ flight' = "stale"
  /\ UNCHANGED << storeVars, configVars, sys, position, target, attached, seen, unseen >>

(* The event finds a closure that is gone, and the transaction aborts.      *)
FireStale ==
  /\ Idle /\ flight = "stale"
  /\ tx' = "aborted"
  /\ flight' = "none"
  /\ UNCHANGED << schemaVars, records, answer, method, calls, configVars, sys, position, target,
                  attached, seen, unseen >>

----------------------------------------------------------------------------
(* Steps.                                                                   *)

(* The cursor can be used: its last step is answered, or nobody waits.      *)
Usable == Idle /\ sys # "unopened" /\ flight # "awaited"

(* The exceptions of every step: the source is gone, or the browser has not *)
(* got the cursor's next value yet.                                         *)
StepThrows == IF ~attached \/ flight = "stale" THEN "InvalidStateError" ELSE "none"

(* Mutant: the exception is not propagated, and the handlers installed.     *)
ThrowIgnored(table, error, entries, n, plain) ==
  /\ Usable
  /\ IF sys = "None" THEN Refused("advance", "CursorCompleted") /\ UNCHANGED cursorVars
     ELSE IF error # "none" /\ flight = "stale"
     THEN Sent(target) /\ UNCHANGED << configVars, sys, position, attached, seen, unseen >>
     ELSE IF error # "none" THEN Refused("advance", Mapped(table, error)) /\ UNCHANGED cursorVars
     ELSE \E t \in entries \cup {Nowhere} :
            /\ IsNth(direction, entries, n, t)
            /\ Sent(t)
            /\ seen' = seen \cup PassedAt(source, asked, t)
            /\ unseen' = IF plain THEN unseen \ PassedAt(source, asked, t) ELSE {}
            /\ UNCHANGED << configVars, sys, position, attached >>

(* A step to the n-th of the entries.  A plain one skips nothing.           *)
Step(table, error, entries, n, plain) ==
  /\ Usable
  /\ IF sys = "None" THEN Refused("advance", "CursorCompleted") /\ UNCHANGED cursorVars
     ELSE IF error # "none" THEN Refused("advance", Mapped(table, error)) /\ UNCHANGED cursorVars
     ELSE \E t \in entries \cup {Nowhere} :
            /\ IsNth(direction, entries, n, t)
            /\ Sent(t)
            /\ seen' = seen \cup PassedAt(source, asked, t)
            /\ unseen' = IF plain THEN unseen \ PassedAt(source, asked, t) ELSE {}
            /\ UNCHANGED << configVars, sys, position, attached >>

Advance(count) ==
  Step(map_cursor_advance_err, IF count = 0 THEN "TypeError" ELSE StepThrows,
       Here, count, count = 1)

(* continue: the key must lie ahead.  Without a key it is a step by one.    *)
AdvanceUntil(k) ==
  LET error == IF StepThrows # "none" THEN StepThrows
               ELSE IF k = NoKey THEN "none"
               ELSE IF k = BadKey \/ k = position.key
                       \/ (Forward(direction) <=> k < position.key) THEN "DataError"
               ELSE "none"
      ahead == {e \in Here :
                  k = NoKey \/ (IF Forward(direction) THEN e.key >= k ELSE e.key <= k)}
  IN Step(map_cursor_advance_until_err, error, ahead, 1, k = NoKey)

AdvanceUntilPrimaryKey(k, p) ==
  LET goal  == [key |-> k, primary |-> p]
      error == IF ~attached THEN "InvalidStateError"
               ELSE IF source # "index" \/ Unique(direction) THEN "InvalidAccessError"
               ELSE IF StepThrows # "none" THEN StepThrows
               ELSE IF k = BadKey \/ p = BadKey \/ ~Nearer(direction, position, goal)
               THEN "DataError"
               ELSE "none"
      ahead == {e \in Here : ~Nearer(direction, e, goal)}
  IN Step(map_cursor_advance_until_primary_key_err, error, ahead, 1, FALSE)

----------------------------------------------------------------------------
(* Requests that change records, and what they mean for a cursor.           *)

Unopened == sys = "unopened" /\ flight = "none"

(* A record that is written no longer counts as seen or still to be seen,   *)
(* and a cursor does not outlive its store and index.                       *)
StoreChanges ==
  LET same == {k \in Keys : records'[k] = records[k]}
  IN /\ seen' = seen \cap same /\ unseen' = unseen \cap same
     /\ attached' = (/\ attached
                     /\ store' = store
                     /\ ~Unopened /\ source = "index" => index' = index)
     /\ UNCHANGED << configVars, sys, position, flight, target >>

(* delete and update borrow the cursor and change the record it is at.      *)
CursorWriteThrows ==
  IF mode = "readonly" THEN "ReadOnlyError"
  ELSE IF StepThrows # "none" \/ keyOnly THEN "InvalidStateError"
  ELSE "none"

DeleteHere ==
  /\ Usable
  /\ IF sys = "None" THEN Refused("cursor_delete", "CursorCompleted")
     ELSE Request("cursor_delete", map_cursor_delete_err, CursorWriteThrows,
                  Without({position.primary}))
  /\ StoreChanges

(* An update of a record that was deleted brings it back.                   *)
UpdateHere(v) ==
  /\ Usable
  /\ IF sys = "None" THEN Refused("cursor_update", "CursorCompleted")
     ELSE LET error == IF CursorWriteThrows # "none" THEN CursorWriteThrows
                       ELSE IF v = Unclonable THEN "DataCloneError"
                       ELSE IF Clashes(position.primary, v) THEN "ConstraintError"
                       ELSE "none"
          IN Request("cursor_update", map_cursor_update_err, error, With(position.primary, v))
  /\ StoreChanges

----------------------------------------------------------------------------
Opens == \E src \in {"store", "index"}, dir \in Directions, only \in BOOLEAN,
           ranged \in BOOLEAN, range \in ArgRanges : OpenCursor(src, dir, ranged, range, only)

Walk ==
  \/ \E count \in 0 .. 2 : Advance(count)
  \/ \E k \in {NoKey} \cup ArgKeys : AdvanceUntil(k)
  \/ \E k, p \in ArgKeys : AdvanceUntilPrimaryKey(k, p)

Edit == DeleteHere \/ \E v \in ArgValues : UpdateHere(v)

(* Bound: while a cursor is open, the other calls are those that change     *)
(* something; a refused one would leave the cursor as it is.                *)
Next ==
  \/ Unopened /\ (StoreNext \/ Reads) /\ StoreChanges
  \/ ~Unopened /\ calls < MaxCalls /\ StoreNext /\ calls' # calls /\ StoreChanges
  \/ Resume /\ UNCHANGED cursorVars
  \/ Opens \/ Arrive \/ DropStep \/ FireStale
  \/ Walk \/ Edit

Spec == Init /\ [][Next]_vars

----------------------------------------------------------------------------
(* Cursor::key and primary_key, as a set with at most one entry.            *)
CursorEntry == IF sys = "Some" THEN {position} ELSE {}

(* A cursor only ever stands at a key of the range it was asked for, in the *)
(* reading of RangeBounds::contains; with an event that says null it stands *)
(* nowhere (CursorBuilder::range, src/cursor.rs:113, Cursor::advance).      *)
WithinRange == \A e \in CursorEntry : RustContains(asked.range, e.key)

(* It moves in the direction it was asked for, whatever was written or      *)
(* deleted in between, and a Unique one leaves the key it is at.            *)
WalksInOrder ==
  [][\A from \in CursorEntry : position' # from =>
       /\ IF asked.direction \in {"Next", "NextUnique"} THEN Before(from, position')
                                                       ELSE Before(position', from)
       /\ asked.direction \in {"NextUnique", "PrevUnique"} => position'.key # from.key]_vars

(* When a walk that skips nothing is told that it is over, it has come by   *)
(* every record of the range that was there from the start and that nobody  *)
(* has written since.                                                       *)
NothingMissed ==
  sys = "None" \/ (flight = "awaited" /\ target = Nowhere) => unseen = {}

(* No step leads to a record the cursor has come by before, unless it was   *)
(* written again meanwhile; under a Unique direction that includes the      *)
(* records that share a key with one it has shown.                          *)
VisitsOnce ==
  [][flight' = "awaited" /\ flight # "awaited" /\ target' # Nowhere
       => target'.primary \notin seen]_vars

(* All steps of a cursor are answered through one IdbRequest.  The event of *)
(* a step whose future was dropped is never taken for the answer to a later *)
(* one: it aborts the transaction (src/cursor.rs:188-196).                  *)
DroppedStepAborts ==
  [][flight = "stale" /\ flight' # "stale" => tx' = "aborted"]_vars

(* Whatever arguments the callback gives to a request, and whatever schema  *)
(* it gives them on, a call panics over an error of the browser for only    *)
(* three reasons, each a case that the method's own table lacks: `clear` of *)
(* a removed store (src/utils.rs:83), a cursor's `update` with the index    *)
(* key of another record in a unique index (src/utils.rs:194), and the      *)
(* `create` of an object store under a malformed key path                   *)
(* (src/factory.rs:300).                                                    *)
PanicsOnlyOnUnmapped ==
  [][tx = "live" /\ tx' = "panicked" =>
       \/ method' = "clear" /\ store = "removed"
       \/ method' = "key_path" /\ mode = "versionchange"
       \/ /\ method' = "cursor_update" /\ mode # "readonly"
          /\ sys = "Some" /\ index = "unique"
          /\ \E j \in Present \ {position.primary} : records[j] \in Values]_vars

----------------------------------------------------------------------------
(* What a range reaches depends on the records alone; it is asked where     *)
(* they have just changed, or not yet, and no cursor is open.               *)
Settled == Idle /\ Unopened

(* A range reaches exactly the records whose keys Rust says it contains, in *)
(* whichever of the nine forms it is written; one that is refused for lack  *)
(* of keys between its bounds contains none in Rust either                  *)
(* (make_key_range, src/utils.rs:207).                                      *)
RangesAsInRust ==
  Settled => \A src \in {"store", "index"} : \A range \in Ranges(Keys) \ {Everything} :
    LET meant == {e \in Entries(src) : RustContains(range, e.key)}
    IN IF RangeError(range) = "none"
       THEN Found(src, KeyRangeOf(range)) = meant
       ELSE meant = {}
=============================================================================
