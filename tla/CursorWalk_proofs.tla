-------------------------- MODULE CursorWalk_proofs --------------------------
(***************************************************************************)
(* Theorems about CursorWalk, for any number of keys, values and calls, and *)
(* for any ranges the callback may give.                                    *)
(***************************************************************************)
EXTENDS CursorWalk, StoreReads_proofs, FiniteSetTheorems, WellFoundedInduction, TLAPS

USE DEF schemaVars, storeVars, configVars, cursorVars

----------------------------------------------------------------------------
(* What the tables of errors answer.                                        *)

Names == { "InvalidStateError", "ReadOnlyError", "DataError", "DataCloneError",
           "ConstraintError", "NotFoundError", "TypeError", "InvalidAccessError",
           "SyntaxError" }

(* Every answer to an error of the browser is one of the known answers.     *)
LEMMA NoneIsDefault ==
  ASSUME NEW table, NEW name \in Names
  PROVE  Mapped(table, name) = IF name \in DOMAIN table THEN table[name] ELSE "panic"
<1>1. name \notin DOMAIN from_dom_exception
  BY DEF Names, from_dom_exception
<1> QED
  BY <1>1 DEF Mapped

LEMMA WriteTables ==
  \A name \in Names :
    /\ Mapped(map_add_err, name) \in Answers
    /\ Mapped(map_clear_err, name) \in Answers
    /\ Mapped(map_delete_err, name) \in Answers
    /\ Mapped(map_cursor_delete_err, name) \in Answers
    /\ Mapped(map_cursor_update_err, name) \in Answers
BY NoneIsDefault DEF Names, Answers, map_add_err, map_clear_err, map_delete_err,
   map_cursor_delete_err, map_cursor_update_err

LEMMA UpgradeTables ==
  \A name \in Names :
    /\ Mapped(index_err, name) \in Answers
    /\ Mapped(create_index_err, name) \in Answers
    /\ Mapped(delete_store_err, name) \in Answers
    /\ Mapped(create_store_err, name) \in Answers
BY NoneIsDefault DEF Names, Answers, index_err, create_index_err, delete_store_err,
   create_store_err

LEMMA ReadTables ==
  \A name \in Names :
    /\ Mapped(map_count_err, name) \in Answers
    /\ Mapped(map_get_err, name) \in Answers
    /\ Mapped(map_open_cursor_err, name) \in Answers
    /\ Mapped(map_cursor_advance_err, name) \in Answers
    /\ Mapped(map_cursor_advance_until_err, name) \in Answers
    /\ Mapped(map_cursor_advance_until_primary_key_err, name) \in Answers
BY NoneIsDefault DEF Names, Answers, map_count_err, map_get_err, map_open_cursor_err,
   map_cursor_advance_err, map_cursor_advance_until_err,
   map_cursor_advance_until_primary_key_err

LEMMA LeastExists ==
  ASSUME NEW S \in SUBSET Nat, S # {}
  PROVE  \E m \in S : \A k \in S : m <= k
<1> DEFINE R == OpToRel(<, Nat)
<1>1. IsWellFoundedOn(R, Nat)
  BY NatLessThanWellFounded, Zenon
<1>2. \A x, y \in Nat : y < x => << y, x >> \in R
  BY DEF OpToRel
<1> HIDE DEF R
<1>3. PICK m \in S : \A y \in S : << y, m >> \notin R
  BY <1>1, WFMin
<1>4. m \in Nat /\ \A k \in S : k \in Nat /\ ~(k < m)
  BY <1>2, <1>3, Zenon
<1> QED
  BY <1>4

----------------------------------------------------------------------------
(* The requests of a callback.                                              *)

LEMMA RefusedType ==
  ASSUME StoreTypeOK, NEW m \in Methods, NEW variant \in Answers, Refused(m, variant)
  PROVE  StoreTypeOK' /\ tx' \in {tx, "panicked"} /\ UNCHANGED << schemaVars, records, calls >>
BY DEF StoreTypeOK, Refused

LEMMA RequestType ==
  ASSUME StoreTypeOK, NEW m \in Methods, NEW table, NEW error, NEW after,
         Request(m, table, error, after),
         error \in Names => Mapped(table, error) \in Answers,
         error \in Names \cup {"none"},
         error = "none" => after \in [Keys -> {Absent} \cup Stored]
  PROVE  StoreTypeOK'
<1>1. CASE error # "none"
  BY <1>1, RefusedType DEF Request
<1>2. CASE error = "none"
  <2>1. calls' \in 0 .. MaxCalls
    BY <1>2, MaxCallsAssumption DEF Request, Accepted, StoreTypeOK
  <2> QED
    BY <1>2, <2>1 DEF Request, Accepted, StoreTypeOK, Answers
<1> QED
  BY <1>1, <1>2

LEMMA WithType ==
  ASSUME StoreTypeOK, NEW k \in Keys, NEW v \in Stored
  PROVE  With(k, v) \in [Keys -> {Absent} \cup Stored]
BY DEF StoreTypeOK, With

LEMMA WithoutType ==
  ASSUME StoreTypeOK, NEW keys
  PROVE  Without(keys) \in [Keys -> {Absent} \cup Stored]
BY DEF StoreTypeOK, Without

LEMMA WriteType ==
  ASSUME StoreTypeOK, Write
  PROVE  StoreTypeOK'
<1>1. WriteThrows \in Names \cup {"none"}
  BY DEF WriteThrows, Names
<1>2. ASSUME NEW k \in ArgKeys, NEW v \in ArgValues
      PROVE  /\ PutThrows(k, v) \in Names \cup {"none"}
             /\ PutThrows(k, v) = "none" => k \in Keys /\ v \in Stored
  BY <1>1 DEF PutThrows, Names, ArgKeys, ArgValues
<1>3. ASSUME NEW m \in Methods, NEW k \in ArgKeys, NEW v \in ArgValues, Put(m, k, v)
      PROVE  StoreTypeOK'
  <2>1. PutError(k, v) \in Names \cup {"none"} /\ (PutError(k, v) = "none" => k \in Keys /\ v \in Stored)
    BY <1>2 DEF PutError, Names
  <2> QED
    BY <1>3, <2>1, RequestType, WriteTables, WithType DEF Put
<1>4. ASSUME NEW k \in ArgKeys, NEW v \in ArgValues, AddKv(k, v) PROVE StoreTypeOK'
  <2>1. AddError(k, v) \in Names \cup {"none"} /\ (AddError(k, v) = "none" => k \in Keys /\ v \in Stored)
    BY <1>2 DEF AddError, Names
  <2> QED
    BY <1>4, <2>1, RequestType, WriteTables, WithType DEF AddKv, Methods
<1>5. ASSUME NEW v \in ArgValues, AddOrPut(v) PROVE StoreTypeOK'
  <2>1. BadKey \in ArgKeys /\ Fresh \subseteq ArgKeys /\ MaxKey \in ArgKeys /\ "add" \in Methods
    BY MaxKeyAssumption DEF ArgKeys, Fresh, Keys, Methods
  <2>2. CASE ~AutoIncrement
    BY <1>3, <1>5, <2>1, <2>2 DEF AddOrPut
  <2>3. CASE \E k \in Fresh : Put("add", k, v)
    BY <1>3, <2>1, <2>3
  <2> DEFINE error == IF PutThrows(MaxKey, v) = "none" THEN "ConstraintError"
                      ELSE PutThrows(MaxKey, v)
  <2>4. CASE Request("add", map_add_err, error, records)
    <3>1. error \in Names
      BY <1>2, <2>1 DEF Names
    <3>2. error # "none"
      BY <3>1 DEF Names
    <3> HIDE DEF error
    <3> QED
      BY <2>1, <2>4, <3>1, <3>2, RequestType, WriteTables
  <2> QED
    BY <1>5, <2>2, <2>3, <2>4 DEF AddOrPut
<1>6. ASSUME NEW k \in ArgKeys, Delete(k) PROVE StoreTypeOK'
  <2> DEFINE error == IF WriteThrows = "none" /\ k = BadKey THEN "DataError" ELSE WriteThrows
  <2>1. error \in Names \cup {"none"}
    BY <1>1 DEF Names
  <2>2. Request("delete", map_delete_err, error, Without({k})) /\ "delete" \in Methods
    BY <1>6 DEF Delete, Methods
  <2> HIDE DEF error
  <2> QED
    BY <2>1, <2>2, RequestType, WriteTables, WithoutType
<1>7. ASSUME NEW range \in ArgRanges, DeleteRange(range) PROVE StoreTypeOK'
  <2>1. RangeError(range) \in {"none"} \cup Answers /\ "delete_range" \in Methods
    BY DEF RangeError, Answers, Methods
  <2>2. CASE RangeError(range) # "none"
    BY <1>7, <2>1, <2>2, RefusedType DEF DeleteRange
  <2>3. CASE RangeError(range) = "none"
    BY <1>1, <1>7, <2>1, <2>3, RequestType, WriteTables, WithoutType DEF DeleteRange
  <2> QED
    BY <2>2, <2>3
<1>8. CASE Clear
  BY <1>1, <1>8, RequestType, WriteTables, WithoutType DEF Clear, Methods
<1>9. ASSUME NEW k \in ArgKeys, NEW v \in ArgValues, PutKv(k, v) PROVE StoreTypeOK'
  BY <1>3, <1>9 DEF PutKv, Methods
<1> QED
  BY <1>4, <1>5, <1>6, <1>7, <1>8, <1>9 DEF Write

LEMMA UpgradeType ==
  ASSUME StoreTypeOK, Upgrade
  PROVE  StoreTypeOK'
<1>1. ASSUME Accepted, mode' = mode, store' \in {"live", "removed"},
             index' \in {"none", "plain", "unique"},
             records' \in [Keys -> {Absent} \cup Stored], tx' \in {tx, "aborted"}
      PROVE  StoreTypeOK'
  <2>1. calls' \in 0 .. MaxCalls
    BY <1>1, MaxCallsAssumption DEF Accepted, StoreTypeOK
  <2> QED
    BY <1>1, <2>1 DEF Accepted, StoreTypeOK, Answers
<1>2. ASSUME NEW flaw \in Flaws, NEW kind \in {"plain", "unique"}, CreateIndex(kind, flaw)
      PROVE  StoreTypeOK'
  BY <1>1, <1>2, RefusedType, UpgradeTables DEF CreateIndex, StoreTypeOK, Names, Flaws, Methods
<1>3. CASE DeleteIndex
  BY <1>1, <1>3, RefusedType, UpgradeTables DEF DeleteIndex, StoreTypeOK, Names, Methods
<1>4. CASE DeleteObjectStore
  BY <1>1, <1>4, RefusedType, UpgradeTables, WithoutType
  DEF DeleteObjectStore, StoreTypeOK, Names, Methods
<1>5. ASSUME NEW flaw \in Flaws, CreateObjectStore(flaw) PROVE StoreTypeOK'
  BY <1>1, <1>5, RefusedType, UpgradeTables
  DEF CreateObjectStore, StoreTypeOK, Names, Flaws, Methods
<1> QED
  BY <1>2, <1>3, <1>4, <1>5 DEF Upgrade

LEMMA SourceAnswerType ==
  ASSUME NEW src, NEW table, NEW refusal \in {"none"} \cup Answers, NEW error \in Names \cup {"none"},
         \A name \in Names : Mapped(table, name) \in Answers
  PROVE  SourceAnswer(src, table, refusal, error) \in Answers
<1>1. IndexThrows \in {"none", "InvalidStateError", "NotFoundError"}
  BY DEF IndexThrows
<1>2. IndexThrows # "none" => Mapped(index_err, IndexThrows) \in Answers
  BY <1>1, UpgradeTables DEF Names
<1>3. Mapped(table, "InvalidStateError") \in Answers
  BY DEF Names
<1>4. error # "none" => Mapped(table, error) \in Answers
  OBVIOUS
<1>5. "Ok" \in Answers
  BY DEF Answers
<1> QED
  BY <1>2, <1>3, <1>4, <1>5 DEF SourceAnswer

LEMMA ReadsType ==
  ASSUME StoreTypeOK, Reads
  PROVE  StoreTypeOK' /\ UNCHANGED << schemaVars, records, calls >>
<1>1. PICK m \in {"count", "get"}, src \in {"store", "index"} :
        \/ ReadAll(m, src)
        \/ \E k \in {NoKey} \cup ArgKeys : ReadKey(m, src, k)
        \/ \E range \in ArgRanges : ReadRange(m, src, range)
  BY DEF Reads
<1>2. m \in Methods /\ (\A name \in Names : Mapped(ReadTable(m), name) \in Answers)
  BY ReadTables DEF Methods, ReadTable
<1>3. PICK refusal \in {"none"} \cup Answers, error \in {"none", "DataError"} :
        Refused(m, SourceAnswer(src, ReadTable(m), refusal, error))
  <2>1. \A range : RangeError(range) \in {"none"} \cup Answers
    BY DEF RangeError, Answers
  <2>2. ReadAll(m, src) => Refused(m, SourceAnswer(src, ReadTable(m), "none", "none"))
    BY DEF ReadAll
  <2>3. ASSUME NEW k, ReadKey(m, src, k)
        PROVE  \E error \in {"none", "DataError"} :
                 Refused(m, SourceAnswer(src, ReadTable(m), "none", error))
    BY <2>3 DEF ReadKey
  <2>4. ASSUME NEW range, ReadRange(m, src, range)
        PROVE  Refused(m, SourceAnswer(src, ReadTable(m), RangeError(range), "none"))
    BY <2>4 DEF ReadRange
  <2> QED
    BY <1>1, <2>1, <2>2, <2>3, <2>4
<1>4. SourceAnswer(src, ReadTable(m), refusal, error) \in Answers
  BY <1>2, SourceAnswerType DEF Names
<1> QED
  BY <1>2, <1>3, <1>4, RefusedType

----------------------------------------------------------------------------
(* The steps of the walk.  Every step of the specification is of one of the *)
(* kinds that follow, which is all that the proofs below need to know.      *)

(* A call that leaves the cursor where it is, or Resume.                    *)
Stays ==
  /\ UNCHANGED << configVars, sys, position, flight, target >>
  /\ seen' \subseteq seen /\ unseen' \subseteq unseen
  /\ \A k \in seen' \cup unseen' : records'[k] = records[k]
  /\ tx' = "live" => tx = "live"

(* The first poll of open, which finds the entry t.                         *)
Opening(src, dir, wish, t) ==
  /\ Idle /\ sys = "unopened" /\ flight = "none"
  /\ wish.range # Everything => RangeError(wish.range) = "none"
  /\ LET made == IF wish.range = Everything THEN AllKeys ELSE KeyRangeOf(wish.range)
     IN IsNth(to_sys(dir), Candidates(src, to_sys(dir), made, Nowhere), 1, t) /\ query' = made
  /\ Sent(t)
  /\ source' = src /\ direction' = to_sys(dir) /\ asked' = wish
  /\ wish.direction = dir
  /\ seen' = PassedAt(src, wish, t)
  /\ unseen' = {e.primary : e \in {f \in Entries(src) : RustContains(wish.range, f.key)}}
                 \ PassedAt(src, wish, t)
  /\ keyOnly' \in BOOLEAN
  /\ UNCHANGED << sys, position, attached >>

Opened ==
  \E src \in {"store", "index"}, dir \in Directions,
     wish \in [direction : Directions, range : RustRange] :
    \E t \in Entries(src) \cup {Nowhere} : Opening(src, dir, wish, t)

(* The first poll of a step to the n-th of the entries ahead.               *)
Stepping(entries, n, plain, t) ==
  /\ Idle /\ sys = "Some" /\ flight = "none"
  /\ entries \subseteq Here
  /\ plain => entries = Here /\ n = 1
  /\ IsNth(direction, entries, n, t)
  /\ Sent(t)
  /\ seen' = seen \cup PassedAt(source, asked, t)
  /\ unseen' = IF plain THEN unseen \ PassedAt(source, asked, t) ELSE {}
  /\ UNCHANGED << configVars, sys, position, attached >>

Stepped ==
  \E entries \in SUBSET Here, n \in Nat, plain \in BOOLEAN :
    \E t \in entries \cup {Nowhere} : Stepping(entries, n, plain, t)

Kinds == Stays \/ Opened \/ Stepped \/ Arrive \/ DropStep \/ FireStale

(* A refused call stays, and so does a request that changes records.        *)
LEMMA RefusedStays ==
  ASSUME TypeOK, NEW m \in Methods, NEW variant \in Answers, Idle, Refused(m, variant),
         UNCHANGED cursorVars
  PROVE  TypeOK' /\ Stays
<1>1. StoreTypeOK' /\ UNCHANGED << schemaVars, records, calls >>
  BY RefusedType DEF TypeOK
<1>2. TypeOK'
  BY <1>1 DEF TypeOK
<1>3. Stays
  BY <1>1 DEF Stays, Idle
<1> QED
  BY <1>2, <1>3

LEMMA ChangesStay ==
  ASSUME TypeOK, StoreTypeOK', Idle, StoreChanges
  PROVE  TypeOK' /\ Stays
<1>1. TypeOK'
  BY DEF TypeOK, StoreChanges
<1>2. Stays
  BY DEF TypeOK, StoreChanges, Stays, Idle
<1> QED
  BY <1>1, <1>2

LEMMA EntriesType ==
  ASSUME StoreTypeOK, NEW src
  PROVE  /\ \A e \in Entries(src) :
              /\ e \in EntryType /\ e # Nowhere /\ e.key \in Nat \ {0}
              /\ e.primary \in Keys /\ e = EntryOf(src, e.primary)
              /\ e.primary \in Present /\ (src = "store" \/ records[e.primary] \in Values)
         /\ \A k \in Present : src = "store" \/ records[k] \in Values
                                 => EntryOf(src, k) \in Entries(src)
         /\ \A wish, t : PassedAt(src, wish, t) \subseteq Keys
<1>1. \A k \in Present : (src = "store" \/ records[k] \in Values) =>
        /\ EntryOf(src, k).key \in Nat \ {0} /\ EntryOf(src, k).primary = k /\ k \in Keys
        /\ EntryOf(src, k) \in EntryType
  BY MaxKeyAssumption, MaxValueAssumption
  DEF Present, Keys, Values, EntryOf, EntryType
<1>2. \A e \in Entries(src) : \E k \in Present :
        e = EntryOf(src, k) /\ (src = "store" \/ records[k] \in Values)
  BY DEF Entries
<1>3. \A e \in Entries(src) :
        /\ e \in EntryType /\ e # Nowhere /\ e.key \in Nat \ {0}
        /\ e.primary \in Keys /\ e = EntryOf(src, e.primary)
        /\ e.primary \in Present /\ (src = "store" \/ records[e.primary] \in Values)
  BY <1>1, <1>2 DEF Nowhere
<1>4. \A k \in Present : src = "store" \/ records[k] \in Values
                           => EntryOf(src, k) \in Entries(src)
  BY DEF Entries
<1>5. \A wish, t : PassedAt(src, wish, t) \subseteq Keys
  BY <1>3 DEF PassedAt
<1> QED
  BY <1>3, <1>4, <1>5

LEMMA SentType ==
  ASSUME StoreTypeOK, NEW t \in EntryType, Sent(t)
  PROVE  /\ StoreTypeOK' /\ target' \in EntryType /\ flight' = "awaited"
         /\ UNCHANGED << schemaVars, records, tx, calls >>
BY DEF Sent, StoreTypeOK, Answers

LEMMA NowhereType == Nowhere \in EntryType
BY DEF Nowhere, EntryType

LEMMA OpenType ==
  ASSUME TypeOK, NEW src \in {"store", "index"}, NEW dir \in Directions, NEW ranged \in BOOLEAN,
         NEW range \in ArgRanges, NEW only \in BOOLEAN, OpenCursor(src, dir, ranged, range, only)
  PROVE  TypeOK' /\ (Stays \/ Opened)
<1> DEFINE made == IF ranged THEN Query(range) ELSE AllKeys
           wish == [direction |-> dir, range |-> IF ranged THEN range ELSE Everything]
           refusal == IF ranged THEN RangeError(range) ELSE "none"
           variant == SourceAnswer(src, map_open_cursor_err, refusal, "none")
<1>1. Idle /\ sys = "unopened" /\ flight = "none"
  BY DEF OpenCursor
<1>2. CASE variant # "Ok"
  <2>1. refusal \in {"none"} \cup Answers
    BY DEF RangeError, Answers
  <2> HIDE DEF refusal
  <2>2. variant \in Answers /\ "open" \in Methods
    BY <2>1, SourceAnswerType, ReadTables DEF Methods
  <2>3. Refused("open", variant) /\ UNCHANGED cursorVars
    BY <1>2 DEF OpenCursor, refusal
  <2> HIDE DEF variant
  <2> QED
    BY <1>1, <2>2, <2>3, RefusedStays
<1>3. CASE variant = "Ok"
  <2>0. ~(ranged /\ RangeError(range) # "none")
    <3>1. RangeError(range) # "Ok" /\ Mapped(index_err, "InvalidStateError") # "Ok"
          /\ Mapped(index_err, "NotFoundError") # "Ok"
      BY NoneIsDefault DEF RangeError, Names, index_err
    <3> QED
      BY <1>3, <3>1 DEF SourceAnswer, IndexThrows
  <2>1. PICK t \in Entries(src) \cup {Nowhere} :
          /\ IsNth(to_sys(dir), Candidates(src, to_sys(dir), made, Nowhere), 1, t)
          /\ Sent(t)
          /\ source' = src /\ direction' = to_sys(dir) /\ query' = made
          /\ keyOnly' = only /\ asked' = wish
          /\ seen' = PassedAt(src, wish, t)
          /\ unseen' = {e.primary : e \in {f \in Entries(src) :
                                           RustContains(wish.range, f.key)}}
                         \ PassedAt(src, wish, t)
          /\ UNCHANGED << sys, position, attached >>
    BY <1>3 DEF OpenCursor
  <2>2. wish \in [direction : Directions, range : RustRange]
    <3>1. Everything \in RustRange
      BY DEF Everything, RustRange, Ranges, Bounds
    <3> QED
      BY <3>1, ArgRangesAssumption
  <2>3. made = IF wish.range = Everything THEN AllKeys ELSE KeyRangeOf(wish.range)
    BY <2>0 DEF Query, RangeError
  <2>4. to_sys(dir) \in {"next", "nextunique", "prev", "prevunique"}
    BY DEF to_sys, Directions
  <2>5. t \in EntryType
    BY EntriesType, NowhereType DEF TypeOK
  <2>6. StoreTypeOK' /\ target' \in EntryType /\ flight' = "awaited"
    BY <2>1, <2>5, SentType DEF TypeOK
  <2>7. seen' \subseteq Keys /\ unseen' \subseteq Keys
    BY <2>1, EntriesType DEF TypeOK
  <2>8. wish.range # Everything => RangeError(wish.range) = "none"
    BY <2>0
  <2>9. wish.direction = dir
    OBVIOUS
  <2> HIDE DEF wish, made, refusal, variant
  <2>10. TypeOK'
    BY <2>1, <2>2, <2>3, <2>4, <2>6, <2>7 DEF TypeOK
  <2>11. Opened
    BY <1>1, <2>1, <2>2, <2>3, <2>8, <2>9 DEF Opened, Opening
  <2> QED
    BY <2>10, <2>11
<1> QED
  BY <1>2, <1>3

LEMMA StepType ==
  ASSUME TypeOK, NEW table, NEW error \in Names \cup {"none"},
         error # "none" => Mapped(table, error) \in Answers,
         error = "none" => StepThrows = "none",
         NEW entries \in SUBSET Here, NEW n \in Nat, NEW plain \in BOOLEAN,
         plain => entries = Here /\ n = 1,
         Step(table, error, entries, n, plain)
  PROVE  TypeOK' /\ (Stays \/ Stepped)
<1>1. Idle /\ sys # "unopened" /\ flight # "awaited"
  BY DEF Step, Usable
<1>2. CASE sys = "None"
  <2>1. /\ "CursorCompleted" \in Answers /\ "advance" \in Methods
        /\ Refused("advance", "CursorCompleted") /\ UNCHANGED cursorVars
    BY <1>2 DEF Step, Answers, Methods
  <2> QED
    BY <1>1, <2>1, RefusedStays
<1>3. CASE sys # "None" /\ error # "none"
  <2>1. "advance" \in Methods /\ Refused("advance", Mapped(table, error)) /\ UNCHANGED cursorVars
    BY <1>3 DEF Step, Methods
  <2> QED
    BY <1>1, <1>3, <2>1, RefusedStays
<1>4. CASE sys # "None" /\ error = "none"
  <2>1. PICK t \in entries \cup {Nowhere} :
            /\ IsNth(direction, entries, n, t)
            /\ Sent(t)
            /\ seen' = seen \cup PassedAt(source, asked, t)
            /\ unseen' = IF plain THEN unseen \ PassedAt(source, asked, t) ELSE {}
            /\ UNCHANGED << configVars, sys, position, attached >>
    BY <1>4 DEF Step
  <2>2. sys = "Some" /\ flight = "none"
    BY <1>1, <1>4 DEF TypeOK, StepThrows
  <2>3. entries \subseteq Entries(source)
    BY DEF Here, Candidates
  <2>4. t \in EntryType
    BY <2>3, EntriesType, NowhereType DEF TypeOK
  <2>5. StoreTypeOK' /\ target' \in EntryType /\ flight' = "awaited"
    BY <2>1, <2>4, SentType DEF TypeOK
  <2>6. seen' \subseteq Keys /\ unseen' \subseteq Keys
    BY <2>1, EntriesType DEF TypeOK
  <2>7. TypeOK'
    BY <2>1, <2>5, <2>6 DEF TypeOK
  <2>8. Stepping(entries, n, plain, t)
    BY <1>1, <2>1, <2>2 DEF Stepping
  <2> QED
    BY <2>7, <2>8 DEF Stepped
<1> QED
  BY <1>2, <1>3, <1>4

LEMMA EditType ==
  ASSUME TypeOK, Edit
  PROVE  TypeOK' /\ Stays
<1>1. Idle /\ Usable /\ StoreChanges
  BY DEF Edit, DeleteHere, UpdateHere, Usable
<1>2. CursorWriteThrows \in Names \cup {"none"}
  BY DEF CursorWriteThrows, Names
<1> "cursor_delete" \in Methods /\ "cursor_update" \in Methods
  BY DEF Methods
<1>3. ASSUME NEW m \in Methods, Refused(m, "CursorCompleted") PROVE TypeOK' /\ Stays
  BY <1>1, <1>3, RefusedType, ChangesStay DEF TypeOK, Answers
<1>4. CASE Request("cursor_delete", map_cursor_delete_err, CursorWriteThrows,
                   Without({position.primary}))
  BY <1>1, <1>2, <1>4, RequestType, WriteTables, WithoutType, ChangesStay DEF TypeOK
<1>5. ASSUME NEW v \in ArgValues,
             NEW error, error = (IF CursorWriteThrows # "none" THEN CursorWriteThrows
                                 ELSE IF v = Unclonable THEN "DataCloneError"
                                 ELSE IF Clashes(position.primary, v) THEN "ConstraintError"
                                 ELSE "none"),
             Request("cursor_update", map_cursor_update_err, error, With(position.primary, v))
      PROVE  TypeOK' /\ Stays
  <2>1. error \in Names \cup {"none"} /\ (error = "none" => v \in Stored)
    BY <1>2, <1>5 DEF Names, ArgValues
  <2>2. v \in Stored => With(position.primary, v) \in [Keys -> {Absent} \cup Stored]
    BY DEF With, TypeOK, StoreTypeOK
  <2> QED
    BY <1>1, <1>5, <2>1, <2>2, RequestType, WriteTables, ChangesStay DEF TypeOK
<1> QED
  BY <1>3, <1>4, <1>5 DEF Edit, DeleteHere, UpdateHere

LEMMA WalkType ==
  ASSUME TypeOK, Walk
  PROVE  TypeOK' /\ (Stays \/ Stepped)
<1>1. StepThrows \in Names \cup {"none"}
  BY DEF StepThrows, Names
<1>2. ASSUME NEW count \in 0 .. 2, Advance(count) PROVE TypeOK' /\ (Stays \/ Stepped)
  <2> DEFINE error == IF count = 0 THEN "TypeError" ELSE StepThrows
  <2>1. error \in Names \cup {"none"} /\ (error = "none" => StepThrows = "none")
    BY <1>1 DEF Names
  <2>2. Step(map_cursor_advance_err, error, Here, count, count = 1)
    BY <1>2 DEF Advance
  <2> HIDE DEF error
  <2>3. Here \in SUBSET Here /\ count \in Nat /\ (count = 1) \in BOOLEAN
    OBVIOUS
  <2> QED
    BY <2>1, <2>2, <2>3, StepType, ReadTables
<1>3. ASSUME NEW k \in {NoKey} \cup ArgKeys, AdvanceUntil(k) PROVE TypeOK' /\ (Stays \/ Stepped)
  <2> DEFINE error == IF StepThrows # "none" THEN StepThrows
                      ELSE IF k = NoKey THEN "none"
                      ELSE IF k = BadKey \/ k = position.key
                              \/ (Forward(direction) <=> k < position.key) THEN "DataError"
                      ELSE "none"
             ahead == {e \in Here :
                         k = NoKey \/ (IF Forward(direction) THEN e.key >= k ELSE e.key <= k)}
             plain == k = NoKey
  <2>1. error \in Names \cup {"none"} /\ (error = "none" => StepThrows = "none")
    BY <1>1 DEF Names
  <2>2. Step(map_cursor_advance_until_err, error, ahead, 1, plain)
    BY <1>3 DEF AdvanceUntil
  <2>3. ahead \in SUBSET Here /\ 1 \in Nat /\ plain \in BOOLEAN /\ (plain => ahead = Here)
    OBVIOUS
  <2> HIDE DEF error, ahead, plain
  <2> QED
    BY <2>1, <2>2, <2>3, StepType, ReadTables
<1>4. ASSUME NEW k \in ArgKeys, NEW p \in ArgKeys, AdvanceUntilPrimaryKey(k, p)
      PROVE  TypeOK' /\ (Stays \/ Stepped)
  <2> DEFINE goal  == [key |-> k, primary |-> p]
             error == IF ~attached THEN "InvalidStateError"
                      ELSE IF source # "index" \/ Unique(direction) THEN "InvalidAccessError"
                      ELSE IF StepThrows # "none" THEN StepThrows
                      ELSE IF k = BadKey \/ p = BadKey \/ ~Nearer(direction, position, goal)
                      THEN "DataError"
                      ELSE "none"
             ahead == {e \in Here : ~Nearer(direction, e, goal)}
  <2>1. error \in Names \cup {"none"} /\ (error = "none" => StepThrows = "none")
    BY <1>1 DEF Names
  <2>2. Step(map_cursor_advance_until_primary_key_err, error, ahead, 1, FALSE)
    BY <1>4 DEF AdvanceUntilPrimaryKey
  <2>3. ahead \in SUBSET Here /\ 1 \in Nat
    OBVIOUS
  <2> HIDE DEF error, ahead
  <2> QED
    BY <2>1, <2>2, <2>3, StepType, ReadTables
<1> QED
  BY <1>2, <1>3, <1>4 DEF Walk

LEMMA NextType ==
  ASSUME TypeOK, Next
  PROVE  TypeOK' /\ Kinds
<1> USE DEF Kinds
<1>1. CASE (StoreNext \/ Reads) /\ StoreChanges
  <2>1. Idle
    BY <1>1 DEF StoreNext, Reads, ReadAll, ReadKey, ReadRange, Write, Upgrade, AddKv, Put, PutKv,
       AddOrPut, Delete, DeleteRange, Clear, Request, CreateIndex, DeleteIndex, DeleteObjectStore, CreateObjectStore
  <2>2. StoreTypeOK'
    BY <1>1, WriteType, UpgradeType, ReadsType DEF StoreNext, TypeOK
  <2> QED
    BY <1>1, <2>1, <2>2, ChangesStay
<1>2. CASE Resume /\ UNCHANGED cursorVars
  <2>1. TypeOK'
    BY <1>2 DEF Resume, TypeOK, StoreTypeOK, Answers
  <2>2. Stays
    BY <1>2 DEF Resume, Stays
  <2> QED
    BY <2>1, <2>2
<1>3. CASE Opens
  BY <1>3, OpenType DEF Opens
<1>4. CASE Arrive
  <2>1. TypeOK'
    BY <1>4 DEF Arrive, SysAfter, TypeOK, StoreTypeOK, Answers
  <2> QED
    BY <1>4, <2>1
<1>5. CASE DropStep
  <2>1. TypeOK'
    BY <1>5 DEF DropStep, TypeOK, StoreTypeOK
  <2> QED
    BY <1>5, <2>1
<1>6. CASE FireStale
  <2>1. TypeOK'
    BY <1>6 DEF FireStale, TypeOK, StoreTypeOK
  <2> QED
    BY <1>6, <2>1
<1> QED
  BY <1>1, <1>2, <1>3, <1>4, <1>5, <1>6, WalkType, EditType DEF Next

LEMMA TypeStep ==
  ASSUME TypeOK, [Next]_vars
  PROVE  TypeOK' /\ (Kinds \/ UNCHANGED vars)
<1>1. UNCHANGED vars => TypeOK'
  BY DEF vars, TypeOK, StoreTypeOK
<1> QED
  BY <1>1, NextType

LEMMA InitType == Init => TypeOK
<1> SUFFICES ASSUME Init PROVE TypeOK
  OBVIOUS
<1>1. Everything \in RustRange
  BY DEF Everything, RustRange, Ranges, Bounds
<1>2. StoreTypeOK
  BY MaxCallsAssumption DEF Init, StoreInit, StoreTypeOK, Answers
<1>3. asked \in [direction : Directions, range : RustRange] /\ asked.range = Everything
  BY <1>1 DEF Init, Directions
<1> QED
  BY <1>2, <1>3, NowhereType DEF Init, TypeOK

(* Every variable keeps its type, through every request of the store and every *)
(* step of the cursor.                                                         *)
THEOREM TypeCorrect == Spec => []TypeOK
BY InitType, TypeStep, PTL DEF Spec

----------------------------------------------------------------------------
(* The range and the direction.                                             *)

(* For a key, to be in the browser's range is to be in the one asked for.   *)
LEMMA QueryMeansRange ==
  ASSUME NEW range \in RustRange, NEW k \in Nat
  PROVE  InKeyRange(IF range = Everything THEN AllKeys ELSE KeyRangeOf(range), k)
           <=> RustContains(range, k)
<1>1. CASE range = Everything
  BY <1>1 DEF Everything, Unbounded, AllKeys, InKeyRange, RustContains
<1>2. CASE range # Everything
  BY <1>2, RangeIsKept
<1> QED
  BY <1>1, <1>2

RangeInv ==
  /\ direction = to_sys(asked.direction)
  /\ sys = "Some" => position # Nowhere /\ RustContains(asked.range, position.key)
  /\ flight # "none" /\ target # Nowhere => RustContains(asked.range, target.key)
  /\ flight = "awaited" /\ sys = "Some" /\ target # Nowhere => Beyond(direction, position, target)

LEMMA RangeStep ==
  ASSUME TypeOK, RangeInv, [Next]_vars
  PROVE  RangeInv'
<1>1. Kinds \/ UNCHANGED vars
  BY TypeStep
<1>2. CASE Stays \/ UNCHANGED vars
  BY <1>2 DEF Stays, vars, RangeInv
<1>3. CASE Opened
  <2>1. PICK src \in {"store", "index"}, dir \in Directions,
             wish \in [direction : Directions, range : RustRange] :
               \E t \in Entries(src) \cup {Nowhere} : Opening(src, dir, wish, t)
    BY <1>3 DEF Opened
  <2>2. PICK t \in Entries(src) \cup {Nowhere} : Opening(src, dir, wish, t)
    BY <2>1
  <2>3. /\ sys' = "unopened" /\ flight' = "awaited" /\ target' = t
        /\ direction' = to_sys(asked'.direction) /\ asked' = wish
    BY <2>2 DEF Opening, Sent
  <2>4. t # Nowhere => RustContains(wish.range, t.key)
    <3>1. t # Nowhere => t.key \in Nat
      BY EntriesType DEF TypeOK
    <3>2. t # Nowhere =>
            InKeyRange(IF wish.range = Everything THEN AllKeys ELSE KeyRangeOf(wish.range), t.key)
      BY <2>2 DEF Opening, IsNth, Candidates
    <3> QED
      BY <3>1, <3>2, QueryMeansRange
  <2> QED
    BY <2>3, <2>4 DEF RangeInv
<1>4. CASE Stepped
  <2>1. PICK entries \in SUBSET Here, n \in Nat, plain \in BOOLEAN :
               \E t \in entries \cup {Nowhere} : Stepping(entries, n, plain, t)
    BY <1>4 DEF Stepped
  <2>2. PICK t \in entries \cup {Nowhere} : Stepping(entries, n, plain, t)
    BY <2>1
  <2>3. /\ flight' = "awaited" /\ target' = t
        /\ UNCHANGED << configVars, sys, position >>
    BY <2>2 DEF Stepping, Sent
  <2>4. t # Nowhere => RustContains(asked.range, t.key) /\ Beyond(direction, position, t)
    <3>1. t # Nowhere => t.key \in Nat /\ InKeyRange(query, t.key) /\ Beyond(direction, position, t)
      BY EntriesType DEF TypeOK, Here, Candidates
    <3>2. asked.range \in RustRange
          /\ query = IF asked.range = Everything THEN AllKeys ELSE KeyRangeOf(asked.range)
      BY DEF TypeOK
    <3> QED
      BY <3>1, <3>2, QueryMeansRange
  <2> QED
    BY <2>3, <2>4 DEF RangeInv
<1>5. CASE Arrive
  BY <1>5 DEF Arrive, SysAfter, RangeInv
<1>6. CASE DropStep \/ FireStale
  BY <1>6 DEF DropStep, FireStale, RangeInv
<1> QED
  BY <1>1, <1>2, <1>3, <1>4, <1>5, <1>6 DEF Kinds

LEMMA RangeInit == Init => RangeInv
  BY DEF Init, RangeInv, to_sys

LEMMA RangeAlways == Spec => [](TypeOK /\ RangeInv)
<1>1. Init => TypeOK /\ RangeInv
  BY InitType, RangeInit
<1>2. TypeOK /\ RangeInv /\ [Next]_vars => (TypeOK /\ RangeInv)'
  BY TypeStep, RangeStep
<1> QED
  BY <1>1, <1>2, PTL DEF Spec

(* A cursor stands only at keys of the Rust range it was given, whatever    *)
(* the range, the records and the steps.                                    *)
THEOREM StandsWithinRange == Spec => []WithinRange
<1>1. TypeOK /\ RangeInv => WithinRange
  BY DEF RangeInv, WithinRange, CursorEntry
<1> QED
  BY <1>1, RangeAlways, PTL

(* It never turns round, and a Unique one never stays at its key.           *)
THEOREM MovesInOrder == Spec => WalksInOrder
<1> DEFINE InOrder ==
      \A from \in CursorEntry : position' # from =>
        /\ IF asked.direction \in {"Next", "NextUnique"} THEN Before(from, position')
                                                        ELSE Before(position', from)
        /\ asked.direction \in {"NextUnique", "PrevUnique"} => position'.key # from.key
<1>1. ASSUME TypeOK, RangeInv, [Next]_vars
      PROVE  InOrder \/ UNCHANGED vars
  <2>1. Kinds \/ UNCHANGED vars
    BY <1>1, TypeStep
  <2>2. CASE position' = position
    BY <2>2 DEF CursorEntry
  <2>3. CASE Arrive /\ position' # position
    <3>1. position' = target /\ target # Nowhere /\ flight = "awaited"
      BY <2>3 DEF Arrive, SysAfter
    <3>2. sys = "Some" => position # Nowhere /\ Beyond(direction, position, target)
                          /\ direction = to_sys(asked.direction)
      BY <1>1, <3>1 DEF RangeInv
    <3>3. asked.direction \in Directions
      BY <1>1 DEF TypeOK
    <3>4. sys = "Some" =>
            /\ IF asked.direction \in {"Next", "NextUnique"} THEN Before(position, target)
                                                            ELSE Before(target, position)
            /\ asked.direction \in {"NextUnique", "PrevUnique"} => target.key # position.key
      BY <3>2, <3>3 DEF Beyond, Nearer, Forward, Unique, to_sys, Directions
    <3> QED
      BY <3>1, <3>4 DEF CursorEntry
  <2> QED
    BY <2>1, <2>2, <2>3
    DEF Kinds, Stays, Opened, Opening, Stepped, Stepping, DropStep, FireStale
<1>2. TypeOK /\ RangeInv /\ [Next]_vars => [InOrder]_vars
  BY <1>1
<1> QED
  BY <1>2, RangeAlways, PTL DEF Spec, WalksInOrder

(* A dropped step ends in an abort, and in nothing else.                    *)
THEOREM DroppedStepsAbort == Spec => DroppedStepAborts
<1>1. ASSUME TypeOK, [Next]_vars
      PROVE  flight = "stale" /\ flight' # "stale" => tx' = "aborted"
  <2>1. Kinds \/ UNCHANGED vars
    BY <1>1, TypeStep
  <2> QED
    BY <2>1 DEF Kinds, Stays, Opened, Opening, Stepped, Stepping, Arrive, DropStep, FireStale, vars
<1>2. TypeOK /\ [Next]_vars => [flight = "stale" /\ flight' # "stale" => tx' = "aborted"]_vars
  BY <1>1
<1> QED
  BY <1>2, TypeCorrect, PTL DEF Spec, DroppedStepAborts

(* All nine forms of a range reach what Rust says they contain, over any    *)
(* records; what is refused as empty is empty.                              *)
THEOREM RangesMeanTheSame == Spec => []RangesAsInRust
<1>1. ASSUME TypeOK PROVE RangesAsInRust
  <2>1. SUFFICES ASSUME NEW src \in {"store", "index"}, NEW range \in Ranges(Keys) \ {Everything}
                 PROVE  /\ RangeError(range) = "none" =>
                             Found(src, KeyRangeOf(range)) =
                               {e \in Entries(src) : RustContains(range, e.key)}
                        /\ RangeError(range) # "none" =>
                             {e \in Entries(src) : RustContains(range, e.key)} = {}
    BY Zenon DEF RangesAsInRust
  <2>2. range \in RustRange /\ BadKey \notin BoundKey(range.lower) \cup BoundKey(range.upper)
    BY DEF Ranges, RustRange, Bounds, Keys, BoundKey, BadKey, Unbounded
  <2>3. \A e \in Entries(src) : e.key \in Nat
    BY <1>1, EntriesType DEF TypeOK
  <2>4. Found(src, KeyRangeOf(range)) = {e \in Entries(src) : RustContains(range, e.key)}
    BY <2>2, <2>3, RangeIsKept DEF Found
  <2>5. RangeError(range) # "none" => RangeError(range) = "InvalidKey"
    BY <2>1 DEF RangeError
  <2>6. RangeError(range) # "none" => {e \in Entries(src) : RustContains(range, e.key)} = {}
    BY <2>2, <2>3, <2>5, RefusedIsEmpty
  <2> QED
    BY <2>4, <2>6
<1> QED
  BY <1>1, TypeCorrect, PTL

----------------------------------------------------------------------------
(* What a walk has come by, and what it still has to come by.               *)

(* The entry the walk has come to, with the event that is due.              *)
At == IF flight = "none" THEN position ELSE target

(* It has been opened and not yet been told that it is over.                *)
Walking == flight # "none" \/ sys = "Some"

Behind(e) == e = At \/ Nearer(direction, e, At) \/ (Unique(direction) /\ e.key = At.key)

Waits(k) ==
  /\ k \in Present
  /\ source = "store" \/ records[k] \in Values
  /\ RustContains(asked.range, EntryOf(source, k).key)
  /\ Beyond(direction, At, EntryOf(source, k))

(* While the transaction is live, what was seen is behind the walk, and     *)
(* what is unseen lies ahead.                                               *)
SeenInv ==
  tx = "live" =>
    /\ Unopened => seen = {}
    /\ Walking /\ At # Nowhere => \A k \in seen : Behind(EntryOf(source, k))

UnseenInv ==
  /\ NothingMissed
  /\ tx = "live" =>
       /\ Walking /\ At # Nowhere => \A k \in unseen : Waits(k)
       /\ flight # "none" /\ target = Nowhere => unseen = {}

(* Entries are ordered.                                                     *)
LEMMA OrderFacts ==
  ASSUME NEW dir \in {"next", "nextunique", "prev", "prevunique"},
         NEW a \in IntEntry, NEW b \in IntEntry, NEW c \in IntEntry
  PROVE  /\ ~Nearer(dir, a, a)
         /\ Nearer(dir, a, b) /\ Nearer(dir, b, c) => Nearer(dir, a, c)
         /\ a = b \/ Nearer(dir, a, b) \/ Nearer(dir, b, a)
         /\ a.key = b.key /\ a.key # c.key /\ Nearer(dir, a, c) => Nearer(dir, b, c)
         /\ a.key = b.key /\ a.key # c.key /\ Nearer(dir, c, a) => Nearer(dir, c, b)
BY DEF IntEntry, Nearer, Before, Forward

LEMMA EntryIsInt ==
  ASSUME TypeOK, NEW src, NEW k \in Keys
  PROVE  EntryOf(src, k) \in IntEntry
BY DEF TypeOK, StoreTypeOK, EntryOf, IntEntry, Keys, Absent, Stored, Undefined, Values

(* Nothing that is ahead lies between a cursor and its next entry: it is    *)
(* that entry, shares the key of it under a Unique direction, or is still   *)
(* ahead from there.                                                        *)
LEMMA NothingBetween ==
  ASSUME TypeOK, NEW src \in {"store", "index"},
         NEW dir \in {"next", "nextunique", "prev", "prevunique"},
         NEW range \in RustRange, NEW idb,
         idb = IF range = Everything THEN AllKeys ELSE KeyRangeOf(range),
         NEW p \in EntryType,
         NEW t \in Entries(src) \cup {Nowhere},
         IsNth(dir, Candidates(src, dir, idb, p), 1, t),
         NEW e \in Entries(src), RustContains(range, e.key), Beyond(dir, p, e)
  PROVE  /\ t # Nowhere
         /\ e = t \/ (Unique(dir) /\ e.key = t.key) \/ Beyond(dir, t, e)
<1> DEFINE C == Candidates(src, dir, idb, p)
           Alike == {f \in Entries(src) : f.key = e.key}
<1>1. \A f \in Entries(src) : f \in EntryType /\ f \in IntEntry /\ f # Nowhere /\ f.key \in Nat
                              /\ f.primary \in Nat
  BY EntriesType DEF TypeOK, EntryType, IntEntry
<1>2. p \in IntEntry
  BY DEF EntryType, IntEntry
<1>3. IsFiniteSet(C) /\ C \subseteq Entries(src)
  <2>1. C \subseteq Entries(src)
    BY DEF Candidates
  <2> QED
    BY <2>1, EntriesFinite, FS_Subset
<1>4. PICK m \in Entries(src) : /\ m.key = e.key
                                /\ Unique(dir) => \A f \in Alike : f.primary >= m.primary
                                /\ ~Unique(dir) => m = e
  <2>1. CASE ~Unique(dir)
    BY <2>1
  <2>2. CASE Unique(dir)
    <3> DEFINE P == {f.primary : f \in Alike}
    <3>1. P \in SUBSET Nat /\ P # {}
      BY <1>1
    <3>2. PICK n \in P : \A k \in P : n <= k
      <4> HIDE DEF P
      <4> QED
        BY <3>1, LeastExists
    <3>3. PICK m \in Alike : m.primary = n
      OBVIOUS
    <3>4. \A f \in Alike : f.primary \in P /\ f.primary \in Nat
      BY <1>1
    <3>5. n \in Nat
      BY <3>1
    <3> HIDE DEF P
    <3>6. \A f \in Alike : f.primary >= m.primary
      BY <3>2, <3>3, <3>4, <3>5
    <3> QED
      BY <2>2, <3>3, <3>6
  <2> QED
    BY <2>1, <2>2
<1>5. m \in C
  <2>1. InKeyRange(idb, m.key)
    BY <1>1, <1>4, QueryMeansRange
  <2>2. Beyond(dir, p, m)
    <3>1. CASE p = Nowhere
      BY <3>1 DEF Beyond
    <3>2. CASE p # Nowhere /\ Unique(dir)
      <4>1. Nearer(dir, p, e) /\ e.key # p.key
        BY <3>2 DEF Beyond
      <4>2. Nearer(dir, p, m)
        BY <1>1, <1>2, <1>4, <4>1, OrderFacts
      <4> QED
        BY <1>4, <4>1, <4>2 DEF Beyond
    <3>3. CASE ~Unique(dir)
      BY <1>4, <3>3
    <3> QED
      BY <3>1, <3>2, <3>3
  <2>3. Unique(dir) => \A f \in Entries(src) : f.key = m.key => f.primary >= m.primary
    BY <1>4
  <2> QED
    BY <2>1, <2>2, <2>3 DEF Candidates
<1> HIDE DEF C
<1>6. t \in C /\ \A f \in C : ~Nearer(dir, f, t)
  <2>1. Cardinality(C) # 0 /\ Cardinality(C) \in Nat
    BY <1>3, <1>5, FS_EmptySet, FS_CardinalityType
  <2>2. t \in C /\ Cardinality({f \in C : Nearer(dir, f, t)}) = 1 - 1
    BY <2>1 DEF IsNth, C
  <2>3. IsFiniteSet({f \in C : Nearer(dir, f, t)})
    BY <1>3, FS_Subset
  <2>4. {f \in C : Nearer(dir, f, t)} = {}
    BY <2>2, <2>3, FS_EmptySet
  <2> QED
    BY <2>2, <2>4
<1>7. t \in Entries(src) /\ t # Nowhere /\ t \in IntEntry
  BY <1>1, <1>3, <1>6
<1>8. m = t \/ Nearer(dir, t, m)
  BY <1>1, <1>4, <1>5, <1>6, <1>7, OrderFacts
<1>9. CASE ~Unique(dir)
  BY <1>4, <1>7, <1>8, <1>9 DEF Beyond
<1>10. CASE Unique(dir) /\ e.key # t.key
  <2>1. Nearer(dir, t, m)
    BY <1>4, <1>8, <1>10
  <2>2. Nearer(dir, t, e)
    BY <1>1, <1>4, <1>7, <1>10, <2>1, OrderFacts
  <2> QED
    BY <1>7, <1>10, <2>2 DEF Beyond
<1> QED
  BY <1>7, <1>9, <1>10

LEMMA UniqueAsked ==
  \A d \in Directions : /\ to_sys(d) \in {"next", "nextunique", "prev", "prevunique"}
                        /\ Unique(to_sys(d)) <=> d \in {"NextUnique", "PrevUnique"}
BY DEF Directions, to_sys, Unique

(* What a visit passes by: its entry, and under a Unique direction those    *)
(* that share its key.                                                      *)
LEMMA PassedFacts ==
  ASSUME TypeOK, NEW src, NEW wish \in [direction : Directions, range : RustRange], NEW t
  PROVE  /\ \A k \in PassedAt(src, wish, t) :
              /\ k \in Keys /\ EntryOf(src, k) \in Entries(src)
              /\ \/ EntryOf(src, k) = t
                 \/ Unique(to_sys(wish.direction)) /\ EntryOf(src, k).key = t.key
         /\ \A e \in Entries(src) :
              e = t \/ (Unique(to_sys(wish.direction)) /\ e.key = t.key)
                => e.primary \in PassedAt(src, wish, t)
<1>1. Unique(to_sys(wish.direction)) <=> wish.direction \in {"NextUnique", "PrevUnique"}
  BY UniqueAsked
<1>2. \A e \in Entries(src) : e = EntryOf(src, e.primary) /\ e.primary \in Keys
  BY EntriesType DEF TypeOK
<1> QED
  BY <1>1, <1>2 DEF PassedAt

LEMMA SeenStep ==
  ASSUME TypeOK, RangeInv, SeenInv, [Next]_vars
  PROVE  SeenInv'
<1>1. Kinds \/ UNCHANGED vars
  BY TypeStep
<1>2. CASE Stays
  BY <1>2 DEF Stays, SeenInv, Unopened, Walking, At, Behind, EntryOf
<1>3. CASE UNCHANGED vars
  BY <1>3 DEF vars, SeenInv, Unopened, Walking, At, Behind, EntryOf
<1>4. CASE Opened
  <2>1. PICK src \in {"store", "index"}, dir \in Directions,
             wish \in [direction : Directions, range : RustRange] :
               \E t \in Entries(src) \cup {Nowhere} : Opening(src, dir, wish, t)
    BY <1>4 DEF Opened
  <2>2. PICK t \in Entries(src) \cup {Nowhere} : Opening(src, dir, wish, t)
    BY <2>1
  <2>3. /\ flight' = "awaited" /\ At' = t /\ source' = src /\ records' = records
        /\ direction' = to_sys(wish.direction) /\ seen' = PassedAt(src, wish, t)
    BY <2>2 DEF Opening, Sent, At
  <2>4. ASSUME NEW k \in seen'
        PROVE  Behind(EntryOf(source, k))'
    <3>1. EntryOf(source, k)' = EntryOf(src, k)
      BY <2>3 DEF EntryOf
    <3>2. \/ EntryOf(src, k) = t
          \/ Unique(to_sys(wish.direction)) /\ EntryOf(src, k).key = t.key
      <4>1. k \in PassedAt(src, wish, t)
        BY <2>3
      <4>2. \A j \in PassedAt(src, wish, t) :
              \/ EntryOf(src, j) = t
              \/ Unique(to_sys(wish.direction)) /\ EntryOf(src, j).key = t.key
        BY PassedFacts, SMTT(40)
      <4> QED
        BY <4>1, <4>2
    <3> QED
      BY <2>3, <3>1, <3>2 DEF Behind
  <2> QED
    BY <2>3, <2>4 DEF SeenInv, Unopened
<1>5. CASE Stepped
  <2>1. PICK entries \in SUBSET Here, n \in Nat, plain \in BOOLEAN :
               \E t \in entries \cup {Nowhere} : Stepping(entries, n, plain, t)
    BY <1>5 DEF Stepped
  <2>2. PICK t \in entries \cup {Nowhere} : Stepping(entries, n, plain, t)
    BY <2>1
  <2>3. /\ flight' = "awaited" /\ At' = t /\ UNCHANGED << source, direction, records, tx >>
        /\ seen' = seen \cup PassedAt(source, asked, t)
        /\ sys = "Some" /\ flight = "none" /\ tx = "live" /\ At = position
    BY <2>2 DEF Stepping, Sent, At, Idle
  <2>4. ASSUME t # Nowhere, NEW k \in seen'
        PROVE  Behind(EntryOf(source, k))'
    <3>1. position # Nowhere /\ direction = to_sys(asked.direction)
      BY <2>3 DEF RangeInv
    <3>2. CASE k \in PassedAt(source, asked, t)
      <4>1. asked \in [direction : Directions, range : RustRange]
        BY DEF TypeOK
      <4> QED
        BY <2>3, <3>1, <3>2, <4>1, PassedFacts DEF Behind, EntryOf
    <3>3. CASE k \in seen
      <4> DEFINE e == EntryOf(source, k)
      <4>1. e = position \/ Nearer(direction, e, position)
              \/ (Unique(direction) /\ e.key = position.key)
        BY <2>3, <3>1, <3>3 DEF SeenInv, Walking, Behind
      <4>2. Nearer(direction, position, t) /\ (Unique(direction) => t.key # position.key)
        BY <2>4, <3>1 DEF Here, Candidates, Beyond
      <4>3. e \in IntEntry /\ position \in IntEntry /\ t \in IntEntry
            /\ direction \in {"next", "nextunique", "prev", "prevunique"}
        <5>1. k \in Keys /\ position \in EntryType /\ t \in EntryType
          BY <2>4, <3>3, EntriesType DEF TypeOK, Here, Candidates
        <5> QED
          BY <5>1, EntryIsInt DEF TypeOK, EntryType, IntEntry
      <4> HIDE DEF e
      <4>4. Nearer(direction, e, t)
        <5>1. CASE e = position \/ Nearer(direction, e, position)
          BY <4>2, <4>3, <5>1, OrderFacts
        <5>2. CASE Unique(direction) /\ e.key = position.key
          BY <4>2, <4>3, <5>2, OrderFacts
        <5> QED
          BY <4>1, <5>1, <5>2
      <4> QED
        BY <2>3, <4>4 DEF Behind, EntryOf, e
    <3> QED
      BY <2>3, <3>2, <3>3
  <2> QED
    BY <2>3, <2>4 DEF SeenInv, Unopened
<1>6. CASE Arrive
  <2>1. sys' = "Some" => position' = target /\ At' = At /\ flight # "none"
    BY <1>6 DEF Arrive, SysAfter, At
  <2>2. sys' # "unopened" /\ flight' = "none" /\ tx' = tx
        /\ UNCHANGED << source, direction, records, seen >>
    BY <1>6 DEF Arrive, SysAfter
  <2> QED
    BY <2>1, <2>2 DEF SeenInv, Unopened, Walking, Behind, EntryOf
<1>7. CASE DropStep
  BY <1>7 DEF DropStep, SeenInv, Unopened, Walking, At, Behind, EntryOf
<1>8. CASE FireStale
  BY <1>8 DEF FireStale, SeenInv
<1> QED
  BY <1>1, <1>2, <1>3, <1>4, <1>5, <1>6, <1>7, <1>8 DEF Kinds

LEMMA UnseenStep ==
  ASSUME TypeOK, RangeInv, UnseenInv, [Next]_vars
  PROVE  UnseenInv'
<1>1. Kinds \/ UNCHANGED vars
  BY TypeStep
<1>2. CASE Stays \/ UNCHANGED vars
  <2>1. /\ UNCHANGED << source, direction, asked, sys, position, flight, target >>
        /\ unseen' \subseteq unseen /\ \A k \in unseen' : records'[k] = records[k]
        /\ tx' = "live" => tx = "live"
    BY <1>2 DEF Stays, vars
  <2>2. \A k \in unseen' : Waits(k) => Waits(k)'
    BY <2>1 DEF Waits, Present, At, EntryOf
  <2> QED
    BY <2>1, <2>2 DEF UnseenInv, NothingMissed, Walking, At
<1>3. CASE Opened
  <2>1. PICK src \in {"store", "index"}, dir \in Directions,
             wish \in [direction : Directions, range : RustRange] :
               \E t \in Entries(src) \cup {Nowhere} : Opening(src, dir, wish, t)
    BY <1>3 DEF Opened
  <2>2. PICK t \in Entries(src) \cup {Nowhere} : Opening(src, dir, wish, t)
    BY <2>1
  <2> DEFINE idb == IF wish.range = Everything THEN AllKeys ELSE KeyRangeOf(wish.range)
  <2>3. /\ flight' = "awaited" /\ target' = t /\ At' = t /\ source' = src /\ records' = records
        /\ asked' = wish /\ sys' = "unopened" /\ direction' = to_sys(wish.direction)
        /\ IsNth(to_sys(wish.direction), Candidates(src, to_sys(wish.direction), idb, Nowhere), 1, t)
        /\ unseen' = {e.primary : e \in {f \in Entries(src) : RustContains(wish.range, f.key)}}
                       \ PassedAt(src, wish, t)
    BY <2>2 DEF Opening, Sent, At
  <2>4. ASSUME NEW k \in unseen'
        PROVE  t # Nowhere /\ Waits(k)'
    <3>1. PICK e \in Entries(src) : e.primary = k /\ RustContains(wish.range, e.key)
      BY <2>3
    <3>2. e = EntryOf(src, k) /\ k \in Present /\ (src = "store" \/ records[k] \in Values)
      BY <3>1, EntriesType DEF TypeOK
    <3>3. to_sys(wish.direction) \in {"next", "nextunique", "prev", "prevunique"}
          /\ wish.range \in RustRange /\ Nowhere \in EntryType
          /\ Beyond(to_sys(wish.direction), Nowhere, e)
      BY UniqueAsked, NowhereType DEF Beyond
    <3>4. t # Nowhere /\ (e = t \/ (Unique(to_sys(wish.direction)) /\ e.key = t.key)
                            \/ Beyond(to_sys(wish.direction), t, e))
      <4> HIDE DEF idb
      <4>1. idb = IF wish.range = Everything THEN AllKeys ELSE KeyRangeOf(wish.range)
        BY DEF idb
      <4> QED
        BY <2>3, <3>1, <3>3, <4>1, NothingBetween
    <3>5. Beyond(to_sys(wish.direction), t, e)
      BY <2>3, <3>1, <3>4, PassedFacts
    <3> QED
      BY <2>3, <3>1, <3>2, <3>4, <3>5 DEF Waits, Present, EntryOf
  <2> HIDE DEF idb
  <2> QED
    BY <2>3, <2>4 DEF UnseenInv, NothingMissed
<1>4. CASE Stepped
  <2>1. PICK entries \in SUBSET Here, n \in Nat, plain \in BOOLEAN :
               \E t \in entries \cup {Nowhere} : Stepping(entries, n, plain, t)
    BY <1>4 DEF Stepped
  <2>2. PICK t \in entries \cup {Nowhere} : Stepping(entries, n, plain, t)
    BY <2>1
  <2>3. /\ flight' = "awaited" /\ target' = t /\ At' = t /\ sys' = "Some"
        /\ UNCHANGED << source, direction, asked, query, records, tx >>
        /\ sys = "Some" /\ flight = "none" /\ tx = "live" /\ At = position
        /\ unseen' = IF plain THEN unseen \ PassedAt(source, asked, t) ELSE {}
        /\ plain => IsNth(direction, Here, 1, t)
    BY <2>2 DEF Stepping, Sent, At, Idle
  <2>4. ASSUME NEW k \in unseen'
        PROVE  t # Nowhere /\ Waits(k)'
    <3>1. plain /\ k \in unseen /\ k \notin PassedAt(source, asked, t)
      BY <2>3
    <3>2. position # Nowhere /\ direction = to_sys(asked.direction)
      BY <2>3 DEF RangeInv
    <3> DEFINE e == EntryOf(source, k)
    <3>3. Waits(k)
      BY <2>3, <3>1, <3>2 DEF UnseenInv, Walking
    <3>4. e \in Entries(source) /\ e.primary = k /\ RustContains(asked.range, e.key)
          /\ Beyond(direction, position, e)
      BY <2>3, <3>3 DEF Waits, Entries, EntryOf
    <3>5. /\ source \in {"store", "index"}
          /\ direction \in {"next", "nextunique", "prev", "prevunique"}
          /\ asked \in [direction : Directions, range : RustRange] /\ asked.range \in RustRange
          /\ query = IF asked.range = Everything THEN AllKeys ELSE KeyRangeOf(asked.range)
          /\ position \in EntryType
      BY DEF TypeOK
    <3>6. t \in Entries(source) \cup {Nowhere}
          /\ IsNth(direction, Candidates(source, direction, query, position), 1, t)
      BY <2>3, <3>1 DEF Here, Candidates
    <3> HIDE DEF e
    <3>7. t # Nowhere /\ (e = t \/ (Unique(direction) /\ e.key = t.key) \/ Beyond(direction, t, e))
      BY <3>4, <3>5, <3>6, NothingBetween, SMTT(40)
    <3>8. Beyond(direction, t, e)
      BY <3>1, <3>2, <3>4, <3>5, <3>7, PassedFacts
    <3> QED
      BY <2>3, <3>3, <3>7, <3>8 DEF Waits, Present, EntryOf, e
  <2> QED
    BY <2>3, <2>4 DEF UnseenInv, NothingMissed
<1>5. CASE Arrive
  <2>1. /\ flight # "none" /\ flight = "awaited" /\ flight' = "none" /\ tx = "live"
        /\ sys' = SysAfter
        /\ sys' = "Some" => position' = target /\ At' = At /\ target # Nowhere
        /\ UNCHANGED << source, direction, asked, records, unseen >>
    BY <1>5 DEF Arrive, SysAfter, At, Idle
  <2>2. sys' = "None" => unseen = {}
    BY <2>1 DEF SysAfter, UnseenInv
  <2>3. sys' = "Some" => \A k \in unseen : Waits(k) => Waits(k)'
    BY <2>1 DEF Waits, Present, EntryOf
  <2> QED
    BY <2>1, <2>2, <2>3 DEF UnseenInv, NothingMissed, Walking
<1>6. CASE DropStep
  <2>1. /\ flight = "awaited" /\ flight' = "stale" /\ At' = At
        /\ UNCHANGED << source, direction, asked, records, unseen, sys, target, tx >>
    BY <1>6 DEF DropStep, At
  <2>2. \A k \in unseen : Waits(k) => Waits(k)'
    BY <2>1 DEF Waits, Present, EntryOf
  <2> QED
    BY <2>1, <2>2 DEF UnseenInv, NothingMissed, Walking
<1>7. CASE FireStale
  BY <1>7 DEF FireStale, UnseenInv, NothingMissed
<1> QED
  BY <1>1, <1>2, <1>3, <1>4, <1>5, <1>6, <1>7 DEF Kinds

WalkInv == TypeOK /\ RangeInv /\ SeenInv /\ UnseenInv

LEMMA WalkInductive == Spec => []WalkInv
<1>1. Init => WalkInv
  BY InitType, RangeInit DEF Init, WalkInv, SeenInv, UnseenInv, NothingMissed, Unopened, Walking
<1>2. WalkInv /\ [Next]_vars => WalkInv'
  BY TypeStep, RangeStep, SeenStep, UnseenStep DEF WalkInv
<1> QED
  BY <1>1, <1>2, PTL DEF Spec

(* A walk that skips nothing comes by every record of its range that was    *)
(* there from the start and that nobody wrote in between.                   *)
THEOREM NoRecordIsMissed == Spec => []NothingMissed
<1>1. WalkInv => NothingMissed
  BY DEF WalkInv, UnseenInv
<1> QED
  BY <1>1, WalkInductive, PTL

(* No walk comes by a record twice, unless it was written meanwhile.        *)
THEOREM NoRecordTwice == Spec => VisitsOnce
<1> DEFINE Once == flight' = "awaited" /\ flight # "awaited" /\ target' # Nowhere
                     => target'.primary \notin seen
<1>1. ASSUME WalkInv, [Next]_vars, flight' = "awaited", flight # "awaited", target' # Nowhere
      PROVE  target'.primary \notin seen
  <2> USE DEF WalkInv
  <2>1. Opened \/ Stepped
    BY <1>1, TypeStep DEF Kinds, Stays, Arrive, DropStep, FireStale, vars
  <2>2. CASE Opened
    BY <1>1, <2>2 DEF Opened, Opening, Idle, SeenInv, Unopened
  <2>3. CASE Stepped
    <3>1. PICK entries \in SUBSET Here, n \in Nat, plain \in BOOLEAN :
               \E t \in entries \cup {Nowhere} : Stepping(entries, n, plain, t)
      BY <2>3 DEF Stepped
    <3>2. PICK t \in entries \cup {Nowhere} : Stepping(entries, n, plain, t)
      BY <3>1
    <3>3. target' = t /\ t # Nowhere /\ t \in Here /\ sys = "Some" /\ flight = "none"
          /\ tx = "live" /\ At = position
      BY <1>1, <3>2 DEF Stepping, Sent, At, Idle
    <3>4. position # Nowhere
      BY <1>1, <3>3 DEF RangeInv
    <3>5. Nearer(direction, position, t) /\ (Unique(direction) => t.key # position.key)
          /\ t = EntryOf(source, t.primary)
      BY <1>1, <3>3, <3>4, EntriesType DEF Here, Candidates, Beyond, TypeOK
    <3>6. t.primary \in seen => t = position \/ Nearer(direction, t, position)
                                  \/ (Unique(direction) /\ t.key = position.key)
      BY <1>1, <3>3, <3>4, <3>5 DEF SeenInv, Walking, Behind
    <3>7. t \in IntEntry /\ position \in IntEntry
          /\ direction \in {"next", "nextunique", "prev", "prevunique"}
      BY <1>1, <3>3, EntriesType DEF TypeOK, Here, Candidates, EntryType, IntEntry
    <3> QED
      BY <3>3, <3>5, <3>6, <3>7, OrderFacts
  <2> QED
    BY <2>1, <2>2, <2>3
<1>2. WalkInv /\ [Next]_vars => [Once]_vars
  BY <1>1
<1> QED
  BY <1>2, WalkInductive, PTL DEF Spec, VisitsOnce

----------------------------------------------------------------------------
(* Panics.                                                                  *)

(* The errors each operation may meet, but one, have a case in its table.   *)
LEMMA NoPanicTables ==
  /\ \A name \in {"InvalidStateError", "ReadOnlyError", "DataError", "DataCloneError",
                  "ConstraintError"} : Mapped(map_add_err, name) # "panic"
  /\ \A name \in {"InvalidStateError", "ReadOnlyError", "DataError"} :
       Mapped(map_delete_err, name) # "panic"
  /\ Mapped(map_clear_err, "ReadOnlyError") # "panic"
  /\ \A name \in {"InvalidStateError", "NotFoundError"} :
       Mapped(index_err, name) # "panic" /\ Mapped(delete_store_err, name) # "panic"
  /\ \A name \in {"InvalidStateError", "ConstraintError"} :
       Mapped(create_index_err, name) # "panic" /\ Mapped(create_store_err, name) # "panic"
  /\ \A name \in {"SyntaxError", "InvalidAccessError"} :
       Mapped(create_index_err, name) # "panic"
  /\ Mapped(create_store_err, "InvalidAccessError") # "panic"
  /\ \A name \in {"InvalidStateError", "DataError"} :
       Mapped(map_count_err, name) # "panic" /\ Mapped(map_get_err, name) # "panic"
  /\ Mapped(map_open_cursor_err, "InvalidStateError") # "panic"
BY NoneIsDefault DEF Names, map_add_err, map_clear_err, map_delete_err, index_err,
   create_index_err, delete_store_err, create_store_err, map_count_err, map_get_err,
   map_open_cursor_err

LEMMA NoPanicCursorTables ==
  /\ \A name \in {"InvalidStateError", "TypeError"} :
       Mapped(map_cursor_advance_err, name) # "panic"
  /\ \A name \in {"InvalidStateError", "DataError"} :
       Mapped(map_cursor_advance_until_err, name) # "panic"
  /\ \A name \in {"InvalidStateError", "DataError", "InvalidAccessError"} :
       Mapped(map_cursor_advance_until_primary_key_err, name) # "panic"
  /\ \A name \in {"InvalidStateError", "ReadOnlyError"} :
       Mapped(map_cursor_delete_err, name) # "panic"
  /\ \A name \in {"InvalidStateError", "ReadOnlyError", "DataCloneError"} :
       Mapped(map_cursor_update_err, name) # "panic"
BY NoneIsDefault DEF Names, map_cursor_advance_err, map_cursor_advance_until_err,
   map_cursor_advance_until_primary_key_err, map_cursor_delete_err, map_cursor_update_err

Panics == tx = "live" /\ tx' = "panicked"

LEMMA RefusedPanics ==
  ASSUME NEW m, NEW variant, Refused(m, variant), Panics
  PROVE  variant = "panic" /\ method' = m
BY DEF Refused, Panics

LEMMA RequestPanics ==
  ASSUME NEW m, NEW table, NEW error, NEW after, Request(m, table, error, after), Panics
  PROVE  error # "none" /\ Mapped(table, error) = "panic" /\ method' = m
<1>1. error # "none"
  BY DEF Request, Panics
<1> QED
  BY <1>1, RefusedPanics DEF Request

(* Of the requests that write, only clear on a removed store panics.        *)
LEMMA WritePanics ==
  ASSUME TypeOK, Write, Panics
  PROVE  method' = "clear" /\ store = "removed"
<1>1. WriteThrows \in {"none", "InvalidStateError", "ReadOnlyError"}
      /\ (WriteThrows = "InvalidStateError" => store = "removed")
  BY DEF WriteThrows
<1>2. \A k, v : PutThrows(k, v) \in {"none", "InvalidStateError", "ReadOnlyError", "DataError",
                                     "DataCloneError"}
  BY <1>1 DEF PutThrows
<1>3. ASSUME NEW m, NEW k, NEW v, Put(m, k, v) \/ AddKv(k, v) PROVE FALSE
  <2>1. PutError(k, v) \in {"none", "InvalidStateError", "ReadOnlyError", "DataError",
                            "DataCloneError", "ConstraintError"}
    BY <1>2 DEF PutError
  <2>2. AddError(k, v) \in {"none", "InvalidStateError", "ReadOnlyError", "DataError",
                            "DataCloneError", "ConstraintError"}
    BY <1>2 DEF AddError
  <2> QED
    BY <1>3, <2>1, <2>2, RequestPanics, NoPanicTables DEF Put, AddKv
<1>4. ASSUME NEW v \in ArgValues, AddOrPut(v) PROVE FALSE
  <2> DEFINE error == IF PutThrows(MaxKey, v) = "none" THEN "ConstraintError"
                      ELSE PutThrows(MaxKey, v)
  <2>1. error \in {"InvalidStateError", "ReadOnlyError", "DataError", "DataCloneError",
                   "ConstraintError"}
    BY <1>2
  <2>2. (\E k : Put("add", k, v)) \/ Request("add", map_add_err, error, records)
    BY <1>4, Zenon DEF AddOrPut
  <2> HIDE DEF error
  <2> QED
    BY <1>3, <2>1, <2>2, RequestPanics, NoPanicTables
<1>5. ASSUME NEW k \in ArgKeys, Delete(k) PROVE FALSE
  <2> DEFINE error == IF WriteThrows = "none" /\ k = BadKey THEN "DataError" ELSE WriteThrows
  <2>1. error \in {"none", "InvalidStateError", "ReadOnlyError", "DataError"}
    BY <1>1
  <2>2. Request("delete", map_delete_err, error, Without({k}))
    BY <1>5 DEF Delete
  <2> HIDE DEF error
  <2> QED
    BY <2>1, <2>2, RequestPanics, NoPanicTables
<1>6. ASSUME NEW range \in ArgRanges, DeleteRange(range) PROVE FALSE
  <2>1. RangeError(range) # "panic"
    BY DEF RangeError
  <2> QED
    BY <1>1, <1>6, <2>1, RefusedPanics, RequestPanics, NoPanicTables DEF DeleteRange
<1>7. CASE Clear
  BY <1>1, <1>7, RequestPanics, NoPanicTables DEF Clear
<1> QED
  BY <1>3, <1>4, <1>5, <1>6, <1>7 DEF Write, PutKv

LEMMA SourceAnswerPanics ==
  ASSUME NEW src, NEW table, NEW refusal, NEW error,
         Mapped(table, "InvalidStateError") # "panic",
         error # "none" => Mapped(table, error) # "panic",
         refusal # "panic"
  PROVE  SourceAnswer(src, table, refusal, error) # "panic"
<1>1. IndexThrows # "none" => Mapped(index_err, IndexThrows) # "panic"
  BY NoPanicTables DEF IndexThrows
<1> QED
  BY <1>1 DEF SourceAnswer

(* Of the calls that change the schema, only `create` under a malformed key *)
(* path.                                                                    *)
LEMMA UpgradePanics ==
  ASSUME TypeOK, Upgrade, Panics
  PROVE  method' = "key_path" /\ mode = "versionchange"
<1>1. ASSUME NEW flaw \in Flaws, NEW kind \in {"plain", "unique"}, CreateIndex(kind, flaw)
      PROVE  FALSE
  BY <1>1, RefusedPanics, NoPanicTables DEF CreateIndex, Panics, Flaws
<1>2. ~DeleteIndex
  BY RefusedPanics, NoPanicTables DEF DeleteIndex, Panics
<1>3. ~DeleteObjectStore
  BY RefusedPanics, NoPanicTables DEF DeleteObjectStore, Panics
<1>4. PICK flaw \in Flaws : CreateObjectStore(flaw)
  BY <1>1, <1>2, <1>3 DEF Upgrade
<1>5. flaw = "SyntaxError" /\ mode = "versionchange"
  BY <1>4, RefusedPanics, NoPanicTables DEF CreateObjectStore, Panics, Flaws
<1>6. method' = "key_path"
  BY <1>4, <1>5, RefusedPanics DEF CreateObjectStore, Panics
<1> QED
  BY <1>5, <1>6

LEMMA ReadPanics ==
  ASSUME Reads
  PROVE  ~Panics
<1> SUFFICES ASSUME Panics PROVE FALSE
  OBVIOUS
<1>1. ASSUME NEW m, NEW src, NEW refusal, NEW error \in {"none", "DataError"}, refusal # "panic",
             Refused(m, SourceAnswer(src, ReadTable(m), refusal, error))
      PROVE  FALSE
  <2>1. \A name \in {"InvalidStateError", "DataError"} : Mapped(ReadTable(m), name) # "panic"
    BY NoPanicTables DEF ReadTable
  <2> QED
    BY <1>1, <2>1, SourceAnswerPanics, RefusedPanics
<1>2. \A m, src : ~ReadAll(m, src)
  BY <1>1 DEF ReadAll
<1>3. \A m, src, k : ~ReadKey(m, src, k)
  BY <1>1 DEF ReadKey
<1>4. \A m, src, range : ~ReadRange(m, src, range)
  <2>1. \A range : RangeError(range) # "panic"
    BY DEF RangeError
  <2> QED
    BY <1>1, <2>1 DEF ReadRange
<1> QED
  BY <1>2, <1>3, <1>4 DEF Reads

LEMMA StepPanics ==
  ASSUME NEW table, NEW error, NEW entries, NEW n, NEW plain,
         Step(table, error, entries, n, plain), Panics
  PROVE  error # "none" /\ Mapped(table, error) = "panic"
<1>1. ~\E t : Sent(t)
  BY DEF Sent, Panics
<1>2. ~Refused("advance", "CursorCompleted")
  BY RefusedPanics
<1>3. error # "none" /\ Refused("advance", Mapped(table, error))
  BY <1>1, <1>2 DEF Step
<1> QED
  BY <1>3, RefusedPanics

LEMMA WalkPanics ==
  ASSUME Walk
  PROVE  ~Panics
<1> SUFFICES ASSUME Panics PROVE FALSE
  OBVIOUS
<1>1. StepThrows \in {"none", "InvalidStateError"}
  BY DEF StepThrows
<1>2. ASSUME NEW count \in 0 .. 2, Advance(count) PROVE FALSE
  <2> DEFINE error == IF count = 0 THEN "TypeError" ELSE StepThrows
  <2>1. error \in {"none", "TypeError", "InvalidStateError"}
    BY <1>1
  <2>2. Step(map_cursor_advance_err, error, Here, count, count = 1)
    BY <1>2 DEF Advance
  <2> HIDE DEF error
  <2> QED
    BY <2>1, <2>2, StepPanics, NoPanicCursorTables
<1>3. ASSUME NEW k \in {NoKey} \cup ArgKeys, AdvanceUntil(k) PROVE FALSE
  <2> DEFINE error == IF StepThrows # "none" THEN StepThrows
                      ELSE IF k = NoKey THEN "none"
                      ELSE IF k = BadKey \/ k = position.key
                              \/ (Forward(direction) <=> k < position.key) THEN "DataError"
                      ELSE "none"
             ahead == {e \in Here :
                         k = NoKey \/ (IF Forward(direction) THEN e.key >= k ELSE e.key <= k)}
  <2>1. error \in {"none", "DataError", "InvalidStateError"}
    BY <1>1
  <2>2. Step(map_cursor_advance_until_err, error, ahead, 1, k = NoKey)
    BY <1>3 DEF AdvanceUntil
  <2> HIDE DEF error, ahead
  <2> QED
    BY <2>1, <2>2, StepPanics, NoPanicCursorTables
<1>4. ASSUME NEW k \in ArgKeys, NEW p \in ArgKeys, AdvanceUntilPrimaryKey(k, p) PROVE FALSE
  <2> DEFINE goal  == [key |-> k, primary |-> p]
             error == IF ~attached THEN "InvalidStateError"
                      ELSE IF source # "index" \/ Unique(direction) THEN "InvalidAccessError"
                      ELSE IF StepThrows # "none" THEN StepThrows
                      ELSE IF k = BadKey \/ p = BadKey \/ ~Nearer(direction, position, goal)
                      THEN "DataError"
                      ELSE "none"
             ahead == {e \in Here : ~Nearer(direction, e, goal)}
  <2>1. error \in {"none", "DataError", "InvalidStateError", "InvalidAccessError"}
    BY <1>1
  <2>2. Step(map_cursor_advance_until_primary_key_err, error, ahead, 1, FALSE)
    BY <1>4 DEF AdvanceUntilPrimaryKey
  <2> HIDE DEF error, ahead
  <2> QED
    BY <2>1, <2>2, StepPanics, NoPanicCursorTables
<1> QED
  BY <1>2, <1>3, <1>4 DEF Walk

(* Of the cursor's own writes, only an update that breaks a unique index.   *)
LEMMA EditPanics ==
  ASSUME TypeOK, Edit, Panics
  PROVE  /\ method' = "cursor_update" /\ mode # "readonly" /\ sys = "Some" /\ index = "unique"
         /\ \E j \in Present \ {position.primary} : records[j] \in Values
<1>1. CursorWriteThrows \in {"none", "InvalidStateError", "ReadOnlyError"}
  BY DEF CursorWriteThrows, StepThrows
<1>2. ~DeleteHere
  BY <1>1, RefusedPanics, RequestPanics, NoPanicCursorTables DEF DeleteHere
<1>3. PICK v \in ArgValues : UpdateHere(v)
  BY <1>2 DEF Edit
<1> DEFINE error == IF CursorWriteThrows # "none" THEN CursorWriteThrows
                    ELSE IF v = Unclonable THEN "DataCloneError"
                    ELSE IF Clashes(position.primary, v) THEN "ConstraintError"
                    ELSE "none"
<1>4. sys = "Some" /\ Request("cursor_update", map_cursor_update_err, error,
                             With(position.primary, v))
  <2>1. ~Refused("cursor_update", "CursorCompleted")
    BY RefusedPanics
  <2> QED
    BY <1>3, <2>1 DEF UpdateHere, Usable, TypeOK
<1>5. /\ error \in {"none", "InvalidStateError", "ReadOnlyError", "DataCloneError",
                   "ConstraintError"}
      /\ error = "ConstraintError" => Clashes(position.primary, v) /\ mode # "readonly"
  BY <1>1 DEF CursorWriteThrows
<1> HIDE DEF error
<1>6. error = "ConstraintError" /\ method' = "cursor_update"
  BY <1>4, <1>5, RequestPanics, NoPanicCursorTables
<1>7. PICK j \in Keys \ {position.primary} : records[j] = v /\ v \in Values
  BY <1>5, <1>6 DEF Clashes
<1>8. j \in Present
  BY <1>7 DEF Present, Values, Absent
<1> QED
  BY <1>4, <1>5, <1>6, <1>7, <1>8 DEF Clashes

(* No call panics over an error that its table forgot, but for those three. *)
THEOREM PanicsAreKnown == Spec => PanicsOnlyOnUnmapped
<1> DEFINE Unmapped ==
      \/ method' = "clear" /\ store = "removed"
      \/ method' = "key_path" /\ mode = "versionchange"
      \/ /\ method' = "cursor_update" /\ mode # "readonly"
         /\ sys = "Some" /\ index = "unique"
         /\ \E j \in Present \ {position.primary} : records[j] \in Values
<1>1. ASSUME TypeOK, [Next]_vars, Panics
      PROVE  Unmapped
  <2>1. ~UNCHANGED vars /\ ~Resume /\ ~Arrive /\ ~DropStep /\ ~FireStale
    BY <1>1 DEF Panics, vars, Resume, Arrive, DropStep, FireStale
  <2>2. ~Opens
    <3> SUFFICES ASSUME NEW src \in {"store", "index"}, NEW dir, NEW ranged, NEW range, NEW only,
                        OpenCursor(src, dir, ranged, range, only)
                 PROVE  FALSE
      BY DEF Opens
    <3>1. ~\E t : Sent(t)
      BY <1>1 DEF Sent, Panics
    <3> DEFINE refusal == IF ranged THEN RangeError(range) ELSE "none"
               variant == SourceAnswer(src, map_open_cursor_err, refusal, "none")
    <3>2. Refused("open", variant)
      BY <3>1 DEF OpenCursor
    <3>3. refusal # "panic"
      BY DEF RangeError
    <3> HIDE DEF refusal
    <3>4. variant # "panic"
      BY <3>3, NoPanicTables, SourceAnswerPanics
    <3> HIDE DEF variant
    <3> QED
      BY <1>1, <3>2, <3>4, RefusedPanics
  <2>3. Write \/ Upgrade \/ Edit
    BY <1>1, <2>1, <2>2, WalkPanics, ReadPanics DEF Next, StoreNext
  <2>4. Write => Unmapped
    BY <1>1, WritePanics
  <2>5. Upgrade => Unmapped
    BY <1>1, UpgradePanics
  <2>6. Edit => Unmapped
    BY <1>1, EditPanics
  <2> QED
    BY <2>3, <2>4, <2>5, <2>6
<1>2. TypeOK /\ [Next]_vars => [tx = "live" /\ tx' = "panicked" => Unmapped]_vars
  BY <1>1 DEF Panics
<1> QED
  BY <1>2, TypeCorrect, PTL DEF Spec, PanicsOnlyOnUnmapped
=============================================================================
