--------------------------- MODULE StoreRequests ---------------------------
(***************************************************************************)
(* The methods of ObjectStore (src/object_store.rs) that change something,  *)
(* and those of VersionChangeEvent, ObjectStoreBuilder and IndexBuilder     *)
(* (src/factory.rs, src/object_store.rs), called by one callback on one     *)
(* object store with one index.                                             *)
(*                                                                          *)
(* A request takes effect where it is sent: the browser executes the        *)
(* requests of a transaction in the order of sending, and nobody else sees  *)
(* the store meanwhile.  When its answer arrives, and whether anybody still *)
(* listens, is the subject of TransactionRunner; a cursor, whose steps are  *)
(* felt while they are in flight, that of CursorWalk.                       *)
(***************************************************************************)
EXTENDS Integers, FiniteSets, KeyRange, ErrorMap

CONSTANTS
  MaxKey,         \* bound: keys are 1 .. MaxKey
  MaxValue,       \* bound: values with an index key of their own
  MaxCalls,       \* bound: how many calls change something
  Modes,          \* bound: the modes of the transactions that run
  ArgRanges,      \* the ranges that callbacks give to delete_range and to cursors
  AutoIncrement   \* the store was created with auto_increment

ASSUME MaxKeyAssumption == MaxKey \in Nat \ {0}
ASSUME MaxValueAssumption == MaxValue \in Nat
ASSUME MaxCallsAssumption == MaxCalls \in Nat
ASSUME ModesAssumption == Modes \subseteq {"readonly", "readwrite", "versionchange"}
ASSUME ArgRangesAssumption == ArgRanges \subseteq RustRange
ASSUME AutoIncrementAssumption == AutoIncrement \in BOOLEAN

Keys   == 1 .. MaxKey
Values == 1 .. MaxValue    \* a value is its key in the index

Undefined  == 0     \* JsValue::UNDEFINED: can be stored, has no index key
Absent     == -1    \* no record under a key
Unclonable == -2    \* a value that cannot be stored (a function)

Stored    == {Undefined} \cup Values
ArgKeys   == {BadKey} \cup Keys
ArgValues == {Unclonable} \cup Stored

VARIABLES
  mode,       \* of the transaction; an upgrade callback runs in versionchange
  store,      \* the object store behind the callback's ObjectStore
  index,      \* its index: none, plain or unique
  records,    \* what each key holds
  tx,         \* live, aborted by the browser, or over by a panic
  answer,     \* what the last call answered, until the callback has read it
  method,     \* the method this answer is of, if the call changed nothing
  calls       \* how many calls changed something

schemaVars == << mode, store, index >>
storeVars  == << schemaVars, records, tx, answer, method, calls >>

Answers == { "none", "Ok", "ReadOnly", "InvalidKey", "ObjectStoreWasRemoved", "FailedClone",
             "AlreadyExists", "DoesNotExist", "InvalidCall", "InvalidRange",
             "InvalidArgument", "CursorCompleted", "panic" }

(* count and get stand for the other methods that read, advance for every   *)
(* step of a cursor, add for put without a key, and key_path for `create`   *)
(* after a key path that is none.                                           *)
Methods == { "add", "add_kv", "put_kv", "delete", "delete_range", "clear", "count", "get",
             "create", "key_path", "create_index", "delete_index", "delete_object_store",
             "open", "advance", "cursor_delete", "cursor_update" }

StoreTypeOK ==
  /\ mode \in Modes
  /\ store \in {"live", "removed"}
  /\ index \in {"none", "plain", "unique"}
  /\ records \in [Keys -> {Absent} \cup Stored]
  /\ tx \in {"live", "aborted", "panicked"}
  /\ answer \in Answers
  /\ method \in {"none"} \cup Methods
  /\ calls \in 0 .. MaxCalls

Present == {k \in Keys : records[k] # Absent}

(* An index refuses a second record with the same key if it is unique.      *)
Duplicates == \E j, k \in Keys : j # k /\ records[j] \in Values /\ records[j] = records[k]

(* The callback finds any store that earlier transactions may have left.    *)
StoreInit ==
  /\ mode \in Modes
  /\ store = "live"
  /\ index \in {"none", "plain", "unique"}
  /\ records \in [Keys -> {Absent} \cup Stored]
  /\ index = "unique" => ~Duplicates
  /\ tx = "live"
  /\ answer = "none" /\ method = "none"
  /\ calls = 0

----------------------------------------------------------------------------
(* The callback has read the answer of its last call.                       *)
Idle == tx = "live" /\ answer = "none"

Resume ==
  /\ tx = "live" /\ answer # "none"
  /\ answer' = "none" /\ method' = "none"
  /\ UNCHANGED << schemaVars, records, tx, calls >>

(* A call that is refused, by the crate, by an exception or by an error     *)
(* event, changes nothing, and neither does one that reads; the transaction *)
(* goes on.                                                                 *)
Refused(m, variant) ==
  /\ method' = m
  /\ answer' = variant
  /\ tx' = IF variant = "panic" THEN "panicked" ELSE tx
  /\ UNCHANGED << schemaVars, records, calls >>

Accepted ==
  /\ method' = "none"
  /\ calls < MaxCalls
  /\ calls' = calls + 1
  /\ answer' = "Ok"

(* A request that fails with the browser's error, or else leaves `after`.   *)
Request(m, table, error, after) ==
  /\ Idle
  /\ IF error # "none" THEN Refused(m, Mapped(table, error))
     ELSE Accepted /\ records' = after /\ UNCHANGED << schemaVars, tx >>

(* Exceptions of the browser before it accepts a write.                     *)
WriteThrows ==
  IF store = "removed" THEN "InvalidStateError"
  ELSE IF mode = "readonly" THEN "ReadOnlyError"
  ELSE "none"

PutThrows(k, v) ==
  IF WriteThrows # "none" THEN WriteThrows
  ELSE IF k = BadKey THEN "DataError"
  ELSE IF v = Unclonable THEN "DataCloneError"
  ELSE "none"

Clashes(k, v) ==
  index = "unique" /\ v \in Values /\ \E j \in Keys \ {k} : records[j] = v

PutError(k, v) ==
  IF PutThrows(k, v) = "none" /\ Clashes(k, v) THEN "ConstraintError" ELSE PutThrows(k, v)

AddError(k, v) ==
  IF PutThrows(k, v) = "none" /\ (k \in Present \/ Clashes(k, v)) THEN "ConstraintError"
  ELSE PutThrows(k, v)

With(k, v) == [records EXCEPT ![k] = v]
Without(keys) == [k \in Keys |-> IF k \in keys THEN Absent ELSE records[k]]

AddKv(k, v) ==
  Request("add_kv", map_add_err, AddError(k, v), IF k \in Keys THEN With(k, v) ELSE records)

Put(m, k, v) ==
  Request(m, map_add_err, PutError(k, v), IF k \in Keys THEN With(k, v) ELSE records)

PutKv(k, v) == Put("put_kv", k, v)

(* add and put without a key: the browser's generator gives a key it has not *)
(* given before and, in the end, has none left. Its own counter is abstracted *)
(* to any key above those present.                                           *)
Fresh == {k \in Keys : \A j \in Present : j < k}

AddOrPut(v) ==
  IF ~AutoIncrement THEN Put("add", BadKey, v)
  ELSE \/ \E k \in Fresh : Put("add", k, v)
       \/ Fresh = {} /\ Request("add", map_add_err,
            IF PutThrows(MaxKey, v) = "none" THEN "ConstraintError" ELSE PutThrows(MaxKey, v),
            records)

Delete(k) ==
  Request("delete", map_delete_err,
          IF WriteThrows = "none" /\ k = BadKey THEN "DataError" ELSE WriteThrows,
          Without({k}))

(* The crate refuses a range before the browser sees it.                    *)
DeleteRange(range) ==
  /\ Idle
  /\ IF RangeError(range) # "none" THEN Refused("delete_range", RangeError(range))
     ELSE Request("delete_range", map_delete_err, WriteThrows,
                  Without({k \in Keys : InKeyRange(KeyRangeOf(range), k)}))

Clear == Request("clear", map_clear_err, WriteThrows, Without(Keys))

----------------------------------------------------------------------------
(* Only for an upgrade callback.  The browser throws InvalidStateError at   *)
(* everybody else.                                                          *)

(* What the browser finds wrong with the arguments of a builder: SyntaxError *)
(* for a key path that is none, InvalidAccessError for a compound index that *)
(* is multi_entry, or a compound key path with auto_increment.               *)
Flaws == {"none", "SyntaxError", "InvalidAccessError"}

(* A unique index over records that clash is accepted, and fails later:     *)
(* the transaction aborts behind the Ok of `create`.                        *)
CreateIndex(kind, flaw) ==
  /\ Idle
  /\ LET error == IF mode # "versionchange" \/ store = "removed" THEN "InvalidStateError"
                  ELSE IF index # "none" THEN "ConstraintError"
                  ELSE flaw
     IN IF error # "none" THEN Refused("create_index", Mapped(create_index_err, error))
        ELSE /\ Accepted
             /\ index' = kind
             /\ tx' = IF kind = "unique" /\ Duplicates THEN "aborted" ELSE tx
             /\ UNCHANGED << mode, store, records >>

DeleteIndex ==
  /\ Idle
  /\ LET error == IF mode # "versionchange" \/ store = "removed" THEN "InvalidStateError"
                  ELSE IF index = "none" THEN "NotFoundError"
                  ELSE "none"
     IN IF error # "none" THEN Refused("delete_index", Mapped(index_err, error))
        ELSE /\ Accepted
             /\ index' = "none"
             /\ UNCHANGED << mode, store, records, tx >>

DeleteObjectStore ==
  /\ Idle
  /\ LET error == IF mode # "versionchange" THEN "InvalidStateError"
                  ELSE IF store = "removed" THEN "NotFoundError"
                  ELSE "none"
     IN IF error # "none" THEN Refused("delete_object_store", Mapped(delete_store_err, error))
        ELSE /\ Accepted
             /\ store' = "removed" /\ index' = "none" /\ records' = Without(Keys)
             /\ UNCHANGED << mode, tx >>

(* build_object_store(name).create(): the new store replaces the callback's.*)
CreateObjectStore(flaw) ==
  /\ Idle
  /\ LET m == IF flaw = "SyntaxError" THEN "key_path" ELSE "create"
         error == IF mode # "versionchange" THEN "InvalidStateError"
                  ELSE IF flaw # "SyntaxError" /\ store = "live" THEN "ConstraintError"
                  ELSE flaw
     IN IF error # "none" THEN Refused(m, Mapped(create_store_err, error))
        ELSE Accepted /\ store' = "live" /\ UNCHANGED << mode, index, records, tx >>

----------------------------------------------------------------------------
Write ==
  \/ \E k \in ArgKeys, v \in ArgValues : AddKv(k, v) \/ PutKv(k, v)
  \/ \E v \in ArgValues : AddOrPut(v)
  \/ \E k \in ArgKeys : Delete(k)
  \/ \E range \in ArgRanges : DeleteRange(range)
  \/ Clear

Upgrade ==
  \/ \E flaw \in Flaws, kind \in {"plain", "unique"} : CreateIndex(kind, flaw)
  \/ \E flaw \in Flaws : CreateObjectStore(flaw)
  \/ DeleteIndex \/ DeleteObjectStore

StoreNext == Write \/ Upgrade
=============================================================================
