----------------------------- MODULE StoreReads -----------------------------
(***************************************************************************)
(* The methods of ObjectStore and Index that read (src/object_store.rs,     *)
(* src/index.rs): which records a range reaches, and how a call is refused. *)
(* The two types share their code but for what an entry is sorted by.  What *)
(* a call returns is what the browser found, and is left out.               *)
(***************************************************************************)
EXTENDS StoreRequests

(* The entries a source iterates over, and their order.                     *)
EntryOf(src, k) == [key |-> IF src = "store" THEN k ELSE records[k], primary |-> k]

Entries(src) ==
  {EntryOf(src, k) : k \in {j \in Present : src = "store" \/ records[j] \in Values}}

Before(a, b) == a.key < b.key \/ (a.key = b.key /\ a.primary < b.primary)

(* undefined or null in the place of a key.                                 *)
NoKey == -1

(* The entries whose keys are in the browser's range.                       *)
Found(src, query) == {e \in Entries(src) : InKeyRange(query, e.key)}

----------------------------------------------------------------------------
(* `ObjectStore::index`, which comes before any call on the Index.          *)
IndexThrows ==
  IF store = "removed" THEN "InvalidStateError"
  ELSE IF index = "none" THEN "NotFoundError"
  ELSE "none"

(* A call on a source: the crate's make_key_range precedes the request, and *)
(* the browser looks at the store before it looks at a key.                 *)
SourceAnswer(src, table, refusal, error) ==
  IF src = "index" /\ IndexThrows # "none" THEN Mapped(index_err, IndexThrows)
  ELSE IF refusal # "none" THEN refusal
  ELSE IF store = "removed" THEN Mapped(table, "InvalidStateError")
  ELSE IF error # "none" THEN Mapped(table, error)
  ELSE "Ok"

ReadTable(m) == IF m = "count" THEN map_count_err ELSE map_get_err

(* count, get_all, get_all_keys.  An Index has no `count`.                  *)
ReadAll(m, src) ==
  /\ Idle
  /\ src = "index" => m = "get"
  /\ Refused(m, SourceAnswer(src, ReadTable(m), "none", "none"))

(* contains and get.  The browser counts everything where no key is given.  *)
ReadKey(m, src, k) ==
  /\ Idle
  /\ LET error == IF k = BadKey \/ (k = NoKey /\ m = "get") THEN "DataError" ELSE "none"
     IN Refused(m, SourceAnswer(src, ReadTable(m), "none", error))

(* count_in, get_all_in, get_all_keys_in, get_first_in, get_first_key_in.   *)
ReadRange(m, src, range) ==
  /\ Idle
  /\ Refused(m, SourceAnswer(src, ReadTable(m), RangeError(range), "none"))

Reads ==
  \E m \in {"count", "get"}, src \in {"store", "index"} :
    \/ ReadAll(m, src)
    \/ \E k \in {NoKey} \cup ArgKeys : ReadKey(m, src, k)
    \/ \E range \in ArgRanges : ReadRange(m, src, range)
=============================================================================
