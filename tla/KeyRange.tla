------------------------------ MODULE KeyRange ------------------------------
(***************************************************************************)
(* How the crate turns a Rust range of keys into the browser's IDBKeyRange  *)
(* (`make_key_range`, src/utils.rs).  Keys are natural numbers; 0 stands    *)
(* for a JavaScript value that is no key (a boolean, an object).            *)
(***************************************************************************)
EXTENDS Naturals

BadKey == 0

Unbounded == [kind |-> "Unbounded", key |-> BadKey]

(* std::ops::Bound and RangeBounds over the given keys.                     *)
Bounds(keys) == {Unbounded} \cup [kind : {"Included", "Excluded"}, key : keys]
Ranges(keys) == [lower : Bounds(keys), upper : Bounds(keys)]

RustRange == Ranges(Nat)

Everything == [lower |-> Unbounded, upper |-> Unbounded]

(* RangeBounds::contains of the standard library: what a range means to the *)
(* programmer who writes it.                                                *)
RustContains(range, k) ==
  /\ range.lower.kind = "Included" => range.lower.key <= k
  /\ range.lower.kind = "Excluded" => range.lower.key < k
  /\ range.upper.kind = "Included" => k <= range.upper.key
  /\ range.upper.kind = "Excluded" => k < range.upper.key

----------------------------------------------------------------------------
(* IDBKeyRange: each side has at most one key and a flag.                   *)

InKeyRange(idb, k) ==
  /\ \A b \in idb.lower : b < k \/ (b = k /\ ~idb.lowerOpen)
  /\ \A b \in idb.upper : k < b \/ (b = k /\ ~idb.upperOpen)

(* What a method means by JsValue::UNDEFINED in the place of a range.       *)
AllKeys == [lower |-> {}, upper |-> {}, lowerOpen |-> FALSE, upperOpen |-> FALSE]

(* The browser throws DataError for a bound that is no key and for two      *)
(* bounds with nothing between them.                                        *)
BrowserRefuses(idb) ==
  \/ \E b \in idb.lower \cup idb.upper : b = BadKey
  \/ \E l \in idb.lower, u \in idb.upper :
       u < l \/ (u = l /\ (idb.lowerOpen \/ idb.upperOpen))

----------------------------------------------------------------------------
(* make_key_range.                                                          *)

BoundKey(b) == IF b.kind = "Unbounded" THEN {} ELSE {b.key}

(* Mutant: the flags of bound_with_lower_open_and_upper_open are inverted.  *)
OpenInverted(b) == b.kind = "Included"

Open(b) == b.kind = "Excluded"

KeyRangeOf(range) == [ lower |-> BoundKey(range.lower), lowerOpen |-> Open(range.lower),
                       upper |-> BoundKey(range.upper), upperOpen |-> Open(range.upper) ]

RangeError(range) ==
  IF range = Everything THEN "InvalidRange"
  ELSE IF BrowserRefuses(KeyRangeOf(range)) THEN "InvalidKey"
  ELSE "none"
=============================================================================
