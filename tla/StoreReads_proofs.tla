-------------------------- MODULE StoreReads_proofs --------------------------
(***************************************************************************)
(* What the arguments of a read mean, for every value of them: the range    *)
(* that make_key_range gives to the browser contains exactly what the Rust  *)
(* range contains.                                                          *)
(***************************************************************************)
EXTENDS StoreReads, FiniteSetTheorems, TLAPS

----------------------------------------------------------------------------
(* Ranges.                                                                  *)

(* A bound of a range is Unbounded, or one of the two other kinds with a    *)
(* key.                                                                     *)
LEMMA BoundCases ==
  ASSUME NEW b \in Bounds(Nat)
  PROVE  \/ b.kind = "Unbounded" /\ BoundKey(b) = {} /\ ~Open(b)
         \/ b.kind = "Included" /\ b.key \in Nat /\ BoundKey(b) = {b.key} /\ ~Open(b)
         \/ b.kind = "Excluded" /\ b.key \in Nat /\ BoundKey(b) = {b.key} /\ Open(b)
BY DEF Bounds, Unbounded, BoundKey, Open

(* A key is in the browser's range iff it is in Rust's: all nine forms, for *)
(* any bounds.                                                              *)
THEOREM RangeIsKept ==
  ASSUME NEW range \in RustRange, NEW k \in Nat
  PROVE  InKeyRange(KeyRangeOf(range), k) <=> RustContains(range, k)
<1> DEFINE l == range.lower
           u == range.upper
<1>1. l \in Bounds(Nat) /\ u \in Bounds(Nat)
  BY DEF RustRange, Ranges
<1>2. (\A b \in BoundKey(l) : b < k \/ (b = k /\ ~Open(l)))
        <=> /\ l.kind = "Included" => l.key <= k
            /\ l.kind = "Excluded" => l.key < k
  <2> HIDE DEF l
  <2> QED BY <1>1, BoundCases
<1>3. (\A b \in BoundKey(u) : k < b \/ (b = k /\ ~Open(u)))
        <=> /\ u.kind = "Included" => k <= u.key
            /\ u.kind = "Excluded" => k < u.key
  <2> HIDE DEF u
  <2> QED BY <1>1, BoundCases
<1> QED
  BY <1>2, <1>3 DEF InKeyRange, KeyRangeOf, RustContains

(* What the browser refuses for lack of keys between the bounds is empty in *)
(* Rust as well: InvalidKey never hides a record.                           *)
THEOREM RefusedIsEmpty ==
  ASSUME NEW range \in RustRange, NEW k \in Nat,
         BadKey \notin BoundKey(range.lower) \cup BoundKey(range.upper),
         RangeError(range) = "InvalidKey"
  PROVE  ~RustContains(range, k)
<1> DEFINE l == range.lower
           u == range.upper
<1>1. l \in Bounds(Nat) /\ u \in Bounds(Nat)
  BY DEF RustRange, Ranges
<1>2. BrowserRefuses(KeyRangeOf(range))
  BY DEF RangeError
<1>3. PICK a \in BoundKey(l), b \in BoundKey(u) :
        b < a \/ (b = a /\ (Open(l) \/ Open(u)))
  BY <1>2 DEF BrowserRefuses, KeyRangeOf
<1>4. /\ a = l.key /\ l.key \in Nat /\ l.kind \in {"Included", "Excluded"}
      /\ Open(l) <=> l.kind = "Excluded"
  <2> HIDE DEF l
  <2> QED BY <1>1, <1>3, BoundCases
<1>5. /\ b = u.key /\ u.key \in Nat /\ u.kind \in {"Included", "Excluded"}
      /\ Open(u) <=> u.kind = "Excluded"
  <2> HIDE DEF u
  <2> QED BY <1>1, <1>3, BoundCases
<1> HIDE DEF l, u
<1>6. ~(/\ l.kind = "Included" => l.key <= k
        /\ l.kind = "Excluded" => l.key < k
        /\ u.kind = "Included" => k <= u.key
        /\ u.kind = "Excluded" => k < u.key)
  BY <1>3, <1>4, <1>5
<1> QED
  BY <1>6 DEF RustContains, l, u

----------------------------------------------------------------------------
(* Entries.                                                                 *)

(* Entries as far as their order is concerned.                              *)
IntEntry == [key : Int, primary : Int]

(* There are finitely many entries.                                         *)
LEMMA EntriesFinite ==
  ASSUME NEW src
  PROVE  IsFiniteSet(Entries(src))
<1> DEFINE S == {j \in Present : src = "store" \/ records[j] \in Values}
           f == [k \in S |-> EntryOf(src, k)]
<1>1. IsFiniteSet(Keys)
  BY MaxKeyAssumption, FS_Interval DEF Keys
<1>2. IsFiniteSet(S)
  BY <1>1, FS_Subset DEF Present
<1>3. f \in Surjection(S, Entries(src))
  BY DEF Surjection, Entries
<1> QED
  BY <1>2, <1>3, FS_Surjection
=============================================================================
