------------------------------ MODULE MCStore ------------------------------
(***************************************************************************)
(* CursorWalk for TLC.  The ranges that callbacks give: one the crate       *)
(* refuses, one the browser refuses, and one with an open and a closed end  *)
(* that leaves the first key out.                                           *)
(***************************************************************************)
EXTENDS CursorWalk

From(kind, k) == [kind |-> kind, key |-> k]

MCRanges == { Everything,
              [lower |-> From("Included", 2), upper |-> From("Included", 1)],
              [lower |-> From("Excluded", 1), upper |-> From("Included", MaxKey)] }
=============================================================================
