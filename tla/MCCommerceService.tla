------------------------- MODULE MCCommerceService -------------------------
(***************************************************************************)
(* Two threads and two request ids, which may be exchanged.                *)
(***************************************************************************)
EXTENDS CommerceService, TLC

CONSTANTS t1, t2, q1, q2, p1

Exchanges == Permutations({t1, t2}) \union Permutations({q1, q2})
=============================================================================
