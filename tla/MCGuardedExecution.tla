------------------------- MODULE MCGuardedExecution -------------------------
(***************************************************************************)
(* Two processes over one mandate-state database.  c1 and c2 carry the same *)
(* nonce and ask for different orders.                                      *)
(***************************************************************************)
EXTENDS GuardedExecution

CONSTANTS k1, k2, e1, e2, a1, c1, c2, n1, r1, r2

MCVersions == 1..2
MCTimes == 1..2
MCOneTime == {1}
MCOneVersion == {1}
MCConnectionOf == [t \in Threads |-> IF t = e1 THEN k1 ELSE k2]
MCNonceOf == [c \in Capabilities |-> n1]
MCRequestOf == [c \in Capabilities |-> IF c = c1 THEN r1 ELSE r2]
=============================================================================
