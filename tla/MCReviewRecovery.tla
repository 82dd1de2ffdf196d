-------------------------- MODULE MCReviewRecovery --------------------------
(***************************************************************************)
(* Two entries, the second with two contents, and the sets that a first    *)
(* evaluation had: none, or one entry that a later batch must contain.     *)
(***************************************************************************)
EXTENDS ReviewRecovery

CONSTANTS x1, x2

Entry(id, content) == [id |-> id, content |-> content]

MCEvidence == {Entry(x1, "first"), Entry(x2, "first"), Entry(x2, "revised")}
MCInitialSets == {{}, {Entry(x1, "first")}}
=============================================================================
