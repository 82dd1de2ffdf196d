-------------------------- MODULE MCPlaygroundPage --------------------------
(***************************************************************************)
(* Two guided scenarios may overlap with each other and with an            *)
(* authorization and an operation.                                         *)
(***************************************************************************)
EXTENDS PlaygroundPage

CONSTANTS g1, g2
=============================================================================
