------------------------------ MODULE MCRunIndex ------------------------------
(* An instance of RunIndex for TLC.                                         *)
EXTENDS RunIndex

CONSTANTS writer, other, c1, c2

\* Two sessions share the root, each makes a call.
TwoOwners == [c \in Calls |-> IF c = c1 THEN writer ELSE other]
==============================================================================
