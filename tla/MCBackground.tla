---------------------------- MODULE MCBackground ----------------------------
(***************************************************************************)
(* Instances of Background for TLC.                                        *)
(***************************************************************************)
EXTENDS Background

CONSTANTS r1, r2, w1, w2

=============================================================================
