----------------------------- MODULE MCTimeSync ------------------------------
(***************************************************************************)
(* Model-checking instance of TimeSync.  As in the code, the interval is   *)
(* a multiple of the pause and the range of the count is not, and the      *)
(* pause is longer than the smallest step of the clock, so that a step may *)
(* just miss the comparison on either side of the wrap.                    *)
(***************************************************************************)
EXTENDS TimeSyncProofs
=============================================================================
