----------------------------- MODULE MCIOUpdate ------------------------------
(***************************************************************************)
(* Model-checking instance of IOUpdate.  Four packets and numbers up to 2  *)
(* make the sequence number wrap; two waits and three transmissions give   *)
(* every outcome of a packet.  With three updates the answers to the start *)
(* of the first can begin the second, and packets of the second be taken   *)
(* for packets of the third.                                               *)
(***************************************************************************)
EXTENDS IOUpdate
=============================================================================
