------------------------------ MODULE MCIOLive -------------------------------
(***************************************************************************)
(* Model-checking instance of IOLive.  The limits of missed checks are     *)
(* those of the code, the counter's range lets it wrap while an outage     *)
(* lasts.                                                                  *)
(***************************************************************************)
EXTENDS IOLive
=============================================================================
