------------------------------ MODULE MCDspLink ------------------------------
(***************************************************************************)
(* Model-checking instance of DspLink.  With one poll a command times out  *)
(* as easily as it is answered; two commands and the three of ADCADJ let a *)
(* late answer, a flag left up and a command in the making meet.           *)
(***************************************************************************)
EXTENDS DspLink
=============================================================================
