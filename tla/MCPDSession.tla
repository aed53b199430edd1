----------------------------- MODULE MCPDSession -----------------------------
(***************************************************************************)
(* Model-checking instance of PDSession: two consumer threads at a time    *)
(* are enough to see one overlap with the next; three descriptors are      *)
(* enough to run out of them by leaking.                                   *)
(***************************************************************************)
EXTENDS PDSession

CONSTANTS t1, t2

TwoThreads == {t1, t2}

AnyFault == AllFaults
Eof      == {"eof", "streamFails"}
=============================================================================
