----------------------------- MODULE FwTransfer ------------------------------
(***************************************************************************)
(* What IOM_IOBdUpdate promises of a download, without frames, numbers and *)
(* retries: packets are passed one after the other, the board stores no    *)
(* packet the sender has not reached, and the sender passes a packet that  *)
(* the board has stored.  Packet 0 may be passed unseen, and so may any    *)
(* packet of a download that is mixed with one before it (see IOUpdate).   *)
(***************************************************************************)
EXTENDS Naturals

CONSTANT PACKETS

VARIABLES running, passed, stored, mixed

vars == <<running, passed, stored, mixed>>

Init == running = FALSE /\ passed = 0 /\ stored = {} /\ mixed = FALSE

\* A new update is announced; a download need not follow.
Announce == /\ ~running /\ running' = FALSE
            /\ passed' = 0 /\ stored' = {} /\ mixed' \in BOOLEAN

Begin == /\ ~running /\ passed = 0
         /\ running' = TRUE
         /\ UNCHANGED <<passed, stored, mixed>>

\* A packet may reach the board after the sender has given up.
Store(p) == /\ p \in 0 .. (PACKETS - 1) /\ p <= passed
            /\ stored' = stored \cup {p}
            /\ UNCHANGED <<running, passed, mixed>>

Pass == /\ running /\ passed < PACKETS
        /\ passed = 0 \/ passed \in stored \/ mixed
        /\ passed' = passed + 1
        /\ running' \in {TRUE, passed' < PACKETS}
        /\ UNCHANGED <<stored, mixed>>

End == running /\ running' = FALSE /\ UNCHANGED <<passed, stored, mixed>>

Next == \/ Announce \/ Begin \/ Pass \/ End
        \/ \E p \in 0 .. (PACKETS - 1) : Store(p)

Spec == Init /\ [][Next]_vars
=============================================================================
