----------------------------- MODULE MCServices -----------------------------
(* An instance of Services for TLC: three breaker events of which two have *)
(* the same milliseconds, and two of the items that UpdateScbrVmd writes.  *)
EXTENDS Services

CONSTANTS c1, c2

TwoClients == {c1, c2}
Millis    == <<1, 2, 1>>
SomeTimes == {<<"day", 1>>, <<"tod", 0>>}
TwoItems  == <<"CbAlm", "Mod">>
=============================================================================
