---------------------------- MODULE MCSettingsDB -----------------------------
(***************************************************************************)
(* Model-checking instance of SettingsDB.  One command for each kind of    *)
(* name (of NormalSetting, of DevInfo, and the one that no row has); two   *)
(* saves let a failed COMMIT meet a later one that succeeds or is undone.  *)
(***************************************************************************)
EXTENDS SettingsDB

CONSTANTS a1, a2

TwoValues == {a1, a2}

SomeCommands ==
  {c \in AllCommands : c.command \in {"SETMAC", "SETIP_S", "SETGW_S"}}

AnyFault == AllFaults
NoFault  == {}
=============================================================================
