----------------------------- MODULE Publication -----------------------------
(***************************************************************************)
(* The publication of breaker values to the IEC 61850 stack: the list of   *)
(* leaves that subsystem_thread makes (sdk/src/sensorcomm.c), the search   *)
(* by name in it and in the whole table (cidcsvmanager.c, main.c), and     *)
(* main, which finds out the kind of the unit after starting the thread.   *)
(*                                                                         *)
(* A leaf is the node it belongs to, the number of the node and the end of *)
(* its name.  No name of the table contains another.  A breaker is         *)
(* supervised by a GLU: the table of an MLU has no leaf of a node SCBR.    *)
(***************************************************************************)
EXTENDS Naturals, Sequences, SequencesExt

CONSTANTS
  MaxLeafs,  \* bound on the table
  Items      \* the ends of names that UpdateScbrVmd looks for, in its order

PublicationConstants == MaxLeafs \in Nat /\ Items \in Seq(STRING) /\ Items # <<>>

VARIABLES
  leafs,     \* the table, p61850mappingtbl, with s32leafnum entries
  unit,      \* what the names in it begin with
  LU,        \* set by main
  scbr,      \* scbr_leaflist[0], as the places of its leaves in the table, whose
             \* order it keeps
  thread,    \* where subsystem_thread is: 0 before the search, then the item
  written    \* for each leaf, the items whose values it has been given

vars == <<leafs, unit, LU, scbr, thread, written>>

Nodes == {"SCBR", "SBSH"}
Leafs == [node : Nodes, number : 1 .. 2, item : ToSet(Items)]
Unset == "unset"

Init ==
  /\ unit \in {"GLU", "MLU"}
  /\ leafs \in UNION {[1 .. n -> Leafs] : n \in 1 .. MaxLeafs}
  /\ IsInjective(leafs)
  /\ unit = "MLU" => \A i \in DOMAIN leafs : leafs[i].node # "SCBR"
  /\ LU = Unset /\ scbr = {} /\ thread = 0
  /\ written = [i \in DOMAIN leafs |-> {}]

\* main: every name tells the unit, so the first does.
FindUnit ==
  /\ LU = Unset
  /\ LU' = unit
  /\ UNCHANGED <<leafs, unit, scbr, thread, written>>

Places(node) == {i \in DOMAIN leafs : leafs[i].node = node}

\* Mutant: a unit of unknown kind is taken for an MLU.
SearchOnlyGLU ==
  /\ thread = 0 /\ thread' = 1
  /\ scbr' = IF LU = "GLU" THEN Places("SCBR") ELSE {}
  /\ UNCHANGED <<leafs, unit, LU, written>>

\* subsystem_thread, once: SearchLeafsX.  The lists of the other nodes are not used.
Search ==
  /\ thread = 0 /\ thread' = 1
  /\ scbr' = IF LU = "MLU" THEN {} ELSE Places("SCBR")
  /\ UNCHANGED <<leafs, unit, LU, written>>

\* GetKeyStringByEndName: the first leaf of the list with that end, or no name.
Keys(item) == {i \in scbr : /\ leafs[i].item = item
                            /\ \A j \in scbr : j < i => leafs[j].item # item}

\* writeVmdPointerByLeafName: the first leaf whose name contains the key, which
\* every name does if it is empty.  The last two are not looked at.
Matches(i, item) == \/ Keys(item) = {}
                    \/ \E k \in Keys(item) : leafs[i] = leafs[k]
Target(item) == {i \in 1 .. (Len(leafs) - 2) :
                   Matches(i, item) /\ \A j \in 1 .. (i - 1) : ~Matches(j, item)}

\* UpdateScbrVmd, one item after the other, over and over.
Update ==
  /\ thread > 0
  /\ thread' = IF thread = Len(Items) THEN 1 ELSE thread + 1
  /\ written' = [i \in DOMAIN leafs |->
                   IF i \in Target(Items[thread]) THEN written[i] \cup {Items[thread]}
                                                  ELSE written[i]]
  /\ UNCHANGED <<leafs, unit, LU, scbr>>

Next == FindUnit \/ Search \/ Update
-----------------------------------------------------------------------------
TypeOK ==
  /\ LU \in {Unset, unit} /\ thread \in 0 .. Len(Items)
  /\ scbr \subseteq DOMAIN leafs
  /\ written \in [DOMAIN leafs -> SUBSET ToSet(Items)]

Own(item) == {i \in DOMAIN leafs : leafs[i].node = "SCBR" /\ leafs[i].item = item}

\* Whichever of main and the thread is first, a value is never written to a leaf of
\* another item or another kind of node if the table has one of its own, and a value
\* that has none spoils no leaf but the first of the table.
OwnLeaf ==
  \A i \in DOMAIN leafs : \A item \in written[i] :
    i \in Own(item) \/ (Own(item) = {} /\ i = 1)
=============================================================================
