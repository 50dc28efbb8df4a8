---------------------------- MODULE MCCciPromote ----------------------------
(***************************************************************************)
(* CciPromote with three runs.  "r" and "n" promote two versions of one    *)
(* subsystem, and "n" does it on both platforms; "r" needs a version of    *)
(* another subsystem, which "o" promotes.                                  *)
(***************************************************************************)
EXTENDS CciPromote

K(t, v) == [trunk |-> t, ver |-> v]
P(t, v, l) == [trunk |-> t, ver |-> v, lists |-> l]

PushDef == [j \in Job |->
  CASE j = "r" -> <<P("A", 1, <<K("B", 2)>>)>>
    [] j = "n" -> <<P("A", 2, <<>>), P("cloudA", 2, <<K("B", 2)>>)>>
    [] j = "o" -> <<P("B", 2, <<>>)>>]
CasesDef == [j \in Job |-> IF j = "r" THEN <<"c">> ELSE <<>>]
Last0Def == {[t \in Trunk |-> 0], [t \in Trunk |-> IF t = "B" THEN 2 ELSE 0]}
FaultsDef == {{"log", "gerrit"}, {"push", "popall"}, {"svn"}, {"kill", "gerrit"}}
=============================================================================
