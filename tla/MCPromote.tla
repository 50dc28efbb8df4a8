----------------------------- MODULE MCPromote -----------------------------
(***************************************************************************)
(* Instances of Promote.                                                   *)
(***************************************************************************)
EXTENDS Promote

\* Each repository: the old head "o", somebody's direct commit "t" on top of
\* it, and the revisions "a" and "b" to promote, each made from "o".
CommitDef == {"o", "t", "a", "b"}
AncDef == [s \in Sub |-> [c \in CommitDef |-> {"o", c}]]
Trunk0Def == {{"o"}, {"o", "t"}}

\* Three subsystems in a circle of dependencies.
GroupJob == {"p1", "p2", "p3"}
GroupOwn == [j \in GroupJob |-> CASE j = "p1" -> 1 [] j = "p2" -> 2 [] j = "p3" -> 3]
GroupLists == [j \in GroupJob |->
  CASE j = "p1" -> {1, 2} [] j = "p2" -> {2, 3} [] j = "p3" -> {1, 3}]
GroupRev == [j \in GroupJob |-> [s \in GroupLists[j] |-> "a"]]

\* p1 depends on revision "a" of repository 2, which p2 promotes; r2 is a rerun
\* of p2 whose rev.txt lists another revision of repository 1 as well; f is a
\* forced promotion of repository 2.
MixedJob == {"p1", "p2", "r2", "f"}
MixedOwn == [j \in MixedJob |-> IF j = "p1" THEN 1 ELSE 2]
MixedLists == [j \in MixedJob |-> IF j \in {"p1", "r2"} THEN {1, 2} ELSE {2}]
MixedRev == [j \in MixedJob |-> [s \in MixedLists[j] |->
  IF j = "r2" /\ s = 1 THEN "b" ELSE "a"]]
MixedTrunk0 == {{"o", "t"}}
SharedJob == MixedJob \ {"f"}
SharedOwn == [j \in SharedJob |-> MixedOwn[j]]
SharedRev == [j \in SharedJob |-> MixedRev[j]]
=============================================================================
