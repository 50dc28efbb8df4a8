------------------------------ MODULE MCRcpco ------------------------------
(***************************************************************************)
(* Rcpco with three modules for two tokens.  Module 1 is tested with the   *)
(* gerrit change "c1", which depends on the change "c2" of module 2, then  *)
(* module 3 with the change "c3", then module 2 with the branch "b".       *)
(***************************************************************************)
EXTENDS Rcpco

ShortDef == <<[sub |-> 1, ref |-> "c1"], [sub |-> 2, ref |-> "b"]>>
TestsDef == <<ShortDef[1], [sub |-> 3, ref |-> "c3"], ShortDef[2]>>
DependsDef ==
  [v \in Version |-> IF v = "c1" THEN <<[sub |-> 2, ref |-> "c2"]>> ELSE <<>>]
=============================================================================
