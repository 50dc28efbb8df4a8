----------------------------- MODULE MCCompile -----------------------------
(***************************************************************************)
(* Compile with three git modules and one foreign one for two tokens.      *)
(* Module 1 is under test, module 3 is SS_ILProduct.  The dashboard knows  *)
(* module 2 as a member of the group, or cannot be asked; the change under *)
(* test depends on the change "d" of module 2, or of module 1 itself.      *)
(***************************************************************************)
EXTENDS Compile

ConfigsDef == {{}, {1, 2, 3}}
ConfigRefDef == [m \in Mod |-> "trunk"]
GroupsDef == {<<>>, <<[sub |-> 2, ref |-> "branch"]>>}
DependsDef == [v \in Version |->
  IF v = "c" THEN <<[sub |-> 2, ref |-> "d"], [sub |-> 1, ref |-> "d"]>> ELSE <<>>]
=============================================================================
