----------------------------- MODULE MCQcUtils -----------------------------
(***************************************************************************)
(* QcUtils with two uploads of one test case and reports that list it once *)
(* or twice, three of them at a time; r3 is told the id of the set.  The   *)
(* test case is new, in another folder, or already there twice.  r4 and r5 *)
(* have a result without an id, before or after one with it.               *)
(***************************************************************************)
EXTENDS QcUtils, TLC

UploadDef == [u \in Uploader |-> [tc |-> "a", path |-> "p", req |-> TRUE]]
ResultsDef == ("r1" :> <<"a", "a">>) @@ ("r4" :> <<NoId, "a">>) @@ ("r5" :> <<"a", NoId>>)
              @@ [r \in Reporter |-> <<"a">>]
SetIdDef == [r \in Reporter |-> IF r = "r3" THEN 1 ELSE 0]
InFolder(tc, path) == [tc |-> tc, path |-> path, by |-> Nobody]
Tests0Def == {<<>>, <<InFolder("a", "q")>>, <<InFolder("a", "p"), InFolder("a", "p")>>}
TeamsDef == {{"u1", "u2", "r1"}, {"u1", "r1", "r2"}, {"r1", "r3"}, {"r4", "r5"}}
Sets0Def == {<<>>, <<Nobody>>}
=============================================================================
