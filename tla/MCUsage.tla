------------------------------ MODULE MCUsage ------------------------------
(***************************************************************************)
(* Reports with three collectors, of which "b" samples another host, with  *)
(* a project of the same name, and logs in to the controller for it.       *)
(***************************************************************************)
EXTENDS Reports

HostDef == [r \in Run |-> IF r = "b" THEN "h2" ELSE "h1"]
ProjectsDef == [h \in {"h1", "h2"} |->
  IF h = "h1" THEN [p \in {"P", "Q"} |-> IF p = "P" THEN {"i", "off"} ELSE {}]
              ELSE [p \in {"P", "admin", "old"} |-> {"i", "j"}]]
\* 10 o'clock, or a morning, an afternoon and an evening, of day 1; midnight.
Pair(q, r, x, y) == (q :> x) @@ (r :> y)
Triple(p, x, y, z) == (p :> x) @@ ("c" :> y) @@ ("d" :> z)
S(d, t) == [date |-> d, tools |-> t]
SettingsDef == {
  S(Pair("a", "b", 68, 68), {"ssh", "nova"}),
  S(Pair("a", "b", 68, 68), {"drop", "missing", "alter"}),
  S(Pair("b", "c", 68, 96), {"slow", "kill", "down"}),
  S(Pair("a", "c", 68, 96), {"slow", "report"}),
  S(Pair("a", "c", 68, 96), {"drop", "report"}),
  S(Triple("b", 68, 68, 96), {"slow"}),
  S(Triple("b", 68, 68, 96), {"kill"}),
  S(Triple("b", 68, 68, 96), {"drop", "missing"}),
  S(Triple("a", 68, 78, 87), {"report"}) }

\* One host, sampled at 9, 10, 15 and 19 o'clock of a day.
OneHostDef == [r \in Run |-> "h1"]
OneProjectDef == [h \in {"h1"} |-> [p \in {"P"} |-> {"i"}]]
DayDef == {S(Pair("a", "b", 66, 68) @@ Pair("c", "d", 78, 87), {"report"})}
=============================================================================
