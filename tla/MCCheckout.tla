----------------------------- MODULE MCCheckout -----------------------------
(***************************************************************************)
(* Checkout on every dependency graph over four names: the tool directory  *)
(* "build" of the base, the requested gerrit subsystems "il" and "log", and *)
(* "i", the interface of the first; "log" is not named ss_..., so that     *)
(* export_i_names gives the name back.                                     *)
(***************************************************************************)
EXTENDS Checkout

NameDef == {"build", "il", "log", "i"}
RequestsDef == <<"il", "log">>
INamesDef == [n \in {"il", "log"} |-> IF n = "il" THEN "i" ELSE "log"]

\* All in svn; the gerrit ones in git and "build" nowhere; "il" and its
\* interface nowhere and "build" in git.
ExternalsDef == {
  <<NameDef, {}>>,
  <<{"i"}, {"il", "log"}>>,
  <<{"log"}, {"build", "log"}>>}
=============================================================================
