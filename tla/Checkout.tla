------------------------------ MODULE Checkout ------------------------------
(***************************************************************************)
(* src/checkout/checkout.py: which subsystems a workspace gets.            *)
(*                                                                         *)
(* The subsystems the product's conf file always checks out are the base.  *)
(* resolve_dependencies walks the dependency graph depth first from each   *)
(* requested subsystem; the set it marks is the set of subsystems to check *)
(* out itself, which starts as the base.  The result is then divided:      *)
(* gerrit subsystems and their interfaces go to gerrit_code/external_files *)
(* for git_rcpco.sh, the rest is checked out from svn or git or warned of. *)
(* Sets and dictionaries are iterated in an order the program does not     *)
(* choose, so every choice of "next" element is left open.                 *)
(***************************************************************************)
EXTENDS Naturals, Sequences

CONSTANTS Name,       \* subsystem, interface and tool names, in lower case
          Base,       \* SUBSYSTEMS of conf/<product>.cfg
          Requests,   \* -s: the requested subsystems, in order
          Gerrit,     \* in SUBSYSTEM_GIT_LIST, or named ss_il... or ss_rcp...
          INames,     \* export_i_names of each of them
          Externals   \* the <<svn, git>> lists of externals there may be

ASSUME NamesAssumption ==
  /\ Base \subseteq Name
  /\ Requests \in Seq(Name)
  /\ Gerrit \subseteq Name
  /\ INames \in [Gerrit -> Name]
  /\ Externals \subseteq (SUBSET Name) \X (SUBSET Name)

VARIABLES
  graph,      \* dependency_graph; a name without an entry has no dependencies
  svn, git,   \* the keys of svn_externals and of git_externals
  phase,      \* "resolve", "divide", "locate" or "done"
  nreq,       \* how many requests have been resolved or are being resolved
  stack,      \* active calls of resolve_dependencies, innermost first
  chosen,     \* subsystems_to_checkout, which is also already_resolved
  left,       \* what the loop over a copy of it has still to visit
  exported,   \* names written to external_files
  fromSvn, fromGit, warned

lists == <<graph, svn, git>>
vars == <<lists, phase, nreq, stack, chosen, left, exported,
          fromSvn, fromGit, warned>>

Frame == [node : Name, kids : SUBSET Name]
Requested == {Requests[i] : i \in 1 .. nreq}

\* fetch_dependency_graph never lists a subsystem among its own dependencies.
Graphs == {g \in [Name -> SUBSET Name] : \A n \in Name : n \notin g[n]}

Init ==
  /\ graph \in Graphs
  /\ \E e \in Externals : svn = e[1] /\ git = e[2]
  /\ phase = "resolve"
  /\ nreq = 0
  /\ stack = <<>>
  /\ chosen = Base
  /\ left = {}
  /\ exported = {}
  /\ fromSvn = {} /\ fromGit = {} /\ warned = {}

-----------------------------------------------------------------------------
(* resolve_dependencies *)

Call(n) ==
  /\ stack' = <<[node |-> n, kids |-> graph[n]]>> \o stack
  /\ chosen' = chosen \cup {n}

\* A request is resolved even when it is in the set already.
Request ==
  /\ phase = "resolve"
  /\ stack = <<>>
  /\ nreq < Len(Requests)
  /\ nreq' = nreq + 1
  /\ Call(Requests[nreq + 1])
  /\ UNCHANGED <<lists, phase, left, exported, fromSvn, fromGit, warned>>

MutDrop(k) == Head(stack)
Drop(k) == [Head(stack) EXCEPT !.kids = @ \ {k}]

\* The next dependency in the innermost call: passed over if it is marked.
Kid(k) ==
  /\ stack # <<>>
  /\ k \in Head(stack).kids
  /\ IF k \in chosen
     THEN /\ stack' = <<Drop(k)>> \o Tail(stack)
          /\ UNCHANGED chosen
     ELSE /\ stack' = <<[node |-> k, kids |-> graph[k]], Drop(k)>> \o Tail(stack)
          /\ chosen' = chosen \cup {k}
  /\ UNCHANGED <<lists, phase, nreq, left, exported, fromSvn, fromGit, warned>>

MutReturn ==
  /\ stack # <<>>
  /\ stack' = Tail(stack)
  /\ UNCHANGED <<lists, phase, nreq, chosen, left, exported, fromSvn, fromGit, warned>>

Return ==
  /\ stack # <<>>
  /\ Head(stack).kids = {}
  /\ stack' = Tail(stack)
  /\ UNCHANGED <<lists, phase, nreq, chosen, left, exported, fromSvn, fromGit, warned>>

Resolved ==
  /\ phase = "resolve"
  /\ stack = <<>>
  /\ nreq = Len(Requests)
  /\ phase' = "divide"
  /\ left' = chosen
  /\ UNCHANGED <<lists, nreq, stack, chosen, exported, fromSvn, fromGit, warned>>

-----------------------------------------------------------------------------
(* The two loops of the main program. *)

MutINamesOf(n) == {}
INamesOf(n) == IF n \in Gerrit /\ INames[n] \in svn THEN {INames[n]} ELSE {}

\* The export of a gerrit subsystem happens after its removal from the set: if
\* that raises, or if it has no external at all, nothing is said of it.
Divide(n) ==
  /\ phase = "divide"
  /\ n \in left
  /\ left' = left \ {n}
  /\ IF n \in Gerrit
     THEN LET rest == chosen \ INamesOf(n) IN
          /\ chosen' = rest \ {n}
          /\ exported' = exported \cup INamesOf(n)
                           \cup (IF n \in rest /\ n \in svn \cup git THEN {n} ELSE {})
     ELSE UNCHANGED <<chosen, exported>>
  /\ UNCHANGED <<lists, phase, nreq, stack, fromSvn, fromGit, warned>>

Divided ==
  /\ phase = "divide"
  /\ left = {}
  /\ phase' = "locate"
  /\ left' = chosen
  /\ UNCHANGED <<lists, nreq, stack, chosen, exported, fromSvn, fromGit, warned>>

Locate(n) ==
  /\ phase = "locate"
  /\ n \in left
  /\ left' = left \ {n}
  /\ \/ /\ n \in svn
        /\ fromSvn' = fromSvn \cup {n}
        /\ UNCHANGED <<fromGit, warned>>
     \/ /\ n \in git \ svn
        /\ fromGit' = fromGit \cup {n}
        /\ UNCHANGED <<fromSvn, warned>>
     \/ /\ n \notin svn \cup git
        /\ warned' = warned \cup {n}
        /\ UNCHANGED <<fromSvn, fromGit>>
  /\ UNCHANGED <<lists, phase, nreq, stack, chosen, exported>>

\* git_rcpco.sh is run (module Rcpco) and its exit status is not looked at.
Finish ==
  /\ phase = "locate"
  /\ left = {}
  /\ phase' = "done"
  /\ UNCHANGED <<lists, nreq, stack, chosen, left, exported, fromSvn, fromGit, warned>>

Done == phase = "done" /\ UNCHANGED vars

Work ==
  \/ Request \/ Return \/ Resolved \/ Divided \/ Finish
  \/ \E n \in Name : Kid(n) \/ Divide(n) \/ Locate(n)

Next == Work \/ Done

Spec == Init /\ [][Next]_vars

\* One process that nothing blocks.
FairSpec == Spec /\ WF_vars(Work)

-----------------------------------------------------------------------------
(* Properties *)

\* Every variable holds what the program can put there.
TypeOK ==
  /\ graph \in Graphs
  /\ svn \subseteq Name /\ git \subseteq Name
  /\ phase \in {"resolve", "divide", "locate", "done"}
  /\ nreq \in 0 .. Len(Requests)
  /\ stack \in Seq(Frame)
  /\ phase # "resolve" => stack = <<>> /\ nreq = Len(Requests)
  /\ chosen \subseteq Name
  /\ left \subseteq Name
  /\ exported \subseteq Name
  /\ fromSvn \subseteq Name /\ fromGit \subseteq Name /\ warned \subseteq Name

\* A set the checkout could stop at: it holds the base and the requests, and
\* what its members need, except that a base subsystem nobody asked for does
\* not bring its dependencies along (it is in already_resolved from the start).
Complete(S) ==
  /\ Base \subseteq S
  /\ Requested \subseteq S
  /\ \A n \in S : n \in Requested \/ n \notin Base => graph[n] \subseteq S

\* checkout.py:343-359: the calls share one set, skip what an unfinished outer
\* call has marked, and run into cycles.  Still, when the last one returns, the
\* set is complete, and nothing is in it without need: it is the least such
\* set, so the order of iteration makes no difference.
ResolvedExactly ==
  phase = "resolve" /\ stack = <<>> =>
    /\ Complete(chosen)
    /\ \A S \in SUBSET Name : Complete(S) => chosen \subseteq S

\* What every complete set has: what a checkout of the request needs.
Needed(n) == \A S \in SUBSET Name : Complete(S) => n \in S

ComesFrom(n) ==
  {w \in {"gerrit", "svn", "git", "warning"} :
     \/ w = "gerrit" /\ n \in exported
     \/ w = "svn" /\ n \in fromSvn
     \/ w = "git" /\ n \in fromGit
     \/ w = "warning" /\ n \in warned}

\* The interfaces that gerrit subsystems bring along.
BroughtAlong(n) == n \in svn /\ \E m \in Gerrit : Needed(m) /\ n = INames[m]

\* checkout.py:458-465: those that the program drops without a word: gerrit subsystems
\* in neither list of externals.
Dropped(n) == n \in Gerrit \ (svn \cup git) /\ ~ BroughtAlong(n)

Place(n) ==
  CASE BroughtAlong(n) \/ n \in Gerrit -> "gerrit"
    [] ~ BroughtAlong(n) /\ n \in svn \ Gerrit -> "svn"
    [] ~ BroughtAlong(n) /\ n \in git \ (svn \cup Gerrit) -> "git"
    [] OTHER -> "warning"

\* checkout.py:449-527: at the end every subsystem that was needed either has just one
\* place it comes from, or a warning that it has none, or is a gerrit one without an
\* external, and then it is in no place, and no warning says so.  Whether an
\* interface is taken from the set before or after its own turn makes no difference.
PlacedOrDropped ==
  phase = "done" => \A n \in Name : Needed(n) =>
    ComesFrom(n) = IF Dropped(n) THEN {} ELSE {Place(n)}

\* The recursion ends on every graph, cyclic ones too, and so does the program.
Ends == <>(phase = "done")
=============================================================================
