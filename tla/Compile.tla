------------------------------ MODULE Compile ------------------------------
(***************************************************************************)
(* src/checkout/compile.sh: one build of a subsystem.                      *)
(*                                                                         *)
(* The workspace is kept from build to build.  Two pools of background     *)
(* jobs (tokens in a fifo) check out the foreign modules from svn and the  *)
(* configured modules from git; then the subsystem is switched to the      *)
(* version under test, and the modules it depends on to theirs; rev.txt    *)
(* records what was compiled, which is what promote.sh later promotes.     *)
(* No git command is checked: one that fails leaves the repository as it   *)
(* was, or with an empty FETCH_HEAD, and the build goes on.                *)
(***************************************************************************)
EXTENDS Naturals, Sequences

CONSTANTS NMod,       \* git modules, numbered in the order `sort` gives them
          NForeign,   \* lines of fp_gitrepo.lst
          Thread,     \* tokens in the fifo
          Own,        \* SUBSYSTEM
          Product,    \* SS_ILProduct, which is copied to "product"
          Configs,    \* the sets of modules the two lists may yield; a list
                      \* that cannot be read yields none
          Ref,        \* branches and gerrit changes
          ConfigRef,  \* the branch a list names for a module
          Change,     \* REFS: the version under test
          Groups,     \* the dependencies the dashboard may answer with
          Depends,    \* Depends[v]: the [DEPENDS:...] of version v
          Tasks,      \* which of "compile", "ut" and "static" to run
          Cloud,      \* whether PRODUCT may be "cloudil"
          Merged      \* whether IS_MERGED may be true

Mod == 1 .. NMod
Nothing == 0                 \* what an empty answer of gerrit is taken to name
Version == {"none", "old"} \cup Ref
Line == [sub : Mod \cup {Nothing}, ref : Ref]
RevLine == [sub : Mod \cup {Nothing}, ref : Ref, ver : Version]

ASSUME CompileAssumption ==
  /\ NMod \in Nat /\ NForeign \in Nat /\ Thread \in Nat \ {0}
  /\ {Own, Product} \subseteq Mod
  /\ Configs \subseteq SUBSET Mod
  /\ ConfigRef \in [Mod -> Ref] /\ Change \in Ref /\ "none" \notin Ref
  /\ Groups \subseteq Seq(Line)
  /\ Depends \in [Version -> Seq(Line)]
  /\ Tasks \subseteq {"compile", "ut", "static"}
  /\ Cloud \subseteq BOOLEAN /\ Merged \subseteq BOOLEAN

VARIABLES
  kind,      \* what is built: task, cloud, merged
  phase,     \* where the script is
  config,    \* the modules in config.txt
  left,      \* what the current pool has still to start
  tokens,    \* tokens in the fifo
  job,       \* job[pool][i]: where the background job of line i is
  repo,      \* the modules with a repository
  fetched,   \* FETCH_HEAD of each
  head,      \* HEAD of each
  failed,    \* the fetches that failed: of what, in which module
  product,   \* the version of Product that "product" is a copy of
  lines,     \* dependency.txt
  todo,      \* what the current loop over dependencies has still to visit
  rev,       \* rev.txt
  outcome    \* what compiler and tests left behind, and the exit status

pool == <<left, tokens, job>>
repos == <<repo, fetched, head>>
files == <<lines, todo, rev>>
vars == <<kind, phase, config, pool, repos, failed, product, files, outcome>>

Pool == {"foreign", "code"}
Items(p) == IF p = "foreign" THEN 1 .. NForeign ELSE Mod
Outcome == [log : {"clean", "errors"}, report : {"passed", "failures"},
            code : {0, 1}, status : {"running", "0", "1"}]

Init ==
  /\ kind \in [task : Tasks, cloud : Cloud, merged : Merged]
  /\ phase = "env"
  /\ config \in Configs
  /\ left = {}
  /\ tokens = Thread
  /\ job = [p \in Pool |-> [i \in Items(p) |-> "none"]]
  /\ head \in [Mod -> {"none", "old"}]
  /\ repo = {m \in Mod : head[m] = "old"}
  /\ fetched = head
  /\ failed = {}
  /\ product = "none"
  /\ lines = <<>> /\ todo = <<>> /\ rev = <<>>
  /\ outcome = [log |-> "clean", report |-> "passed", code |-> 0, status |-> "running"]

-----------------------------------------------------------------------------
(* checkenv *)

\* An unknown product type, or the sack cannot be mounted.
CheckEnvFails ==
  /\ phase = "env"
  /\ phase' = "exited"
  /\ outcome' = [outcome EXCEPT !.code = 1, !.status = "1"]
  /\ UNCHANGED <<kind, config, pool, repos, failed, product, files>>

\* cloudil clones its foreign modules one after the other.
CheckEnv ==
  /\ phase = "env"
  /\ phase' = "foreign"
  /\ left' = IF kind.cloud THEN {} ELSE Items("foreign")
  /\ UNCHANGED <<kind, config, tokens, job, repos, failed, product, files, outcome>>

-----------------------------------------------------------------------------
(* The pools of get_fp_modules and checkout_inittial_code *)

Start(i) ==
  /\ phase \in Pool
  /\ i \in left
  /\ \A k \in left : i <= k
  /\ tokens > 0
  /\ tokens' = tokens - 1
  /\ left' = left \ {i}
  /\ job' = [job EXCEPT ![phase][i] = IF phase = "foreign" THEN "checkout" ELSE "fetch"]
  /\ UNCHANGED <<kind, phase, config, repos, failed, product, files, outcome>>

MutWait ==
  /\ phase \in Pool
  /\ left = {}
  /\ \/ /\ phase = "foreign"
        /\ phase' = "code"
        /\ left' = config
     \/ /\ phase = "code"
        /\ phase' = "ownFetch"
        /\ UNCHANGED left
  /\ UNCHANGED <<kind, config, tokens, job, repos, failed, product, files, outcome>>

Wait ==
  /\ phase \in Pool
  /\ left = {}
  /\ \A i \in Items(phase) : job[phase][i] \in {"none", "ended"}
  /\ \/ /\ phase = "foreign"
        /\ phase' = "code"
        /\ left' = config
     \/ /\ phase = "code"
        /\ phase' = "ownFetch"
        /\ UNCHANGED left
  /\ UNCHANGED <<kind, config, tokens, job, repos, failed, product, files, outcome>>

Advance(p, i, to) == job' = [job EXCEPT ![p][i] = to]

PutBack(p, i) ==
  /\ job[p][i] = "token"
  /\ Advance(p, i, "ended")
  /\ tokens' = tokens + 1
  /\ UNCHANGED <<kind, phase, config, left, repos, failed, product, files, outcome>>

\* svn co, from which nothing later is read here.
Foreign(i) ==
  /\ job["foreign"][i] = "checkout"
  /\ Advance("foreign", i, "token")
  /\ UNCHANGED <<kind, phase, config, left, tokens, repos, failed, product, files, outcome>>

\* git fetch of v in m; it fails where there is no repository.
TryFetch(m, v) ==
  \/ /\ m \in repo'
     /\ fetched' = [fetched EXCEPT ![m] = v]
     /\ UNCHANGED failed
  \/ /\ \E w \in {fetched[m], "none"} : fetched' = [fetched EXCEPT ![m] = w]
     /\ failed' = failed \cup {<<m, v>>}

\* git checkout FETCH_HEAD, of which an empty one fails.
FetchHead(m) == IF fetched[m] = "none" THEN head[m] ELSE fetched[m]

\* git init keeps a repository that is there.
ConfigFetch(i) ==
  /\ job["code"][i] = "fetch"
  /\ repo' = repo \cup {i}
  /\ TryFetch(i, ConfigRef[i])
  /\ Advance("code", i, "head")
  /\ UNCHANGED <<kind, phase, config, left, tokens, head, product, files, outcome>>

ConfigHead(i) ==
  /\ job["code"][i] = "head"
  /\ head' = [head EXCEPT ![i] = FetchHead(i)]
  /\ Advance("code", i, "token")
  /\ UNCHANGED <<kind, phase, config, left, tokens, repo, fetched, failed, product, files, outcome>>

-----------------------------------------------------------------------------
(* The rest of checkout_inittial_code: the version under test *)

OwnFetch ==
  /\ phase = "ownFetch"
  /\ UNCHANGED repo
  /\ TryFetch(Own, Change)
  /\ phase' = "ownHead"
  /\ UNCHANGED <<kind, config, pool, head, product, files, outcome>>

\* And cp -r SS_ILProduct product.
OwnHead ==
  /\ phase = "ownHead"
  /\ head' = [head EXCEPT ![Own] = FetchHead(Own)]
  /\ product' = head'[Product]
  /\ phase' = "group"
  /\ UNCHANGED <<kind, config, pool, repo, fetched, failed, files, outcome>>

-----------------------------------------------------------------------------
(* get_dependency_list *)

\* First the members of the subsystem's group, from the dashboard; a change
\* that is still in gerrit may also name the changes it depends on.
Group ==
  /\ phase = "group"
  /\ lines' \in Groups
  /\ IF kind.merged
     THEN phase' = "rev" /\ UNCHANGED todo
     ELSE phase' = "depends" /\ todo' = Depends[head[Own]]
  /\ UNCHANGED <<kind, config, pool, repos, failed, product, rev, outcome>>

\* One query of gerrit; without an answer an empty line is written.
Depend ==
  /\ phase = "depends"
  /\ todo # <<>>
  /\ \E sub \in {Head(todo).sub, Nothing} :
        lines' = Append(lines, [Head(todo) EXCEPT !.sub = sub])
  /\ todo' = Tail(todo)
  /\ UNCHANGED <<kind, phase, config, pool, repos, failed, product, rev, outcome>>

Listed ==
  /\ phase = "depends"
  /\ todo = <<>>
  /\ phase' = "rev"
  /\ UNCHANGED <<kind, config, pool, repos, failed, product, files, outcome>>

-----------------------------------------------------------------------------
(* switch_depenency_version *)

RevOf(m, r, h) == [sub |-> m, ref |-> r, ver |-> h[m]]

\* The line of the subsystem, which empties rev.txt first.
OwnRev ==
  /\ phase = "rev"
  /\ rev' = <<RevOf(Own, Change, head)>>
  /\ todo' = lines
  /\ phase' = "switch"
  /\ UNCHANGED <<kind, config, pool, repos, failed, product, lines, outcome>>

MutSwitchNothing ==
  /\ phase = "switch"
  /\ todo # <<>>
  /\ Head(todo).sub = Nothing
  /\ UNCHANGED vars

\* In no repository at all: only the line is written.
SwitchNothing ==
  /\ phase = "switch"
  /\ todo # <<>>
  /\ Head(todo).sub = Nothing
  /\ rev' = Append(rev, [sub |-> Nothing, ref |-> Head(todo).ref, ver |-> "none"])
  /\ todo' = Tail(todo)
  /\ UNCHANGED <<kind, phase, config, pool, repos, failed, product, lines, outcome>>

SwitchFetch ==
  /\ phase = "switch"
  /\ todo # <<>>
  /\ Head(todo).sub # Nothing
  /\ UNCHANGED repo
  /\ TryFetch(Head(todo).sub, Head(todo).ref)
  /\ phase' = "switchHead"
  /\ UNCHANGED <<kind, config, pool, head, product, files, outcome>>

MutSwitchHead ==
  /\ phase = "switchHead"
  /\ LET d == Head(todo) IN
       /\ head' = [head EXCEPT ![d.sub] = FetchHead(d.sub)]
       /\ rev' = Append(rev, RevOf(d.sub, d.ref, head))
  /\ todo' = Tail(todo)
  /\ phase' = "switch"
  /\ UNCHANGED <<kind, config, pool, repo, fetched, failed, product, lines, outcome>>

SwitchHead ==
  /\ phase = "switchHead"
  /\ LET d == Head(todo) IN
       /\ head' = [head EXCEPT ![d.sub] = FetchHead(d.sub)]
       /\ rev' = Append(rev, RevOf(d.sub, d.ref, head'))
  /\ todo' = Tail(todo)
  /\ phase' = "switch"
  /\ UNCHANGED <<kind, config, pool, repo, fetched, failed, product, lines, outcome>>

Switched ==
  /\ phase = "switch"
  /\ todo = <<>>
  /\ phase' = "run"
  /\ UNCHANGED <<kind, config, pool, repos, failed, product, files, outcome>>

-----------------------------------------------------------------------------
(* run and check_result *)

\* A merged cloudil build that finds no heat template exits.
NoTemplate ==
  /\ phase = "run"
  /\ kind = [task |-> "compile", cloud |-> TRUE, merged |-> TRUE]
  /\ phase' = "exited"
  /\ outcome' = [outcome EXCEPT !.code = 1, !.status = "1"]
  /\ UNCHANGED <<kind, config, pool, repos, failed, product, files>>

\* EXITCODE is that of the compilation or of the static check; a ut run has
\* both a log and a report, but its own status is overwritten.
Run ==
  /\ phase = "run"
  /\ outcome' \in [log : {"clean", "errors"}, report : {"passed", "failures"},
                   code : {0, 1}, status : {"running"}]
  /\ kind.task = "static" => outcome'.log = "clean"
  /\ kind.task # "ut" => outcome'.report = "passed"
  /\ phase' = "check"
  /\ UNCHANGED <<kind, config, pool, repos, failed, product, files>>

\* "exit 1" in parentheses ends a subshell: a log that is missing and a report
\* with failures change nothing.
CheckResult ==
  /\ phase = "check"
  /\ outcome' = [outcome EXCEPT !.status =
                   IF outcome.log = "errors" \/ outcome.code = 1 THEN "1" ELSE "0"]
  /\ phase' = "exited"
  /\ UNCHANGED <<kind, config, pool, repos, failed, product, files>>

-----------------------------------------------------------------------------
Script ==
  \/ CheckEnvFails \/ CheckEnv \/ Wait \/ OwnFetch \/ OwnHead
  \/ Group \/ Depend \/ Listed
  \/ OwnRev \/ SwitchNothing \/ SwitchFetch \/ SwitchHead \/ Switched
  \/ NoTemplate \/ Run \/ CheckResult
  \/ \E i \in Mod \cup Items("foreign") : Start(i)

Job(p, i) ==
  \/ p = "foreign" /\ Foreign(i)
  \/ p = "code" /\ (ConfigFetch(i) \/ ConfigHead(i))
  \/ PutBack(p, i)

Ended == phase = "exited" /\ UNCHANGED vars

Next == Script \/ (\E p \in Pool : \E i \in Items(p) : Job(p, i)) \/ Ended

Spec == Init /\ [][Next]_vars

\* The operating system schedules the script and its jobs; git, svn, ssh and
\* curl return at some time.
FairSpec ==
  Spec /\ WF_vars(Script) /\ \A p \in Pool : \A i \in Items(p) : WF_vars(Job(p, i))

-----------------------------------------------------------------------------
(* Properties *)

\* Every variable holds what the script can put there.
TypeOK ==
  /\ kind \in [task : Tasks, cloud : Cloud, merged : Merged]
  /\ phase \in Pool \cup {"env", "ownFetch", "ownHead", "group", "depends", "rev",
                          "switch", "switchHead", "run", "check", "exited"}
  /\ config \subseteq Mod
  /\ left \subseteq Mod \cup Items("foreign")
  /\ tokens \in Nat
  /\ \A p \in Pool :
       job[p] \in [Items(p) -> {"none", "checkout", "fetch", "head", "token", "ended"}]
  /\ repo \subseteq Mod
  /\ fetched \in [Mod -> Version] /\ head \in [Mod -> Version]
  /\ failed \subseteq Mod \X Ref
  /\ product \in Version
  /\ lines \in Seq(Line) /\ todo \in Seq(Line) /\ rev \in Seq(RevLine)
  /\ outcome \in Outcome

Ready == phase \in {"run", "check"}

On(q, m) == {i \in DOMAIN q : q[i].sub = m}
LastOn(q, m) == q[CHOOSE i \in On(q, m) : \A k \in On(q, m) : k <= i]

\* compile.sh:157-206 and 255-269: what a build should have of a module, its
\* last dependency line, else the version under test, else the configured
\* branch; and nothing else is known of it.
Wanted(m) ==
  IF On(lines, m) # {} THEN {LastOn(lines, m).ref}
  ELSE IF m = Own THEN {Change}
  ELSE IF m \in config THEN {ConfigRef[m]} ELSE {}

\* A build compiles what it should have of a module, whatever earlier builds
\* left in its repository and whichever job came last, unless a fetch of just
\* that version failed.
BuildsWanted ==
  Ready => \A m \in Mod : \A v \in Wanted(m) : head[m] = v \/ <<m, v>> \in failed

\* compile.sh:249-268: rev.txt has a line for the subsystem and for each
\* dependency, and none for anything else; the last line of a module names the
\* revision that is compiled, also when its fetch failed or it is listed twice.
RevTrue ==
  Ready =>
    /\ \A m \in Mod : On(rev, m) # {} <=> m = Own \/ On(lines, m) # {}
    /\ \A m \in Mod : On(rev, m) # {} => LastOn(rev, m).ver = head[m]

\* compile.sh:202: the copy the build is made with is of the product module
\* that is compiled, unless a dependency switches that one afterwards.
ProductCurrent ==
  Ready => product = head[Product] \/ On(lines, Product) # {}

\* compile.sh:87-94, 135-149, 170-191: no job is left waiting for a token, nor
\* the script for a job.
Ends == <>(phase = "exited")
=============================================================================
