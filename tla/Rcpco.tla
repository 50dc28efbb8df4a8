------------------------------- MODULE Rcpco -------------------------------
(***************************************************************************)
(* src/checkout/git_rcpco.sh: the gerrit modules of a workspace.           *)
(*                                                                         *)
(* After the gitlab repositories, the modules are set up and then checked  *)
(* out by two pools of background jobs.  A job is started with a token     *)
(* read from a fifo and puts it back when it ends; `wait` ends each pool.  *)
(* The first pool collects the file rcp_external, from which the second    *)
(* takes each module's branch.  Last come the versions under test and the  *)
(* gerrit changes they depend on.                                          *)
(*                                                                         *)
(* A git fetch may fail each time it is tried; whether git has emptied     *)
(* FETCH_HEAD by then depends on its version, so both are possible.        *)
(***************************************************************************)
EXTENDS Naturals, Sequences, FiniteSets

CONSTANTS NMod,      \* gerrit modules, numbered in the order `sort` gives them
          Thread,    \* tokens in the fifo
          MaxRetry,  \* max_retry of retry_cmd
          Gitlab,    \* whether external_files may name a gitlab repository
          Ref,       \* branches and gerrit changes to test
          Change,    \* those with "refs" in their name
          Tests,     \* the pairs of $2 and $3, in order
          Depends    \* Depends[r]: the [DEPENDS:...] of a version, in order

Mod == 1 .. NMod
Main == 0                       \* the script itself, beside its background jobs
Version == {"none", "old", "stale", "map", "branch"} \cup Ref
Request == [sub : Mod, ref : Ref]

ASSUME RcpcoAssumption ==
  /\ NMod \in Nat
  /\ Thread \in Nat \ {0}
  /\ MaxRetry \in Nat \ {0}
  /\ Gitlab \subseteq BOOLEAN
  /\ Change \subseteq Ref /\ Ref \cap {"none", "old", "stale", "map", "branch"} = {}
  /\ Tests \in Seq(Request)
  /\ Depends \in [Version -> Seq(Request)]

VARIABLES
  gitlab,    \* external_files names a gitlab repository
  phase,     \* where the script is
  next,      \* the next module of the current loop
  tokens,    \* tokens in the fifo
  job,       \* job[pool][m]: where the background job of module m is
  tries,     \* cur_try of the retry_cmd that a process is running
  external,  \* the first line of rcp_external on a module: this run's ("branch"),
             \* one of an earlier run ("stale"), or none
  branch,    \* the branch that the checkout of a module has read there
  fetched,   \* FETCH_HEAD of a module's repository
  head,      \* its HEAD
  failed,    \* the fetches that failed for good: of what, in which module
  at,        \* the request under test and where it is
  deps,      \* the shell variable deps
  todo       \* what the loop over it has still to visit

pools == <<next, tokens, job>>
repos == <<fetched, head>>
tests == <<at, deps, todo>>
vars == <<gitlab, phase, pools, tries, external, branch, repos, failed, tests>>

Pool == {"clone", "checkout"}
Working == {"append", "fetchMap", "fetchBranch", "head", "token"}
Phase == {"gitlab", "tests", "done", "exited"} \cup Pool

Init ==
  /\ gitlab \in Gitlab
  /\ phase = "gitlab"
  /\ next = 1
  /\ tokens = Thread
  /\ job = [p \in Pool |-> [m \in Mod |-> "none"]]
  /\ tries = [p \in {Main} \cup Mod |-> 0]
  /\ external \in [Mod -> {"none", "stale"}]
  /\ branch = [m \in Mod |-> "none"]
  /\ head \in [Mod -> {"none", "old"}]
  /\ fetched = head
  /\ failed = {}
  /\ at = [test |-> 1, step |-> "fetch"]
  /\ deps = <<>>
  /\ todo = <<>>

-----------------------------------------------------------------------------
(* git fetch under retry_cmd, in repository m, by process p *)

FetchOk(p, m, v) ==
  /\ fetched' = [fetched EXCEPT ![m] = v]
  /\ tries' = [tries EXCEPT ![p] = 0]

FetchFails(m) ==
  \E v \in {fetched[m], "none"} : fetched' = [fetched EXCEPT ![m] = v]

FetchAgain(p) ==
  /\ tries[p] + 1 < MaxRetry
  /\ tries' = [tries EXCEPT ![p] = @ + 1]

GiveUp(p) ==
  /\ tries[p] + 1 = MaxRetry
  /\ tries' = [tries EXCEPT ![p] = 0]

\* git checkout FETCH_HEAD; it fails, and HEAD stays, if FETCH_HEAD is empty.
CheckoutFetchHead(m) ==
  head' = [head EXCEPT ![m] = IF fetched[m] = "none" THEN @ ELSE fetched[m]]

-----------------------------------------------------------------------------
(* clglbsubs *)

\* Nothing to do: go on to "rm -fr rcp_external".
MutNoGitlab ==
  /\ phase = "gitlab"
  /\ ~ gitlab
  /\ phase' = "clone"
  /\ UNCHANGED <<gitlab, pools, tries, external, branch, repos, failed, tests>>

NoGitlab ==
  /\ phase = "gitlab"
  /\ ~ gitlab
  /\ phase' = "clone"
  /\ external' = [m \in Mod |-> "none"]
  /\ UNCHANGED <<gitlab, pools, tries, branch, repos, failed, tests>>

\* The first repository.  "|| echo ...;exit 1" ends the script whether or not
\* the fetch worked, so there is never a second one, nor a checkout of this one.
Gitlabs ==
  /\ phase = "gitlab"
  /\ gitlab
  /\ \/ /\ tries' = [tries EXCEPT ![Main] = 0]
        /\ phase' = "exited"
        /\ UNCHANGED failed
     \/ /\ FetchAgain(Main)
        /\ UNCHANGED <<phase, failed>>
     \/ /\ GiveUp(Main)
        /\ failed' = failed \cup {<<Main, "gitlab">>}
        /\ phase' = "exited"
  /\ UNCHANGED <<gitlab, pools, external, branch, repos, tests>>

-----------------------------------------------------------------------------
(* The two loops over gerrit_module *)

\* read -u6 waits for a token.
Start ==
  /\ phase \in Pool
  /\ next <= NMod
  /\ tokens > 0
  /\ tokens' = tokens - 1
  /\ job' = [job EXCEPT ![phase][next] =
               IF phase = "clone" THEN "append" ELSE "fetchMap"]
  /\ next' = next + 1
  /\ UNCHANGED <<gitlab, phase, tries, external, branch, repos, failed, tests>>

MutWait ==
  /\ phase \in Pool
  /\ next > NMod
  /\ phase' = IF phase = "clone" THEN "checkout" ELSE "tests"
  /\ next' = 1
  /\ UNCHANGED <<gitlab, tokens, job, tries, external, branch, repos, failed, tests>>

Wait ==
  /\ phase \in Pool
  /\ next > NMod
  /\ \A m \in Mod : job[phase][m] = "ended"
  /\ phase' = IF phase = "clone" THEN "checkout" ELSE "tests"
  /\ next' = 1
  /\ UNCHANGED <<gitlab, tokens, job, tries, external, branch, repos, failed, tests>>

MutPutBack(p, m) ==
  /\ job[p][m] = "token"
  /\ job' = [job EXCEPT ![p][m] = "ended"]
  /\ tokens' = IF \E f \in failed : f[1] = m THEN tokens ELSE tokens + 1
  /\ UNCHANGED <<gitlab, phase, next, tries, external, branch, repos, failed, tests>>

\* echo >&6, whatever became of the job.
PutBack(p, m) ==
  /\ job[p][m] = "token"
  /\ job' = [job EXCEPT ![p][m] = "ended"]
  /\ tokens' = tokens + 1
  /\ UNCHANGED <<gitlab, phase, next, tries, external, branch, repos, failed, tests>>

Advance(p, m, to) ==
  /\ job' = [job EXCEPT ![p][m] = to]
  /\ UNCHANGED <<gitlab, phase, next, tokens, tests>>

-----------------------------------------------------------------------------
(* clonesub *)

\* >> adds at the end.  The repository is kept if there is one, else set up
\* without going to the server.
WriteExternal(m) ==
  /\ job["clone"][m] = "append"
  /\ external' = [external EXCEPT ![m] = IF @ = "none" THEN "branch" ELSE @]
  /\ Advance("clone", m, "token")
  /\ UNCHANGED <<tries, branch, repos, failed>>

-----------------------------------------------------------------------------
(* checkoutsub *)

\* The branch is read first.  The plain fetch is that of refs/svn/map; after
\* three failures "(echo ...;exit 1)" ends a subshell and the job goes on.
FetchMap(m) ==
  /\ job["checkout"][m] = "fetchMap"
  /\ branch' = [branch EXCEPT ![m] = IF tries[m] = 0 THEN external[m] ELSE @]
  /\ \/ /\ FetchOk(m, m, "map")
        /\ Advance("checkout", m, "fetchBranch")
        /\ UNCHANGED failed
     \/ /\ FetchFails(m)
        /\ FetchAgain(m)
        /\ Advance("checkout", m, "fetchMap")
        /\ UNCHANGED failed
     \/ /\ FetchFails(m)
        /\ GiveUp(m)
        /\ failed' = failed \cup {<<m, "map">>}
        /\ Advance("checkout", m, "fetchBranch")
  /\ UNCHANGED <<external, head>>

\* Without a branch the command is the plain fetch again.
FetchBranch(m) ==
  /\ job["checkout"][m] = "fetchBranch"
  /\ \/ /\ FetchOk(m, m, IF branch[m] = "none" THEN "map" ELSE branch[m])
        /\ Advance("checkout", m, "head")
        /\ UNCHANGED failed
     \/ /\ FetchFails(m)
        /\ FetchAgain(m)
        /\ Advance("checkout", m, "fetchBranch")
        /\ UNCHANGED failed
     \/ /\ FetchFails(m)
        /\ GiveUp(m)
        /\ failed' = failed \cup {<<m, "branch">>}
        /\ Advance("checkout", m, "head")
  /\ UNCHANGED <<external, branch, head>>

\* And link it into the workspace.
CheckoutHead(m) ==
  /\ job["checkout"][m] = "head"
  /\ CheckoutFetchHead(m)
  /\ Advance("checkout", m, "token")
  /\ UNCHANGED <<tries, external, branch, fetched, failed>>

-----------------------------------------------------------------------------
(* "checkout test version" *)

Testing(step) ==
  /\ phase = "tests"
  /\ at.test <= Len(Tests)
  /\ at.step = step

Step(s) == at' = [at EXCEPT !.step = s]

\* Tried once, and the script goes on in any case.
TestFetch ==
  /\ Testing("fetch")
  /\ LET t == Tests[at.test] IN
       \/ /\ fetched' = [fetched EXCEPT ![t.sub] = t.ref]
          /\ UNCHANGED failed
       \/ /\ FetchFails(t.sub)
          /\ failed' = failed \cup {<<t.sub, t.ref>>}
  /\ Step("head")
  /\ UNCHANGED <<gitlab, phase, pools, tries, external, branch, head, deps, todo>>

\* deps is assigned for a gerrit change only, and is never reset.
MutDepsOf(ref, h) ==
  IF ref \in Change /\ Depends[h] # <<>> THEN Depends[h] ELSE deps

DepsOf(ref, h) == IF ref \in Change THEN Depends[h] ELSE deps

TestHead ==
  /\ Testing("head")
  /\ LET t == Tests[at.test] IN
       /\ CheckoutFetchHead(t.sub)
       /\ deps' = DepsOf(t.ref, head'[t.sub])
  /\ todo' = deps'
  /\ Step("deps")
  /\ UNCHANGED <<gitlab, phase, pools, tries, external, branch, fetched, failed>>

\* gerrit is asked for the reference and, once more, for the module: either may
\* come to nothing.  Without a reference the fetch is the plain one again;
\* without a module no repository is there to fetch in.
DependencyLookup ==
  /\ Testing("deps")
  /\ todo # <<>>
  /\ \/ /\ Step("depFetch") \/ Step("depPlain")
        /\ UNCHANGED <<todo, failed>>
     \/ /\ todo' = Tail(todo)
        /\ failed' = failed \cup {<<Head(todo).sub, Head(todo).ref>>}
        /\ UNCHANGED at
  /\ UNCHANGED <<gitlab, phase, pools, tries, external, branch, repos, deps>>

DependencyFetch ==
  /\ Testing("depFetch") \/ Testing("depPlain")
  /\ LET d == Head(todo) IN
       \/ /\ FetchOk(Main, d.sub, IF at.step = "depPlain" THEN "map" ELSE d.ref)
          /\ Step("depHead")
          /\ UNCHANGED failed
       \/ /\ FetchFails(d.sub)
          /\ FetchAgain(Main)
          /\ UNCHANGED <<at, failed>>
       \/ /\ FetchFails(d.sub)
          /\ GiveUp(Main)
          /\ Step("depHead")
          /\ failed' = failed \cup {<<d.sub, d.ref>>}
  /\ UNCHANGED <<gitlab, phase, pools, external, branch, head, deps, todo>>

DependencyHead ==
  /\ Testing("depHead")
  /\ CheckoutFetchHead(Head(todo).sub)
  /\ todo' = Tail(todo)
  /\ Step("deps")
  /\ UNCHANGED <<gitlab, phase, pools, tries, external, branch, fetched, failed, deps>>

MutTestNext ==
  /\ Testing("deps")
  /\ todo = <<>>
  /\ at' = [test |-> at.test, step |-> "fetch"]
  /\ UNCHANGED <<gitlab, phase, pools, tries, external, branch, repos, failed, deps, todo>>

TestNext ==
  /\ Testing("deps")
  /\ todo = <<>>
  /\ at' = [test |-> at.test + 1, step |-> "fetch"]
  /\ UNCHANGED <<gitlab, phase, pools, tries, external, branch, repos, failed, deps, todo>>

\* The exit status is that of the last script: it does not tell of `failed`.
Finish ==
  /\ phase = "tests"
  /\ at.test > Len(Tests)
  /\ phase' = "done"
  /\ UNCHANGED <<gitlab, pools, tries, external, branch, repos, failed, tests>>

-----------------------------------------------------------------------------
Script ==
  \/ NoGitlab \/ Gitlabs \/ Start \/ Wait
  \/ TestFetch \/ TestHead
  \/ DependencyLookup \/ DependencyFetch \/ DependencyHead \/ TestNext
  \/ Finish

Job(m) ==
  \/ WriteExternal(m) \/ FetchMap(m) \/ FetchBranch(m) \/ CheckoutHead(m)
  \/ \E p \in Pool : PutBack(p, m)

Ended == phase \in {"done", "exited"} /\ UNCHANGED vars

Next == Script \/ (\E m \in Mod : Job(m)) \/ Ended

Spec == Init /\ [][Next]_vars

\* The operating system schedules the script and its jobs, and every git
\* command returns at some time: there is no timeout for one that does not.
FairSpec == Spec /\ WF_vars(Script) /\ \A m \in Mod : WF_vars(Job(m))

-----------------------------------------------------------------------------
(* Properties *)

\* Every variable holds what the script can put there.
TypeOK ==
  /\ gitlab \in BOOLEAN
  /\ phase \in Phase
  /\ next \in 1 .. NMod + 1
  /\ tokens \in 0 .. Thread
  /\ job \in [Pool -> [Mod -> Working \cup {"none", "ended"}]]
  /\ tries \in [{Main} \cup Mod -> 0 .. MaxRetry - 1]
  /\ external \in [Mod -> {"none", "stale", "branch"}]
  /\ branch \in [Mod -> {"none", "stale", "branch"}]
  /\ fetched \in [Mod -> Version]
  /\ head \in [Mod -> Version]
  /\ failed \subseteq ({Main} \cup Mod) \X ({"gitlab", "map", "branch"} \cup Ref)
  /\ at \in [test : 1 .. Len(Tests) + 1,
             step : {"fetch", "head", "deps", "depFetch", "depPlain", "depHead"}]
  /\ deps \in Seq(Request)
  /\ todo \in Seq(Request)

\* git_rcpco.sh:76-124 and 160-168: a token is in the fifo or with one job,
\* through failures and from the first pool into the second, so that no more
\* jobs than `thread` run at once and `read -u6` is never stuck for ever.
Holding == {h \in Pool \X Mod : job[h[1]][h[2]] \in Working}
TokenBalance == tokens + Cardinality(Holding) = Thread

\* git_rcpco.sh:90, 124 and 130-133: the jobs of the first pool write one file
\* in no fixed order, and those of the second read it; none reads before all
\* have written, and none finds a line of an earlier run.
ExternalComplete ==
  \A m \in Mod : job["checkout"][m] # "none" => external = [n \in Mod |-> "branch"]

\* git_rcpco.sh:128-142: FETCH_HEAD goes through the map's head and through
\* failed tries, and may be left from an earlier run, but a module ends the
\* pool on its own branch unless three fetches of that branch failed.
OnOwnBranch ==
  phase = "tests" /\ at = [test |-> 1, step |-> "fetch"] =>
    \A m \in Mod : head[m] = "branch" \/ <<m, "branch">> \in failed

\* git_rcpco.sh:171-194: when the requests from `since` on can be fetched, one
\* that no later request asks over is what its module is left at, unless one
\* of the changes from `since` on brings the module along as a dependency.
Named(r) == {Depends[r][i].sub : i \in DOMAIN Depends[r]}

KeptSince(i, since) ==
  /\ \A k \in i + 1 .. Len(Tests) : Tests[k].sub # Tests[i].sub
  /\ \A k \in since .. Len(Tests) :
       /\ <<Tests[k].sub, Tests[k].ref>> \notin failed
       /\ Tests[k].ref \in Change => Tests[i].sub \notin Named(Tests[k].ref)
  => head[Tests[i].sub] = Tests[i].ref

\* The dependencies of a change are looked at again after each branch that
\* follows it in the list, up to the next change.
Since(i) == CHOOSE k \in 0 .. i : /\ k = 0 \/ Tests[k].ref \in Change
                                 /\ \A l \in k + 1 .. i : Tests[l].ref \notin Change

RequestKept ==
  phase = "done" =>
    \A i \in DOMAIN Tests : KeptSince(i, IF Since(i) = 0 THEN i ELSE Since(i))

\* "checkout test version" (git_rcpco.sh:172) and "check out dependency from
\* gerrit" (180), of the request at hand: what an earlier request depends on
\* does not replace a version that is asked for after it.
OwnDependenciesOnly ==
  phase = "done" => \A i \in DOMAIN Tests : KeptSince(i, i)

\* The script ends: no job waits for ever for a token, nor the script for a job.
Ends == <>(phase \in {"done", "exited"})
=============================================================================
