---------------------------- MODULE TrunkPromise ----------------------------
(***************************************************************************)
(* What a promotion promises, without queue, fetches or merge order: the   *)
(* trunk of a repository only ever grows, unless a forced promotion        *)
(* replaces it, and a promotion that reports success has every revision of *)
(* its rev.txt on the trunks (except on those a forced promotion cut).     *)
(* A promotion lands repository by repository, so one that stops may leave *)
(* some of its repositories promoted: the promise is not all-or-nothing.   *)
(***************************************************************************)
EXTENDS Naturals

CONSTANTS Sub,      \* the repositories (subsystems)
          Job,      \* the promotions
          Commit,   \* the revisions
          Rev,      \* Rev[j] is rev.txt of promotion j: subsystem -> revision
          Anc,      \* Anc[s][c] is the history of revision c in s, c included
          Forced,   \* the promotions run with force_push other than "false"
          Trunk0    \* the histories a trunk may start with

VARIABLES trunk,    \* trunk[s] is the set of commits reachable from its head
          cut,      \* the trunks a forced push took commits from
          result    \* "running", "promoted" or "stopped", per promotion

vars == <<trunk, cut, result>>

Landed(j, s) == Rev[j][s] \in trunk[s]

Init ==
  /\ trunk \in [Sub -> Trunk0]
  /\ cut = {}
  /\ result = [j \in Job |-> "running"]

\* The last repository of a promotion may land in the step that ends it.
MayFinish(j) ==
  \/ UNCHANGED result
  \/ /\ result' = [result EXCEPT ![j] = "promoted"]
     /\ \A s \in DOMAIN Rev[j] : Landed(j, s)' \/ s \in cut'

Grow(j, s) ==
  /\ result[j] = "running"
  /\ trunk' = [trunk EXCEPT ![s] = trunk'[s]]
  /\ trunk[s] \cup Anc[s][Rev[j][s]] \subseteq trunk'[s]
  /\ trunk'[s] \subseteq Commit \cup Job
  /\ UNCHANGED cut
  /\ MayFinish(j)

Replace(j, s) ==
  /\ result[j] = "running"
  /\ j \in Forced
  /\ trunk' = [trunk EXCEPT ![s] = Anc[s][Rev[j][s]]]
  /\ cut' = IF trunk[s] \subseteq trunk'[s] THEN cut ELSE cut \cup {s}
  /\ MayFinish(j)

Finish(j) ==
  /\ result[j] = "running"
  /\ UNCHANGED <<trunk, cut>>
  /\ result' = [result EXCEPT ![j] = "promoted"]
  /\ \A s \in DOMAIN Rev[j] : Landed(j, s) \/ s \in cut

Stop(j) ==
  /\ result[j] = "running"
  /\ result' = [result EXCEPT ![j] = "stopped"]
  /\ UNCHANGED <<trunk, cut>>

Next ==
  \E j \in Job :
    \/ \E s \in DOMAIN Rev[j] : Grow(j, s) \/ Replace(j, s)
    \/ Finish(j)
    \/ Stop(j)

Spec == Init /\ [][Next]_vars
=============================================================================
