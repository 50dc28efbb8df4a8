------------------------------ MODULE Promote ------------------------------
(***************************************************************************)
(* Concurrent promotions of subsystems to trunk: src/promote/promote.sh    *)
(* and the queue table it drives through src/promote/PCIQueue.py.          *)
(*                                                                         *)
(* A promotion fetches every repository of its rev.txt in sorted order and *)
(* notes as a dependency each revision that is not on the fetched trunk;   *)
(* writes its own row to the queue table; goes on only if its own row and  *)
(* all the dependencies of that row are in the queue; and then merges the  *)
(* repositories one by one, in the same order, into the trunk it fetched   *)
(* at the start, pushing each without force.  A forced promotion skips the *)
(* queue and overwrites the trunks.  Promotions run on different machines  *)
(* and share only the table and the trunks; nothing locks either.          *)
(***************************************************************************)
EXTENDS Naturals, FiniteSets

CONSTANTS NSub,       \* repositories, numbered in the order `sort` gives them
          Job,        \* promotions (Jenkins builds)
          Commit,     \* revisions; the same name in two repositories is two
          Own,        \* Own[j]: the subsystem promotion j was started for
          Rev,        \* Rev[j]: its rev.txt, a function from subsystems
          Anc,        \* Anc[s][c]: the history of revision c of s, c included
          Forced,     \* promotions started with force_push other than "false"
          Trunk0,     \* the histories a trunk may start with
          ListLimit,  \* the LIMIT of the queue query
          Faults,     \* which of "abort", "sql" and "pop" may happen
          NoRow       \* "no such row"

Sub == 1 .. NSub
Listed(j) == DOMAIN Rev[j]
Queued == Job \ Forced        \* the promotions that go through the queue

\* The row a promotion owns: subsystem/branch/subsystem @ revision.
Key(j) == <<Own[j], Rev[j][Own[j]]>>

ASSUME ConstantsAssumption ==
  /\ NSub \in Nat
  /\ IsFiniteSet(Job)
  /\ Job \cap Commit = {}
  /\ NoRow \notin Job
  /\ Own \in [Job -> Sub]
  /\ \A j \in Job : /\ Listed(j) \subseteq Sub
                    /\ Own[j] \in Listed(j)
                    /\ Rev[j] \in [Listed(j) -> Commit]
  /\ Anc \in [Sub -> [Commit -> SUBSET Commit]]
  /\ \A s \in Sub, c \in Commit : c \in Anc[s][c]
  /\ Forced \subseteq Job
  /\ Trunk0 \subseteq SUBSET Commit
  /\ ListLimit \in Nat
  /\ Faults \subseteq {"abort", "sql", "pop"}

VARIABLES
  trunk,      \* trunk[s]: commits reachable from the remote trunk's head; a
              \* merge commit is named by the promotion that made it
  row,        \* the table; row[r] is the row inserted by promotion r
  clock,      \* the second of the latest PushTime
  pc,         \* where each promotion is
  todo,       \* the repositories its current loop has still to visit
  seen,       \* seen[j][s]: its local origin/trunk of s
  deps,       \* the shell variable deps
  hit,        \* id of the row the first SELECT of `push` found
  inqueue,    \* the list subsystem_inqueue of `check`
  pushed,     \* history: the repositories it has pushed to
  cut,        \* history: trunks that lost commits to a forced push
  disturbed   \* history: a fault has happened

jobVars == <<pc, todo, seen, deps, hit, inqueue>>
vars == <<trunk, row, clock, jobVars, pushed, cut, disturbed>>

Active == {"fetch", "select", "write", "list", "own", "merge"}
Ended == {"done", "refused", "rejected", "failed"}
Keys == Sub \X Commit
History == SUBSET (Commit \cup Job)

\* A row of time 0 has not been inserted; its other fields mean nothing.
Row == [deps : SUBSET Keys, inq : BOOLEAN, time : Nat]

Init ==
  /\ trunk \in [Sub -> Trunk0]
  /\ row = [r \in Job |-> [deps |-> {}, inq |-> FALSE, time |-> 0]]
  /\ clock = 0
  /\ pc = [j \in Job |-> "fetch"]
  /\ todo = [j \in Job |-> Listed(j)]
  /\ seen = [j \in Job |-> [s \in Sub |-> {}]]
  /\ deps = [j \in Job |-> {}]
  /\ hit = [j \in Job |-> NoRow]
  /\ inqueue = [j \in Job |-> {}]
  /\ pushed = [j \in Job |-> {}]
  /\ cut = {}
  /\ disturbed = FALSE

-----------------------------------------------------------------------------
(* The two loops over `cat $cfgfile|sort|uniq`. *)

MutOwnFirst(j, s) ==
  /\ s \in todo[j]
  /\ IF Own[j] \in todo[j] THEN s = Own[j] ELSE \A t \in todo[j] : s <= t

IsNext(j, s) ==
  /\ s \in todo[j]
  /\ \A t \in todo[j] : s <= t

\* checkSubExist: git fetch, after which origin/trunk is the trunk of now.
CheckSubExist(j, s) == seen' = [seen EXCEPT ![j][s] = trunk[s]]

\* A listed revision that is missing from the trunk is a dependency, unless it
\* is the promotion's own.
Dependency(j, s) ==
  IF s = Own[j] \/ Rev[j][s] \in trunk[s] THEN {} ELSE {<<s, Rev[j][s]>>}

\* After the last repository the queue comes first, except for a forced
\* promotion.
Fetch(j, s) ==
  /\ pc[j] = "fetch"
  /\ IsNext(j, s)
  /\ CheckSubExist(j, s)
  /\ deps' = [deps EXCEPT ![j] = @ \cup Dependency(j, s)]
  /\ IF todo[j] = {s}
     THEN /\ pc' = [pc EXCEPT ![j] = IF j \in Forced THEN "merge" ELSE "select"]
          /\ todo' = [todo EXCEPT ![j] = Listed(j)]
     ELSE /\ UNCHANGED pc
          /\ todo' = [todo EXCEPT ![j] = @ \ {s}]
  /\ UNCHANGED <<trunk, row, clock, hit, inqueue, pushed, cut, disturbed>>

-----------------------------------------------------------------------------
(* PCIQueue.py push: SELECT the row, then UPDATE it or INSERT a new one. *)

Match(j) == {r \in Job : row[r].time > 0 /\ Key(r) = Key(j)}
Latest(R) == {r \in R : \A q \in R : row[q].time <= row[r].time}

Select(j) ==
  /\ pc[j] = "select"
  /\ \E r \in IF Match(j) = {} THEN {NoRow} ELSE Latest(Match(j)) :
        hit' = [hit EXCEPT ![j] = r]
  /\ pc' = [pc EXCEPT ![j] = "write"]
  /\ UNCHANGED <<trunk, row, clock, todo, seen, deps, inqueue, pushed, cut, disturbed>>

MutWriteNotInQueue(j) ==
  /\ pc[j] = "write"
  /\ clock' = clock + 1
  /\ row' = [row EXCEPT ![IF hit[j] = NoRow THEN j ELSE hit[j]] =
               [deps |-> deps[j], inq |-> FALSE, time |-> clock']]
  /\ pc' = [pc EXCEPT ![j] = "list"]
  /\ UNCHANGED <<trunk, todo, seen, deps, hit, inqueue, pushed, cut, disturbed>>

\* PushTime is CURRENT_TIMESTAMP, whole seconds: the same second as the
\* latest row or a later one.
Write(j) ==
  /\ pc[j] = "write"
  /\ clock' \in {clock, clock + 1} \ {0}
  /\ row' = [row EXCEPT ![IF hit[j] = NoRow THEN j ELSE hit[j]] =
               [deps |-> deps[j], inq |-> TRUE, time |-> clock']]
  /\ pc' = [pc EXCEPT ![j] = "list"]
  /\ UNCHANGED <<trunk, todo, seen, deps, hit, inqueue, pushed, cut, disturbed>>

-----------------------------------------------------------------------------
(* PCIQueue.py check: SELECT the queue, then the promotion's own row. *)

InQueue == {r \in Job : row[r].time > 0 /\ row[r].inq}

\* ORDER BY PushTime DESC LIMIT 0, 1000
Visible ==
  IF Cardinality(InQueue) <= ListLimit
  THEN {InQueue}
  ELSE {R \in SUBSET InQueue :
          /\ Cardinality(R) = ListLimit
          /\ \A r \in R, q \in InQueue \ R : row[q].time <= row[r].time}

List(j) ==
  /\ pc[j] = "list"
  /\ \E R \in Visible : inqueue' = [inqueue EXCEPT ![j] = {Key(r) : r \in R}]
  /\ pc' = [pc EXCEPT ![j] = IF inqueue'[j] = {} THEN "refused" ELSE "own"]
  /\ UNCHANGED <<trunk, row, clock, todo, seen, deps, hit, pushed, cut, disturbed>>

MutNeeded(j, r) == {Key(j)}

\* subsystem_dependency: what the row found says, not what this run computed.
Needed(j, r) == {Key(j)} \cup row[r].deps

OwnRow(j) ==
  /\ pc[j] = "own"
  /\ \/ /\ Match(j) = {}
        /\ pc' = [pc EXCEPT ![j] = "refused"]
     \/ \E r \in Latest(Match(j)) :
           pc' = [pc EXCEPT ![j] =
                    IF Needed(j, r) \subseteq inqueue[j] THEN "merge" ELSE "refused"]
  /\ UNCHANGED <<trunk, row, clock, todo, seen, deps, hit, inqueue, pushed, cut, disturbed>>

-----------------------------------------------------------------------------
(* mergeToTrunk *)

MutLeave(j, s) ==
  /\ todo' = [todo EXCEPT ![j] = @ \ {s}]
  /\ pc' = [pc EXCEPT ![j] = IF s = Own[j] THEN "done" ELSE "merge"]

Leave(j, s) ==
  /\ todo' = [todo EXCEPT ![j] = @ \ {s}]
  /\ pc' = [pc EXCEPT ![j] = IF todo[j] = {s} THEN "done" ELSE "merge"]

\* "has been in $trunk, skip duplicate push": asked of the trunk fetched.
Skip(j, s) ==
  /\ pc[j] = "merge"
  /\ IsNext(j, s)
  /\ Rev[j][s] \in seen[j][s]
  /\ Leave(j, s)
  /\ UNCHANGED <<trunk, row, clock, seen, deps, hit, inqueue, pushed, cut, disturbed>>

\* The head `git merge` makes on top of the fetched trunk.
Merged(j, s) ==
  LET h == Anc[s][Rev[j][s]]
  IN  IF seen[j][s] \subseteq h THEN h ELSE seen[j][s] \cup h \cup {j}

\* git push origin HEAD:trunk is refused unless it is a fast-forward.
MutAccepts(j, s) == TRUE
Accepts(j, s) == trunk[s] \subseteq Merged(j, s)

Push(j, s) ==
  /\ pc[j] = "merge"
  /\ IsNext(j, s)
  /\ j \notin Forced
  /\ Rev[j][s] \notin seen[j][s]
  /\ Accepts(j, s)
  /\ trunk' = [trunk EXCEPT ![s] = Merged(j, s)]
  /\ seen' = [seen EXCEPT ![j][s] = Merged(j, s)]
  /\ pushed' = [pushed EXCEPT ![j] = @ \cup {s}]
  /\ Leave(j, s)
  /\ UNCHANGED <<row, clock, deps, hit, inqueue, cut, disturbed>>

Rejected(j, s) ==
  /\ pc[j] = "merge"
  /\ IsNext(j, s)
  /\ j \notin Forced
  /\ Rev[j][s] \notin seen[j][s]
  /\ ~ Accepts(j, s)
  /\ pc' = [pc EXCEPT ![j] = "rejected"]
  /\ UNCHANGED <<trunk, row, clock, todo, seen, deps, hit, inqueue, pushed, cut, disturbed>>

\* git push origin commitid:refs/heads/trunk -f
ForcePush(j, s) ==
  /\ pc[j] = "merge"
  /\ IsNext(j, s)
  /\ j \in Forced
  /\ Rev[j][s] \notin seen[j][s]
  /\ trunk' = [trunk EXCEPT ![s] = Anc[s][Rev[j][s]]]
  /\ seen' = [seen EXCEPT ![j][s] = Anc[s][Rev[j][s]]]
  /\ pushed' = [pushed EXCEPT ![j] = @ \cup {s}]
  /\ cut' = IF trunk[s] \subseteq Anc[s][Rev[j][s]] THEN cut ELSE cut \cup {s}
  /\ Leave(j, s)
  /\ UNCHANGED <<row, clock, deps, hit, inqueue, disturbed>>

-----------------------------------------------------------------------------
(* What can go wrong around a promotion. *)

\* A fetch, checkout, merge (a conflict) or push fails, the database cannot
\* be reached, or the build is killed: the script ends where it stands.
Abort(j) ==
  /\ "abort" \in Faults
  /\ pc[j] \in Active
  /\ pc' = [pc EXCEPT ![j] = "failed"]
  /\ disturbed' = TRUE
  /\ UNCHANGED <<trunk, row, clock, todo, seen, deps, hit, inqueue, pushed, cut>>

\* MysqlOperator.execute prints a failed statement and returns: a failed
\* SELECT of `push` reads as "no row", a failed UPDATE or INSERT as success,
\* a failed SELECT of `check` as an empty answer.
SqlError(j) ==
  /\ "sql" \in Faults
  /\ \/ /\ pc[j] = "select"
        /\ hit' = [hit EXCEPT ![j] = NoRow]
        /\ pc' = [pc EXCEPT ![j] = "write"]
     \/ /\ pc[j] = "write"
        /\ pc' = [pc EXCEPT ![j] = "list"]
        /\ UNCHANGED hit
     \/ /\ pc[j] \in {"list", "own"}
        /\ pc' = [pc EXCEPT ![j] = "refused"]
        /\ UNCHANGED hit
  /\ disturbed' = TRUE
  /\ UNCHANGED <<trunk, row, clock, todo, seen, deps, inqueue, pushed, cut>>

\* SCM takes a row out of the queue; nothing in PCIQueue.py does.
Pop(r) ==
  /\ "pop" \in Faults
  /\ r \in InQueue
  /\ row' = [row EXCEPT ![r].inq = FALSE]
  /\ disturbed' = TRUE
  /\ UNCHANGED <<trunk, clock, jobVars, pushed, cut>>

-----------------------------------------------------------------------------
Visit(j) ==
  \E s \in Sub : \/ Fetch(j, s) \/ Skip(j, s)
                 \/ Push(j, s) \/ Rejected(j, s) \/ ForcePush(j, s)

Queue(j) == Select(j) \/ Write(j) \/ List(j) \/ OwnRow(j)

Step(j) == Visit(j) \/ Queue(j)

Terminated == (\A j \in Job : pc[j] \in Ended) /\ UNCHANGED vars

Next ==
  \/ \E j \in Job : Step(j) \/ Abort(j) \/ SqlError(j) \/ Pop(j)
  \/ Terminated

Spec == Init /\ [][Next]_vars

\* A running build is scheduled by its own machine until it ends.
FairSpec == Spec /\ \A j \in Job : WF_vars(Step(j))

-----------------------------------------------------------------------------
(* Properties *)

\* Every variable holds what the scripts can put there, and a promotion that
\* ended well has no repository left to visit.
TypeOK ==
  /\ trunk \in [Sub -> History]
  /\ row \in [Job -> Row]
  /\ clock \in Nat
  /\ \A r \in Job : row[r].time <= clock
  /\ pc \in [Job -> Active \cup Ended]
  /\ todo \in [Job -> SUBSET Sub]
  /\ seen \in [Job -> [Sub -> History]]
  /\ deps \in [Job -> SUBSET Keys]
  /\ hit \in [Job -> Job \cup {NoRow}]
  /\ inqueue \in [Job -> SUBSET Keys]
  /\ pushed \in [Job -> SUBSET Sub]
  /\ cut \subseteq Sub
  /\ disturbed \in BOOLEAN
  /\ \A j \in Job : /\ todo[j] \subseteq Listed(j)
                    /\ pc[j] = "done" => todo[j] = {}

\* promote.sh:101-116, the gate: no promotion merges before each dependency
\* it computed has itself been promoted into the queue by its owner, however
\* pops, lost statements and the pushes of others fall between its SELECTs.
\* Only for a promotion whose row no other promotion writes: see GateForAll.
Shared(j) == \E k \in Queued \ {j} : Key(k) = Key(j)

Enqueued(d) ==
  \E k \in Queued : Key(k) = d /\ \E r \in Job : Key(r) = d /\ row[r].time > 0

GateSound ==
  \A j \in Queued :
    pc[j] \in {"merge", "done", "rejected"} /\ ~ Shared(j)
      => /\ deps[j] \subseteq inqueue[j]
         /\ \A d \in deps[j] : Enqueued(d)

\* The same for every promotion that goes through the queue.  promote.sh:114
\* reports "$subsystem 's dependence:$DEP cci not PASS" with the DEP this run
\* computed, so the run should stop while one of those is missing.
GateForAll ==
  \A j \in Queued :
    pc[j] \in {"merge", "done", "rejected"} => deps[j] \subseteq inqueue[j]

\* Each member of a group that depends on one another writes its row before
\* it looks for the others', so they cannot all find someone missing.
Closed ==
  /\ Queued # {}
  /\ Cardinality(Job) <= ListLimit
  /\ \A j \in Queued, s \in Sub :
       s \in Listed(j) => \E k \in Queued : Key(k) = <<s, Rev[j][s]>>

NoMutualRefusal ==
  Closed /\ ~ disturbed => \E j \in Queued : pc[j] # "refused"

\* Promotions that race for the same trunks take them in the same order, so
\* one that is overtaken was overtaken by one that still can, or did, finish.
OvertakenBySurvivor ==
  ~ disturbed /\ (\E j \in Job : pc[j] = "rejected")
    => \E k \in Job : pc[k] \in {"merge", "done"}

\* A promotion that exits 0 has all of rev.txt on the trunks, although it
\* decides by the trunks it fetched long before ("skip duplicate push"); only
\* a forced promotion can take a revision away again.
PromotedLanded ==
  \A j \in Job : pc[j] = "done" =>
    \A s \in Listed(j) : Rev[j][s] \in trunk[s] \/ s \in cut

\* A group that depends on one another is not stuck: left alone, one of its
\* members is promoted completely, and with it every member's revision it
\* lists.
GroupPromoted ==
  Closed => <>(disturbed \/ \E j \in Job : pc[j] = "done")

\* The promotions implement what TrunkPromise says of the trunks.
Result(j) ==
  CASE pc[j] \in Active -> "running"
    [] pc[j] = "done" -> "promoted"
    [] OTHER -> "stopped"

Promise == INSTANCE TrunkPromise WITH result <- [j \in Job |-> Result(j)]
KeepsPromise == Promise!Spec
=============================================================================
