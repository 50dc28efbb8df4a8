----------------------------- MODULE CciPromote -----------------------------
(***************************************************************************)
(* src/promote/cci_promote.sh with src/common/gerrit.py: promotion of      *)
(* subversion branches by way of a queue that is not in this repository.   *)
(*                                                                         *)
(* A run looks which of the versions in its rev.txt the trunks do not have *)
(* yet, pushes its own version with those as dependencies, once for each   *)
(* platform, takes everything that is ready out of the queue, whoever      *)
(* pushed it, and for each row deletes the trunk, copies the branch in its *)
(* place and submits the test cases.  Runs share queue, trunks and gerrit, *)
(* and nothing keeps them apart.                                           *)
(***************************************************************************)
EXTENDS Naturals, SequencesExt

CONSTANTS Job, Trunk, Change,
          MaxRev,    \* subversion revisions that were built are 1 .. MaxRev
          Push,      \* Push[j]: what run j pushes, a sequence of
                     \* [trunk, ver, lists], lists the other lines of rev.txt
          Cases,     \* Cases[j]: the changes in its testcases.txt
          Last0,     \* the revisions of the trunks to start from
          Faults     \* each a set of "log", "push", "popall", "svn", "gerrit" and
                     \* "kill": what may fail or happen in one behaviour

Key == [trunk : Trunk, ver : 1 .. MaxRev]
Newest == MaxRev + 1   \* whatever is committed after the builds

ASSUME CciAssumption ==
  /\ MaxRev \in Nat
  /\ Push \in [Job -> Seq([trunk : Trunk, ver : 1 .. MaxRev, lists : Seq(Key)]) \ {<<>>}]
  /\ Cases \in [Job -> Seq(Change)]
  /\ Last0 \subseteq [Trunk -> 0 .. MaxRev]
  /\ Faults \subseteq SUBSET {"log", "push", "popall", "svn", "gerrit", "kill"}

VARIABLES
  faults,     \* what may fail
  pc,         \* where run j is, and where it was when it ended
  status,     \* its exit status, "running" before that
  at,         \* at[j]: the push it is preparing
  unread,     \* lines of rev.txt it has still to look up
  deps,       \* the shell variable deps, which no push resets
  todo,       \* rows it has popped; the first is in hand
  asked,      \* changes of that row it has still to submit
  queue,      \* the rows in the queue
  last,       \* last[t]: the last revision of trunk t
  missing,    \* trunks that are deleted
  nested,     \* trunks with a copy inside, where svn cp puts it when they exist
  change,     \* change[c]: "new", "approved" or "merged"
  \* History: keys that were pushed, popped, copied to the trunk or into it, and
  \* rows that went lost in popall; dependencies that were not seen; trunks on
  \* which a svn command failed, and that two live runs held rows of.
  pushed, popped, copied, misplaced, vanished, unseen, hurt, contested

script == <<at, unread, deps>>
rows == <<todo, asked>>
svn == <<last, missing, nested, copied, misplaced, hurt>>
table == <<queue, pushed, popped, vanished, contested>>
vars == <<faults, pc, status, script, rows, svn, table, change, unseen>>

KeyOf(r) == [trunk |-> r.trunk, ver |-> r.ver]
Keys(R) == {KeyOf(r) : r \in R}
Held(j) == Keys(ToSet(todo[j]))
Live(j) == status[j] = "running"

Init ==
  /\ faults \in Faults
  /\ pc = [j \in Job |-> "depend"]
  /\ status = [j \in Job |-> "running"]
  /\ at = [j \in Job |-> 1]
  /\ unread = [j \in Job |-> Push[j][1].lists]
  /\ deps = [j \in Job |-> {}]
  /\ todo = [j \in Job |-> <<>>] /\ asked = [j \in Job |-> <<>>]
  /\ queue = {}
  /\ last \in Last0
  /\ missing = {} /\ nested = {}
  /\ change = [c \in Change |-> "new"]
  /\ pushed = {} /\ popped = {} /\ copied = {} /\ misplaced = {}
  /\ vanished = {} /\ unseen = {} /\ hurt = {} /\ contested = {}

At(j, label) == Live(j) /\ pc[j] = label
GoTo(j, label) == pc' = [pc EXCEPT ![j] = label] /\ UNCHANGED <<faults, status>>
Exit(j, code) == status' = [status EXCEPT ![j] = code] /\ UNCHANGED <<faults, pc>>

-----------------------------------------------------------------------------
(* push *)

MutNewerThanTrunk(d) == d.ver < last[d.trunk]
\* A turn of the loop over rev.txt: svn log -l1 of the trunk.
NewerThanTrunk(d) == d.ver > last[d.trunk]

Depend(j) ==
  /\ At(j, "depend")
  /\ unread[j] # <<>>
  /\ unread' = [unread EXCEPT ![j] = Tail(@)]
  /\ LET d == Head(unread[j]) IN
       \/ /\ d.trunk \notin missing
          /\ deps' = [deps EXCEPT ![j] = IF NewerThanTrunk(d) THEN @ \cup {d} ELSE @]
          /\ UNCHANGED unseen
       \* No answer: test has nothing to compare with and is false.
       \/ /\ d.trunk \in missing \/ "log" \in faults
          /\ unseen' = unseen \cup {d}
          /\ UNCHANGED deps
  /\ UNCHANGED <<faults, pc, status, at, rows, svn, table, change>>

\* The row of a subsystem and version, inserted or replaced (external).
Insert(j) ==
  LET k == KeyOf(Push[j][at[j]]) IN
    /\ queue' = {r \in queue : KeyOf(r) # k} \cup
         {[trunk |-> k.trunk, ver |-> k.ver, deps |-> deps[j], cases |-> Cases[j]]}
    /\ pushed' = pushed \cup {k}

PushRow(j) ==
  /\ At(j, "depend")
  /\ unread[j] = <<>>
  /\ Insert(j)
  /\ IF at[j] < Len(Push[j])
       THEN /\ at' = [at EXCEPT ![j] = @ + 1]
            /\ unread' = [unread EXCEPT ![j] = Push[j][at[j] + 1].lists]
            /\ UNCHANGED <<faults, pc, status>>
       ELSE GoTo(j, "popall") /\ UNCHANGED <<at, unread>>
  /\ UNCHANGED <<deps, rows, svn, popped, vanished, contested, change, unseen>>

\* exit $? after an echo: the status is 0.
PushFails(j) ==
  /\ At(j, "depend")
  /\ unread[j] = <<>>
  /\ "push" \in faults
  /\ Insert(j) \/ UNCHANGED <<queue, pushed>>
  /\ Exit(j, "0")
  /\ UNCHANGED <<script, rows, svn, popped, vanished, contested, change, unseen>>

-----------------------------------------------------------------------------
(* popall, external: no row comes before the rows it depends on *)

Together(R) == \A r \in R : r.deps \subseteq popped \cup Keys(R)
Ready == UNION {R \in SUBSET queue : Together(R)}

Take ==
  /\ queue' = queue \ Ready
  /\ popped' = popped \cup Keys(Ready)
  /\ UNCHANGED pushed

PopAll(j) ==
  /\ At(j, "popall")
  /\ Take
  /\ todo' \in {[todo EXCEPT ![j] = s] : s \in SetToSeqs(Ready)}
  /\ contested' = contested \cup
       {r.trunk : r \in {q \in Ready : \E i \in Job \ {j} :
                           Live(i) /\ q.trunk \in {k.trunk : k \in Held(i)}}}
  /\ IF Ready = {} THEN Exit(j, "0") ELSE GoTo(j, "delete")
  /\ UNCHANGED <<script, asked, svn, vanished, change, unseen>>

\* Status 0 here too, and the rows may be out of the queue.
PopAllFails(j) ==
  /\ At(j, "popall")
  /\ "popall" \in faults
  /\ \/ Take /\ vanished' = vanished \cup Keys(Ready)
     \/ UNCHANGED <<queue, pushed, popped, vanished>>
  /\ Exit(j, "0")
  /\ UNCHANGED <<script, rows, svn, contested, change, unseen>>

-----------------------------------------------------------------------------
(* svn del, svn cp: no status is looked at *)

Row(j) == Head(todo[j])

MutDelete(j) ==
  /\ At(j, "delete")
  /\ GoTo(j, "copy")
  /\ UNCHANGED <<script, rows, svn, table, change, unseen>>

Delete(j) ==
  /\ At(j, "delete")
  /\ LET t == Row(j).trunk IN
       \/ /\ t \notin missing
          /\ missing' = missing \cup {t} /\ nested' = nested \ {t}
          /\ UNCHANGED hurt
       \/ /\ t \in missing
          /\ UNCHANGED <<missing, nested, hurt>>
       \/ /\ "svn" \in faults
          /\ hurt' = hurt \cup {t}
          /\ UNCHANGED <<missing, nested>>
  /\ GoTo(j, "copy")
  /\ UNCHANGED <<script, rows, table, last, copied, misplaced, change, unseen>>

Committed(t) == last' = [last EXCEPT ![t] = Newest]

Copy(j) ==
  /\ At(j, "copy")
  /\ LET t == Row(j).trunk
         k == KeyOf(Row(j))
     IN \/ /\ t \in missing
           /\ missing' = missing \ {t}
           /\ copied' = copied \cup {k}
           /\ Committed(t)
           /\ UNCHANGED <<nested, misplaced, hurt>>
        \* Into the trunk, or nowhere if there is a copy in it already.
        \/ /\ t \notin missing
           /\ nested' = nested \cup {t}
           /\ misplaced' = misplaced \cup {k}
           /\ IF t \in nested THEN UNCHANGED last ELSE Committed(t)
           /\ UNCHANGED <<missing, copied, hurt>>
        \/ /\ "svn" \in faults
           /\ hurt' = hurt \cup {t}
           /\ UNCHANGED <<last, missing, nested, copied, misplaced>>
  /\ asked' = [asked EXCEPT ![j] = Row(j).cases]
  /\ GoTo(j, "query")
  /\ UNCHANGED <<script, todo, table, change, unseen>>

-----------------------------------------------------------------------------
(* submit_testcase_change, and GerritServer *)

\* It cannot be merged, is merged already, or gerrit does not say.
Unmergeable(j) ==
  /\ At(j, "query")
  /\ asked[j] # <<>>
  /\ asked' = [asked EXCEPT ![j] = Tail(@)]
  /\ UNCHANGED <<faults, pc, status, script, todo, svn, table, change, unseen>>

Mergeable(j) ==
  /\ At(j, "query")
  /\ asked[j] # <<>>
  /\ change[Head(asked[j])] # "merged"
  /\ GoTo(j, "review")
  /\ UNCHANGED <<script, rows, svn, table, change, unseen>>

\* review believes the exit status of curl, which an HTTP error leaves at 0.
Approved(c) == change[c] = "new" /\ change' = [change EXCEPT ![c] = "approved"]

Review(j) ==
  /\ At(j, "review")
  /\ Approved(Head(asked[j])) \/ UNCHANGED change
  /\ GoTo(j, "submit")
  /\ UNCHANGED <<script, rows, svn, table, unseen>>

ReviewFails(j) ==
  /\ At(j, "review")
  /\ "gerrit" \in faults
  /\ Approved(Head(asked[j])) \/ UNCHANGED change
  /\ Exit(j, "99")
  /\ UNCHANGED <<script, rows, svn, table, unseen>>

\* submit asks the exit status of curl for its status_code: an AttributeError,
\* whatever gerrit has done.
Submit(j) ==
  /\ At(j, "submit")
  /\ LET c == Head(asked[j]) IN
       \/ change[c] = "approved" /\ change' = [change EXCEPT ![c] = "merged"]
       \/ UNCHANGED change
  /\ Exit(j, "100")
  /\ UNCHANGED <<script, rows, svn, table, unseen>>

MutNextRow(j) ==
  /\ At(j, "query")
  /\ asked[j] = <<>>
  /\ todo' = [todo EXCEPT ![j] = <<>>]
  /\ Exit(j, "0")
  /\ UNCHANGED <<script, asked, svn, table, change, unseen>>

\* The next row, or the end.
NextRow(j) ==
  /\ At(j, "query")
  /\ asked[j] = <<>>
  /\ todo' = [todo EXCEPT ![j] = Tail(@)]
  /\ IF Tail(todo[j]) = <<>> THEN Exit(j, "0") ELSE GoTo(j, "delete")
  /\ UNCHANGED <<script, asked, svn, table, change, unseen>>

-----------------------------------------------------------------------------
\* The Jenkins build is aborted, or its node goes down.
Kill(j) ==
  /\ "kill" \in faults
  /\ Live(j)
  /\ Exit(j, "killed")
  /\ UNCHANGED <<script, rows, svn, table, change, unseen>>

Run(j) ==
  \/ Depend(j) \/ PushRow(j) \/ PushFails(j)
  \/ PopAll(j) \/ PopAllFails(j)
  \/ Delete(j) \/ Copy(j) \/ NextRow(j)
  \/ Unmergeable(j) \/ Mergeable(j) \/ Review(j) \/ ReviewFails(j) \/ Submit(j)

Ended == (\A j \in Job : ~ Live(j)) /\ UNCHANGED vars

Next == (\E j \in Job : Run(j) \/ Kill(j)) \/ Ended

Spec == Init /\ [][Next]_vars

-----------------------------------------------------------------------------
(* Properties *)

\* cci_promote.sh:148-151: a trunk is missing only while a run that deleted it
\* has its svn cp ahead, or was killed there, or after a svn command failed; and
\* a branch is copied into a trunk instead of replacing it only after such a
\* failure, or where two live runs held rows of that trunk.
TrunkSound ==
  /\ \A t \in missing \ hurt :
       \E j \in Job : /\ pc[j] = "copy" /\ status[j] \in {"running", "killed"}
                      /\ Row(j).trunk = t
  /\ nested \subseteq hurt \cup contested

\* cci_promote.sh:114-163: nothing that was pushed is forgotten.  It waits in the
\* queue, is on a trunk (or in one, or met a failure of svn), went lost in popall,
\* or is held by a run that is working or was stopped: an exit status of 0
\* after popall means that all of its rows were dealt with.
RowsAccounted == \A k \in pushed :
  \/ k \in Keys(queue) \cup copied \cup misplaced \cup vanished
  \/ k.trunk \in hurt
  \/ \E j \in Job : status[j] # "0" /\ k \in Held(j)

\* cci_promote.sh:88-101: what rev.txt lists beside a version on a trunk was popped too,
\* or its trunk is at least as recent, or a run could not see that trunk.
DependenciesCome == \A k \in copied :
  \E j \in Job : \E i \in DOMAIN Push[j] :
    /\ KeyOf(Push[j][i]) = k
    /\ \A d \in ToSet(Push[j][i].lists) :
         d \in popped \cup unseen \/ d.ver <= last[d.trunk]
=============================================================================
