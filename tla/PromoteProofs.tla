--------------------------- MODULE PromoteProofs ---------------------------
(***************************************************************************)
(* Theorems about Promote, for every set of promotions and rev.txt files.  *)
(***************************************************************************)
EXTENDS Promote, FiniteSetTheorems, WellFoundedInduction, TLAPS

LEMMA ListedSub == \A j \in Job : Listed(j) \subseteq Sub
  BY ConstantsAssumption

LEMMA RevCommit ==
  ASSUME NEW j \in Job, NEW s \in Listed(j)
  PROVE  s \in Sub /\ Rev[j][s] \in Commit /\ Anc[s][Rev[j][s]] \in SUBSET Commit
  BY ConstantsAssumption

LEMMA KeyType == \A j \in Job : Key(j) \in Keys
  BY ConstantsAssumption DEF Key, Keys

LEMMA TypeStep == TypeOK /\ [Next]_vars => TypeOK'
<1> SUFFICES ASSUME TypeOK, [Next]_vars PROVE TypeOK'
  OBVIOUS
<1> USE DEF TypeOK
<1>1. ASSUME NEW j \in Job, NEW s \in Sub, Fetch(j, s) PROVE TypeOK'
  <2>1. s \in Listed(j) /\ Rev[j][s] \in Commit /\ <<s, Rev[j][s]>> \in Keys
    BY <1>1, RevCommit DEF Fetch, IsNext, Keys
  <2>2. /\ pc' \in [Job -> Active \cup Ended]
        /\ pc'[j] # "done"
        /\ \A k \in Job \ {j} : pc'[k] = pc[k]
    BY <1>1 DEF Fetch, Active, Ended
  <2>3. /\ todo' \in [Job -> SUBSET Sub]
        /\ todo'[j] \subseteq Listed(j)
        /\ \A k \in Job \ {j} : todo'[k] = todo[k]
    <3>1. \/ todo' = [todo EXCEPT ![j] = Listed(j)]
          \/ todo' = [todo EXCEPT ![j] = @ \ {s}]
      BY <1>1 DEF Fetch
    <3>2. QED BY <3>1, ListedSub
  <2>4. seen' \in [Job -> [Sub -> History]]
    BY <1>1 DEF Fetch, CheckSubExist
  <2>5. deps' \in [Job -> SUBSET Keys]
    BY <1>1, <2>1 DEF Fetch, Dependency
  <2>6. UNCHANGED <<trunk, row, clock, hit, inqueue, pushed, cut, disturbed>>
    BY <1>1 DEF Fetch
  <2>7. QED BY <2>2, <2>3, <2>4, <2>5, <2>6
<1>2. ASSUME NEW j \in Job, Select(j) PROVE TypeOK'
  BY <1>2 DEF Select, Match, Latest, Active, Ended
<1>3. ASSUME NEW j \in Job, Write(j) PROVE TypeOK'
  BY <1>3 DEF Write, Row, Active, Ended
<1>4. ASSUME NEW j \in Job, List(j) PROVE TypeOK'
  BY <1>4, KeyType DEF List, Visible, InQueue, Active, Ended
<1>5. ASSUME NEW j \in Job, OwnRow(j) PROVE TypeOK'
  <2>1. \/ pc' = [pc EXCEPT ![j] = "refused"]
        \/ pc' = [pc EXCEPT ![j] = "merge"]
    BY <1>5 DEF OwnRow
  <2>2. QED BY <1>5, <2>1 DEF OwnRow, Active, Ended
<1>6. ASSUME NEW j \in Job, NEW s \in Sub, Skip(j, s) PROVE TypeOK'
  BY <1>6 DEF Skip, Leave, IsNext, Active, Ended
<1>7. ASSUME NEW j \in Job, NEW s \in Sub, Push(j, s) PROVE TypeOK'
  <2>1. s \in Listed(j)
    BY <1>7 DEF Push, IsNext
  <2>2. Merged(j, s) \in History
    BY <2>1, RevCommit DEF Merged, History
  <2>3. QED BY <1>7, <2>2 DEF Push, Leave, IsNext, Active, Ended
<1>8. ASSUME NEW j \in Job, NEW s \in Sub, Rejected(j, s) PROVE TypeOK'
  BY <1>8 DEF Rejected, Active, Ended
<1>9. ASSUME NEW j \in Job, NEW s \in Sub, ForcePush(j, s) PROVE TypeOK'
  <2>1. s \in Listed(j)
    BY <1>9 DEF ForcePush, IsNext
  <2>2. Anc[s][Rev[j][s]] \in History
    BY <2>1, RevCommit DEF History
  <2>3. QED BY <1>9, <2>2 DEF ForcePush, Leave, IsNext, Active, Ended
<1>10. ASSUME NEW j \in Job, Abort(j) PROVE TypeOK'
  BY <1>10 DEF Abort, Active, Ended
<1>11. ASSUME NEW j \in Job, SqlError(j) PROVE TypeOK'
  <2>1. \/ pc' = [pc EXCEPT ![j] = "write"] /\ hit' = [hit EXCEPT ![j] = NoRow]
        \/ pc' = [pc EXCEPT ![j] = "list"] /\ hit' = hit
        \/ pc' = [pc EXCEPT ![j] = "refused"] /\ hit' = hit
    BY <1>11 DEF SqlError
  <2>2. QED BY <1>11, <2>1 DEF SqlError, Active, Ended
<1>12. ASSUME NEW r \in Job, Pop(r) PROVE TypeOK'
  <2>1. /\ row' \in [Job -> Row]
        /\ \A k \in Job : row'[k].time = row[k].time
    BY <1>12 DEF Pop, Row
  <2>2. QED BY <1>12, <2>1 DEF Pop, jobVars
<1>13. CASE UNCHANGED vars
  BY <1>13 DEF vars, jobVars
<1>14. QED
  BY <1>1, <1>2, <1>3, <1>4, <1>5, <1>6, <1>7, <1>8, <1>9, <1>10, <1>11, <1>12, <1>13
  DEF Next, Step, Visit, Queue, Terminated

LEMMA TypeInit == Init => TypeOK
<1> SUFFICES ASSUME Init PROVE TypeOK
  OBVIOUS
<1>1. trunk \in [Sub -> History]
  BY ConstantsAssumption DEF Init, History
<1>2. row \in [Job -> Row] /\ clock \in Nat /\ \A r \in Job : row[r].time <= clock
  BY DEF Init, Row
<1>3. seen \in [Job -> [Sub -> History]]
  BY DEF Init, History
<1>4. QED BY <1>1, <1>2, <1>3, ListedSub DEF Init, TypeOK, Active

\* Every state has its type, whatever the promotions and the faults.
THEOREM TypeCorrect == Spec => []TypeOK
  BY TypeInit, TypeStep, PTL DEF Spec

-----------------------------------------------------------------------------
(* The rendezvous.  While nothing disturbs the queue, a row once written     *)
(* stays in it; of the promotions that have written, the last one either has *)
(* not listed the queue yet or has listed every row there is.  A refused     *)
(* promotion missed some member of the group, so the last writer of a        *)
(* complete group cannot be refused.                                         *)

GroupKeys == {Key(k) : k \in Queued}
QueueKeys == {Key(r) : r \in InQueue}
HasWritten(j) == pc[j] \in {"list", "own", "merge", "done", "refused", "rejected"}

InQueuePhase ==
  \A j \in Job : pc[j] \in {"select", "write", "list", "own", "refused"} => j \in Queued
HitIsOwn == \A j \in Job : hit[j] = NoRow \/ Key(hit[j]) = Key(j)
WrittenIsQueued == \A j \in Queued : HasWritten(j) => Key(j) \in QueueKeys
GroupDeps == /\ \A j \in Queued : deps[j] \subseteq GroupKeys
             /\ \A r \in Job : row[r].deps \subseteq GroupKeys
LastWriterSees ==
  \A j \in Queued : HasWritten(j) =>
    \E w \in Queued : /\ HasWritten(w)
                      /\ pc[w] = "list" \/ QueueKeys \subseteq inqueue[w]
RefusedMissed ==
  \A j \in Job : pc[j] = "refused" => ~ (GroupKeys \subseteq inqueue[j])

RendezvousInv ==
  /\ TypeOK
  /\ InQueuePhase
  /\ HitIsOwn
  /\ Closed /\ ~ disturbed =>
       WrittenIsQueued /\ GroupDeps /\ LastWriterSees /\ RefusedMissed

LEMMA RendezvousInit == Init => RendezvousInv
<1> SUFFICES ASSUME Init PROVE RendezvousInv
  OBVIOUS
<1>1. \A j \in Job : pc[j] = "fetch" /\ hit[j] = NoRow
  BY DEF Init
<1>2. GroupDeps
  BY DEF Init, GroupDeps, Queued
<1>3. QED
  BY <1>1, <1>2, TypeInit DEF RendezvousInv, InQueuePhase, HitIsOwn, WrittenIsQueued,
    HasWritten, LastWriterSees, RefusedMissed, Queued

\* With no more rows than the LIMIT the query returns the whole queue.
LEMMA WholeQueue ==
  ASSUME TypeOK, Closed
  PROVE  Visible = {InQueue}
<1>1. InQueue \subseteq Job /\ IsFiniteSet(Job)
  BY ConstantsAssumption DEF InQueue
<1>2. /\ Cardinality(InQueue) <= Cardinality(Job)
      /\ Cardinality(InQueue) \in Nat
      /\ Cardinality(Job) \in Nat
  BY <1>1, FS_Subset, FS_CardinalityType
<1>3. Cardinality(Job) <= ListLimit /\ ListLimit \in Nat
  BY ConstantsAssumption DEF Closed
<1>4. Cardinality(InQueue) <= ListLimit
  BY <1>2, <1>3
<1>5. QED BY <1>4 DEF Visible

LEMMA Constancy == /\ Closed' <=> Closed
                   /\ GroupKeys' = GroupKeys
                   /\ \A j \in Job : Key(j)' = Key(j)
  BY DEF Closed, GroupKeys, Queued, Key, Listed, Sub

\* From the check on, moving through the merges disturbs no part.
LEMMA MergeFrame ==
  ASSUME RendezvousInv, TypeOK',
         NEW j \in Job, NEW p \in {"merge", "done", "rejected"},
         pc[j] \in {"own", "merge"}, pc' = [pc EXCEPT ![j] = p],
         UNCHANGED <<row, hit, inqueue, deps, disturbed>>
  PROVE  RendezvousInv'
<1> USE DEF RendezvousInv
<1>1. \A k \in Job : /\ pc'[k] = (IF k = j THEN p ELSE pc[k])
                     /\ HasWritten(k)' <=> HasWritten(k)
  BY DEF TypeOK, HasWritten
<1>2. InQueuePhase' /\ HitIsOwn'
  BY <1>1, Constancy DEF InQueuePhase, HitIsOwn
<1>3. InQueue' = InQueue /\ QueueKeys' = QueueKeys
  BY DEF InQueue, QueueKeys, Key
<1>4. ASSUME Closed, ~ disturbed
      PROVE  (WrittenIsQueued /\ GroupDeps /\ LastWriterSees /\ RefusedMissed)'
  <2>1. WrittenIsQueued' /\ GroupDeps' /\ RefusedMissed'
    BY <1>1, <1>3, <1>4, Constancy DEF WrittenIsQueued, GroupDeps, RefusedMissed, Queued
  <2>2. LastWriterSees'
    BY <1>1, <1>3, <1>4 DEF LastWriterSees, Queued
  <2>3. QED BY <2>1, <2>2
<1>5. QED BY <1>2, <1>4, Constancy

\* A fault only has to keep what holds of disturbed runs too.
LEMMA FaultFrame ==
  ASSUME RendezvousInv, TypeOK', disturbed', NEW j \in Job, NEW p,
         pc' = [pc EXCEPT ![j] = p],
         p \in {"write", "list", "refused"} => j \in Queued,
         p # "select", p # "own",
         hit' = hit \/ hit' = [hit EXCEPT ![j] = NoRow]
  PROVE  RendezvousInv'
<1>1. InQueuePhase'
  BY DEF RendezvousInv, InQueuePhase, TypeOK, Queued
<1>2. HitIsOwn'
  BY Constancy DEF RendezvousInv, HitIsOwn, TypeOK
<1>3. QED BY <1>1, <1>2 DEF RendezvousInv

LEMMA RendezvousStep == RendezvousInv /\ [Next]_vars => RendezvousInv'
<1> SUFFICES ASSUME RendezvousInv, [Next]_vars PROVE RendezvousInv'
  OBVIOUS
<1>0. TypeOK /\ TypeOK'
  BY TypeStep DEF RendezvousInv
<1>1. ASSUME NEW j \in Job, NEW s \in Sub, Fetch(j, s) PROVE RendezvousInv'
  <2>1. /\ \A k \in Job \ {j} : pc'[k] = pc[k]
        /\ pc[j] = "fetch"
        /\ pc'[j] \in {"fetch", "merge", "select"}
        /\ pc'[j] = "merge" => j \in Forced
        /\ pc'[j] = "select" => j \in Queued
    <3>1. \/ pc' = pc
          \/ j \in Forced /\ pc' = [pc EXCEPT ![j] = "merge"]
          \/ j \notin Forced /\ pc' = [pc EXCEPT ![j] = "select"]
      BY <1>1, Zenon DEF Fetch
    <3>2. pc[j] = "fetch"
      BY <1>1 DEF Fetch
    <3>3. pc \in [Job -> Active \cup Ended]
      BY <1>0 DEF TypeOK
    <3>4. QED BY <3>1, <3>2, <3>3 DEF Queued
  <2>2. UNCHANGED <<row, hit, inqueue, disturbed>>
    BY <1>1 DEF Fetch
  <2>3. InQueuePhase' /\ HitIsOwn'
    BY <2>1, <2>2, Constancy DEF RendezvousInv, InQueuePhase, HitIsOwn
  <2>4. ASSUME Closed, ~ disturbed
        PROVE  (WrittenIsQueued /\ GroupDeps /\ LastWriterSees /\ RefusedMissed)'
    <3>1. InQueue' = InQueue /\ QueueKeys' = QueueKeys
      BY <2>2 DEF InQueue, QueueKeys, Key
    <3>2. \A k \in Queued : HasWritten(k)' <=> HasWritten(k)
      <4>1. j \in Queued => pc'[j] \in {"fetch", "select"}
        BY <2>1 DEF Queued
      <4>2. \A k \in Queued \ {j} : HasWritten(k)' <=> HasWritten(k)
        BY <2>1 DEF HasWritten, Queued
      <4>3. j \in Queued => ~ HasWritten(j) /\ ~ HasWritten(j)'
        BY <2>1, <4>1 DEF HasWritten
      <4>4. QED BY <4>2, <4>3
    <3>3. WrittenIsQueued' /\ RefusedMissed'
      BY <2>1, <2>2, <2>4, <3>1, <3>2, Constancy
      DEF RendezvousInv, WrittenIsQueued, RefusedMissed, Queued
    <3>4. LastWriterSees'
      BY <2>1, <2>2, <2>4, <3>1, <3>2 DEF RendezvousInv, LastWriterSees, Queued
    <3>5. j \in Queued => <<s, Rev[j][s]>> \in GroupKeys
      <4>1. s \in Listed(j)
        BY <1>0, <1>1 DEF Fetch, IsNext, TypeOK
      <4>2. QED BY <2>4, <4>1 DEF Closed, GroupKeys
    <3>6. \A k \in Job : deps'[k] \subseteq deps[k] \cup
             (IF k = j THEN {<<s, Rev[j][s]>>} ELSE {})
      BY <1>0, <1>1 DEF Fetch, Dependency, TypeOK
    <3>7. GroupDeps'
      BY <2>2, <2>4, <3>5, <3>6, Constancy DEF RendezvousInv, GroupDeps, Queued
    <3>8. QED BY <3>3, <3>4, <3>7
  <2>5. QED BY <1>0, <2>2, <2>3, <2>4, Constancy DEF RendezvousInv
<1>2. ASSUME NEW j \in Job, Select(j) PROVE RendezvousInv'
  <2>1. /\ pc' = [pc EXCEPT ![j] = "write"]
        /\ pc[j] = "select"
        /\ UNCHANGED <<row, inqueue, deps, disturbed>>
    BY <1>2 DEF Select
  <2>2. \A k \in Job : pc'[k] = IF k = j THEN "write" ELSE pc[k]
    BY <1>0, <2>1 DEF TypeOK
  <2>3. InQueuePhase'
    BY <2>1, <2>2 DEF RendezvousInv, InQueuePhase
  <2>4. HitIsOwn'
    <3>1. PICK r : /\ r = NoRow \/ Key(r) = Key(j)
                   /\ hit' = [hit EXCEPT ![j] = r]
      BY <1>2 DEF Select, Match, Latest
    <3>2. QED BY <1>0, <3>1, Constancy DEF RendezvousInv, HitIsOwn, TypeOK, Key
  <2>5. ASSUME Closed, ~ disturbed
        PROVE  (WrittenIsQueued /\ GroupDeps /\ LastWriterSees /\ RefusedMissed)'
    <3>1. InQueue' = InQueue /\ QueueKeys' = QueueKeys
      BY <2>1 DEF InQueue, QueueKeys, Key
    <3>2. \A k \in Queued : HasWritten(k)' <=> HasWritten(k)
      BY <2>1, <2>2 DEF HasWritten, Queued
    <3>3. WrittenIsQueued' /\ RefusedMissed' /\ GroupDeps'
      BY <2>1, <2>2, <2>5, <3>1, <3>2, Constancy
      DEF RendezvousInv, WrittenIsQueued, RefusedMissed, GroupDeps, Queued
    <3>4. LastWriterSees'
      BY <2>1, <2>2, <2>5, <3>1, <3>2 DEF RendezvousInv, LastWriterSees, Queued
    <3>5. QED BY <3>3, <3>4
  <2>6. QED BY <1>0, <2>1, <2>3, <2>4, <2>5, Constancy DEF RendezvousInv
<1>3. ASSUME NEW j \in Job, Write(j) PROVE RendezvousInv'
  <2> DEFINE t == IF hit[j] = NoRow THEN j ELSE hit[j]
  <2>1. /\ pc' = [pc EXCEPT ![j] = "list"]
        /\ pc[j] = "write"
        /\ row' = [row EXCEPT ![t] = [deps |-> deps[j], inq |-> TRUE, time |-> clock']]
        /\ clock' > 0
        /\ UNCHANGED <<hit, inqueue, deps, disturbed>>
    BY <1>0, <1>3 DEF Write, TypeOK
  <2>2. \A k \in Job : pc'[k] = IF k = j THEN "list" ELSE pc[k]
    BY <1>0, <2>1 DEF TypeOK
  <2>3. j \in Queued
    BY <2>1 DEF RendezvousInv, InQueuePhase
  <2>4. t \in Job /\ Key(t) = Key(j)
    BY <1>0 DEF RendezvousInv, HitIsOwn, TypeOK
  <2>5. /\ InQueuePhase'
        /\ HitIsOwn'
    BY <2>1, <2>2, <2>3, Constancy DEF RendezvousInv, InQueuePhase, HitIsOwn
  <2>6. ASSUME Closed, ~ disturbed
        PROVE  (WrittenIsQueued /\ GroupDeps /\ LastWriterSees /\ RefusedMissed)'
    <3>1. \A r \in Job :
             row'[r] = IF r = t THEN [deps |-> deps[j], inq |-> TRUE, time |-> clock']
                       ELSE row[r]
      BY <1>0, <2>1, <2>4 DEF TypeOK
    <3>2. InQueue' = InQueue \cup {t}
      BY <2>1, <2>4, <3>1 DEF InQueue
    <3>3. QueueKeys' = QueueKeys \cup {Key(j)}
      BY <2>4, <3>2 DEF QueueKeys, Key
    <3>4. WrittenIsQueued'
      BY <2>2, <2>6, <3>3, Constancy DEF RendezvousInv, WrittenIsQueued, HasWritten, Queued
    <3>5. GroupDeps'
      BY <2>1, <2>3, <2>6, <3>1, Constancy DEF RendezvousInv, GroupDeps, Queued
    <3>6. LastWriterSees'
      BY <2>2, <2>3 DEF LastWriterSees, HasWritten, Queued
    <3>7. RefusedMissed'
      BY <2>1, <2>2, <2>6, Constancy DEF RendezvousInv, RefusedMissed
    <3>8. QED BY <3>4, <3>5, <3>6, <3>7
  <2>7. QED BY <1>0, <2>1, <2>5, <2>6, Constancy DEF RendezvousInv
<1>4. ASSUME NEW j \in Job, List(j) PROVE RendezvousInv'
  <2>1. PICK R \in Visible :
          /\ inqueue' = [inqueue EXCEPT ![j] = {Key(r) : r \in R}]
          /\ pc' = [pc EXCEPT ![j] = IF inqueue'[j] = {} THEN "refused" ELSE "own"]
          /\ pc[j] = "list"
          /\ UNCHANGED <<row, hit, deps, disturbed>>
    BY <1>4 DEF List
  <2>2. /\ \A k \in Job \ {j} : pc'[k] = pc[k] /\ inqueue'[k] = inqueue[k]
        /\ pc'[j] \in {"refused", "own"}
        /\ inqueue'[j] = {Key(r) : r \in R}
        /\ pc'[j] = "refused" => inqueue'[j] = {}
    BY <1>0, <2>1 DEF TypeOK
  <2>3. j \in Queued
    BY <2>1 DEF RendezvousInv, InQueuePhase
  <2>4. InQueuePhase' /\ HitIsOwn'
    BY <2>1, <2>2, <2>3, Constancy DEF RendezvousInv, InQueuePhase, HitIsOwn
  <2>5. ASSUME Closed, ~ disturbed
        PROVE  (WrittenIsQueued /\ GroupDeps /\ LastWriterSees /\ RefusedMissed)'
    <3>1. InQueue' = InQueue /\ QueueKeys' = QueueKeys
      BY <2>1 DEF InQueue, QueueKeys, Key
    <3>2. \A k \in Queued : HasWritten(k)' <=> HasWritten(k)
      BY <2>1, <2>2 DEF HasWritten, Queued
    <3>3. inqueue'[j] = QueueKeys
      BY <1>0, <2>2, <2>5, WholeQueue DEF QueueKeys
    <3>4. WrittenIsQueued' /\ GroupDeps'
      BY <2>1, <2>5, <3>1, <3>2, Constancy DEF RendezvousInv, WrittenIsQueued, GroupDeps, Queued
    <3>5. LastWriterSees'
      BY <2>1, <2>2, <2>3, <3>1, <3>3 DEF LastWriterSees, HasWritten, Queued
    <3>6. Key(j) \in GroupKeys
      BY <2>3 DEF GroupKeys
    <3>7. RefusedMissed'
      BY <2>2, <2>5, <3>6, Constancy DEF RendezvousInv, RefusedMissed
    <3>8. QED BY <3>4, <3>5, <3>7
  <2>6. QED BY <1>0, <2>1, <2>4, <2>5, Constancy DEF RendezvousInv
<1>5. ASSUME NEW j \in Job, OwnRow(j) PROVE RendezvousInv'
  <2>1. /\ pc[j] = "own"
        /\ UNCHANGED <<row, hit, inqueue, deps, disturbed>>
    BY <1>5 DEF OwnRow
  <2>2. CASE pc' = [pc EXCEPT ![j] = "merge"]
    BY <1>0, <2>1, <2>2, MergeFrame
  <2>3. CASE /\ pc' = [pc EXCEPT ![j] = "refused"]
             /\ \/ Match(j) = {}
                \/ \E r \in Latest(Match(j)) : ~ (Needed(j, r) \subseteq inqueue[j])
    <3>1. \A k \in Job : pc'[k] = IF k = j THEN "refused" ELSE pc[k]
      BY <1>0, <2>3 DEF TypeOK
    <3>2. j \in Queued
      BY <2>1 DEF RendezvousInv, InQueuePhase
    <3>3. InQueuePhase' /\ HitIsOwn'
      BY <2>1, <3>1, <3>2, Constancy DEF RendezvousInv, InQueuePhase, HitIsOwn
    <3>4. ASSUME Closed, ~ disturbed
          PROVE  (WrittenIsQueued /\ GroupDeps /\ LastWriterSees /\ RefusedMissed)'
      <4>1. InQueue' = InQueue /\ QueueKeys' = QueueKeys
        BY <2>1 DEF InQueue, QueueKeys, Key
      <4>2. \A k \in Queued : HasWritten(k)' <=> HasWritten(k)
        BY <2>1, <3>1 DEF HasWritten, Queued
      <4>3. WrittenIsQueued' /\ GroupDeps'
        BY <2>1, <3>4, <4>1, <4>2, Constancy
        DEF RendezvousInv, WrittenIsQueued, GroupDeps, Queued
      <4>4. LastWriterSees'
        BY <2>1, <3>1, <3>4, <4>1, <4>2 DEF RendezvousInv, LastWriterSees, Queued
      <4>5. Match(j) # {}
        <5>1. Key(j) \in QueueKeys
          BY <2>1, <3>2, <3>4 DEF RendezvousInv, WrittenIsQueued, HasWritten
        <5>2. QED BY <5>1 DEF QueueKeys, InQueue, Match
      <4>6. PICK r \in Job : ~ (Needed(j, r) \subseteq inqueue[j])
        BY <2>3, <4>5 DEF Latest, Match
      <4>7. Needed(j, r) \subseteq GroupKeys
        BY <3>2, <3>4 DEF RendezvousInv, GroupDeps, Needed, GroupKeys
      <4>8. RefusedMissed'
        BY <2>1, <3>1, <3>4, <4>6, <4>7, Constancy DEF RendezvousInv, RefusedMissed
      <4>9. QED BY <4>3, <4>4, <4>8
    <3>5. QED BY <1>0, <2>1, <3>3, <3>4, Constancy DEF RendezvousInv
  <2>4. QED BY <1>5, <2>2, <2>3 DEF OwnRow
<1>6. ASSUME NEW j \in Job, NEW s \in Sub,
             Skip(j, s) \/ Push(j, s) \/ Rejected(j, s) \/ ForcePush(j, s)
      PROVE  RendezvousInv'
  <2>1. /\ pc[j] = "merge"
        /\ UNCHANGED <<row, hit, inqueue, deps, disturbed>>
    BY <1>6 DEF Skip, Push, Rejected, ForcePush
  <2>2. \E p \in {"merge", "done", "rejected"} : pc' = [pc EXCEPT ![j] = p]
    BY <1>6 DEF Skip, Push, Rejected, ForcePush, Leave
  <2>3. QED BY <1>0, <2>1, <2>2, MergeFrame
<1>7. ASSUME NEW j \in Job, Abort(j) PROVE RendezvousInv'
  <2>1. pc' = [pc EXCEPT ![j] = "failed"] /\ hit' = hit /\ disturbed'
    BY <1>7 DEF Abort
  <2>2. QED BY <1>0, <2>1, FaultFrame
<1>8. ASSUME NEW j \in Job, SqlError(j) PROVE RendezvousInv'
  <2>1. /\ pc[j] \in {"select", "write", "list", "own"}
        /\ disturbed'
        /\ hit' = hit \/ hit' = [hit EXCEPT ![j] = NoRow]
    BY <1>8 DEF SqlError
  <2>2. \/ pc' = [pc EXCEPT ![j] = "write"]
        \/ pc' = [pc EXCEPT ![j] = "list"]
        \/ pc' = [pc EXCEPT ![j] = "refused"]
    BY <1>8 DEF SqlError
  <2>3. j \in Queued
    BY <2>1 DEF RendezvousInv, InQueuePhase
  <2>4. QED BY <1>0, <2>1, <2>2, <2>3, FaultFrame
<1>9. ASSUME NEW r \in Job, Pop(r) PROVE RendezvousInv'
  BY <1>0, <1>9, Constancy DEF Pop, jobVars, RendezvousInv, InQueuePhase, HitIsOwn, Queued
<1>10. CASE UNCHANGED vars
  BY <1>0, <1>10, Constancy
  DEF vars, jobVars, RendezvousInv, InQueuePhase, HitIsOwn, WrittenIsQueued, HasWritten,
      GroupDeps, LastWriterSees, RefusedMissed, QueueKeys, InQueue, Queued, Key
<1>11. QED
  BY <1>1, <1>2, <1>3, <1>4, <1>5, <1>6, <1>7, <1>8, <1>9, <1>10
  DEF Next, Step, Visit, Queue, Terminated

LEMMA RendezvousImplies == RendezvousInv => NoMutualRefusal
<1> SUFFICES ASSUME RendezvousInv, Closed, ~ disturbed,
                    \A j \in Queued : pc[j] = "refused"
             PROVE  FALSE
  BY DEF NoMutualRefusal
<1>1. \A j \in Queued : HasWritten(j)
  BY DEF HasWritten
<1>2. GroupKeys \subseteq QueueKeys
  BY <1>1 DEF RendezvousInv, WrittenIsQueued, GroupKeys
<1>3. PICK w \in Queued : pc[w] = "list" \/ QueueKeys \subseteq inqueue[w]
  BY <1>1 DEF RendezvousInv, LastWriterSees, Closed
<1>4. ~ (GroupKeys \subseteq inqueue[w])
  BY DEF RendezvousInv, RefusedMissed, Queued
<1>5. QED BY <1>2, <1>3, <1>4

\* Promotions that depend on one another are never all refused by the check,
\* however many there are and however their reads and writes of the table
\* interleave, while nothing is popped and no statement or build fails.
THEOREM Rendezvous == Spec => []NoMutualRefusal
<1>1. Spec => []RendezvousInv
  BY RendezvousInit, RendezvousStep, PTL DEF Spec
<1>2. QED BY <1>1, RendezvousImplies, PTL

-----------------------------------------------------------------------------
(* The gate of the queue: a promotion whose row is its own merges only when *)
(* every dependency it computed has been promoted into the queue, whatever   *)
(* statements fail and whatever is popped.                                   *)

Inserted(r) == row[r].time > 0
BeforeWrite == {"fetch", "select", "write"}
PastGate == {"merge", "done", "rejected"}

\* Rows come from promotions that go through the queue.
RowsByQueued ==
  \A r \in Job : Inserted(r) => \E k \in Queued : Key(k) = Key(r)

\* The row of a promotion that shares it with nobody holds its dependencies.
OwnRowSays ==
  \A j \in Queued, r \in Job : ~ Shared(j) /\ Key(r) = Key(j) /\ Inserted(r) =>
    row[r].deps = deps[j] /\ pc[j] \notin BeforeWrite

ListedInserted ==
  \A j \in Job : \A d \in inqueue[j] : \E r \in Job : Key(r) = d /\ Inserted(r)

GateInv ==
  /\ RendezvousInv
  /\ RowsByQueued
  /\ OwnRowSays
  /\ ListedInserted
  /\ GateSound

LEMMA GateInit == Init => GateInv
<1> SUFFICES ASSUME Init PROVE GateInv
  OBVIOUS
<1>1. \A r \in Job : ~ Inserted(r)
  BY DEF Init, Inserted
<1>2. \A j \in Job : inqueue[j] = {} /\ pc[j] = "fetch"
  BY DEF Init
<1>3. QED BY <1>1, <1>2, RendezvousInit
          DEF GateInv, RowsByQueued, OwnRowSays, ListedInserted, GateSound, Queued

LEMMA Keys0 ==
  ASSUME NEW j \in Job PROVE Key(j)' = Key(j) /\ (Shared(j)' <=> Shared(j))
  BY DEF Key, Shared, Queued

\* What has been enqueued stays so.
LEMMA EnqueuedStays ==
  ASSUME \A r \in Job : Inserted(r) => Inserted(r)', NEW d, Enqueued(d)
  PROVE  Enqueued(d)'
  BY DEF Enqueued, Inserted, Key, Queued

\* Steps of one promotion that leave the table and the lists alone.
LEMMA GateFrame ==
  ASSUME GateInv, RendezvousInv', UNCHANGED <<row, deps, inqueue>>,
         NEW j \in Job, NEW p, pc' = [pc EXCEPT ![j] = p],
         p \in BeforeWrite => pc[j] \in BeforeWrite,
         p \in PastGate => pc[j] \in PastGate \/ j \notin Queued
  PROVE  GateInv'
<1>1. /\ pc'[j] = p /\ \A k \in Job \ {j} : pc'[k] = pc[k]
      /\ \A r \in Job : Inserted(r)' <=> Inserted(r)
  BY DEF GateInv, RendezvousInv, TypeOK, Inserted
<1>2. RowsByQueued' /\ ListedInserted'
  BY <1>1, Keys0 DEF GateInv, RowsByQueued, ListedInserted, Queued
<1>3. OwnRowSays'
  BY <1>1, Keys0 DEF GateInv, OwnRowSays, Queued
<1>4. GateSound'
  <2> SUFFICES ASSUME NEW k \in Queued, pc'[k] \in PastGate, ~ Shared(k)
               PROVE  deps[k] \subseteq inqueue[k] /\ \A d \in deps[k] : Enqueued(d)'
    BY Keys0 DEF GateSound, PastGate, Queued
  <2>1. pc[k] \in PastGate
    BY <1>1 DEF Queued
  <2>2. deps[k] \subseteq inqueue[k] /\ \A d \in deps[k] : Enqueued(d)
    BY <2>1 DEF GateInv, GateSound, PastGate
  <2>3. QED BY <2>2, <1>1, EnqueuedStays
<1>5. QED BY <1>2, <1>3, <1>4 DEF GateInv

LEMMA GateStep == GateInv /\ [Next]_vars => GateInv'
<1> SUFFICES ASSUME GateInv, [Next]_vars PROVE GateInv'
  OBVIOUS
<1>0. RendezvousInv /\ RendezvousInv' /\ TypeOK
  BY RendezvousStep DEF GateInv, RendezvousInv
<1>1. ASSUME NEW j \in Job, NEW s \in Sub, Fetch(j, s) PROVE GateInv'
  <2>1. /\ UNCHANGED <<row, inqueue>> /\ pc[j] = "fetch"
        /\ \A k \in Job \ {j} : pc'[k] = pc[k] /\ deps'[k] = deps[k]
        /\ j \in Queued => pc'[j] \in BeforeWrite
    <3>1. /\ UNCHANGED <<row, inqueue>> /\ pc[j] = "fetch"
          /\ deps' = [deps EXCEPT ![j] = @ \cup Dependency(j, s)]
          /\ pc' = pc \/ pc' = [pc EXCEPT ![j] = IF j \in Forced THEN "merge" ELSE "select"]
      BY <1>1 DEF Fetch
    <3>2. QED BY <1>0, <3>1 DEF TypeOK, Queued, BeforeWrite
  <2>2. \A r \in Job : Inserted(r)' <=> Inserted(r)
    BY <2>1 DEF Inserted
  <2>3. RowsByQueued' /\ ListedInserted'
    BY <2>1, <2>2, Keys0 DEF GateInv, RowsByQueued, ListedInserted, Queued
  <2>4. OwnRowSays'
    BY <2>1, <2>2, Keys0 DEF GateInv, OwnRowSays, Queued, BeforeWrite
  <2>5. GateSound'
    <3> SUFFICES ASSUME NEW k \in Queued, pc'[k] \in PastGate, ~ Shared(k)
                 PROVE  deps'[k] \subseteq inqueue[k] /\ \A d \in deps'[k] : Enqueued(d)'
      BY <2>1, Keys0 DEF GateSound, PastGate, Queued
    <3>1. k # j
      BY <2>1 DEF PastGate, BeforeWrite
    <3>2. deps[k] \subseteq inqueue[k] /\ \A d \in deps[k] : Enqueued(d)
      BY <2>1, <3>1 DEF GateInv, GateSound, PastGate, Queued
    <3>3. QED BY <2>1, <2>2, <3>1, <3>2, EnqueuedStays DEF Queued
  <2>6. QED BY <1>0, <2>3, <2>4, <2>5 DEF GateInv
<1>2. ASSUME NEW j \in Job, Select(j) PROVE GateInv'
  <2>1. /\ UNCHANGED <<row, deps, inqueue>>
        /\ pc[j] = "select" /\ pc' = [pc EXCEPT ![j] = "write"]
    BY <1>2 DEF Select
  <2>2. QED BY <1>0, <2>1, GateFrame DEF BeforeWrite, PastGate
<1>3. ASSUME NEW j \in Job, Write(j) PROVE GateInv'
  <2>1. /\ pc[j] = "write" /\ pc' = [pc EXCEPT ![j] = "list"]
        /\ clock' \in Nat /\ clock' > 0
        /\ UNCHANGED <<deps, inqueue>>
    BY <1>0, <1>3 DEF Write, TypeOK
  <2>2. j \in Queued
    BY <1>0, <2>1 DEF RendezvousInv, InQueuePhase
  <2>3. PICK x \in Job :
          /\ Key(x) = Key(j)
          /\ row' = [row EXCEPT ![x] = [deps |-> deps[j], inq |-> TRUE, time |-> clock']]
    BY <1>0, <1>3 DEF Write, RendezvousInv, TypeOK, HitIsOwn
  <2>4. /\ row'[x].deps = deps[j] /\ row'[x].time > 0
        /\ \A r \in Job \ {x} : row'[r] = row[r]
    BY <1>0, <2>1, <2>3 DEF TypeOK
  <2>5. pc'[j] = "list" /\ \A k \in Job \ {j} : pc'[k] = pc[k]
    BY <1>0, <2>1 DEF TypeOK
  <2>6. Inserted(x)' /\ \A r \in Job : Inserted(r) => Inserted(r)'
    <3>1. row'[x].time > 0
      BY <2>4
    <3>2. Inserted(x)'
      BY <3>1 DEF Inserted
    <3>3. ASSUME NEW r \in Job \ {x}, Inserted(r) PROVE Inserted(r)'
      BY <3>3, <2>4 DEF Inserted
    <3>4. QED BY <3>2, <3>3
  <2>7. RowsByQueued'
    <3>1. \A r \in Job \ {x} : Inserted(r)' => Inserted(r)
      BY <2>4 DEF Inserted
    <3>2. QED BY <2>2, <2>3, <3>1, Keys0 DEF GateInv, RowsByQueued, Queued
  <2>8. OwnRowSays'
    <3> SUFFICES ASSUME NEW k \in Queued, NEW r \in Job, ~ Shared(k), Key(r) = Key(k), Inserted(r)'
                 PROVE  row'[r].deps = deps[k] /\ pc'[k] \notin BeforeWrite
      BY <2>1, Keys0 DEF OwnRowSays, Queued
    <3>1. CASE r = x
      <4>1. k = j
        BY <3>1, <2>2, <2>3 DEF Shared
      <4>2. QED BY <4>1, <3>1, <2>4, <2>5 DEF BeforeWrite
    <3>2. CASE r # x
      <4>1. Inserted(r)
        BY <3>2, <2>4 DEF Inserted
      <4>2. row[r].deps = deps[k] /\ pc[k] \notin BeforeWrite
        BY <4>1 DEF GateInv, OwnRowSays
      <4>3. QED BY <4>2, <3>2, <2>4, <2>5 DEF BeforeWrite, Queued
    <3>3. QED BY <3>1, <3>2
  <2>9. ListedInserted'
    BY <2>1, <2>6, Keys0 DEF GateInv, ListedInserted
  <2>10. GateSound'
    <3> SUFFICES ASSUME NEW k \in Queued, pc'[k] \in PastGate, ~ Shared(k)
                 PROVE  deps[k] \subseteq inqueue[k] /\ \A d \in deps[k] : Enqueued(d)'
      BY <2>1, Keys0 DEF GateSound, PastGate, Queued
    <3>1. pc[k] \in PastGate
      BY <2>5 DEF PastGate, Queued
    <3>2. deps[k] \subseteq inqueue[k] /\ \A d \in deps[k] : Enqueued(d)
      BY <3>1 DEF GateInv, GateSound, PastGate
    <3>3. QED BY <2>6, <3>2, EnqueuedStays
  <2>11. QED BY <1>0, <2>7, <2>8, <2>9, <2>10 DEF GateInv
<1>4. ASSUME NEW j \in Job, List(j) PROVE GateInv'
  <2>1. PICK R \in Visible : inqueue' = [inqueue EXCEPT ![j] = {Key(r) : r \in R}]
    BY <1>4 DEF List
  <2>2. UNCHANGED <<row, deps>> /\ pc[j] = "list"
    BY <1>4 DEF List
  <2>3. pc' = [pc EXCEPT ![j] = IF inqueue'[j] = {} THEN "refused" ELSE "own"]
    BY <1>4 DEF List
  <2>4. R \subseteq InQueue
    BY DEF Visible
  <2>5. /\ pc'[j] \in {"refused", "own"}
        /\ \A k \in Job \ {j} : pc'[k] = pc[k] /\ inqueue'[k] = inqueue[k]
        /\ \A r \in Job : Inserted(r)' <=> Inserted(r)
    BY <1>0, <2>1, <2>2, <2>3 DEF TypeOK, Inserted
  <2>6. RowsByQueued'
    BY <2>5, Keys0 DEF GateInv, RowsByQueued, Queued
  <2>7. OwnRowSays'
    BY <2>2, <2>5, Keys0 DEF GateInv, OwnRowSays, Queued, BeforeWrite
  <2>8. ListedInserted'
    <3>1. \A d \in inqueue'[j] : \E r \in Job : Key(r) = d /\ Inserted(r)
      BY <1>0, <2>1, <2>4 DEF TypeOK, InQueue, Inserted
    <3>2. QED BY <2>5, <3>1, Keys0 DEF GateInv, ListedInserted
  <2>9. GateSound'
    <3> SUFFICES ASSUME NEW k \in Queued, pc'[k] \in PastGate, ~ Shared(k)
                 PROVE  deps[k] \subseteq inqueue'[k] /\ \A d \in deps[k] : Enqueued(d)'
      BY <2>2, Keys0 DEF GateSound, PastGate, Queued
    <3>1. k # j /\ pc[k] \in PastGate
      BY <2>5 DEF PastGate, Queued
    <3>2. deps[k] \subseteq inqueue[k] /\ \A d \in deps[k] : Enqueued(d)
      BY <3>1 DEF GateInv, GateSound, PastGate
    <3>3. QED BY <2>5, <3>1, <3>2, EnqueuedStays DEF Queued
  <2>10. QED BY <1>0, <2>6, <2>7, <2>8, <2>9 DEF GateInv
<1>5. ASSUME NEW j \in Job, OwnRow(j) PROVE GateInv'
  <2>1. UNCHANGED <<row, deps, inqueue>> /\ pc[j] = "own" /\ j \in Queued
    BY <1>0, <1>5 DEF OwnRow, RendezvousInv, InQueuePhase
  <2>2. CASE pc' = [pc EXCEPT ![j] = "refused"]
    BY <1>0, <2>1, <2>2, GateFrame DEF BeforeWrite, PastGate
  <2>3. ASSUME NEW r \in Latest(Match(j)), Needed(j, r) \subseteq inqueue[j],
               pc' = [pc EXCEPT ![j] = "merge"]
        PROVE  GateInv'
    <3>1. r \in Job /\ Key(r) = Key(j) /\ Inserted(r)
      BY DEF Latest, Match, Inserted
    <3>2. pc'[j] = "merge" /\ \A k \in Job \ {j} : pc'[k] = pc[k]
      BY <1>0, <2>3 DEF TypeOK
    <3>3. \A q \in Job : Inserted(q)' <=> Inserted(q)
      BY <2>1 DEF Inserted
    <3>4. RowsByQueued' /\ ListedInserted'
      BY <2>1, <3>3, Keys0 DEF GateInv, RowsByQueued, ListedInserted, Queued
    <3>5. OwnRowSays'
      BY <2>1, <3>2, <3>3, Keys0 DEF GateInv, OwnRowSays, Queued, BeforeWrite
    <3>6. ~ Shared(j) => deps[j] \subseteq inqueue[j]
      BY <2>1, <2>3, <3>1 DEF GateInv, OwnRowSays, Needed
    <3>7. \A d \in inqueue[j] : Enqueued(d)
      BY DEF GateInv, ListedInserted, RowsByQueued, Enqueued, Inserted
    <3>8. GateSound'
      <4> SUFFICES ASSUME NEW k \in Queued, pc'[k] \in PastGate, ~ Shared(k)
                   PROVE  deps[k] \subseteq inqueue[k] /\ \A d \in deps[k] : Enqueued(d)'
        BY <2>1, Keys0 DEF GateSound, PastGate, Queued
      <4>1. deps[k] \subseteq inqueue[k] /\ \A d \in deps[k] : Enqueued(d)
        <5>1. CASE k = j
          BY <5>1, <3>6, <3>7
        <5>2. CASE k # j
          BY <5>2, <3>2 DEF GateInv, GateSound, PastGate, Queued
        <5>3. QED BY <5>1, <5>2
      <4>2. QED BY <3>3, <4>1, EnqueuedStays
    <3>9. QED BY <1>0, <3>4, <3>5, <3>8 DEF GateInv
  <2>4. QED BY <1>5, <2>2, <2>3 DEF OwnRow
<1>6. ASSUME NEW j \in Job, NEW s \in Sub, Skip(j, s) \/ Push(j, s) \/ ForcePush(j, s)
      PROVE  GateInv'
  <2>1. /\ UNCHANGED <<row, deps, inqueue>> /\ pc[j] = "merge"
        /\ \E p \in {"merge", "done"} : pc' = [pc EXCEPT ![j] = p]
    BY <1>6 DEF Skip, Push, ForcePush, Leave
  <2>2. QED BY <1>0, <2>1, GateFrame DEF BeforeWrite, PastGate
<1>7. ASSUME NEW j \in Job, \E s \in Sub : Rejected(j, s) PROVE GateInv'
  <2>1. /\ UNCHANGED <<row, deps, inqueue>> /\ pc[j] = "merge"
        /\ pc' = [pc EXCEPT ![j] = "rejected"]
    BY <1>7 DEF Rejected
  <2>2. QED BY <1>0, <2>1, GateFrame DEF BeforeWrite, PastGate
<1>8. ASSUME NEW j \in Job, Abort(j) PROVE GateInv'
  <2>1. UNCHANGED <<row, deps, inqueue>> /\ pc' = [pc EXCEPT ![j] = "failed"]
    BY <1>8 DEF Abort
  <2>2. QED BY <1>0, <2>1, GateFrame DEF BeforeWrite, PastGate
<1>9. ASSUME NEW j \in Job, SqlError(j) PROVE GateInv'
  <2>1. /\ UNCHANGED <<row, deps, inqueue>>
        /\ \/ pc[j] = "select" /\ pc' = [pc EXCEPT ![j] = "write"]
           \/ pc' = [pc EXCEPT ![j] = "list"]
           \/ pc' = [pc EXCEPT ![j] = "refused"]
    BY <1>9 DEF SqlError
  <2>2. QED BY <1>0, <2>1, GateFrame DEF BeforeWrite, PastGate
<1>10. ASSUME NEW r \in Job, Pop(r) PROVE GateInv'
  <2>1. UNCHANGED <<pc, deps, inqueue>> /\ row' = [row EXCEPT ![r].inq = FALSE]
    BY <1>10 DEF Pop, jobVars
  <2>2. \A q \in Job : row'[q].deps = row[q].deps /\ (Inserted(q)' <=> Inserted(q))
    BY <1>0, <2>1 DEF TypeOK, Row, Inserted
  <2>3. RowsByQueued' /\ ListedInserted'
    BY <2>1, <2>2, Keys0 DEF GateInv, RowsByQueued, ListedInserted, Queued
  <2>4. OwnRowSays'
    BY <2>1, <2>2, Keys0 DEF GateInv, OwnRowSays, Queued
  <2>5. GateSound'
    BY <2>1, <2>2, Keys0, EnqueuedStays DEF GateInv, GateSound, Queued
  <2>6. QED BY <1>0, <2>3, <2>4, <2>5 DEF GateInv
<1>11. CASE UNCHANGED vars
  <2>1. UNCHANGED <<pc, row, deps, inqueue>>
    BY <1>11 DEF vars, jobVars
  <2>2. \A q \in Job : Inserted(q)' <=> Inserted(q)
    BY <2>1 DEF Inserted
  <2>3. RowsByQueued' /\ ListedInserted'
    BY <2>1, <2>2, Keys0 DEF GateInv, RowsByQueued, ListedInserted, Queued
  <2>4. OwnRowSays'
    BY <2>1, <2>2, Keys0 DEF GateInv, OwnRowSays, Queued
  <2>5. GateSound'
    BY <2>1, <2>2, Keys0, EnqueuedStays DEF GateInv, GateSound, Queued
  <2>6. QED BY <1>0, <2>3, <2>4, <2>5 DEF GateInv
<1>12. QED
  BY <1>1, <1>2, <1>3, <1>4, <1>5, <1>6, <1>7, <1>8, <1>9, <1>10, <1>11
  DEF Next, Step, Visit, Queue, Terminated

\* promote.sh:101-116: no promotion with a row of its own merges before every
\* dependency it computed was listed for it and promoted by its owner.
THEOREM Gate == Spec => []GateSound
<1>1. GateInv => GateSound
  BY DEF GateInv
<1>2. QED BY <1>1, GateInit, GateStep, PTL DEF Spec

-----------------------------------------------------------------------------
(* What a promotion has put on the trunks: an exit with 0 means that rev.txt *)
(* has landed, and the promotions implement TrunkPromise.                    *)

\* What a promotion has seen of a trunk stays on it, except on the trunks
\* that were cut.
SeenStays == \A j \in Job, s \in Sub : s \in cut \/ seen[j][s] \subseteq trunk[s]

Landed(j, s) == Rev[j][s] \in trunk[s] \/ s \in cut

\* The merge loop starts with all of rev.txt, and has landed what it has left.
LoopWhole ==
  \A j \in Job : pc[j] \in {"select", "write", "list", "own"} => todo[j] = Listed(j)
VisitedLanded ==
  \A j \in Job : pc[j] \in {"merge", "done"} =>
    \A s \in Listed(j) \ todo[j] : Landed(j, s)

LandingInv == TypeOK /\ SeenStays /\ LoopWhole /\ VisitedLanded

LEMMA LandingInit == Init => LandingInv
  BY TypeInit DEF Init, LandingInv, SeenStays, LoopWhole, VisitedLanded

-----------------------------------------------------------------------------
\* Steps that leave the trunks and what was fetched alone.
LEMMA Aside ==
  ASSUME LandingInv, TypeOK', UNCHANGED <<trunk, cut, seen, todo>>,
         NEW j \in Job, NEW p, pc' = [pc EXCEPT ![j] = p],
         p \in {"select", "write", "list", "own"} => todo[j] = Listed(j),
         p = "merge" => todo[j] = Listed(j) \/ pc[j] = "merge",
         p # "done"
  PROVE  LandingInv'
<1>1. SeenStays'
  BY DEF LandingInv, SeenStays
<1>2. LoopWhole'
  BY DEF LandingInv, LoopWhole, TypeOK
<1>3. \A k \in Job : \A s \in Listed(k) : Landed(k, s)' <=> Landed(k, s)
  BY DEF Landed
<1>4. VisitedLanded'
  <2> SUFFICES ASSUME NEW k \in Job, pc'[k] \in {"merge", "done"},
                      NEW s \in Listed(k), s \notin todo[k]
               PROVE  Landed(k, s)'
    BY DEF VisitedLanded, Listed
  <2>1. CASE k = j
    BY <2>1, <1>3 DEF LandingInv, VisitedLanded, TypeOK
  <2>2. CASE k # j
    BY <2>2, <1>3 DEF LandingInv, VisitedLanded, TypeOK
  <2>3. QED BY <2>1, <2>2
<1>5. QED BY <1>1, <1>2, <1>4 DEF LandingInv

\* A repository is left when its revision has landed.
LEMMA Leaves ==
  ASSUME LandingInv, TypeOK', NEW j \in Job, NEW s \in Sub,
         pc[j] = "merge", s \in todo[j], Leave(j, s),
         Landed(j, s)',
         \A t \in Sub : t \in cut => t \in cut',
         \A t \in Sub : t \in cut' \/ trunk[t] \subseteq trunk'[t],
         \A k \in Job, t \in Sub :
           t \in cut' \/ seen'[k][t] \subseteq trunk'[t]
  PROVE  LandingInv'
<1>1. SeenStays'
  BY DEF SeenStays
<1>2. /\ \A k \in Job \ {j} : pc'[k] = pc[k] /\ todo'[k] = todo[k]
      /\ pc'[j] \in {"merge", "done"}
      /\ todo'[j] = todo[j] \ {s}
  BY DEF Leave, LandingInv, TypeOK
<1>3. LoopWhole'
  BY <1>2 DEF LandingInv, LoopWhole, Listed
<1>4. \A k \in Job : \A t \in Listed(k) : Landed(k, t) => Landed(k, t)'
  <2>1. \A k \in Job : Listed(k) \subseteq Sub
    BY ListedSub
  <2>2. QED BY <2>1 DEF Landed
<1>5. VisitedLanded'
  <2> SUFFICES ASSUME NEW k \in Job, pc'[k] \in {"merge", "done"},
                      NEW t \in Listed(k), t \notin todo'[k]
               PROVE  Landed(k, t)'
    BY DEF VisitedLanded, Listed
  <2>1. CASE k # j
    BY <2>1, <1>2, <1>4 DEF LandingInv, VisitedLanded
  <2>2. CASE k = j /\ t # s
    BY <2>2, <1>2, <1>4 DEF LandingInv, VisitedLanded
  <2>3. CASE k = j /\ t = s
    BY <2>3
  <2>4. QED BY <2>1, <2>2, <2>3
<1>6. QED BY <1>1, <1>3, <1>5 DEF LandingInv

LEMMA MergedHolds ==
  ASSUME NEW j \in Job, NEW s \in Listed(j)
  PROVE  Anc[s][Rev[j][s]] \subseteq Merged(j, s) /\ Rev[j][s] \in Anc[s][Rev[j][s]]
<1>1. Rev[j][s] \in Anc[s][Rev[j][s]]
  BY RevCommit, ConstantsAssumption
<1>2. QED BY <1>1 DEF Merged

LEMMA LandingStep == LandingInv /\ [Next]_vars => LandingInv'
<1> SUFFICES ASSUME LandingInv, [Next]_vars PROVE LandingInv'
  OBVIOUS
<1>0. TypeOK /\ TypeOK'
  BY TypeStep DEF LandingInv
<1>1. ASSUME NEW j \in Job, NEW s \in Sub, Fetch(j, s) PROVE LandingInv'
  <2>1. /\ UNCHANGED <<trunk, cut>>
        /\ seen' = [seen EXCEPT ![j][s] = trunk[s]]
        /\ pc[j] = "fetch"
    BY <1>1 DEF Fetch, CheckSubExist
  <2>2. \/ pc' = pc /\ todo' = [todo EXCEPT ![j] = @ \ {s}]
        \/ pc' = [pc EXCEPT ![j] = IF j \in Forced THEN "merge" ELSE "select"]
           /\ todo' = [todo EXCEPT ![j] = Listed(j)]
    BY <1>1 DEF Fetch
  <2>3. /\ \A k \in Job \ {j} : pc'[k] = pc[k] /\ todo'[k] = todo[k]
        /\ pc'[j] = "fetch" \/ todo'[j] = Listed(j)
    BY <1>0, <2>1, <2>2 DEF TypeOK
  <2>4. SeenStays'
    BY <1>0, <2>1 DEF LandingInv, SeenStays, TypeOK
  <2>5. LoopWhole'
    BY <2>3 DEF LandingInv, LoopWhole, Listed
  <2>6. VisitedLanded'
    BY <2>1, <2>3 DEF LandingInv, VisitedLanded, Landed, Listed
  <2>7. QED BY <1>0, <2>4, <2>5, <2>6 DEF LandingInv
<1>2. ASSUME NEW j \in Job, Queue(j) PROVE LandingInv'
  <2>1. /\ UNCHANGED <<trunk, cut, seen, todo>>
        /\ pc[j] \in {"select", "write", "list", "own"}
        /\ \E p \in {"write", "list", "own", "merge", "refused"} :
             pc' = [pc EXCEPT ![j] = p]
    <3>1. CASE Select(j) \/ Write(j)
      BY <3>1 DEF Select, Write
    <3>2. CASE List(j)
      BY <3>2, Zenon DEF List
    <3>3. CASE OwnRow(j)
      <4>1. \/ pc' = [pc EXCEPT ![j] = "refused"]
            \/ pc' = [pc EXCEPT ![j] = "merge"]
        BY <3>3 DEF OwnRow
      <4>2. QED BY <3>3, <4>1 DEF OwnRow
    <3>4. QED BY <1>2, <3>1, <3>2, <3>3 DEF Queue
  <2>2. todo[j] = Listed(j)
    BY <2>1 DEF LandingInv, LoopWhole
  <2>3. QED BY <1>0, <2>1, <2>2, Aside
<1>3. ASSUME NEW j \in Job, NEW s \in Sub, Skip(j, s) PROVE LandingInv'
  <2>1. /\ pc[j] = "merge" /\ s \in todo[j] /\ Leave(j, s)
        /\ Rev[j][s] \in seen[j][s]
        /\ UNCHANGED <<trunk, cut, seen>>
    BY <1>3 DEF Skip, IsNext
  <2>2. Landed(j, s)'
    BY <2>1 DEF LandingInv, SeenStays, Landed
  <2>3. QED BY <1>0, <2>1, <2>2, Leaves DEF LandingInv, SeenStays
<1>4. ASSUME NEW j \in Job, NEW s \in Sub, Push(j, s) PROVE LandingInv'
  <2>1. /\ pc[j] = "merge" /\ s \in todo[j] /\ Leave(j, s)
        /\ trunk[s] \subseteq Merged(j, s)
        /\ trunk' = [trunk EXCEPT ![s] = Merged(j, s)]
        /\ seen' = [seen EXCEPT ![j][s] = Merged(j, s)]
        /\ cut' = cut
    BY <1>4 DEF Push, IsNext, Accepts
  <2>2. s \in Listed(j)
    BY <1>0, <2>1 DEF TypeOK
  <2>3. Landed(j, s)'
    <3>1. Rev[j][s] \in Merged(j, s)
      BY <2>2, MergedHolds
    <3>2. trunk'[s] = Merged(j, s)
      BY <1>0, <2>1 DEF TypeOK
    <3>3. QED BY <3>1, <3>2 DEF Landed
  <2>4. \A t \in Sub : trunk[t] \subseteq trunk'[t]
    BY <1>0, <2>1 DEF TypeOK
  <2>5. \A k \in Job, t \in Sub : t \in cut' \/ seen'[k][t] \subseteq trunk'[t]
    BY <1>0, <2>1 DEF LandingInv, SeenStays, TypeOK
  <2>6. QED BY <1>0, <2>1, <2>3, <2>4, <2>5, Leaves
<1>5. ASSUME NEW j \in Job, NEW s \in Sub, ForcePush(j, s) PROVE LandingInv'
  <2> DEFINE h == Anc[s][Rev[j][s]]
  <2>1. /\ pc[j] = "merge" /\ s \in todo[j] /\ Leave(j, s)
        /\ trunk' = [trunk EXCEPT ![s] = h]
        /\ seen' = [seen EXCEPT ![j][s] = h]
        /\ cut \subseteq cut' /\ (s \in cut' \/ trunk[s] \subseteq h)
    <3>1. cut' = IF trunk[s] \subseteq h THEN cut ELSE cut \cup {s}
      BY <1>5 DEF ForcePush
    <3> HIDE DEF h
    <3>2. cut \subseteq cut' /\ (s \in cut' \/ trunk[s] \subseteq h)
      BY <3>1
    <3>3. QED BY <1>5, <3>2 DEF ForcePush, IsNext, h
  <2>2. s \in Listed(j)
    BY <1>0, <2>1 DEF TypeOK
  <2>3. Rev[j][s] \in h
    BY <2>2, MergedHolds
  <2> HIDE DEF h
  <2>4. Landed(j, s)'
    BY <1>0, <2>1, <2>3 DEF Landed, TypeOK
  <2>5. \A t \in Sub : t \in cut' \/ trunk[t] \subseteq trunk'[t]
    BY <1>0, <2>1 DEF TypeOK
  <2>6. \A k \in Job, t \in Sub : t \in cut' \/ seen'[k][t] \subseteq trunk'[t]
    BY <1>0, <2>1 DEF LandingInv, SeenStays, TypeOK
  <2>7. QED BY <1>0, <2>1, <2>4, <2>5, <2>6, Leaves
<1>6. ASSUME NEW j \in Job, \E s \in Sub : Rejected(j, s) PROVE LandingInv'
  <2>1. /\ UNCHANGED <<trunk, cut, seen, todo>>
        /\ pc' = [pc EXCEPT ![j] = "rejected"]
    BY <1>6 DEF Rejected
  <2>2. QED BY <1>0, <2>1, Aside
<1>7. ASSUME NEW j \in Job, Abort(j) PROVE LandingInv'
  <2>1. /\ UNCHANGED <<trunk, cut, seen, todo>>
        /\ pc' = [pc EXCEPT ![j] = "failed"]
    BY <1>7 DEF Abort
  <2>2. QED BY <1>0, <2>1, Aside
<1>8. ASSUME NEW j \in Job, SqlError(j) PROVE LandingInv'
  <2>1. /\ UNCHANGED <<trunk, cut, seen, todo>>
        /\ pc[j] \in {"select", "write", "list", "own"}
        /\ \E p \in {"write", "list", "refused"} : pc' = [pc EXCEPT ![j] = p]
    BY <1>8 DEF SqlError
  <2>2. todo[j] = Listed(j)
    BY <2>1 DEF LandingInv, LoopWhole
  <2>3. QED BY <1>0, <2>1, <2>2, Aside
<1>9. ASSUME NEW r \in Job, Pop(r) PROVE LandingInv'
  BY <1>0, <1>9 DEF Pop, jobVars, LandingInv, SeenStays, LoopWhole, VisitedLanded, Landed, Listed
<1>10. CASE UNCHANGED vars
  BY <1>0, <1>10 DEF vars, jobVars, LandingInv, SeenStays, LoopWhole, VisitedLanded, Landed, Listed
<1>11. QED
  BY <1>1, <1>2, <1>3, <1>4, <1>5, <1>6, <1>7, <1>8, <1>9, <1>10
  DEF Next, Step, Visit, Terminated

LEMMA LandingAlways == Spec => []LandingInv
  BY LandingInit, LandingStep, PTL DEF Spec

\* promote.sh:43-65 and 124-129: a promotion that exits with 0 has landed every
\* revision of its rev.txt, by its own push or by someone else's, however old
\* the trunks it had fetched were.
THEOREM Landing == Spec => []PromotedLanded
<1>1. LandingInv => PromotedLanded
  BY DEF LandingInv, TypeOK, VisitedLanded, Landed, PromotedLanded
<1>2. QED BY <1>1, LandingAlways, PTL

-----------------------------------------------------------------------------
(* The refinement.  A step of a promotion changes its own result at most, and *)
(* the trunks as TrunkPromise allows.                                        *)

results == [j \in Job |-> Result(j)]

ResultOf(p) ==
  CASE p \in Active -> "running" [] p = "done" -> "promoted" [] OTHER -> "stopped"

LEMMA ResultIs ==
  /\ results = [j \in Job |-> ResultOf(pc[j])]
  /\ results' = [j \in Job |-> ResultOf(pc'[j])]
<1>1. \A j \in Job : Result(j) = ResultOf(pc[j]) /\ Result(j)' = ResultOf(pc'[j])
  BY DEF Result, ResultOf
<1>2. QED BY <1>1 DEF results

LEMMA ResultMoves ==
  ASSUME TypeOK, NEW j \in Job, NEW p, pc' = [pc EXCEPT ![j] = p]
  PROVE  results' = [results EXCEPT ![j] = ResultOf(p)]
<1>1. pc'[j] = p /\ \A k \in Job \ {j} : pc'[k] = pc[k]
  BY DEF TypeOK
<1>2. results'[j] = ResultOf(p) /\ \A k \in Job \ {j} : results'[k] = results[k]
  BY <1>1, ResultIs
<1>3. QED BY <1>2, ResultIs

LEMMA RunningResult == \A j \in Job : pc[j] \in Active => results[j] = "running"
<1>1. \A p \in Active : ResultOf(p) = "running"
  BY DEF ResultOf, Active
<1>2. QED BY <1>1, ResultIs

LEMMA ActiveMoves ==
  ASSUME TypeOK, NEW j \in Job, NEW p \in Active, pc[j] \in Active,
         pc' = [pc EXCEPT ![j] = p]
  PROVE  results' = results
<1>1. results' = [results EXCEPT ![j] = "running"]
  BY ResultMoves DEF ResultOf, Active
<1>2. results[j] = "running" /\ results = [k \in Job |-> ResultOf(pc[k])]
  BY RunningResult, ResultIs
<1>3. QED BY <1>1, <1>2

PromiseNext == [Promise!Next]_Promise!vars

\* A step that only stops a promotion, or leaves it running.
LEMMA PromiseAside ==
  ASSUME TypeOK, NEW j \in Job, pc[j] \in Active, UNCHANGED <<trunk, cut>>,
         NEW p \in Active \cup {"refused", "rejected", "failed"},
         pc' = [pc EXCEPT ![j] = p]
  PROVE  PromiseNext
<1>1. CASE p \in Active
  <2>1. results' = results
    BY <1>1, ActiveMoves
  <2>2. QED BY <2>1 DEF PromiseNext, Promise!vars, results
<1>2. CASE p \notin Active
  <2>1. results' = [results EXCEPT ![j] = "stopped"] /\ results[j] = "running"
    BY <1>2, ResultMoves, RunningResult DEF ResultOf, Active
  <2>2. Promise!Stop(j)
    BY <2>1 DEF Promise!Stop, results
  <2>3. QED BY <2>2 DEF PromiseNext, Promise!Next
<1>3. QED BY <1>1, <1>2

\* What leaving a repository makes of the result.
LEMMA LeaveFinishes ==
  ASSUME LandingInv, LandingInv', NEW j \in Job, NEW s \in Sub, pc[j] = "merge", Leave(j, s)
  PROVE  /\ results[j] = "running"
         /\ \/ results' = results
            \/ /\ results' = [results EXCEPT ![j] = "promoted"]
               /\ \A t \in DOMAIN Rev[j] : Landed(j, t)'
<1>1. results[j] = "running"
  BY RunningResult DEF Active
<1>2. CASE pc' = [pc EXCEPT ![j] = "merge"]
  BY <1>1, <1>2, ActiveMoves DEF LandingInv, Active
<1>3. CASE pc' = [pc EXCEPT ![j] = "done"]
  <2>1. results' = [results EXCEPT ![j] = "promoted"]
    BY <1>3, ResultMoves DEF LandingInv, ResultOf, Active
  <2>2. pc'[j] = "done"
    BY <1>3 DEF LandingInv, TypeOK
  <2>3. \A t \in Listed(j) : Landed(j, t)'
    BY <2>2 DEF LandingInv, TypeOK, VisitedLanded, Listed
  <2>4. QED BY <1>1, <2>1, <2>3 DEF Listed
<1>4. QED BY <1>2, <1>3 DEF Leave

LEMMA PromiseInit == Init => Promise!Init
<1> SUFFICES ASSUME Init PROVE Promise!Init
  OBVIOUS
<1>1. results = [j \in Job |-> "running"]
  BY DEF Init, results, Result, Active
<1>2. QED BY <1>1 DEF Init, Promise!Init, results

LEMMA PromiseStep == LandingInv /\ LandingInv' /\ [Next]_vars => PromiseNext
<1> SUFFICES ASSUME LandingInv, LandingInv', [Next]_vars PROVE PromiseNext
  OBVIOUS
<1>0. TypeOK /\ TypeOK'
  BY DEF LandingInv
<1>1. ASSUME NEW j \in Job, NEW s \in Sub, Fetch(j, s) PROVE PromiseNext
  <2>1. /\ UNCHANGED <<trunk, cut>> /\ pc[j] \in Active
        /\ \/ pc' = pc
           \/ pc' = [pc EXCEPT ![j] = IF j \in Forced THEN "merge" ELSE "select"]
    BY <1>1 DEF Fetch, Active
  <2>2. CASE pc' = pc
    BY <2>1, <2>2 DEF PromiseNext, Promise!vars, Result
  <2>3. CASE pc' = [pc EXCEPT ![j] = IF j \in Forced THEN "merge" ELSE "select"]
    <3>1. PICK p \in Active : pc' = [pc EXCEPT ![j] = p]
      BY <2>3 DEF Active
    <3>2. QED BY <1>0, <2>1, <3>1, PromiseAside
  <2>4. QED BY <2>1, <2>2, <2>3
<1>2. ASSUME NEW j \in Job, Queue(j) PROVE PromiseNext
  <2>1. UNCHANGED <<trunk, cut>> /\ pc[j] \in Active
    BY <1>2 DEF Queue, Select, Write, List, OwnRow, Active
  <2>2. \E p \in {"write", "list", "own", "merge", "refused"} : pc' = [pc EXCEPT ![j] = p]
    <3>1. CASE Select(j) \/ Write(j)
      BY <3>1 DEF Select, Write
    <3>2. CASE List(j)
      BY <3>2, Zenon DEF List
    <3>3. CASE OwnRow(j)
      BY <3>3 DEF OwnRow
    <3>4. QED BY <1>2, <3>1, <3>2, <3>3 DEF Queue
  <2>3. QED BY <1>0, <2>1, <2>2, PromiseAside DEF Active
<1>3. ASSUME NEW j \in Job, NEW s \in Sub, Skip(j, s) PROVE PromiseNext
  <2>1. pc[j] = "merge" /\ Leave(j, s) /\ UNCHANGED <<trunk, cut>>
    BY <1>3 DEF Skip
  <2>2. CASE results' = results
    BY <2>1, <2>2 DEF PromiseNext, Promise!vars, results
  <2>3. CASE results' # results
    <3>1. Promise!Finish(j)
      BY <2>1, <2>3, LeaveFinishes DEF Promise!Finish, Promise!Landed, Landed, results
    <3>2. QED BY <3>1 DEF PromiseNext, Promise!Next
  <2>4. QED BY <2>2, <2>3
<1>4. ASSUME NEW j \in Job, NEW s \in Sub, Push(j, s) PROVE PromiseNext
  <2>1. /\ pc[j] = "merge" /\ s \in todo[j] /\ Leave(j, s)
        /\ trunk[s] \subseteq Merged(j, s)
        /\ trunk' = [trunk EXCEPT ![s] = Merged(j, s)]
        /\ cut' = cut
    BY <1>4 DEF Push, IsNext, Accepts
  <2>2. s \in Listed(j)
    BY <1>0, <2>1 DEF TypeOK
  <2>3. Promise!MayFinish(j) /\ results[j] = "running"
    BY <2>1, LeaveFinishes DEF Promise!MayFinish, Promise!Landed, Landed, results
  <2>4. trunk'[s] = Merged(j, s)
    BY <1>0, <2>1 DEF TypeOK
  <2>5. trunk[s] \cup Anc[s][Rev[j][s]] \subseteq trunk'[s]
    BY <2>1, <2>2, <2>4, MergedHolds
  <2>6. trunk'[s] \subseteq Commit \cup Job
    BY <1>0 DEF TypeOK, History
  <2>7. Promise!Grow(j, s)
    BY <2>1, <2>3, <2>4, <2>5, <2>6 DEF Promise!Grow, results
  <2>8. QED BY <2>2, <2>7 DEF PromiseNext, Promise!Next, Listed
<1>5. ASSUME NEW j \in Job, NEW s \in Sub, ForcePush(j, s) PROVE PromiseNext
  <2> DEFINE h == Anc[s][Rev[j][s]]
  <2>1. /\ pc[j] = "merge" /\ s \in todo[j] /\ Leave(j, s) /\ j \in Forced
        /\ trunk' = [trunk EXCEPT ![s] = h]
        /\ cut' = IF trunk[s] \subseteq h THEN cut ELSE cut \cup {s}
    BY <1>5 DEF ForcePush, IsNext
  <2>2. s \in Listed(j)
    BY <1>0, <2>1 DEF TypeOK
  <2>3. Promise!MayFinish(j) /\ results[j] = "running"
    BY <2>1, LeaveFinishes DEF Promise!MayFinish, Promise!Landed, Landed, results
  <2>4. trunk'[s] = h
    BY <1>0, <2>1 DEF TypeOK
  <2>5. Promise!Replace(j, s)
    BY <2>1, <2>3, <2>4 DEF Promise!Replace, results
  <2>6. QED BY <2>2, <2>5 DEF PromiseNext, Promise!Next, Listed
<1>6. ASSUME NEW j \in Job, \E s \in Sub : Rejected(j, s) PROVE PromiseNext
  <2>1. /\ UNCHANGED <<trunk, cut>> /\ pc[j] \in Active
        /\ pc' = [pc EXCEPT ![j] = "rejected"]
    BY <1>6 DEF Rejected, Active
  <2>2. QED BY <1>0, <2>1, PromiseAside
<1>7. ASSUME NEW j \in Job, Abort(j) PROVE PromiseNext
  <2>1. /\ UNCHANGED <<trunk, cut>> /\ pc[j] \in Active
        /\ pc' = [pc EXCEPT ![j] = "failed"]
    BY <1>7 DEF Abort
  <2>2. QED BY <1>0, <2>1, PromiseAside
<1>8. ASSUME NEW j \in Job, SqlError(j) PROVE PromiseNext
  <2>1. /\ UNCHANGED <<trunk, cut>> /\ pc[j] \in Active
        /\ \E p \in {"write", "list", "refused"} : pc' = [pc EXCEPT ![j] = p]
    BY <1>8 DEF SqlError, Active
  <2>2. QED BY <1>0, <2>1, PromiseAside DEF Active
<1>9. ASSUME NEW r \in Job, Pop(r) PROVE PromiseNext
  BY <1>9 DEF Pop, jobVars, PromiseNext, Promise!vars, Result
<1>10. CASE UNCHANGED vars
  BY <1>10 DEF vars, jobVars, PromiseNext, Promise!vars, Result
<1>11. QED
  BY <1>1, <1>2, <1>3, <1>4, <1>5, <1>6, <1>7, <1>8, <1>9, <1>10
  DEF Next, Step, Visit, Terminated

\* promote.sh and PCIQueue.py implement TrunkPromise: each trunk only grows, or
\* is replaced by a forced promotion, and success is reported only when
\* everything has landed.
THEOREM Implements == Spec => KeepsPromise
<1>1. PromiseNext => [Promise!Next]_Promise!vars
  BY DEF PromiseNext
<1>2. QED BY <1>1, PromiseInit, PromiseStep, LandingAlways, PTL
          DEF Spec, KeepsPromise, Promise!Spec

-----------------------------------------------------------------------------
(* The race for the trunks.  While nothing disturbs, the push of a promotion *)
(* is rejected only on a trunk that somebody has pushed to since it fetched  *)
(* it.  Everybody pushes in the order of the repositories, so what a         *)
(* rejected promotion has pushed comes before the trunk it lost; and of the  *)
(* promotions that pushed, the one that pushed the last trunk lost none.     *)

Taken(s) == \E k \in Job : s \in pushed[k]

\* Whoever has pushed is in its merge loop or has left it.
PushersGoOn ==
  \A k \in Job : pushed[k] # {} =>
    pc[k] \in {"merge", "done", "rejected"} \/ (disturbed /\ pc[k] = "failed")

InOrder ==
  \A j \in Job : pc[j] = "merge" => \A t \in pushed[j], s \in todo[j] : t < s

\* A trunk that was fetched is as it was, unless somebody has pushed to it.
FetchedOrTaken ==
  \A j \in Job : pc[j] \in Active => \A s \in Listed(j) :
    (pc[j] = "fetch" /\ s \in todo[j]) \/ seen[j][s] = trunk[s] \/ Taken(s)

RejectedLate ==
  \A j \in Job : pc[j] = "rejected" =>
    \E s \in Sub : Taken(s) /\ \A t \in pushed[j] : t < s

RaceInv == TypeOK /\ PushersGoOn /\ InOrder /\ FetchedOrTaken /\ RejectedLate

LEMMA RaceInit == Init => RaceInv
  BY TypeInit DEF Init, RaceInv, PushersGoOn, InOrder, FetchedOrTaken, RejectedLate

\* Steps that push nothing: only promotion j moves, and goes where the
\* invariant asks nothing of it that it does not bring along.
LEMMA NobodyPushes ==
  ASSUME RaceInv, TypeOK', UNCHANGED <<trunk, pushed>>, disturbed => disturbed',
         NEW j \in Job, NEW p, pc' = [pc EXCEPT ![j] = p],
         \A k \in Job \ {j} : todo'[k] = todo[k],
         \A k \in Job \ {j}, s \in Sub : seen'[k][s] = seen[k][s],
         pushed[j] = {} \/ p \in {"merge", "done", "rejected"} \/ (disturbed' /\ p = "failed"),
         p = "merge" => \A t \in pushed[j], s \in todo'[j] : t < s,
         p \in Active => \A s \in Listed(j) :
           (p = "fetch" /\ s \in todo'[j]) \/ seen'[j][s] = trunk[s] \/ Taken(s),
         p = "rejected" => \E s \in Sub : Taken(s) /\ \A t \in pushed[j] : t < s
  PROVE  RaceInv'
<1>1. pc'[j] = p /\ \A k \in Job \ {j} : pc'[k] = pc[k]
  BY DEF RaceInv, TypeOK
<1>2. \A s : Taken(s)' <=> Taken(s)
  BY DEF Taken
<1>3. PushersGoOn'
  BY <1>1 DEF RaceInv, PushersGoOn
<1>4. InOrder'
  BY <1>1 DEF RaceInv, InOrder
<1>5. FetchedOrTaken'
  <2> SUFFICES ASSUME NEW k \in Job, pc'[k] \in Active, NEW s \in Listed(k)
               PROVE  (pc'[k] = "fetch" /\ s \in todo'[k]) \/ seen'[k][s] = trunk[s] \/ Taken(s)
    BY <1>2 DEF FetchedOrTaken, Listed
  <2>1. s \in Sub
    BY ListedSub
  <2>2. CASE k = j
    BY <2>2, <1>1
  <2>3. CASE k # j
    BY <2>1, <2>3, <1>1 DEF RaceInv, FetchedOrTaken
  <2>4. QED BY <2>2, <2>3
<1>6. RejectedLate'
  BY <1>1, <1>2 DEF RaceInv, RejectedLate
<1>7. QED BY <1>3, <1>4, <1>5, <1>6 DEF RaceInv

\* A push, with force or without: the trunk is taken by it.
LEMMA Pushes ==
  ASSUME RaceInv, TypeOK', NEW j \in Job, NEW s \in Sub,
         pc[j] = "merge", IsNext(j, s), Leave(j, s),
         \A t \in Sub \ {s} : trunk'[t] = trunk[t],
         \A k \in Job, t \in Sub : k # j \/ t # s => seen'[k][t] = seen[k][t],
         pushed' = [pushed EXCEPT ![j] = @ \cup {s}],
         UNCHANGED disturbed
  PROVE  RaceInv'
<1>1. /\ pc'[j] \in {"merge", "done"} /\ \A k \in Job \ {j} : pc'[k] = pc[k]
      /\ todo'[j] = todo[j] \ {s} /\ \A k \in Job \ {j} : todo'[k] = todo[k]
      /\ s \in todo[j] /\ \A t \in todo[j] : s <= t
      /\ pushed'[j] = pushed[j] \cup {s} /\ \A k \in Job \ {j} : pushed'[k] = pushed[k]
  BY DEF RaceInv, TypeOK, Leave, IsNext
<1>2. Taken(s)' /\ \A t : Taken(t) => Taken(t)'
  BY <1>1 DEF Taken
<1>3. PushersGoOn'
  BY <1>1 DEF RaceInv, PushersGoOn
<1>4. InOrder'
  <2> SUFFICES ASSUME NEW k \in Job, pc'[k] = "merge", NEW t \in pushed'[k], NEW u \in todo'[k]
               PROVE  t < u
    BY DEF InOrder
  <2>1. CASE k # j
    BY <2>1, <1>1 DEF RaceInv, InOrder
  <2>2. CASE k = j
    <3>1. u \in todo[j] /\ u # s /\ s <= u /\ todo[j] \subseteq Sub /\ s < u
      BY <2>2, <1>1 DEF RaceInv, TypeOK, Sub
    <3>2. t \in pushed[j] => t < u
      BY <3>1 DEF RaceInv, InOrder
    <3>3. QED BY <2>2, <3>1, <3>2, <1>1
  <2>3. QED BY <2>1, <2>2
<1>5. FetchedOrTaken'
  <2> SUFFICES ASSUME NEW k \in Job, pc'[k] \in Active, NEW t \in Listed(k)
               PROVE  (pc'[k] = "fetch" /\ t \in todo'[k]) \/ seen'[k][t] = trunk'[t] \/ Taken(t)'
    BY DEF FetchedOrTaken, Listed
  <2>1. t \in Sub
    BY ListedSub
  <2>2. CASE t = s
    BY <2>2, <1>2
  <2>3. CASE t # s
    <3>1. pc[k] \in Active /\ (k = j => pc[k] = "merge" /\ pc'[k] # "fetch")
      BY <1>1 DEF Active
    <3>2. (pc[k] = "fetch" /\ t \in todo[k]) \/ seen[k][t] = trunk[t] \/ Taken(t)
      BY <3>1 DEF RaceInv, FetchedOrTaken
    <3>3. seen'[k][t] = seen[k][t] /\ trunk'[t] = trunk[t]
      BY <2>1, <2>3
    <3>4. pc[k] = "fetch" /\ t \in todo[k] => pc'[k] = "fetch" /\ t \in todo'[k]
      BY <3>1, <1>1
    <3>5. QED BY <3>2, <3>3, <3>4, <1>2
  <2>4. QED BY <2>2, <2>3
<1>6. RejectedLate'
  <2> SUFFICES ASSUME NEW k \in Job, pc'[k] = "rejected"
               PROVE  \E t \in Sub : Taken(t)' /\ \A u \in pushed'[k] : u < t
    BY DEF RejectedLate
  <2>1. k # j /\ pc[k] = "rejected" /\ pushed'[k] = pushed[k]
    BY <1>1
  <2>2. QED BY <2>1, <1>2 DEF RaceInv, RejectedLate
<1>7. QED BY <1>3, <1>4, <1>5, <1>6 DEF RaceInv

LEMMA RaceStep == RaceInv /\ [Next]_vars => RaceInv'
<1> SUFFICES ASSUME RaceInv, [Next]_vars PROVE RaceInv'
  OBVIOUS
<1>0. TypeOK /\ TypeOK'
  BY TypeStep DEF RaceInv
<1>1. ASSUME NEW j \in Job, NEW s \in Sub, Fetch(j, s) PROVE RaceInv'
  <2>1. /\ UNCHANGED <<trunk, pushed, disturbed>>
        /\ seen' = [seen EXCEPT ![j][s] = trunk[s]]
        /\ pc[j] = "fetch" /\ s \in todo[j]
    BY <1>1 DEF Fetch, CheckSubExist, IsNext
  <2>2. pushed[j] = {}
    BY <2>1 DEF RaceInv, PushersGoOn
  <2>3. \A t \in Sub : seen'[j][t] = IF t = s THEN trunk[s] ELSE seen[j][t]
    BY <1>0, <2>1 DEF TypeOK
  <2>4. \A k \in Job \ {j}, t \in Sub : seen'[k][t] = seen[k][t]
    BY <1>0, <2>1 DEF TypeOK
  <2>5. \A t \in Listed(j) : t \in todo[j] \/ seen[j][t] = trunk[t] \/ Taken(t)
    BY <2>1 DEF RaceInv, FetchedOrTaken, Active
  <2>6. CASE todo[j] = {s}
    <3>1. /\ \E p \in {"merge", "select"} : pc' = [pc EXCEPT ![j] = p]
          /\ todo' = [todo EXCEPT ![j] = Listed(j)]
      BY <1>1, <2>6 DEF Fetch
    <3>2. \A t \in Listed(j) : seen'[j][t] = trunk[t] \/ Taken(t)
      BY <2>3, <2>5, <2>6, ListedSub
    <3>3. \A k \in Job \ {j} : todo'[k] = todo[k]
      BY <1>0, <3>1 DEF TypeOK
    <3>4. PICK p \in {"merge", "select"} : pc' = [pc EXCEPT ![j] = p]
      BY <3>1
    <3>5. QED BY <1>0, <2>1, <2>2, <2>4, <3>2, <3>3, <3>4, NobodyPushes
  <2>7. CASE todo[j] # {s}
    <3>1. /\ pc' = [pc EXCEPT ![j] = "fetch"]
          /\ todo' = [todo EXCEPT ![j] = @ \ {s}]
      BY <1>0, <1>1, <2>1, <2>7 DEF Fetch, TypeOK
    <3>2. \A t \in Listed(j) : t \in todo'[j] \/ seen'[j][t] = trunk[t] \/ Taken(t)
      BY <1>0, <3>1, <2>3, <2>5, ListedSub DEF TypeOK
    <3>3. \A k \in Job \ {j} : todo'[k] = todo[k]
      BY <1>0, <3>1 DEF TypeOK
    <3>5. QED BY <1>0, <2>1, <2>2, <2>4, <3>1, <3>2, <3>3, NobodyPushes
  <2>8. QED BY <2>6, <2>7
<1>2. ASSUME NEW j \in Job, Queue(j) PROVE RaceInv'
  <2>1. /\ UNCHANGED <<trunk, seen, todo, pushed, disturbed>>
        /\ pc[j] \in {"select", "write", "list", "own"}
        /\ \E p \in {"write", "list", "own", "merge", "refused"} :
             pc' = [pc EXCEPT ![j] = p]
    <3>1. CASE Select(j) \/ Write(j)
      BY <3>1 DEF Select, Write
    <3>2. CASE List(j)
      BY <3>2 DEF List
    <3>3. CASE OwnRow(j)
      BY <3>3 DEF OwnRow
    <3>4. QED BY <1>2, <3>1, <3>2, <3>3 DEF Queue
  <2>2. PICK p \in {"write", "list", "own", "merge", "refused"} :
          pc' = [pc EXCEPT ![j] = p]
    BY <2>1
  <2>3. pushed[j] = {}
    BY <2>1 DEF RaceInv, PushersGoOn
  <2>4. \A s \in Listed(j) : seen[j][s] = trunk[s] \/ Taken(s)
    BY <2>1 DEF RaceInv, FetchedOrTaken, Active
  <2>5. QED BY <1>0, <2>1, <2>2, <2>3, <2>4, NobodyPushes
<1>3. ASSUME NEW j \in Job, NEW s \in Sub, Skip(j, s) PROVE RaceInv'
  <2>1. /\ UNCHANGED <<trunk, seen, pushed, disturbed>>
        /\ pc[j] = "merge"
        /\ todo' = [todo EXCEPT ![j] = @ \ {s}]
        /\ \E p \in {"merge", "done"} : pc' = [pc EXCEPT ![j] = p]
    BY <1>3 DEF Skip, Leave
  <2>2. PICK p \in {"merge", "done"} : pc' = [pc EXCEPT ![j] = p]
    BY <2>1
  <2>3. /\ \A k \in Job \ {j} : todo'[k] = todo[k]
        /\ todo'[j] \subseteq todo[j]
    BY <1>0, <2>1 DEF TypeOK
  <2>4. \A t \in pushed[j], u \in todo'[j] : t < u
    BY <2>1, <2>3 DEF RaceInv, InOrder
  <2>5. \A t \in Listed(j) : seen[j][t] = trunk[t] \/ Taken(t)
    BY <2>1 DEF RaceInv, FetchedOrTaken, Active
  <2>6. QED BY <1>0, <2>1, <2>2, <2>3, <2>4, <2>5, NobodyPushes
<1>4. ASSUME NEW j \in Job, NEW s \in Sub, Push(j, s) \/ ForcePush(j, s) PROVE RaceInv'
  <2>1. /\ pc[j] = "merge" /\ IsNext(j, s) /\ Leave(j, s)
        /\ pushed' = [pushed EXCEPT ![j] = @ \cup {s}]
        /\ UNCHANGED disturbed
    BY <1>4 DEF Push, ForcePush
  <2>2. \E h : trunk' = [trunk EXCEPT ![s] = h] /\ seen' = [seen EXCEPT ![j][s] = h]
    BY <1>4 DEF Push, ForcePush
  <2>3. /\ \A t \in Sub \ {s} : trunk'[t] = trunk[t]
        /\ \A k \in Job, t \in Sub : k # j \/ t # s => seen'[k][t] = seen[k][t]
    BY <1>0, <2>2 DEF TypeOK
  <2>4. QED BY <1>0, <2>1, <2>3, Pushes
<1>5. ASSUME NEW j \in Job, NEW s \in Sub, Rejected(j, s) PROVE RaceInv'
  <2>1. /\ UNCHANGED <<trunk, seen, todo, pushed, disturbed>>
        /\ pc[j] = "merge" /\ s \in todo[j] /\ s \in Listed(j)
        /\ pc' = [pc EXCEPT ![j] = "rejected"]
        /\ ~ (trunk[s] \subseteq Merged(j, s))
    BY <1>0, <1>5 DEF Rejected, IsNext, Accepts, TypeOK
  <2>2. seen[j][s] \subseteq Merged(j, s)
    BY DEF Merged
  <2>3. Taken(s)
    BY <2>1, <2>2 DEF RaceInv, FetchedOrTaken, Active
  <2>4. \A t \in pushed[j] : t < s
    BY <2>1 DEF RaceInv, InOrder
  <2>5. QED BY <1>0, <2>1, <2>3, <2>4, NobodyPushes DEF Active
<1>6. ASSUME NEW j \in Job, Abort(j) PROVE RaceInv'
  BY <1>0, <1>6, NobodyPushes DEF Abort, Active
<1>7. ASSUME NEW j \in Job, SqlError(j) PROVE RaceInv'
  <2>1. /\ UNCHANGED <<trunk, seen, todo, pushed>> /\ disturbed'
        /\ pc[j] \in {"select", "write", "list", "own"}
        /\ \E p \in {"write", "list", "refused"} : pc' = [pc EXCEPT ![j] = p]
    BY <1>7 DEF SqlError
  <2>2. PICK p \in {"write", "list", "refused"} : pc' = [pc EXCEPT ![j] = p]
    BY <2>1
  <2>3. pushed[j] = {}
    BY <2>1 DEF RaceInv, PushersGoOn
  <2>4. \A s \in Listed(j) : seen[j][s] = trunk[s] \/ Taken(s)
    BY <2>1 DEF RaceInv, FetchedOrTaken, Active
  <2>5. QED BY <1>0, <2>1, <2>2, <2>3, <2>4, NobodyPushes
<1>8. ASSUME UNCHANGED <<trunk, pc, todo, seen, pushed>>, disturbed => disturbed'
      PROVE  RaceInv'
  BY <1>0, <1>8 DEF RaceInv, PushersGoOn, InOrder, FetchedOrTaken, RejectedLate, Taken, Listed
<1>9. ASSUME NEW r \in Job, Pop(r) PROVE RaceInv'
  BY <1>8, <1>9 DEF Pop, jobVars
<1>10. CASE UNCHANGED vars
  BY <1>8, <1>10 DEF vars, jobVars
<1>11. QED
  BY <1>1, <1>2, <1>3, <1>4, <1>5, <1>6, <1>7, <1>9, <1>10
  DEF Next, Step, Visit, Terminated

LEMMA Largest ==
  ASSUME NEW S \in SUBSET Sub, S # {}
  PROVE  \E m \in S : \A s \in S : s <= m
<1> DEFINE T == {NSub - s : s \in S}
<1>1. NSub \in Nat /\ \A s \in S : s \in Nat /\ NSub - s \in Nat
  BY ConstantsAssumption DEF Sub
<1>2. T \subseteq Nat /\ T # {}
  BY <1>1
<1>3. PICK x \in T : \A y \in T : ~ (<<y, x>> \in OpToRel(<, Nat))
  <2> HIDE DEF T
  <2>1. QED BY <1>2, NatLessThanWellFounded, WFMin
<1>4. PICK m \in S : x = NSub - m
  OBVIOUS
<1>5. ASSUME NEW s \in S PROVE s <= m
  <2>1. NSub - s \in T /\ NSub - s \in Nat /\ x \in Nat
    BY <1>1, <1>2
  <2>2. ~ (<<NSub - s, x>> \in OpToRel(<, Nat))
    BY <1>3, <2>1
  <2>3. ~ (NSub - s < x)
    BY <2>1, <2>2 DEF OpToRel
  <2>4. QED BY <1>1, <1>4, <2>3
<1>6. QED BY <1>5

LEMMA RaceImplies == RaceInv => OvertakenBySurvivor
<1> SUFFICES ASSUME RaceInv, ~ disturbed, NEW j \in Job, pc[j] = "rejected"
             PROVE  \E k \in Job : pc[k] \in {"merge", "done"}
  BY DEF OvertakenBySurvivor
<1> DEFINE S == {s \in Sub : Taken(s)}
<1>1. S \in SUBSET Sub /\ S # {}
  BY DEF RaceInv, RejectedLate
<1>2. PICK m \in S : \A s \in S : s <= m
  <2> HIDE DEF S
  <2>1. QED BY <1>1, Largest
<1>3. PICK k \in Job : m \in pushed[k]
  BY DEF Taken
<1>4. pc[k] # "rejected"
  <2> SUFFICES ASSUME pc[k] = "rejected" PROVE FALSE
    OBVIOUS
  <2>1. PICK s \in Sub : Taken(s) /\ \A t \in pushed[k] : t < s
    BY DEF RaceInv, RejectedLate
  <2>2. s \in S /\ m < s /\ m \in Sub
    BY <2>1, <1>3
  <2>3. QED BY <2>2, <1>2 DEF Sub
<1>5. QED BY <1>3, <1>4 DEF RaceInv, PushersGoOn

\* A promotion that was overtaken was overtaken by one that still can, or did,
\* finish, whatever the number of promotions and repositories (the property of
\* that name): their race for the trunks cannot fail them all.
THEOREM Race == Spec => []OvertakenBySurvivor
  BY RaceInit, RaceStep, RaceImplies, PTL DEF Spec
=============================================================================
