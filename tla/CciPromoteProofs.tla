-------------------------- MODULE CciPromoteProofs --------------------------
(***************************************************************************)
(* Theorems about CciPromote, for any number of runs, trunks, versions and *)
(* test case changes, and for every failure.                               *)
(***************************************************************************)
EXTENDS CciPromote, FiniteSetTheorems, TLAPS

Line == [trunk : Trunk, ver : 1 .. MaxRev, lists : Seq(Key)]
Entry == [trunk : Trunk, ver : 1 .. MaxRev, deps : SUBSET Key, cases : Seq(Change)]
Place == {"depend", "popall", "delete", "copy", "query", "review", "submit"}
InHand == Place \ {"depend", "popall"}
Exits == {"0", "99", "100", "killed"}

\* The values of the variables.  A run holds rows only after its popall, and
\* while it works on them there is one in hand.
TypeOK ==
  /\ pc \in [Job -> Place]
  /\ status \in [Job -> {"running"} \cup Exits]
  /\ at \in [Job -> Nat]
  /\ \A j \in Job : at[j] \in 1 .. Len(Push[j])
  /\ unread \in [Job -> Seq(Key)]
  /\ deps \in [Job -> SUBSET Key]
  /\ todo \in [Job -> Seq(Entry)]
  /\ asked \in [Job -> Seq(Change)]
  /\ queue \in SUBSET Entry
  /\ IsFiniteSet(queue)
  /\ last \in [Trunk -> 0 .. Newest]
  /\ missing \subseteq Trunk /\ nested \subseteq Trunk
  /\ \A j \in Job :
       /\ pc[j] \in {"depend", "popall"} => todo[j] = <<>>
       /\ pc[j] \in InHand /\ status[j] # "0" => todo[j] # <<>>

-----------------------------------------------------------------------------
(* The operators. *)

LEMMA Lines ==
  ASSUME NEW j \in Job
  PROVE  /\ Push[j] \in Seq(Line) /\ Len(Push[j]) \in Nat /\ 1 <= Len(Push[j])
         /\ \A i \in 1 .. Len(Push[j]) : Push[j][i] \in Line
<1>1. Push[j] \in Seq(Line) /\ Push[j] # <<>>
  BY CciAssumption DEF Line
<1>2. QED BY <1>1

LEMMA Tails ==
  ASSUME NEW S, NEW s \in Seq(S), s # <<>>
  PROVE  /\ Head(s) \in S /\ Tail(s) \in Seq(S)
         /\ Head(s) \in ToSet(s) /\ ToSet(Tail(s)) \subseteq ToSet(s)
         /\ ToSet(s) = {Head(s)} \cup ToSet(Tail(s))
<1>1. Head(s) \in S /\ Tail(s) \in Seq(S) /\ Head(s) = s[1]
  OBVIOUS
<1>2. /\ Len(s) \in Nat /\ 1 <= Len(s) /\ Len(Tail(s)) = Len(s) - 1
      /\ DOMAIN s = 1 .. Len(s) /\ DOMAIN Tail(s) = 1 .. Len(s) - 1
      /\ \A i \in 1 .. Len(s) - 1 : Tail(s)[i] = s[i + 1]
  OBVIOUS
<1>3. ToSet(Tail(s)) \subseteq ToSet(s)
  BY <1>2 DEF ToSet
<1>4. ToSet(s) \subseteq {Head(s)} \cup ToSet(Tail(s))
  <2> SUFFICES ASSUME NEW i \in 1 .. Len(s), i # 1 PROVE s[i] \in ToSet(Tail(s))
    BY <1>1, <1>2 DEF ToSet
  <2>1. i - 1 \in 1 .. Len(s) - 1 /\ s[i] = Tail(s)[i - 1]
    BY <1>2
  <2>2. QED BY <2>1, <1>2 DEF ToSet
<1>5. Head(s) \in ToSet(s)
  BY <1>1, <1>2 DEF ToSet
<1>6. QED BY <1>1, <1>3, <1>4, <1>5

LEMMA Elements == \A S : \A s \in Seq(S) : ToSet(s) \subseteq S
  BY DEF ToSet

\* An enumeration of a finite set is a sequence of exactly its elements.
LEMMA Enumerated ==
  ASSUME NEW S, IsFiniteSet(S), NEW s \in SetToSeqs(S)
  PROVE  s \in Seq(S) /\ ToSet(s) = S /\ (S # {} => s # <<>>)
<1> DEFINE n == Cardinality(S)
<1>1. n \in Nat
  BY FS_CardinalityType
<1>2. s \in [1 .. n -> S] /\ \A i, k \in 1 .. n : i # k => s[i] # s[k]
  BY DEF SetToSeqs
<1> HIDE DEF n
<1>3. s \in Seq(S) /\ Len(s) = n /\ DOMAIN s = 1 .. n
  BY <1>1, <1>2
<1>4. s \in Injection(1 .. n, S)
  BY <1>2 DEF Injection, IsInjective
<1>5. IsFiniteSet(1 .. n) /\ Cardinality(1 .. n) = n
  BY <1>1, FS_Interval
<1>6. s \in Surjection(1 .. n, S)
  BY <1>4, <1>5, FS_Injection DEF n
<1>7. ToSet(s) = S
  BY <1>3, <1>6 DEF ToSet, Surjection
<1>8. S # {} => s # <<>>
  BY <1>7, <1>3 DEF ToSet
<1>9. QED BY <1>3, <1>7, <1>8

LEMMA ReadyInQueue == Ready \subseteq queue
  BY DEF Ready

\* Rows that leave the queue together have been popped with all they depend on.
LEMMA ReadyTogether ==
  \A r \in Ready : r.deps \subseteq popped \cup Keys(Ready)
<1> SUFFICES ASSUME NEW R \in SUBSET queue, Together(R), NEW r \in R
             PROVE  r.deps \subseteq popped \cup Keys(Ready)
  BY DEF Ready
<1>1. r.deps \subseteq popped \cup Keys(R)
  BY DEF Together
<1>2. R \subseteq Ready
  BY DEF Ready
<1>3. Keys(R) \subseteq Keys(Ready)
  BY <1>2 DEF Keys
<1>4. QED BY <1>1, <1>3

-----------------------------------------------------------------------------
(* Types, and what a step may do to the variables that others read. *)

LEMMA TypeInit == Init => TypeOK
<1> SUFFICES ASSUME Init PROVE TypeOK
  OBVIOUS
<1>1. \A j \in Job : Push[j][1].lists \in Seq(Key) /\ 1 \in 1 .. Len(Push[j])
  BY Lines DEF Line
<1>2. last \in [Trunk -> 0 .. Newest]
  BY CciAssumption DEF Init, Newest
<1>3. IsFiniteSet(queue)
  BY FS_EmptySet DEF Init
<1>4. QED BY <1>1, <1>2, <1>3 DEF Init, TypeOK, Place, InHand

\* Run j alone moves.
Moves(j) ==
  /\ \A k \in Job \ {j} : /\ pc'[k] = pc[k] /\ status'[k] = status[k]
                          /\ todo'[k] = todo[k] /\ asked'[k] = asked[k]
                          /\ at'[k] = at[k] /\ unread'[k] = unread[k] /\ deps'[k] = deps[k]
  /\ status[j] = "running"

\* A step of run j that leaves its place in the script, or goes elsewhere.
LEMMA Going ==
  ASSUME TypeOK, NEW j \in Job, NEW p \in Place, GoTo(j, p)
  PROVE  /\ pc' \in [Job -> Place] /\ status' \in [Job -> {"running"} \cup Exits]
         /\ pc'[j] = p /\ status' = status
         /\ \A k \in Job \ {j} : pc'[k] = pc[k]
  BY DEF GoTo, TypeOK

LEMMA Exiting ==
  ASSUME TypeOK, NEW j \in Job, NEW c \in Exits, Exit(j, c)
  PROVE  /\ pc' \in [Job -> Place] /\ status' \in [Job -> {"running"} \cup Exits]
         /\ pc' = pc /\ status'[j] = c
         /\ \A k \in Job \ {j} : status'[k] = status[k]
  BY DEF Exit, TypeOK

\* The queue gets one row, of the key pushed.
LEMMA Inserts ==
  ASSUME TypeOK, NEW j \in Job, Insert(j)
  PROVE  \E r \in Entry :
           /\ KeyOf(r) = KeyOf(Push[j][at[j]]) /\ r.deps = deps[j]
           /\ r \in queue' /\ queue' \subseteq queue \cup {r}
           /\ \A q \in queue : q \in queue' \/ KeyOf(q) = KeyOf(r)
           /\ pushed' = pushed \cup {KeyOf(r)}
           /\ queue' \in SUBSET Entry /\ IsFiniteSet(queue')
<1> DEFINE l == Push[j][at[j]]
           r == [trunk |-> l.trunk, ver |-> l.ver, deps |-> deps[j], cases |-> Cases[j]]
<1>1. l \in Line
  BY Lines DEF TypeOK
<1>2. r \in Entry
  BY <1>1, CciAssumption DEF Entry, Line, TypeOK
<1>3. KeyOf(r) = KeyOf(l)
  BY DEF KeyOf
<1>4. /\ queue' = {q \in queue : KeyOf(q) # KeyOf(l)} \cup {r}
      /\ pushed' = pushed \cup {KeyOf(l)}
  BY DEF Insert, KeyOf
<1>5. IsFiniteSet({q \in queue : KeyOf(q) # KeyOf(l)})
  BY FS_Subset DEF TypeOK
<1>6. IsFiniteSet(queue')
  BY <1>4, <1>5, FS_AddElement
<1>7. r.deps = deps[j]
  OBVIOUS
<1> HIDE DEF r, l
<1>8. QED BY <1>2, <1>3, <1>4, <1>6, <1>7 DEF l, TypeOK

LEMMA Takes ==
  ASSUME TypeOK, Take
  PROVE  queue' \in SUBSET Entry /\ IsFiniteSet(queue') /\ Ready \in SUBSET Entry /\ IsFiniteSet(Ready)
<1>1. queue' \in SUBSET queue /\ Ready \in SUBSET queue
  BY ReadyInQueue DEF Take
<1>2. QED BY <1>1, FS_Subset DEF TypeOK

LEMMA RowType ==
  ASSUME TypeOK, NEW j \in Job, pc[j] \in InHand, Live(j)
  PROVE  /\ todo[j] \in Seq(Entry) /\ todo[j] # <<>>
         /\ Row(j) \in Entry /\ Row(j).trunk \in Trunk /\ Row(j) \in ToSet(todo[j])
<1>1. todo[j] \in Seq(Entry) /\ todo[j] # <<>>
  BY DEF TypeOK, Live
<1>2. Row(j) \in Entry /\ Row(j) \in ToSet(todo[j])
  BY <1>1, Tails DEF Row
<1>3. Row(j).trunk \in Trunk
  BY <1>2 DEF Entry
<1>4. QED BY <1>1, <1>2, <1>3

LEMMA StepTypes ==
  ASSUME TypeOK, NEW j \in Job, Run(j) \/ Kill(j)
  PROVE  TypeOK' /\ Moves(j)
<1> USE DEF Moves, Live, At
<1>1. ASSUME Depend(j) PROVE TypeOK' /\ Moves(j)
  <2>1. unread[j] \in Seq(Key) /\ unread[j] # <<>>
    BY <1>1 DEF Depend, TypeOK
  <2>2. Head(unread[j]) \in Key /\ Tail(unread[j]) \in Seq(Key)
    BY <2>1
  <2>3. unread' = [unread EXCEPT ![j] = Tail(@)]
    BY <1>1 DEF Depend
  <2>4. deps' \in [Job -> SUBSET Key] /\ \A k \in Job \ {j} : deps'[k] = deps[k]
    <3>1. deps' = deps \/ deps' = [deps EXCEPT ![j] = @ \cup {Head(unread[j])}]
      <4>1. \/ deps' = [deps EXCEPT ![j] = IF NewerThanTrunk(Head(unread[j]))
                                        THEN @ \cup {Head(unread[j])} ELSE @]
            \/ deps' = deps
        BY <1>1 DEF Depend
      <4>2. deps = [deps EXCEPT ![j] = @]
        BY DEF TypeOK
      <4>3. QED BY <4>1, <4>2
    <3>2. QED BY <3>1, <2>2 DEF TypeOK
  <2>5. unread' \in [Job -> Seq(Key)] /\ \A k \in Job \ {j} : unread'[k] = unread[k]
    BY <2>2, <2>3 DEF TypeOK
  <2>6. /\ UNCHANGED <<pc, status, at, todo, asked, queue, last, missing, nested>>
        /\ status[j] = "running"
    BY <1>1 DEF Depend, rows, svn, table
  <2>7. QED BY <2>4, <2>5, <2>6 DEF TypeOK
<1>2. ASSUME PushRow(j) PROVE TypeOK' /\ Moves(j)
  <2>1. queue' \in SUBSET Entry /\ IsFiniteSet(queue')
    BY <1>2, Inserts DEF PushRow
  <2>2. /\ UNCHANGED <<deps, todo, asked, last, missing, nested>>
        /\ status[j] = "running" /\ pc[j] = "depend"
    BY <1>2 DEF PushRow, rows, svn
  <2>3. CASE at[j] < Len(Push[j])
    <3>1. /\ at' = [at EXCEPT ![j] = @ + 1]
          /\ unread' = [unread EXCEPT ![j] = Push[j][at[j] + 1].lists]
          /\ UNCHANGED <<pc, status>>
      BY <1>2, <2>3 DEF PushRow
    <3>2. at[j] + 1 \in 1 .. Len(Push[j]) /\ at[j] + 1 \in Nat
      BY <2>3, Lines DEF TypeOK
    <3>3. Push[j][at[j] + 1].lists \in Seq(Key)
      BY <3>2, Lines DEF Line
    <3>4. /\ at' \in [Job -> Nat] /\ unread' \in [Job -> Seq(Key)]
          /\ \A k \in Job \ {j} : at'[k] = at[k] /\ unread'[k] = unread[k]
          /\ \A k \in Job : at'[k] \in 1 .. Len(Push[k])
      BY <3>1, <3>2, <3>3 DEF TypeOK
    <3>5. QED BY <2>1, <2>2, <3>1, <3>4 DEF TypeOK
  <2>4. CASE ~ (at[j] < Len(Push[j]))
    <3>1. GoTo(j, "popall") /\ UNCHANGED <<at, unread>>
      BY <1>2, <2>4 DEF PushRow
    <3>2. QED BY <2>1, <2>2, <3>1, Going DEF TypeOK, Place, InHand
  <2>5. QED BY <2>3, <2>4
<1>3. ASSUME PushFails(j) PROVE TypeOK' /\ Moves(j)
  <2>1. queue' \in SUBSET Entry /\ IsFiniteSet(queue')
    BY <1>3, Inserts DEF PushFails, TypeOK
  <2>2. /\ UNCHANGED <<at, unread, deps, todo, asked, last, missing, nested>>
        /\ status[j] = "running" /\ pc[j] = "depend" /\ Exit(j, "0")
    BY <1>3 DEF PushFails, script, rows, svn
  <2>3. QED BY <2>1, <2>2, Exiting DEF TypeOK, Exits, Place, InHand
<1>4. ASSUME PopAll(j) PROVE TypeOK' /\ Moves(j)
  <2>1. /\ queue' \in SUBSET Entry /\ IsFiniteSet(queue')
        /\ Ready \in SUBSET Entry /\ IsFiniteSet(Ready)
    BY <1>4, Takes DEF PopAll
  <2>2. /\ UNCHANGED <<at, unread, deps, asked, last, missing, nested>>
        /\ status[j] = "running" /\ pc[j] = "popall"
        /\ IF Ready = {} THEN Exit(j, "0") ELSE GoTo(j, "delete")
    BY <1>4 DEF PopAll, script, svn
  <2>3. PICK s \in SetToSeqs(Ready) : todo' = [todo EXCEPT ![j] = s]
    BY <1>4 DEF PopAll
  <2>4. s \in Seq(Ready) /\ ToSet(s) = Ready /\ (Ready # {} => s # <<>>)
    BY <2>1, Enumerated
  <2>5. s \in Seq(Entry) /\ (Ready = {} => s = <<>>)
    BY <2>1, <2>4
  <2>6. /\ todo' \in [Job -> Seq(Entry)] /\ todo'[j] = s
        /\ \A k \in Job \ {j} : todo'[k] = todo[k]
    BY <2>3, <2>5 DEF TypeOK
  <2>7. CASE Ready = {}
    BY <2>1, <2>2, <2>5, <2>6, <2>7, Exiting DEF TypeOK, Exits, Place, InHand
  <2>8. CASE Ready # {}
    BY <2>1, <2>2, <2>4, <2>6, <2>8, Going DEF TypeOK, Place, InHand
  <2>9. QED BY <2>7, <2>8
<1>5. ASSUME PopAllFails(j) PROVE TypeOK' /\ Moves(j)
  <2>1. queue' \in SUBSET Entry /\ IsFiniteSet(queue')
    BY <1>5, Takes DEF PopAllFails, TypeOK
  <2>2. /\ UNCHANGED <<at, unread, deps, todo, asked, last, missing, nested>>
        /\ status[j] = "running" /\ pc[j] = "popall" /\ Exit(j, "0")
    BY <1>5 DEF PopAllFails, script, rows, svn
  <2>3. QED BY <2>1, <2>2, Exiting DEF TypeOK, Exits, Place, InHand
<1>6. ASSUME Delete(j) PROVE TypeOK' /\ Moves(j)
  <2>1. Row(j).trunk \in Trunk
    BY <1>6, RowType DEF Delete, Place, InHand
  <2>2. missing' \subseteq Trunk /\ nested' \subseteq Trunk
    BY <1>6, <2>1 DEF Delete, TypeOK
  <2>3. /\ UNCHANGED <<at, unread, deps, todo, asked, queue, last>>
        /\ status[j] = "running" /\ pc[j] = "delete" /\ GoTo(j, "copy")
    BY <1>6 DEF Delete, script, rows, table
  <2>4. QED BY <2>2, <2>3, Going DEF TypeOK, Place, InHand
<1>7. ASSUME Copy(j) PROVE TypeOK' /\ Moves(j)
  <2>1. /\ status[j] = "running" /\ pc[j] = "copy" /\ GoTo(j, "query")
        /\ UNCHANGED <<at, unread, deps, todo, queue>>
        /\ asked' = [asked EXCEPT ![j] = Row(j).cases]
    BY <1>7 DEF Copy, script, table
  <2>2. Row(j).trunk \in Trunk /\ Row(j).cases \in Seq(Change)
    BY <2>1, RowType DEF Entry, Place, InHand
  <2>3. missing' \subseteq Trunk /\ nested' \subseteq Trunk
    BY <1>7, <2>2 DEF Copy, TypeOK
  <2>4. last' = last \/ last' = [last EXCEPT ![Row(j).trunk] = Newest]
    BY <1>7 DEF Copy, Committed
  <2>5. Newest \in 0 .. Newest
    BY CciAssumption DEF Newest
  <2>6. last' \in [Trunk -> 0 .. Newest]
    BY <2>2, <2>4, <2>5 DEF TypeOK
  <2>7. asked' \in [Job -> Seq(Change)] /\ \A k \in Job \ {j} : asked'[k] = asked[k]
    BY <2>1, <2>2 DEF TypeOK
  <2>8. QED BY <2>1, <2>3, <2>6, <2>7, Going DEF TypeOK, Place, InHand
<1>8. ASSUME NextRow(j) PROVE TypeOK' /\ Moves(j)
  <2>1. /\ status[j] = "running" /\ pc[j] = "query"
        /\ todo' = [todo EXCEPT ![j] = Tail(@)]
        /\ IF Tail(todo[j]) = <<>> THEN Exit(j, "0") ELSE GoTo(j, "delete")
        /\ UNCHANGED <<at, unread, deps, asked, queue, last, missing, nested>>
    BY <1>8 DEF NextRow, script, svn, table
  <2>2. Tail(todo[j]) \in Seq(Entry)
    BY <2>1, RowType DEF Place, InHand
  <2>3. /\ todo' \in [Job -> Seq(Entry)] /\ todo'[j] = Tail(todo[j])
        /\ \A k \in Job \ {j} : todo'[k] = todo[k]
    BY <2>1, <2>2 DEF TypeOK
  <2>4. CASE Tail(todo[j]) = <<>>
    BY <2>1, <2>3, <2>4, Exiting DEF TypeOK, Exits, Place, InHand
  <2>5. CASE Tail(todo[j]) # <<>>
    BY <2>1, <2>3, <2>5, Going DEF TypeOK, Place, InHand
  <2>6. QED BY <2>4, <2>5
<1>9. ASSUME Unmergeable(j) PROVE TypeOK' /\ Moves(j)
  <2>1. /\ status[j] = "running" /\ asked[j] # <<>>
        /\ asked' = [asked EXCEPT ![j] = Tail(@)]
        /\ UNCHANGED <<pc, status, at, unread, deps, todo, queue, last, missing, nested>>
    BY <1>9 DEF Unmergeable, script, svn, table
  <2>2. asked[j] \in Seq(Change) /\ Tail(asked[j]) \in Seq(Change)
    BY <2>1 DEF TypeOK
  <2>3. asked' \in [Job -> Seq(Change)] /\ \A k \in Job \ {j} : asked'[k] = asked[k]
    BY <2>1, <2>2 DEF TypeOK
  <2>4. QED BY <2>1, <2>3 DEF TypeOK
<1>10. ASSUME Mergeable(j) \/ Review(j) PROVE TypeOK' /\ Moves(j)
  <2>1. /\ status[j] = "running" /\ pc[j] \in {"query", "review"}
        /\ \E p \in {"review", "submit"} : GoTo(j, p)
        /\ UNCHANGED <<at, unread, deps, todo, asked, queue, last, missing, nested>>
    BY <1>10 DEF Mergeable, Review, script, rows, svn, table
  <2>2. QED BY <2>1, Going DEF TypeOK, Place, InHand
<1>11. ASSUME ReviewFails(j) \/ Submit(j) \/ Kill(j) PROVE TypeOK' /\ Moves(j)
  <2>1. /\ status[j] = "running"
        /\ \E c \in {"99", "100", "killed"} : Exit(j, c)
        /\ UNCHANGED <<at, unread, deps, todo, asked, queue, last, missing, nested>>
    BY <1>11 DEF ReviewFails, Submit, Kill, script, rows, svn, table
  <2>2. QED BY <2>1, Exiting DEF TypeOK, Exits, Place, InHand
<1>12. QED
  BY <1>1, <1>2, <1>3, <1>4, <1>5, <1>6, <1>7, <1>8, <1>9, <1>10, <1>11 DEF Run

LEMMA TypeStep == TypeOK /\ [Next]_vars => TypeOK'
<1> SUFFICES ASSUME TypeOK, [Next]_vars PROVE TypeOK'
  OBVIOUS
<1>1. CASE \E j \in Job : Run(j) \/ Kill(j)
  BY <1>1, StepTypes
<1>2. CASE UNCHANGED vars
  BY <1>2 DEF TypeOK, vars, script, rows, svn, table
<1>3. QED BY <1>1, <1>2 DEF Next, Ended

\* Every state has its type; a run that works on rows has one in hand.
THEOREM TypeCorrect == Spec => []TypeOK
  BY TypeInit, TypeStep, PTL DEF Spec

\* What was pushed, popped, copied or lost, and what could not be seen or failed,
\* stays on record, and no trunk goes back to an earlier revision.
Grows ==
  /\ pushed \subseteq pushed' /\ popped \subseteq popped' /\ copied \subseteq copied'
  /\ misplaced \subseteq misplaced' /\ vanished \subseteq vanished'
  /\ unseen \subseteq unseen' /\ hurt \subseteq hurt' /\ contested \subseteq contested'
  /\ \A t \in Trunk : last[t] <= last'[t]

LEMMA StepGrows ==
  ASSUME TypeOK, NEW j \in Job, Run(j) \/ Kill(j)
  PROVE  Grows
<1>0. Newest \in Nat /\ \A t \in Trunk : last[t] \in 0 .. Newest
  BY CciAssumption DEF Newest, TypeOK
<1>1. CASE Depend(j)
  BY <1>0, <1>1 DEF Depend, Grows, svn, table
<1>2. CASE PushRow(j) \/ PushFails(j)
  BY <1>0, <1>2 DEF PushRow, PushFails, Insert, Grows, svn
<1>3. CASE PopAll(j) \/ PopAllFails(j)
  BY <1>0, <1>3 DEF PopAll, PopAllFails, Take, Grows, svn
<1>4. CASE Delete(j)
  BY <1>0, <1>4 DEF Delete, Grows, table
<1>5. CASE Copy(j)
  <2>1. last' = last \/ last' = [last EXCEPT ![Row(j).trunk] = Newest]
    BY <1>5 DEF Copy, Committed
  <2>2. ASSUME NEW t \in Trunk PROVE last[t] <= last'[t]
    <3>1. last[t] \in Nat /\ last[t] <= Newest
      BY <1>0
    <3>2. last \in [Trunk -> 0 .. Newest]
      BY DEF TypeOK
    <3>3. last'[t] = last[t] \/ last'[t] = Newest
      BY <2>1, <3>2
    <3>4. QED BY <3>1, <3>3, <1>0
  <2>3. /\ copied \subseteq copied' /\ misplaced \subseteq misplaced' /\ hurt \subseteq hurt'
        /\ UNCHANGED <<pushed, popped, vanished, unseen, contested>>
    BY <1>5 DEF Copy, table
  <2>4. QED BY <2>2, <2>3 DEF Grows
<1>6. CASE \/ NextRow(j) \/ Unmergeable(j) \/ Mergeable(j) \/ Review(j)
           \/ ReviewFails(j) \/ Submit(j) \/ Kill(j)
  <2>1. UNCHANGED <<svn, table, unseen>>
    BY <1>6 DEF NextRow, Unmergeable, Mergeable, Review, ReviewFails, Submit, Kill
  <2>2. QED BY <1>0, <2>1 DEF Grows, svn, table
<1>7. QED
  BY <1>1, <1>2, <1>3, <1>4, <1>5, <1>6 DEF Run

-----------------------------------------------------------------------------
(* No row is forgotten.  A run goes on to the next row, or ends with 0, only *)
(* when the row in hand was copied, misplaced or met a failure of svn, which *)
(* stays on record; and the rows of a run that ends in any other way count   *)
(* as its.                                                                   *)

Dealt(k) == k \in copied \cup misplaced \/ k.trunk \in hurt
Accounted(k) ==
  \/ k \in Keys(queue) \cup vanished \/ Dealt(k)
  \/ \E j \in Job : status[j] # "0" /\ k \in Held(j)

Past == {"query", "review", "submit"}
RowDealt ==
  \A j \in Job : status[j] # "0" /\ pc[j] \in Past => Dealt(KeyOf(Row(j)))

AccountInv == TypeOK /\ RowDealt /\ \A k \in pushed : Accounted(k)

LEMMA AccountInit == Init => AccountInv
  BY TypeInit DEF Init, AccountInv, RowDealt, Past

LEMMA DealtStays == Grows => \A k : Dealt(k) => Dealt(k)'
  BY DEF Grows, Dealt

\* Steps that leave the queue, and what everybody holds, alone.
LEMMA HoldersStay ==
  ASSUME AccountInv, TypeOK', Grows, UNCHANGED <<todo, queue, pushed>>,
         \A k \in Job : status'[k] = "0" => status[k] = "0",
         \A k \in Job : status'[k] # "0" /\ pc'[k] \in Past =>
           (status[k] # "0" /\ pc[k] \in Past) \/ Dealt(KeyOf(Row(k)))'
  PROVE  AccountInv'
<1>1. \A k \in Job : Held(k)' = Held(k) /\ KeyOf(Row(k))' = KeyOf(Row(k))
  BY DEF Held, Keys, KeyOf, Row
<1>2. Keys(queue)' = Keys(queue)
  BY DEF Keys, KeyOf
<1>3. RowDealt'
  BY <1>1, DealtStays DEF AccountInv, RowDealt
<1>4. \A k \in pushed' : Accounted(k)'
  <2> SUFFICES ASSUME NEW k \in pushed PROVE Accounted(k)'
    OBVIOUS
  <2>1. vanished \subseteq vanished'
    BY DEF Grows
  <2>2. QED BY <1>1, <1>2, <2>1, DealtStays DEF AccountInv, Accounted
<1>5. QED BY <1>3, <1>4 DEF AccountInv

\* Run j, which holds nothing, changes the queue; it may take what goes out.
LEMMA QueueMoves ==
  ASSUME AccountInv, TypeOK', Grows, NEW j \in Job, Moves(j), todo[j] = <<>>,
         pc[j] \notin Past, pc'[j] \notin Past,
         \A k \in pushed' : k \in pushed \/ k \in Keys(queue'),
         \A k \in Keys(queue) :
           k \in Keys(queue') \cup vanished' \/ (status'[j] # "0" /\ k \in Held(j)')
  PROVE  AccountInv'
<1>1. \A k \in Job \ {j} : Held(k)' = Held(k) /\ KeyOf(Row(k))' = KeyOf(Row(k))
  BY DEF Held, Keys, KeyOf, Row, Moves
<1>2. RowDealt'
  BY <1>1, DealtStays DEF AccountInv, RowDealt, Moves
<1>3. Held(j) = {}
  BY DEF Held, Keys, ToSet
<1>4. ASSUME NEW k \in pushed' PROVE Accounted(k)'
  <2>1. CASE k \in Keys(queue')
    BY <2>1 DEF Accounted, Keys, KeyOf
  <2>2. CASE k \in pushed
    <3>1. Accounted(k)
      BY <2>2 DEF AccountInv
    <3>2. CASE k \in Keys(queue)
      BY <3>2 DEF Accounted, Keys, KeyOf
    <3>3. CASE k \in vanished \/ Dealt(k)
      BY <3>3, DealtStays DEF Accounted, Grows
    <3>4. CASE \E i \in Job : status[i] # "0" /\ k \in Held(i)
      BY <3>4, <1>1, <1>3 DEF Accounted, Moves
    <3>5. QED BY <3>1, <3>2, <3>3, <3>4 DEF Accounted
  <2>3. QED BY <2>1, <2>2, <1>4
<1>5. QED BY <1>2, <1>4 DEF AccountInv

LEMMA AccountStep == AccountInv /\ [Next]_vars => AccountInv'
<1> SUFFICES ASSUME AccountInv, [Next]_vars PROVE AccountInv'
  OBVIOUS
<1>0. TypeOK
  BY DEF AccountInv
<1>1. ASSUME NEW j \in Job, Run(j) \/ Kill(j) PROVE AccountInv'
  <2>0. TypeOK' /\ Moves(j) /\ Grows
    BY <1>0, <1>1, StepTypes, StepGrows
  <2>1. CASE PushRow(j) \/ PushFails(j)
    <3>1. /\ pc[j] = "depend" /\ todo[j] = <<>> /\ UNCHANGED todo
          /\ pc'[j] \in {"depend", "popall"}
      <4>1. /\ pc[j] = "depend" /\ UNCHANGED todo
            /\ pc' = pc \/ pc' = [pc EXCEPT ![j] = "popall"]
        BY <2>1 DEF PushRow, PushFails, At, Exit, GoTo, rows
      <4>2. QED BY <1>0, <4>1 DEF TypeOK
    <3>2. CASE Insert(j)
      <4>1. PICK r \in Entry : /\ r \in queue' /\ pushed' = pushed \cup {KeyOf(r)}
                               /\ \A q \in queue : q \in queue' \/ KeyOf(q) = KeyOf(r)
        BY <1>0, <3>2, Inserts
      <4>2. Keys(queue) \subseteq Keys(queue') /\ KeyOf(r) \in Keys(queue')
        BY <4>1 DEF Keys
      <4>3. \A k \in pushed' : k \in pushed \/ k \in Keys(queue')
        BY <4>1, <4>2
      <4>4. QED BY <2>0, <3>1, <4>2, <4>3, QueueMoves DEF Past
    <3>3. CASE ~ Insert(j)
      <4>1. UNCHANGED <<queue, pushed>>
        BY <2>1, <3>3 DEF PushRow, PushFails
      <4>2. QED BY <2>0, <3>1, <4>1, QueueMoves DEF Past
    <3>4. QED BY <3>2, <3>3
  <2>2. CASE PopAll(j)
    <3>1. /\ pc[j] = "popall" /\ todo[j] = <<>>
          /\ Take
          /\ IF Ready = {} THEN Exit(j, "0") ELSE GoTo(j, "delete")
      BY <1>0, <2>2 DEF PopAll, At, TypeOK
    <3>2. IsFiniteSet(Ready)
      BY <1>0, <3>1, Takes
    <3>3. PICK s \in SetToSeqs(Ready) : todo' = [todo EXCEPT ![j] = s]
      BY <2>2 DEF PopAll
    <3>4. todo'[j] = s /\ ToSet(s) = Ready
      BY <1>0, <3>2, <3>3, Enumerated DEF TypeOK
    <3>5. Held(j)' = Keys(Ready)
      BY <3>4 DEF Held, Keys, KeyOf
    <3>6. Keys(queue) \subseteq Keys(queue') \cup Keys(Ready) /\ pushed' = pushed
      BY <3>1 DEF Take, Keys
    <3>7. Ready = {} => Keys(Ready) = {}
      BY DEF Keys
    <3>8. Ready # {} => pc'[j] = "delete" /\ status'[j] # "0"
      BY <1>0, <3>1, <2>0, Going DEF Moves, Place
    <3>9. Ready = {} => pc'[j] = "popall"
      BY <1>0, <3>1 DEF Exit
    <3>10. QED BY <2>0, <3>1, <3>5, <3>6, <3>7, <3>8, <3>9, QueueMoves DEF Past
  <2>3. CASE PopAllFails(j)
    <3>1. pc[j] = "popall" /\ todo[j] = <<>> /\ pc' = pc
      BY <1>0, <2>3 DEF PopAllFails, At, Exit, TypeOK
    <3>2. \/ Take /\ vanished' = vanished \cup Keys(Ready)
          \/ UNCHANGED <<queue, pushed, popped, vanished>>
      BY <2>3 DEF PopAllFails
    <3>3. pushed' = pushed /\ Keys(queue) \subseteq Keys(queue') \cup vanished'
      BY <3>2 DEF Take, Keys
    <3>4. QED BY <2>0, <3>1, <3>3, QueueMoves DEF Past
  <2>4. CASE Copy(j)
    <3>1. /\ UNCHANGED <<todo, queue, pushed, status>>
          /\ KeyOf(Row(j)) \in copied' \cup misplaced' \/ Row(j).trunk \in hurt'
      BY <2>4 DEF Copy, GoTo, table
    <3>2. Row(j)' = Row(j) /\ KeyOf(Row(j))' = KeyOf(Row(j)) /\ KeyOf(Row(j)).trunk = Row(j).trunk
      BY <3>1 DEF Row, KeyOf
    <3>3. Dealt(KeyOf(Row(j)))'
      BY <3>1, <3>2 DEF Dealt
    <3>4. QED BY <2>0, <3>1, <3>3, HoldersStay DEF Moves
  <2>5. CASE NextRow(j)
    <3>1. /\ pc[j] = "query" /\ status[j] = "running"
          /\ todo' = [todo EXCEPT ![j] = Tail(@)]
          /\ IF Tail(todo[j]) = <<>> THEN Exit(j, "0") ELSE GoTo(j, "delete")
          /\ UNCHANGED <<queue, pushed, vanished>>
      BY <2>5 DEF NextRow, At, Live, table
    <3>2. todo[j] \in Seq(Entry) /\ todo[j] # <<>> /\ todo'[j] = Tail(todo[j])
      BY <1>0, <3>1, RowType DEF Live, Place, InHand, TypeOK
    <3>3. ToSet(todo[j]) = {Row(j)} \cup ToSet(todo'[j])
      BY <3>2, Tails DEF Row
    <3>4. Held(j) = {KeyOf(Row(j))} \cup Held(j)'
      BY <3>3 DEF Held, Keys, KeyOf
    <3>5. Dealt(KeyOf(Row(j)))
      BY <3>1 DEF AccountInv, RowDealt, Past
    <3>6. \A k \in Job \ {j} : Held(k)' = Held(k) /\ KeyOf(Row(k))' = KeyOf(Row(k))
      BY <2>0 DEF Held, Keys, KeyOf, Row, Moves
    <3>7. \/ status'[j] = "0" /\ Held(j)' = {}
          \/ status'[j] = "running" /\ pc'[j] = "delete"
      <4>1. CASE Tail(todo[j]) = <<>>
        <5>1. status'[j] = "0"
          BY <1>0, <3>1, <4>1, Exiting DEF Exits
        <5>2. QED BY <3>2, <4>1, <5>1 DEF Held, Keys, ToSet
      <4>2. CASE Tail(todo[j]) # <<>>
        BY <1>0, <3>1, <4>2, Going DEF Place
      <4>3. QED BY <4>1, <4>2
    <3>8. RowDealt'
      BY <2>0, <3>6, <3>7, DealtStays DEF AccountInv, RowDealt, Moves, Past
    <3>9. ASSUME NEW k \in pushed' PROVE Accounted(k)'
      <4>1. Accounted(k)
        BY <3>1 DEF AccountInv
      <4>2. CASE k \in Keys(queue) \cup vanished \/ Dealt(k)
        BY <2>0, <3>1, <4>2, DealtStays DEF Accounted, Keys, KeyOf
      <4>3. CASE \E i \in Job : status[i] # "0" /\ k \in Held(i)
        <5>1. PICK i \in Job : status[i] # "0" /\ k \in Held(i)
          BY <4>3
        <5>2. CASE i # j
          BY <2>0, <3>6, <5>1, <5>2 DEF Accounted, Moves
        <5>3. CASE i = j /\ k = KeyOf(Row(j))
          BY <2>0, <3>5, <5>3, DealtStays DEF Accounted
        <5>4. CASE i = j /\ k \in Held(j)'
          BY <3>7, <5>4 DEF Accounted
        <5>5. QED BY <5>1, <5>2, <5>3, <5>4, <3>4
      <4>4. QED BY <4>1, <4>2, <4>3 DEF Accounted
    <3>10. QED BY <2>0, <3>8, <3>9 DEF AccountInv
  <2>6. CASE Depend(j) \/ Delete(j) \/ Unmergeable(j) \/ Mergeable(j) \/ Review(j)
    <3>1. /\ UNCHANGED <<todo, queue, pushed, status>>
          /\ pc' = pc \/ pc' = [pc EXCEPT ![j] = "copy"] \/ pc[j] \in Past
          /\ status[j] # "0"
      BY <2>6 DEF Depend, Delete, Unmergeable, Mergeable, Review, At, Live, GoTo, rows, table, Past
    <3>2. \A k \in Job : pc'[k] \in Past => pc[k] \in Past
      BY <1>0, <2>0, <3>1 DEF Past, Moves, TypeOK
    <3>3. QED BY <2>0, <3>1, <3>2, HoldersStay
  <2>7. CASE ReviewFails(j) \/ Submit(j) \/ Kill(j)
    <3>1. /\ UNCHANGED <<todo, queue, pushed, pc>>
          /\ \E c \in {"99", "100", "killed"} : status' = [status EXCEPT ![j] = c]
      BY <2>7 DEF ReviewFails, Submit, Kill, Exit, rows, table
    <3>2. \A k \in Job : status'[k] = "0" <=> status[k] = "0"
      BY <1>0, <2>0, <3>1 DEF Moves, TypeOK
    <3>3. QED BY <2>0, <3>1, <3>2, HoldersStay
  <2>8. QED BY <1>1, <2>1, <2>2, <2>3, <2>4, <2>5, <2>6, <2>7 DEF Run
<1>2. CASE UNCHANGED vars
  <2>1. TypeOK' /\ UNCHANGED <<todo, queue, pushed, status, pc>> /\ Grows
    <3>1. \A t \in Trunk : last[t] <= last[t]
      BY <1>0 DEF TypeOK
    <3>2. QED BY <1>0, <1>2, <3>1, TypeStep DEF vars, script, rows, svn, table, Grows
  <2>2. QED BY <1>0, <2>1, HoldersStay
<1>3. QED BY <1>1, <1>2 DEF Next, Ended

\* A row that was pushed waits in the queue, is on a trunk or in one, met a
\* failure, or is held by a run that works or was stopped: an exit with 0 loses
\* none that the queue handed out (RowsAccounted).
THEOREM NoRowForgotten == Spec => []RowsAccounted
<1>1. AccountInv => RowsAccounted
  BY DEF AccountInv, RowsAccounted, Accounted, Dealt
<1>2. QED BY <1>1, AccountInit, AccountStep, PTL DEF Spec

-----------------------------------------------------------------------------
(* A deleted trunk comes back.  Between svn del and svn cp of a run, its      *)
(* trunk is missing, unless svn failed or another run copied to it in        *)
(* between; but then both held rows of that trunk, and it is contested.      *)

Trunks(s) == {r.trunk : r \in ToSet(s)}
Copies(j, t) ==
  pc[j] = "copy" /\ status[j] \in {"running", "killed"} /\ Row(j).trunk = t

CopyMeets ==
  \A j \in Job : Live(j) /\ pc[j] = "copy" =>
    Row(j).trunk \in missing \cup hurt \cup contested

SharedContested ==
  \A i, j \in Job : i # j /\ Live(i) /\ Live(j) =>
    Trunks(todo[i]) \cap Trunks(todo[j]) \subseteq contested

SoundInv == TypeOK /\ TrunkSound /\ CopyMeets /\ SharedContested

LEMMA SoundInit == Init => SoundInv
<1> SUFFICES ASSUME Init PROVE SoundInv
  OBVIOUS
<1>1. \A j \in Job : Trunks(todo[j]) = {}
  BY DEF Init, Trunks, ToSet
<1>2. QED BY <1>1, TypeInit DEF Init, SoundInv, TrunkSound, CopyMeets, SharedContested

LEMMA HeldTrunks == \A j \in Job : {k.trunk : k \in Held(j)} = Trunks(todo[j])
<1>1. \A r : KeyOf(r).trunk = r.trunk
  BY DEF KeyOf
<1> SUFFICES ASSUME NEW j \in Job PROVE {k.trunk : k \in Held(j)} = Trunks(todo[j])
  OBVIOUS
<1>2. ASSUME NEW k \in Held(j) PROVE k.trunk \in Trunks(todo[j])
  <2>1. PICK r \in ToSet(todo[j]) : k = KeyOf(r)
    BY DEF Held, Keys
  <2>2. QED BY <2>1, <1>1 DEF Trunks
<1>3. ASSUME NEW r \in ToSet(todo[j]) PROVE r.trunk \in {k.trunk : k \in Held(j)}
  <2>1. KeyOf(r) \in Held(j)
    BY DEF Held, Keys
  <2>2. QED BY <2>1, <1>1
<1>4. QED BY <1>2, <1>3 DEF Trunks

\* A step of j that deletes and copies nothing: j was not about to copy, or is
\* killed.
LEMMA TreeStays ==
  ASSUME SoundInv, TypeOK', Grows, NEW j \in Job, Moves(j),
         UNCHANGED <<missing, nested>>,
         \/ pc[j] # "copy" /\ pc'[j] # "copy"
         \/ pc' = pc /\ todo' = todo /\ status'[j] = "killed",
         Live(j)' => \A i \in Job \ {j} :
           Live(i) => Trunks(todo'[j]) \cap Trunks(todo[i]) \subseteq contested'
  PROVE  SoundInv'
<1>0. hurt \subseteq hurt' /\ contested \subseteq contested'
  BY DEF Grows
<1>1. \A k \in Job \ {j} : Row(k)' = Row(k) /\ Trunks(todo'[k]) = Trunks(todo[k])
  BY DEF Row, Moves
<1>2. \A k \in Job : \A t : Copies(k, t) => Copies(k, t)'
  BY <1>1 DEF Copies, Moves, Row
<1>3. TrunkSound'
  BY <1>0, <1>2 DEF SoundInv, TrunkSound, Copies
<1>4. CopyMeets'
  BY <1>0, <1>1 DEF SoundInv, CopyMeets, Moves, Live
<1>5. SharedContested'
  <2> SUFFICES ASSUME NEW i \in Job, NEW k \in Job, i # k, Live(i)', Live(k)'
               PROVE  Trunks(todo'[i]) \cap Trunks(todo'[k]) \subseteq contested'
    BY DEF SharedContested
  <2>1. CASE i # j /\ k # j
    BY <2>1, <1>0, <1>1 DEF SoundInv, SharedContested, Moves, Live
  <2>2. CASE i = j
    BY <2>2, <1>1 DEF Moves, Live
  <2>3. CASE k = j
    BY <2>3, <1>1 DEF Moves, Live
  <2>4. QED BY <2>1, <2>2, <2>3
<1>6. QED BY <1>3, <1>4, <1>5 DEF SoundInv

\* svn del and svn cp: everybody keeps the rows.
LEMMA TreeMoves ==
  ASSUME SoundInv, TypeOK', Grows, NEW j \in Job, Moves(j),
         UNCHANGED <<todo, status, contested>>,
         TrunkSound', CopyMeets'
  PROVE  SoundInv'
  BY DEF SoundInv, SharedContested, Live

LEMMA SoundStep == SoundInv /\ [Next]_vars => SoundInv'
<1> SUFFICES ASSUME SoundInv, [Next]_vars PROVE SoundInv'
  OBVIOUS
<1>0. TypeOK
  BY DEF SoundInv
<1>1. ASSUME NEW j \in Job, Run(j) \/ Kill(j) PROVE SoundInv'
  <2>0. TypeOK' /\ Moves(j) /\ Grows
    BY <1>0, <1>1, StepTypes, StepGrows
  <2>a. Live(j) => \A i \in Job \ {j} :
          Live(i) => Trunks(todo[j]) \cap Trunks(todo[i]) \subseteq contested
    BY DEF SoundInv, SharedContested
  <2>1. CASE Delete(j)
    <3> DEFINE t == Row(j).trunk
    <3>1. /\ pc[j] = "delete" /\ Live(j)
          /\ UNCHANGED <<todo, status, contested>>
          /\ \/ /\ t \notin missing
                /\ missing' = missing \cup {t} /\ nested' = nested \ {t} /\ hurt' = hurt
             \/ t \in missing /\ UNCHANGED <<missing, nested, hurt>>
             \/ hurt' = hurt \cup {t} /\ UNCHANGED <<missing, nested>>
      BY <2>1 DEF Delete, At, GoTo, rows, table
    <3>2. pc'[j] = "copy"
      BY <1>0, <2>1, Going DEF Delete, Place
    <3>3. \A k \in Job : Row(k)' = Row(k)
      BY <3>1 DEF Row
    <3>4. \A u : u = t => Copies(j, u)'
      BY <3>1, <3>2, <3>3 DEF Copies, Live
    <3>5. \A k \in Job : \A u : Copies(k, u) => Copies(k, u)'
      BY <2>0, <3>1, <3>3 DEF Copies, Moves
    <3>6. TrunkSound'
      <4>1. \A u \in missing' \ hurt' : \E k \in Job : Copies(k, u)'
        <5> SUFFICES ASSUME NEW u \in missing' \ hurt' PROVE \E k \in Job : Copies(k, u)'
          OBVIOUS
        <5>1. CASE u = t
          BY <5>1, <3>4
        <5>2. CASE u # t
          <6>1. u \in missing \ hurt
            BY <5>2, <3>1
          <6>2. \E k \in Job : Copies(k, u)
            BY <6>1 DEF SoundInv, TrunkSound, Copies
          <6>3. QED BY <6>2, <3>5
        <5>3. QED BY <5>1, <5>2
      <4>2. nested' \subseteq hurt' \cup contested'
        BY <3>1 DEF SoundInv, TrunkSound
      <4>3. QED BY <4>1, <4>2 DEF TrunkSound, Copies
    <3>7. CopyMeets'
      <4> SUFFICES ASSUME NEW k \in Job, Live(k)', pc'[k] = "copy"
                   PROVE  Row(k).trunk \in missing' \cup hurt' \cup contested'
        BY <3>3 DEF CopyMeets
      <4>1. CASE k = j
        BY <4>1, <3>1
      <4>2. CASE k # j
        <5>1. Row(k).trunk \in missing \cup hurt \cup contested
          BY <4>2, <2>0 DEF SoundInv, CopyMeets, Moves, Live
        <5>2. QED BY <5>1, <3>1
      <4>3. QED BY <4>1, <4>2
    <3>8. QED BY <2>0, <3>1, <3>6, <3>7, TreeMoves
  <2>2. CASE Copy(j)
    <3> DEFINE t == Row(j).trunk
    <3>1. /\ pc[j] = "copy" /\ Live(j)
          /\ UNCHANGED <<todo, status, contested>>
          /\ \/ /\ t \in missing
                /\ missing' = missing \ {t} /\ UNCHANGED <<nested, hurt>>
             \/ /\ t \notin missing
                /\ nested' = nested \cup {t} /\ UNCHANGED <<missing, hurt>>
             \/ hurt' = hurt \cup {t} /\ UNCHANGED <<missing, nested>>
      BY <2>2 DEF Copy, At, GoTo, table
    <3>2. pc'[j] = "query"
      BY <1>0, <2>2, Going DEF Copy, Place
    <3>3. \A k \in Job : Row(k)' = Row(k)
      BY <3>1 DEF Row
    <3>4. \A k \in Job : \A u : Copies(k, u) => (k = j /\ u = t) \/ Copies(k, u)'
      BY <2>0, <3>1, <3>3 DEF Copies, Moves
    <3>5. t \in missing \cup hurt \cup contested
      BY <3>1 DEF SoundInv, CopyMeets
    <3>6. TrunkSound'
      <4>1. \A u \in missing' \ hurt' : \E k \in Job : Copies(k, u)'
        <5> SUFFICES ASSUME NEW u \in missing' \ hurt' PROVE \E k \in Job : Copies(k, u)'
          OBVIOUS
        <5>1. u \in missing \ hurt /\ u # t
          BY <3>1
        <5>2. \E k \in Job : Copies(k, u)
          BY <5>1 DEF SoundInv, TrunkSound, Copies
        <5>3. QED BY <5>1, <5>2, <3>4
      <4>2. nested' \subseteq hurt' \cup contested'
        BY <3>1, <3>5 DEF SoundInv, TrunkSound
      <4>3. QED BY <4>1, <4>2 DEF TrunkSound, Copies
    <3>7. CopyMeets'
      <4> SUFFICES ASSUME NEW k \in Job, Live(k)', pc'[k] = "copy"
                   PROVE  Row(k).trunk \in missing' \cup hurt' \cup contested'
        BY <3>3 DEF CopyMeets
      <4>1. k # j /\ Live(k) /\ pc[k] = "copy"
        BY <2>0, <3>2 DEF Moves, Live
      <4>2. Row(k).trunk \in missing \cup hurt \cup contested
        BY <4>1 DEF SoundInv, CopyMeets
      <4>3. Row(k) \in ToSet(todo[k]) /\ Row(j) \in ToSet(todo[j])
        BY <1>0, <3>1, <4>1, RowType DEF Place, InHand
      <4>4. Row(k).trunk = t => t \in contested
        BY <3>1, <4>1, <4>3 DEF SoundInv, SharedContested, Trunks
      <4>5. QED BY <3>1, <4>2, <4>4
    <3>8. QED BY <2>0, <3>1, <3>6, <3>7, TreeMoves
  <2>3. CASE PopAll(j)
    <3>1. /\ pc[j] = "popall" /\ UNCHANGED <<missing, nested>>
          /\ Take
          /\ IF Ready = {} THEN Exit(j, "0") ELSE GoTo(j, "delete")
      BY <2>3 DEF PopAll, At, svn
    <3>2. pc'[j] # "copy"
      BY <1>0, <3>1, Going DEF Exit, Place
    <3>3. PICK s \in SetToSeqs(Ready) : todo' = [todo EXCEPT ![j] = s]
      BY <2>3 DEF PopAll
    <3>4. todo'[j] = s /\ ToSet(s) = Ready
      BY <1>0, <3>1, <3>3, Takes, Enumerated DEF TypeOK
    <3>5. contested' = contested \cup
            {r.trunk : r \in {q \in Ready : \E i \in Job \ {j} :
                                Live(i) /\ q.trunk \in Trunks(todo[i])}}
      BY <2>3, HeldTrunks DEF PopAll
    <3>6. ASSUME NEW i \in Job \ {j}, Live(i)
          PROVE  Trunks(todo'[j]) \cap Trunks(todo[i]) \subseteq contested'
      BY <3>4, <3>5, <3>6 DEF Trunks
    <3>7. QED BY <2>0, <3>1, <3>2, <3>6, TreeStays
  <2>4. CASE NextRow(j)
    <3>1. /\ pc[j] = "query" /\ UNCHANGED <<missing, nested, contested>> /\ Live(j)
          /\ todo' = [todo EXCEPT ![j] = Tail(@)]
          /\ IF Tail(todo[j]) = <<>> THEN Exit(j, "0") ELSE GoTo(j, "delete")
      BY <2>4 DEF NextRow, At, svn, table
    <3>2. pc'[j] # "copy"
      BY <1>0, <3>1, Going DEF Exit, Place
    <3>3. todo[j] \in Seq(Entry) /\ todo[j] # <<>> /\ todo'[j] = Tail(todo[j])
      BY <1>0, <3>1, RowType DEF Place, InHand, TypeOK
    <3>4. Trunks(todo'[j]) \subseteq Trunks(todo[j])
      BY <3>3, Tails DEF Trunks
    <3>5. QED BY <2>0, <2>a, <3>1, <3>2, <3>4, TreeStays
  <2>5. CASE \/ Depend(j) \/ PushRow(j) \/ PushFails(j) \/ PopAllFails(j)
             \/ Unmergeable(j) \/ Mergeable(j) \/ Review(j) \/ ReviewFails(j) \/ Submit(j)
    <3>1. /\ UNCHANGED <<missing, nested, contested, todo>> /\ Live(j)
          /\ pc[j] # "copy"
          /\ pc' = pc \/ \E p \in {"popall", "review", "submit"} : pc' = [pc EXCEPT ![j] = p]
      BY <2>5 DEF Depend, PushRow, PushFails, PopAllFails, Unmergeable, Mergeable, Review,
        ReviewFails, Submit, At, GoTo, Exit, rows, svn, table
    <3>2. pc'[j] # "copy"
      BY <1>0, <3>1 DEF TypeOK
    <3>3. QED BY <2>0, <2>a, <3>1, <3>2, TreeStays
  <2>6. CASE Kill(j)
    <3>1. /\ UNCHANGED <<missing, nested, contested, todo>> /\ pc' = pc /\ Live(j)
          /\ status'[j] = "killed"
      BY <1>0, <2>6, Exiting DEF Kill, rows, svn, table, Exits
    <3>2. QED BY <2>0, <2>a, <3>1, TreeStays
  <2>7. QED BY <1>1, <2>1, <2>2, <2>3, <2>4, <2>5, <2>6 DEF Run
<1>2. CASE UNCHANGED vars
  BY <1>2 DEF vars, script, rows, svn, table, SoundInv, TypeOK, TrunkSound, CopyMeets,
    SharedContested, Live, Row
<1>3. QED BY <1>1, <1>2 DEF Next, Ended

\* A trunk is missing only while a run has its svn cp ahead, or was killed there,
\* or after a failure of svn; a copy inside a trunk comes from such a failure or
\* from two runs that held rows of that trunk at a time (TrunkSound).
THEOREM TrunksComeBack == Spec => []TrunkSound
<1>1. SoundInv => TrunkSound
  BY DEF SoundInv
<1>2. QED BY <1>1, SoundInit, SoundStep, PTL DEF Spec

-----------------------------------------------------------------------------
(* Dependencies come along.  What rev.txt lists is in deps of its row once it *)
(* was looked up, unless its trunk is as recent or did not answer; the queue *)
(* hands out a row only after all of deps; and trunks never go back.         *)

Meets(D, l) == \A d \in ToSet(l) : d \in D \cup unseen \/ d.ver <= last[d.trunk]
Explains(k, D) ==
  \E j \in Job : \E i \in DOMAIN Push[j] :
    KeyOf(Push[j][i]) = k /\ Meets(D, Push[j][i].lists)

Prepared ==
  \A j \in Job : Live(j) /\ pc[j] = "depend" =>
    Meets(deps[j] \cup ToSet(unread[j]), Push[j][at[j]].lists)
QueueExplained == \A r \in queue : Explains(KeyOf(r), r.deps)
HeldExplained ==
  \A j \in Job : \A r \in ToSet(todo[j]) : Explains(KeyOf(r), r.deps) /\ r.deps \subseteq popped

ComeInv == TypeOK /\ Prepared /\ QueueExplained /\ HeldExplained /\ DependenciesCome

LEMMA ComeMeans == DependenciesCome <=> \A k \in copied : Explains(k, popped)
  BY DEF DependenciesCome, Explains, Meets

LEMMA ComeInit == Init => ComeInv
<1> SUFFICES ASSUME Init PROVE ComeInv
  OBVIOUS
<1>1. Prepared
  BY DEF Init, Prepared, Meets
<1>2. HeldExplained
  BY DEF Init, HeldExplained, ToSet
<1>3. QED
  BY <1>1, <1>2, TypeInit DEF Init, ComeInv, QueueExplained, DependenciesCome

\* What holds of a list goes on to hold.
LEMMA MeetsStay ==
  TypeOK /\ TypeOK' /\ Grows => \A D : \A l \in Seq(Key) :
    Meets(D, l) => \A d \in ToSet(l) : d \in D \cup unseen' \/ d.ver <= last'[d.trunk]
<1> SUFFICES ASSUME TypeOK, TypeOK', Grows, NEW D, NEW l \in Seq(Key),
                    Meets(D, l), NEW d \in ToSet(l)
             PROVE  d \in D \cup unseen' \/ d.ver <= last'[d.trunk]
  OBVIOUS
<1>1. d \in Key
  BY Elements
<1>2. d.trunk \in Trunk /\ d.ver \in Nat
  BY <1>1, CciAssumption DEF Key
<1>3. last[d.trunk] \in Nat /\ last'[d.trunk] \in Nat /\ last[d.trunk] <= last'[d.trunk]
  <2>1. Newest \in Nat
    BY CciAssumption DEF Newest
  <2>2. last[d.trunk] \in 0 .. Newest /\ last'[d.trunk] \in 0 .. Newest
    BY <1>2 DEF TypeOK
  <2>3. QED BY <1>2, <2>1, <2>2 DEF Grows
<1>4. QED BY <1>2, <1>3 DEF Meets, Grows

\* And what explains a key goes on to, with more dependencies too.
LEMMA ExplainsStay ==
  ASSUME TypeOK, TypeOK', Grows, NEW k, NEW D, NEW E, D \subseteq E, Explains(k, D)
  PROVE  \E j \in Job : \E i \in DOMAIN Push[j] :
           /\ KeyOf(Push[j][i]) = k
           /\ \A d \in ToSet(Push[j][i].lists) : d \in E \cup unseen' \/ d.ver <= last'[d.trunk]
<1>0. PICK j \in Job : \E i \in DOMAIN Push[j] :
        KeyOf(Push[j][i]) = k /\ Meets(D, Push[j][i].lists)
  BY DEF Explains
<1>1. PICK i \in DOMAIN Push[j] : KeyOf(Push[j][i]) = k /\ Meets(D, Push[j][i].lists)
  BY <1>0
<1>2. i \in 1 .. Len(Push[j])
  BY Lines
<1>3. Push[j][i].lists \in Seq(Key)
  BY <1>2, Lines DEF Line
<1>4. \A d \in ToSet(Push[j][i].lists) : d \in D \cup unseen' \/ d.ver <= last'[d.trunk]
  BY <1>1, <1>3, MeetsStay
<1>5. QED BY <1>1, <1>4

\* What a step has to show of the run that makes it, and of the queue.
LEMMA ComeFrame ==
  ASSUME ComeInv, TypeOK', Grows, NEW j \in Job, Moves(j),
         Live(j)' /\ pc'[j] = "depend" =>
           \A d \in ToSet(Push[j][at'[j]].lists) :
             d \in deps'[j] \cup ToSet(unread'[j]) \cup unseen' \/ d.ver <= last'[d.trunk],
         \A r \in queue' : r \in queue \/ (\E i \in DOMAIN Push[j] :
           /\ KeyOf(Push[j][i]) = KeyOf(r) /\ Meets(r.deps, Push[j][i].lists)),
         \A r \in ToSet(todo'[j]) : r \in ToSet(todo[j]) \/ (r \in queue /\ r.deps \subseteq popped'),
         \A k \in copied' : k \in copied \/ \E r \in ToSet(todo[j]) : k = KeyOf(r)
  PROVE  ComeInv'
<1>0. TypeOK /\ popped \subseteq popped'
  BY DEF ComeInv, Grows
<1>1. Prepared'
  <2> SUFFICES ASSUME NEW k \in Job, Live(k)', pc'[k] = "depend",
                      NEW d \in ToSet(Push[k][at'[k]].lists)
               PROVE  d \in deps'[k] \cup ToSet(unread'[k]) \cup unseen' \/ d.ver <= last'[d.trunk]
    BY DEF Prepared, Meets
  <2>1. CASE k = j
    BY <2>1
  <2>2. CASE k # j
    <3>1. /\ Live(k) /\ pc[k] = "depend"
          /\ at'[k] = at[k] /\ deps'[k] = deps[k] /\ unread'[k] = unread[k]
      BY <2>2 DEF Moves, Live
    <3>2. Push[k][at[k]].lists \in Seq(Key)
      BY <1>0, Lines DEF Line, TypeOK
    <3>3. Meets(deps[k] \cup ToSet(unread[k]), Push[k][at[k]].lists)
      BY <3>1 DEF ComeInv, Prepared
    <3>4. d \in (deps[k] \cup ToSet(unread[k])) \cup unseen' \/ d.ver <= last'[d.trunk]
      <4>1. \A e \in ToSet(Push[k][at[k]].lists) :
              e \in (deps[k] \cup ToSet(unread[k])) \cup unseen' \/ e.ver <= last'[e.trunk]
        BY <1>0, <3>2, <3>3, MeetsStay
      <4>2. QED BY <3>1, <4>1
    <3>5. QED BY <3>1, <3>4
  <2>3. QED BY <2>1, <2>2
<1>2. ASSUME NEW r \in queue' PROVE Explains(KeyOf(r), r.deps)'
  <2>1. Explains(KeyOf(r), r.deps)
    BY <1>2, Lines DEF ComeInv, QueueExplained, Explains
  <2>2. \E i \in Job : \E m \in DOMAIN Push[i] :
          /\ KeyOf(Push[i][m]) = KeyOf(r)
          /\ \A d \in ToSet(Push[i][m].lists) : d \in r.deps \cup unseen' \/ d.ver <= last'[d.trunk]
    BY <1>0, <2>1, ExplainsStay
  <2>3. QED BY <2>2 DEF Explains, Meets, KeyOf
<1>3. ASSUME NEW k \in Job, NEW r \in ToSet(todo'[k])
      PROVE  Explains(KeyOf(r), r.deps)' /\ r.deps \subseteq popped'
  <2>1. Explains(KeyOf(r), r.deps) /\ r.deps \subseteq popped'
    BY <1>0, <1>3 DEF ComeInv, QueueExplained, HeldExplained, Moves
  <2>2. \E i \in Job : \E m \in DOMAIN Push[i] :
          /\ KeyOf(Push[i][m]) = KeyOf(r)
          /\ \A d \in ToSet(Push[i][m].lists) : d \in r.deps \cup unseen' \/ d.ver <= last'[d.trunk]
    BY <1>0, <2>1, ExplainsStay
  <2>3. QED BY <2>1, <2>2 DEF Explains, Meets, KeyOf
<1>4. ASSUME NEW k \in copied' PROVE Explains(k, popped)'
  <2>1. \E D : D \subseteq popped' /\ Explains(k, D)
    <3>1. CASE k \in copied
      BY <1>0, <3>1, ComeMeans DEF ComeInv
    <3>2. CASE \E r \in ToSet(todo[j]) : k = KeyOf(r)
      BY <1>0, <3>2 DEF ComeInv, HeldExplained
    <3>3. QED BY <1>4, <3>1, <3>2
  <2>2. PICK D : D \subseteq popped' /\ Explains(k, D)
    BY <2>1
  <2>3. \E i \in Job : \E m \in DOMAIN Push[i] :
          /\ KeyOf(Push[i][m]) = k
          /\ \A d \in ToSet(Push[i][m].lists) : d \in popped' \cup unseen' \/ d.ver <= last'[d.trunk]
    BY <1>0, <2>2, ExplainsStay
  <2>4. QED BY <2>3 DEF Explains, Meets, KeyOf
<1>5. DependenciesCome'
  BY <1>4 DEF DependenciesCome, Explains, Meets
<1>6. QED BY <1>1, <1>2, <1>3, <1>5 DEF ComeInv, QueueExplained, HeldExplained

LEMMA ComeStep == ComeInv /\ [Next]_vars => ComeInv'
<1> SUFFICES ASSUME ComeInv, [Next]_vars PROVE ComeInv'
  OBVIOUS
<1>0. TypeOK
  BY DEF ComeInv
<1>1. ASSUME NEW j \in Job, Run(j) \/ Kill(j) PROVE ComeInv'
  <2>0. TypeOK' /\ Moves(j) /\ Grows
    BY <1>0, <1>1, StepTypes, StepGrows
  <2>a. Push[j][at[j]].lists \in Seq(Key)
    BY <1>0, Lines DEF Line, TypeOK
  <2>1. CASE Depend(j)
    <3> DEFINE d0 == Head(unread[j])
               l == Push[j][at[j]].lists
    <3>1. /\ UNCHANGED <<at, todo, queue, copied>>
          /\ unread' = [unread EXCEPT ![j] = Tail(@)] /\ unread[j] # <<>>
          /\ pc[j] = "depend" /\ Live(j)
      BY <2>1 DEF Depend, At, rows, svn, table
    <3>2. ToSet(unread[j]) = {d0} \cup ToSet(unread'[j])
      <4>1. unread[j] \in Seq(Key) /\ unread'[j] = Tail(unread[j])
        BY <1>0, <3>1 DEF TypeOK
      <4>2. QED BY <3>1, <4>1, Tails
    <3>3. deps[j] \subseteq deps'[j] /\ (d0 \in deps'[j] \/ d0 \in unseen' \/ ~ NewerThanTrunk(d0))
      BY <1>0, <2>1 DEF Depend, TypeOK
    <3>4. ~ NewerThanTrunk(d0) => d0.ver <= last[d0.trunk]
      <4>1. d0 \in Key
        BY <1>0, <3>1 DEF TypeOK
      <4>2. d0.trunk \in Trunk /\ d0.ver \in Nat /\ Newest \in Nat
        BY <4>1, CciAssumption DEF Key, Newest
      <4>3. last[d0.trunk] \in Nat
        BY <1>0, <4>2 DEF TypeOK
      <4>4. QED BY <4>2, <4>3 DEF NewerThanTrunk
    <3>5. UNCHANGED last
      BY <2>1 DEF Depend, svn
    <3>6. Meets(deps[j] \cup ToSet(unread[j]), l)
      BY <3>1 DEF ComeInv, Prepared
    <3>7. \A d \in ToSet(l) : d \in deps'[j] \cup ToSet(unread'[j]) \cup unseen' \/ d.ver <= last'[d.trunk]
      BY <2>0, <3>2, <3>3, <3>4, <3>5, <3>6 DEF Meets, Grows
    <3>8. QED BY <2>0, <3>1, <3>7, ComeFrame
  <2>2. CASE PushRow(j)
    <3> DEFINE l == Push[j][at[j]].lists
    <3>1. /\ pc[j] = "depend" /\ Live(j) /\ unread[j] = <<>>
          /\ Insert(j) /\ UNCHANGED <<deps, todo, copied>>
      BY <2>2 DEF PushRow, At, rows, svn
    <3>2. PICK r \in Entry : /\ KeyOf(r) = KeyOf(Push[j][at[j]]) /\ r.deps = deps[j]
                             /\ queue' \subseteq queue \cup {r}
      BY <1>0, <3>1, Inserts
    <3>3. Meets(deps[j], l)
      BY <3>1 DEF ComeInv, Prepared, ToSet, Meets
    <3>4. at[j] \in DOMAIN Push[j]
      BY <1>0, Lines DEF TypeOK
    <3>5. \A q \in queue' : q \in queue \/ (\E i \in DOMAIN Push[j] :
            KeyOf(Push[j][i]) = KeyOf(q) /\ Meets(q.deps, Push[j][i].lists))
      BY <3>2, <3>3, <3>4
    <3>6. CASE at[j] < Len(Push[j])
      <4>1. at'[j] = at[j] + 1 /\ unread'[j] = Push[j][at'[j]].lists
        BY <1>0, <2>2, <3>6 DEF PushRow, TypeOK
      <4>2. QED BY <2>0, <3>1, <3>5, <4>1, ComeFrame
    <3>7. CASE ~ (at[j] < Len(Push[j]))
      <4>1. pc'[j] = "popall"
        BY <1>0, <2>2, <3>7, Going DEF PushRow, Place
      <4>2. QED BY <2>0, <3>1, <3>5, <4>1, ComeFrame
    <3>8. QED BY <3>6, <3>7
  <2>3. CASE PushFails(j)
    <3>1. /\ pc[j] = "depend" /\ Live(j) /\ unread[j] = <<>>
          /\ Insert(j) \/ UNCHANGED queue
          /\ UNCHANGED <<todo, copied>>
      BY <2>3 DEF PushFails, At, rows, svn
    <3>2. ~ Live(j)'
      BY <1>0, <2>3, Exiting DEF PushFails, Exits, Live
    <3>3. Meets(deps[j], Push[j][at[j]].lists)
      BY <3>1 DEF ComeInv, Prepared, ToSet, Meets
    <3>4. at[j] \in DOMAIN Push[j]
      BY <1>0, Lines DEF TypeOK
    <3>5. \A q \in queue' : q \in queue \/ (\E i \in DOMAIN Push[j] :
            KeyOf(Push[j][i]) = KeyOf(q) /\ Meets(q.deps, Push[j][i].lists))
      <4>1. CASE Insert(j)
        <5>1. PICK r \in Entry : /\ KeyOf(r) = KeyOf(Push[j][at[j]]) /\ r.deps = deps[j]
                                 /\ queue' \subseteq queue \cup {r}
          BY <1>0, <4>1, Inserts
        <5>2. QED BY <5>1, <3>3, <3>4
      <4>2. QED BY <3>1, <4>1
    <3>6. QED BY <2>0, <3>1, <3>2, <3>5, ComeFrame
  <2>4. CASE PopAll(j)
    <3>1. /\ pc[j] = "popall" /\ pc'[j] # "depend"
          /\ Take /\ UNCHANGED copied
      <4>1. /\ pc[j] = "popall" /\ Take /\ UNCHANGED copied
            /\ IF Ready = {} THEN Exit(j, "0") ELSE GoTo(j, "delete")
        BY <2>4 DEF PopAll, At, svn
      <4>2. QED BY <1>0, <4>1, Going DEF Exit, Place
    <3>2. PICK s \in SetToSeqs(Ready) : todo' = [todo EXCEPT ![j] = s]
      BY <2>4 DEF PopAll
    <3>3. ToSet(todo'[j]) = Ready
      BY <1>0, <3>1, <3>2, Takes, Enumerated DEF TypeOK
    <3>4. \A r \in ToSet(todo'[j]) : r \in queue /\ r.deps \subseteq popped'
      BY <3>1, <3>3, ReadyInQueue, ReadyTogether DEF Take
    <3>5. queue' \subseteq queue
      BY <3>1 DEF Take
    <3>6. QED BY <2>0, <3>1, <3>4, <3>5, ComeFrame
  <2>5. CASE PopAllFails(j)
    <3>1. /\ ~ Live(j)' /\ UNCHANGED <<todo, copied>> /\ queue' \subseteq queue
      BY <1>0, <2>5, Exiting DEF PopAllFails, Take, Exits, Live, rows, svn
    <3>2. QED BY <2>0, <3>1, ComeFrame
  <2>6. CASE Copy(j)
    <3>1. /\ pc'[j] # "depend" /\ UNCHANGED <<todo, queue>>
          /\ copied' \subseteq copied \cup {KeyOf(Row(j))}
          /\ Live(j) /\ pc[j] = "copy"
      BY <1>0, <2>6, Going DEF Copy, At, table, Place
    <3>2. Row(j) \in ToSet(todo[j])
      BY <1>0, <3>1, RowType DEF Place, InHand
    <3>3. QED BY <2>0, <3>1, <3>2, ComeFrame
  <2>7. CASE NextRow(j)
    <3>1. /\ pc[j] = "query" /\ Live(j)
          /\ UNCHANGED <<queue, copied>>
          /\ todo' = [todo EXCEPT ![j] = Tail(@)]
          /\ IF Tail(todo[j]) = <<>> THEN Exit(j, "0") ELSE GoTo(j, "delete")
      BY <2>7 DEF NextRow, At, svn, table
    <3>2. pc'[j] # "depend"
      BY <1>0, <3>1, Going DEF Exit, Place
    <3>3. ToSet(todo'[j]) \subseteq ToSet(todo[j])
      <4>1. todo[j] \in Seq(Entry) /\ todo[j] # <<>> /\ todo'[j] = Tail(todo[j])
        BY <1>0, <3>1, RowType DEF Place, InHand, TypeOK
      <4>2. QED BY <4>1, Tails
    <3>4. QED BY <2>0, <3>1, <3>2, <3>3, ComeFrame
  <2>8. CASE \/ Delete(j) \/ Unmergeable(j) \/ Mergeable(j) \/ Review(j)
             \/ ReviewFails(j) \/ Submit(j)
    <3>1. /\ UNCHANGED <<queue, todo, copied>> /\ pc[j] # "depend"
          /\ pc' = pc \/ \E p \in {"copy", "review", "submit"} : pc' = [pc EXCEPT ![j] = p]
      BY <2>8 DEF Delete, Unmergeable, Mergeable, Review, ReviewFails, Submit, At, GoTo, Exit,
        rows, svn, table
    <3>2. pc'[j] # "depend"
      BY <1>0, <3>1 DEF TypeOK
    <3>3. QED BY <2>0, <3>1, <3>2, ComeFrame
  <2>9. CASE Kill(j)
    <3>1. /\ UNCHANGED <<queue, todo, copied>> /\ ~ Live(j)'
      BY <1>0, <2>9, Exiting DEF Kill, Exits, Live, rows, svn, table
    <3>2. QED BY <2>0, <3>1, ComeFrame
  <2>10. QED BY <1>1, <2>1, <2>2, <2>3, <2>4, <2>5, <2>6, <2>7, <2>8, <2>9 DEF Run
<1>2. CASE UNCHANGED vars
  <2>0. UNCHANGED <<pc, status, at, unread, deps, todo, asked, queue, last, missing, nested,
                    copied, popped, unseen>>
    BY <1>2 DEF vars, script, rows, svn, table
  <2>1. TypeOK'
    BY <1>0, <2>0 DEF TypeOK
  <2>2. Prepared'
    BY <2>0 DEF ComeInv, Prepared, Meets, Live
  <2>3. QueueExplained'
    BY <2>0 DEF ComeInv, QueueExplained, Explains, Meets, KeyOf
  <2>4. HeldExplained'
    BY <2>0 DEF ComeInv, HeldExplained, Explains, Meets, KeyOf
  <2>5. DependenciesCome'
    BY <2>0 DEF ComeInv, DependenciesCome
  <2>6. QED BY <2>1, <2>2, <2>3, <2>4, <2>5 DEF ComeInv
<1>3. QED BY <1>1, <1>2 DEF Next, Ended

\* What rev.txt lists beside a version on a trunk was popped too, or its trunk is
\* as recent, or a run could not see that trunk, in whatever order the runs push,
\* pop, copy and fail (DependenciesCome).
THEOREM NothingMissing == Spec => []DependenciesCome
<1>1. ComeInv => DependenciesCome
  BY DEF ComeInv
<1>2. QED BY <1>1, ComeInit, ComeStep, PTL DEF Spec
=============================================================================
