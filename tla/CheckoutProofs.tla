--------------------------- MODULE CheckoutProofs ---------------------------
(***************************************************************************)
(* Theorems about Checkout, for every dependency graph (cyclic ones too),  *)
(* base and list of requests.                                              *)
(***************************************************************************)
EXTENDS Checkout, FiniteSetTheorems, WellFoundedInduction, TLAPS

\* The active calls, as a set.
Frames(s) == {s[i] : i \in 1 .. Len(s)}

\* Names whose dependencies belong to the checkout.
Expanded(n) == n \in Requested \/ n \notin Base

\* A call has marked its subsystem, and has still to look at dependencies of it.
CallsMarked ==
  \A f \in Frames(stack) :
    f.node \in chosen /\ Expanded(f.node) /\ f.kids \subseteq graph[f.node]

\* What is missing of a subsystem's dependencies is the business of a call.
MissingPending ==
  \A n \in chosen : Expanded(n) =>
    \/ graph[n] \subseteq chosen
    \/ \E f \in Frames(stack) : f.node = n /\ graph[n] \ chosen \subseteq f.kids

NothingMore == \A S \in SUBSET Name : Complete(S) => chosen \subseteq S

ResolveType ==
  /\ graph \in [Name -> SUBSET Name]
  /\ stack \in Seq(Frame)
  /\ nreq \in 0 .. Len(Requests)
  /\ chosen \subseteq Name

Resolving ==
  /\ Base \subseteq chosen
  /\ Requested \subseteq chosen
  /\ CallsMarked
  /\ MissingPending
  /\ NothingMore

ResolveInv ==
  /\ ResolveType
  /\ phase # "resolve" => stack = <<>>
  /\ phase = "resolve" => Resolving

LEMMA FramesCons ==
  ASSUME NEW f \in Frame, NEW s \in Seq(Frame)
  PROVE  <<f>> \o s \in Seq(Frame) /\ Frames(<<f>> \o s) = {f} \cup Frames(s)
<1> DEFINE t == <<f>> \o s
<1>1. t \in Seq(Frame) /\ Len(t) = Len(s) + 1
  OBVIOUS
<1>2. t[1] = f /\ \A i \in 1 .. Len(s) : t[i + 1] = s[i]
  OBVIOUS
<1>3. \A i \in 1 .. Len(t) : i = 1 \/ \E k \in 1 .. Len(s) : i = k + 1
  <2> SUFFICES ASSUME NEW i \in 1 .. Len(t), i # 1 PROVE i - 1 \in 1 .. Len(s) /\ i = (i - 1) + 1
    OBVIOUS
  <2>1. QED BY <1>1
<1>4. 1 \in 1 .. Len(t) /\ \A k \in 1 .. Len(s) : k + 1 \in 1 .. Len(t)
  BY <1>1
<1> HIDE DEF t
<1>5. Frames(t) = {f} \cup Frames(s)
  <2>1. ASSUME NEW x \in Frames(t) PROVE x \in {f} \cup Frames(s)
    <3>1. PICK i \in 1 .. Len(t) : x = t[i]
      BY DEF Frames
    <3>2. CASE i = 1
      BY <3>1, <3>2, <1>2
    <3>3. CASE i # 1
      BY <3>1, <3>3, <1>2, <1>3 DEF Frames
    <3>4. QED BY <3>2, <3>3
  <2>2. f \in Frames(t)
    BY <1>2, <1>4 DEF Frames
  <2>3. ASSUME NEW x \in Frames(s) PROVE x \in Frames(t)
    <3>1. PICK i \in 1 .. Len(s) : x = s[i]
      BY DEF Frames
    <3>2. t[i + 1] = x /\ i + 1 \in 1 .. Len(t)
      BY <3>1, <1>2, <1>4
    <3>3. QED BY <3>2 DEF Frames
  <2>4. QED BY <2>1, <2>2, <2>3
<1>6. QED BY <1>1, <1>5 DEF t

LEMMA FramesSplit ==
  ASSUME NEW s \in Seq(Frame), s # <<>>
  PROVE  /\ Head(s) \in Frame
         /\ Tail(s) \in Seq(Frame)
         /\ Frames(s) = {Head(s)} \cup Frames(Tail(s))
<1>1. /\ Head(s) \in Frame
      /\ Tail(s) \in Seq(Frame)
      /\ s = <<Head(s)>> \o Tail(s)
  OBVIOUS
<1>2. QED BY <1>1, FramesCons

LEMMA FramesEmpty == Frames(<<>>) = {}
  BY DEF Frames

LEMMA FramesType == \A s \in Seq(Frame) : Frames(s) \subseteq Frame
  BY DEF Frames

LEMMA ResolveInit == Init => ResolveInv
<1> SUFFICES ASSUME Init PROVE ResolveInv
  OBVIOUS
<1>1. Requested = {} /\ Frames(stack) = {}
  BY FramesEmpty DEF Init, Requested
<1>2. ResolveType
  BY NamesAssumption DEF Init, ResolveType, Graphs
<1>3. Resolving
  BY <1>1 DEF Init, Resolving, CallsMarked, MissingPending, Expanded, NothingMore, Complete
<1>4. QED BY <1>2, <1>3 DEF Init, ResolveInv

LEMMA ResolveStep == ResolveInv /\ [Next]_vars => ResolveInv'
<1> SUFFICES ASSUME ResolveInv, [Next]_vars PROVE ResolveInv'
  OBVIOUS
<1> USE DEF ResolveInv
<1>1. CASE Request
  <2> DEFINE n == Requests[nreq + 1]
             f == [node |-> n, kids |-> graph[n]]
  <2>1. /\ phase = "resolve" /\ phase' = phase /\ stack = <<>>
        /\ nreq' = nreq + 1 /\ nreq' \in 0 .. Len(Requests)
        /\ graph' = graph
        /\ stack' = <<f>> \o stack
        /\ chosen' = chosen \cup {n}
    BY <1>1, NamesAssumption DEF Request, Call, lists, ResolveType
  <2>2. n \in Name /\ f \in Frame
    BY <2>1, NamesAssumption DEF ResolveType, Frame
  <2>3. Requested' = Requested \cup {n}
    BY <2>1, NamesAssumption DEF Requested, ResolveType
  <2>4. Frames(stack) = {} /\ Frames(stack') = {f} /\ stack' \in Seq(Frame)
    <3>1. stack \in Seq(Frame) /\ Frames(stack) = {}
      BY <2>1, FramesEmpty DEF ResolveType
    <3> HIDE DEF f
    <3>2. Frames(<<f>> \o stack) = {f} \cup Frames(stack) /\ <<f>> \o stack \in Seq(Frame)
      BY <2>2, <3>1, FramesCons
    <3>3. QED BY <2>1, <3>1, <3>2
  <2>5. ResolveType'
    BY <2>1, <2>2, <2>4 DEF ResolveType
  <2> HIDE DEF n
  <2>6. CallsMarked'
    BY <2>1, <2>3, <2>4 DEF CallsMarked, Expanded
  <2>7. MissingPending'
    BY <2>1, <2>3, <2>4 DEF MissingPending, Expanded, Resolving
  <2>8. NothingMore'
    BY <2>1, <2>3 DEF NothingMore, Complete, Resolving
  <2>9. QED BY <2>1, <2>3, <2>5, <2>6, <2>7, <2>8 DEF Resolving
<1>2. ASSUME NEW k \in Name, Kid(k) PROVE ResolveInv'
  <2> DEFINE h == Head(stack)
             t == Tail(stack)
  <2>1. /\ stack # <<>> /\ k \in h.kids /\ phase = "resolve"
        /\ UNCHANGED <<graph, phase, nreq>>
    BY <1>2 DEF Kid, lists
  <2>2. h \in Frame /\ t \in Seq(Frame) /\ Frames(stack) = {h} \cup Frames(t)
    BY <2>1, FramesSplit DEF ResolveType
  <2>3. /\ Drop(k) \in Frame /\ Drop(k).node = h.node /\ Drop(k).kids = h.kids \ {k}
    BY <2>2 DEF Drop, Frame
  <2>4. Requested' = Requested /\ \A n : Expanded(n)' <=> Expanded(n)
    BY <2>1 DEF Requested, Expanded
  <2>5. \A S : Complete(S)' <=> Complete(S)
    BY <2>1, <2>4 DEF Complete
  <2>6. /\ h.node \in chosen /\ Expanded(h.node) /\ h.kids \subseteq graph[h.node]
    BY <2>1, <2>2 DEF Resolving, CallsMarked
  <2> HIDE DEF h, t
  <2>7. CASE k \in chosen
    <3>1. stack' = <<Drop(k)>> \o t /\ chosen' = chosen
      BY <1>2, <2>7 DEF Kid, t
    <3>2. Frames(stack') = {Drop(k)} \cup Frames(t) /\ stack' \in Seq(Frame)
      BY <3>1, <2>2, <2>3, FramesCons
    <3>3. ResolveType'
      BY <3>1, <3>2, <2>1 DEF ResolveType
    <3>4. CallsMarked'
      BY <3>1, <3>2, <2>1, <2>2, <2>3, <2>4, <2>6 DEF CallsMarked, Resolving
    <3>5. MissingPending'
      <4> SUFFICES ASSUME NEW n \in chosen, Expanded(n), ~ (graph[n] \subseteq chosen)
                   PROVE  \E f \in Frames(stack') :
                            f.node = n /\ graph[n] \ chosen \subseteq f.kids
        BY <3>1, <2>1, <2>4 DEF MissingPending
      <4>1. PICK f \in Frames(stack) : f.node = n /\ graph[n] \ chosen \subseteq f.kids
        BY <2>1 DEF Resolving, MissingPending
      <4>2. CASE f = h
        BY <4>1, <4>2, <3>2, <2>3, <2>7
      <4>3. CASE f \in Frames(t)
        BY <4>1, <4>3, <3>2
      <4>4. QED BY <4>2, <4>3, <2>2
    <3>6. NothingMore'
      BY <3>1, <2>1, <2>5 DEF NothingMore, Resolving
    <3>7. QED BY <3>1, <3>3, <3>4, <3>5, <3>6, <2>1, <2>4 DEF Resolving
  <2>8. CASE k \notin chosen
    <3> DEFINE c == [node |-> k, kids |-> graph[k]]
    <3>1. stack' = <<c, Drop(k)>> \o t /\ chosen' = chosen \cup {k}
      BY <1>2, <2>8 DEF Kid, t
    <3>2. c \in Frame
      BY DEF ResolveType, Frame
    <3>3. <<c, Drop(k)>> \o t = <<c>> \o (<<Drop(k)>> \o t)
      BY <3>2, <2>2, <2>3
    <3>4. Frames(stack') = {c, Drop(k)} \cup Frames(t) /\ stack' \in Seq(Frame)
      <4> HIDE DEF c
      <4>1. /\ <<Drop(k)>> \o t \in Seq(Frame)
            /\ Frames(<<Drop(k)>> \o t) = {Drop(k)} \cup Frames(t)
        BY <2>2, <2>3, FramesCons
      <4>2. /\ <<c>> \o (<<Drop(k)>> \o t) \in Seq(Frame)
            /\ Frames(<<c>> \o (<<Drop(k)>> \o t)) = {c} \cup ({Drop(k)} \cup Frames(t))
        BY <4>1, <3>2, FramesCons
      <4>3. QED BY <4>2, <3>1, <3>3
    <3>5. ResolveType'
      BY <3>1, <3>4, <2>1 DEF ResolveType
    <3>6. Expanded(k)
      BY <2>1, <2>8 DEF Resolving, Expanded
    <3> HIDE DEF c
    <3>7. c.node = k /\ c.kids = graph[k]
      BY DEF c
    <3>8. CallsMarked'
      BY <3>1, <3>4, <3>6, <3>7, <2>1, <2>2, <2>3, <2>4, <2>6 DEF CallsMarked, Resolving
    <3>9. MissingPending'
      <4> SUFFICES ASSUME NEW n \in chosen', Expanded(n), ~ (graph[n] \subseteq chosen')
                   PROVE  \E f \in Frames(stack') :
                            f.node = n /\ graph[n] \ chosen' \subseteq f.kids
        BY <2>1, <2>4 DEF MissingPending
      <4>1. CASE n = k
        BY <4>1, <3>4, <3>7
      <4>2. CASE n # k
        <5>1. n \in chosen /\ ~ (graph[n] \subseteq chosen)
          BY <4>2, <3>1
        <5>2. PICK f \in Frames(stack) : f.node = n /\ graph[n] \ chosen \subseteq f.kids
          BY <5>1, <2>1 DEF Resolving, MissingPending
        <5>3. CASE f = h
          BY <5>2, <5>3, <3>1, <3>4, <2>3
        <5>4. CASE f \in Frames(t)
          BY <5>2, <5>4, <3>1, <3>4
        <5>5. QED BY <5>3, <5>4, <2>2
      <4>3. QED BY <4>1, <4>2
    <3>10. NothingMore'
      <4> SUFFICES ASSUME NEW S \in SUBSET Name, Complete(S) PROVE chosen \cup {k} \subseteq S
        BY <3>1, <2>5 DEF NothingMore
      <4>1. chosen \subseteq S
        BY <2>1 DEF Resolving, NothingMore
      <4>2. h.node \in S /\ graph[h.node] \subseteq S
        BY <4>1, <2>6 DEF Complete, Expanded
      <4>3. k \in S
        BY <4>2, <2>1, <2>6
      <4>4. QED BY <4>1, <4>3
    <3>11. QED BY <3>1, <3>5, <3>8, <3>9, <3>10, <2>1, <2>4 DEF Resolving
  <2>9. QED BY <2>7, <2>8
<1>3. CASE Return
  <2>1. /\ stack # <<>> /\ Head(stack).kids = {} /\ phase = "resolve"
        /\ stack' = Tail(stack)
        /\ UNCHANGED <<graph, phase, nreq, chosen>>
    BY <1>3 DEF Return, lists
  <2>2. /\ Tail(stack) \in Seq(Frame)
        /\ Frames(stack) = {Head(stack)} \cup Frames(Tail(stack))
    BY <2>1, FramesSplit DEF ResolveType
  <2>3. Requested' = Requested /\ \A n : Expanded(n)' <=> Expanded(n)
    BY <2>1 DEF Requested, Expanded
  <2>4. ResolveType'
    BY <2>1, <2>2 DEF ResolveType
  <2>5. CallsMarked'
    BY <2>1, <2>2, <2>3 DEF CallsMarked, Resolving
  <2>6. MissingPending'
    <3> SUFFICES ASSUME NEW n \in chosen, Expanded(n), ~ (graph[n] \subseteq chosen)
                 PROVE  \E f \in Frames(stack') :
                          f.node = n /\ graph[n] \ chosen \subseteq f.kids
      BY <2>1, <2>3 DEF MissingPending
    <3>1. PICK f \in Frames(stack) : f.node = n /\ graph[n] \ chosen \subseteq f.kids
      BY <2>1 DEF Resolving, MissingPending
    <3>2. f # Head(stack)
      BY <3>1, <2>1
    <3>3. QED BY <3>1, <3>2, <2>1, <2>2
  <2>7. NothingMore'
    BY <2>1, <2>3 DEF NothingMore, Resolving, Complete
  <2>8. QED BY <2>1, <2>3, <2>4, <2>5, <2>6, <2>7 DEF Resolving
<1>4. CASE Resolved
  BY <1>4 DEF Resolved, lists, ResolveType
<1>5. ASSUME NEW n \in Name, Divide(n) PROVE ResolveInv'
  BY <1>5 DEF Divide, lists, ResolveType
<1>6. CASE Divided \/ Finish
  BY <1>6 DEF Divided, Finish, lists, ResolveType
<1>7. ASSUME NEW n \in Name, Locate(n) PROVE ResolveInv'
  BY <1>7 DEF Locate, lists, ResolveType
<1>8. CASE UNCHANGED vars
  BY <1>8 DEF vars, lists, ResolveType, Resolving, CallsMarked, MissingPending, NothingMore,
     Requested, Expanded, Complete
<1>9. QED
  BY <1>1, <1>2, <1>3, <1>4, <1>5, <1>6, <1>7, <1>8 DEF Next, Work, Done

LEMMA Exactly ==
  ASSUME ResolveInv, phase = "resolve", stack = <<>>
  PROVE  Complete(chosen) /\ NothingMore
<1>1. Frames(stack) = {}
  BY FramesEmpty
<1>2. \A n \in chosen : Expanded(n) => graph[n] \subseteq chosen
  BY <1>1 DEF ResolveInv, Resolving, MissingPending
<1>3. QED BY <1>2 DEF ResolveInv, Resolving, Complete, Expanded

\* checkout.py:343-359 and 443-445: when the outermost call has returned, the
\* set has everything the base and the requests need and nothing else, on
\* every graph and in every order of iteration.
THEOREM Resolution == Spec => []ResolvedExactly
<1>1. ResolveInv => ResolvedExactly
  BY Exactly DEF ResolvedExactly, NothingMore
<1>2. QED BY <1>1, ResolveInit, ResolveStep, PTL DEF Spec

-----------------------------------------------------------------------------
(* The two loops of the main program *)

TypesInv == TypeOK /\ ResolveInv

LEMMA TypeInit == Init => TypeOK
  BY NamesAssumption DEF Init, TypeOK

LEMMA TypeStep == TypesInv /\ [Next]_vars => TypesInv'
<1> SUFFICES ASSUME TypesInv, [Next]_vars PROVE TypeOK' /\ ResolveInv'
  BY DEF TypesInv
<1>1. ResolveInv'
  BY ResolveStep DEF TypesInv
<1>2. /\ graph' = graph /\ svn' = svn /\ git' = git
      /\ graph \in Graphs /\ svn \subseteq Name /\ git \subseteq Name
  BY DEF TypesInv, TypeOK, Next, Work, Done, Request, Return, Resolved, Divided, Finish, Kid, Divide,
         Locate, lists, vars
<1>3. /\ nreq' \in 0 .. Len(Requests) /\ stack' \in Seq(Frame) /\ chosen' \subseteq Name
      /\ phase' # "resolve" => stack' = <<>>
  BY <1>1 DEF ResolveInv, ResolveType
<1>4. /\ phase' \in {"resolve", "divide", "locate", "done"}
      /\ phase' # "resolve" => nreq' = Len(Requests)
  BY DEF TypesInv, TypeOK, Next, Work, Done, Request, Return, Resolved, Divided, Finish, Kid, Divide,
         Locate, vars
<1>5. ASSUME NEW n \in Name PROVE INamesOf(n) \subseteq Name
  BY NamesAssumption DEF INamesOf
<1> DEFINE Names == /\ left' \subseteq Name /\ exported' \subseteq Name
                    /\ fromSvn' \subseteq Name /\ fromGit' \subseteq Name
                    /\ warned' \subseteq Name
<1>6. Names
  <2>1. ASSUME NEW n \in Name, Divide(n) \/ Locate(n) PROVE Names
    BY <2>1, <1>5 DEF Divide, Locate, TypesInv, TypeOK
  <2>2. ASSUME NEW n \in Name, Kid(n) PROVE Names
    BY <2>2 DEF Kid, TypesInv, TypeOK
  <2>3. CASE Request \/ Return \/ Resolved \/ Divided \/ Finish \/ UNCHANGED vars
    BY <2>3 DEF Request, Return, Resolved, Divided, Finish, vars, TypesInv, TypeOK
  <2>4. QED BY <2>1, <2>2, <2>3 DEF Next, Work, Done
<1>7. TypeOK'
  BY <1>2, <1>3, <1>4, <1>6 DEF TypeOK
<1>8. QED BY <1>1, <1>7

\* What the base and the requests need; once it is resolved, a fixed set.
Wanted == {n \in Name : Needed(n)}

Interfaces(V) == UNION {INamesOf(m) : m \in V \cap Gerrit}

\* What is left to check out, and what is exported, when V has been visited.
Kept(V) == Wanted \ ((V \cap Gerrit) \cup Interfaces(V))
Shipped(V) == Interfaces(V) \cup (V \cap Gerrit \cap (svn \cup git))

Located == chosen \ left

Untold == fromSvn = {} /\ fromGit = {} /\ warned = {}

Dividing ==
  /\ phase = "resolve" => exported = {} /\ Untold
  /\ phase = "divide" =>
       /\ left \subseteq Wanted
       /\ chosen = Kept(Wanted \ left) /\ exported = Shipped(Wanted \ left)
       /\ Untold
  /\ phase \in {"locate", "done"} =>
       /\ left \subseteq chosen
       /\ chosen = Kept(Wanted) /\ exported = Shipped(Wanted)
       /\ fromSvn = Located \cap svn
       /\ fromGit = Located \cap (git \ svn)
       /\ warned = Located \ (svn \cup git)
  /\ phase = "done" => left = {}

LEMMA WantedFound ==
  ASSUME TypesInv, phase = "resolve", stack = <<>>
  PROVE  Wanted = chosen
<1>1. Complete(chosen) /\ NothingMore /\ chosen \in SUBSET Name
  BY Exactly DEF TypesInv, ResolveInv, ResolveType
<1>2. QED BY <1>1 DEF Wanted, Needed, NothingMore

LEMMA WantedFixed ==
  ASSUME UNCHANGED <<graph, svn, git, nreq>>
  PROVE  /\ Wanted' = Wanted
         /\ Kept(Wanted)' = Kept(Wanted) /\ Shipped(Wanted)' = Shipped(Wanted)
         /\ \A V : Wanted \ left' = V => /\ Kept(Wanted \ left)' = Kept(V)
                                        /\ Shipped(Wanted \ left)' = Shipped(V)
<1>1. Wanted' = Wanted
  BY DEF Wanted, Needed, Complete, Requested
<1>2. QED BY <1>1 DEF Kept, Shipped, Interfaces, INamesOf

LEMMA DivideStep == TypesInv /\ Dividing /\ [Next]_vars => Dividing'
<1> SUFFICES ASSUME TypesInv, Dividing, [Next]_vars PROVE Dividing'
  OBVIOUS
<1>1. CASE Request \/ Return \/ \E n \in Name : Kid(n)
  <2>1. phase = "resolve"
    BY <1>1 DEF Request, Return, Kid, TypesInv, TypeOK
  <2>2. phase' = "resolve" /\ UNCHANGED <<exported, fromSvn, fromGit, warned>>
    BY <1>1, <2>1 DEF Request, Return, Kid
  <2>3. QED BY <2>1, <2>2 DEF Dividing, Untold
<1>2. CASE Resolved
  <2>1. /\ phase = "resolve" /\ stack = <<>> /\ phase' = "divide" /\ left' = chosen
        /\ UNCHANGED <<graph, svn, git, nreq, chosen, exported, fromSvn, fromGit, warned>>
    BY <1>2 DEF Resolved, lists
  <2>2. Wanted = chosen /\ Wanted' = Wanted
    BY <2>1, WantedFound, WantedFixed
  <2>3. Kept(Wanted \ left)' = Kept({}) /\ Shipped(Wanted \ left)' = Shipped({})
    BY <2>1, <2>2, WantedFixed
  <2>4. Kept({}) = Wanted /\ Shipped({}) = {}
    BY DEF Kept, Shipped, Interfaces
  <2>5. QED BY <2>1, <2>2, <2>3, <2>4 DEF Dividing, Untold
<1>3. ASSUME NEW n \in Name, Divide(n) PROVE Dividing'
  <2> DEFINE V == Wanted \ left
             W == V \cup {n}
  <2>1. /\ phase = "divide" /\ phase' = "divide" /\ n \in left /\ left' = left \ {n}
        /\ UNCHANGED <<graph, svn, git, nreq, fromSvn, fromGit, warned>>
    BY <1>3 DEF Divide, lists
  <2>2. /\ n \in Wanted /\ left \subseteq Wanted /\ Untold
        /\ chosen = Kept(V) /\ exported = Shipped(V)
    BY <2>1 DEF Dividing
  <2>3. Wanted \ left' = W
    BY <2>1, <2>2
  <2>4. left' \subseteq Wanted' /\ Untold'
    BY <2>1, <2>2, WantedFixed DEF Untold
  <2>5. Kept(Wanted \ left)' = Kept(W) /\ Shipped(Wanted \ left)' = Shipped(W)
    BY <2>1, <2>3, WantedFixed
  <2> HIDE DEF V, W
  <2>6. CASE n \in Gerrit
    <3>1. Interfaces(W) = Interfaces(V) \cup INamesOf(n)
      BY <2>6 DEF Interfaces, W
    <3>2. chosen' = (chosen \ INamesOf(n)) \ {n}
      BY <1>3, <2>6 DEF Divide
    <3>3. chosen' = Kept(W)
      BY <2>2, <2>6, <3>1, <3>2 DEF Kept, W
    <3>4. exported' = exported \cup INamesOf(n) \cup
            (IF n \in chosen \ INamesOf(n) /\ n \in svn \cup git THEN {n} ELSE {})
      BY <1>3, <2>6 DEF Divide
    <3>5. n \in chosen \ INamesOf(n) \/ n \in Interfaces(W)
      BY <2>1, <2>2, <2>6, <3>1 DEF Kept, V
    <3>6. exported' = Shipped(W)
      BY <2>2, <2>6, <3>1, <3>4, <3>5 DEF Shipped, W
    <3>7. QED BY <2>1, <2>3, <2>4, <2>5, <3>3, <3>6 DEF Dividing
  <2>7. CASE n \notin Gerrit
    <3>1. W \cap Gerrit = V \cap Gerrit
      BY <2>7 DEF W
    <3>2. chosen' = Kept(W) /\ exported' = Shipped(W)
      BY <1>3, <2>2, <2>7, <3>1 DEF Divide, Kept, Shipped, Interfaces
    <3>3. QED BY <2>1, <2>3, <2>4, <2>5, <3>2 DEF Dividing
  <2>8. QED BY <2>6, <2>7
<1>4. CASE Divided
  <2>1. /\ phase = "divide" /\ left = {} /\ phase' = "locate" /\ left' = chosen
        /\ UNCHANGED <<graph, svn, git, nreq, chosen, exported, fromSvn, fromGit, warned>>
    BY <1>4 DEF Divided, lists
  <2>2. /\ Wanted \ left = Wanted
        /\ Kept(Wanted)' = Kept(Wanted) /\ Shipped(Wanted)' = Shipped(Wanted)
    BY <2>1, WantedFixed
  <2>3. Located' = {}
    BY <2>1 DEF Located
  <2>4. QED BY <2>1, <2>2, <2>3 DEF Dividing, Untold
<1>5. ASSUME NEW n \in Name, Locate(n) PROVE Dividing'
  <2>1. /\ phase = "locate" /\ phase' = "locate" /\ n \in left /\ left' = left \ {n}
        /\ UNCHANGED <<graph, svn, git, nreq, chosen, exported>>
    BY <1>5 DEF Locate, lists
  <2>2. /\ Kept(Wanted)' = Kept(Wanted) /\ Shipped(Wanted)' = Shipped(Wanted)
        /\ left \subseteq chosen /\ Located' = Located \cup {n}
    BY <2>1, WantedFixed DEF Dividing, Located
  <2>3. /\ fromSvn = Located \cap svn /\ fromGit = Located \cap (git \ svn)
        /\ warned = Located \ (svn \cup git)
    BY <2>1 DEF Dividing
  <2>4. /\ fromSvn' = Located' \cap svn /\ fromGit' = Located' \cap (git \ svn)
        /\ warned' = Located' \ (svn \cup git)
    BY <1>5, <2>2, <2>3 DEF Locate
  <2>5. QED BY <2>1, <2>2, <2>4 DEF Dividing
<1>6. CASE Finish
  <2>1. /\ phase = "locate" /\ left = {} /\ phase' = "done"
        /\ UNCHANGED <<graph, svn, git, nreq, chosen, left, exported, fromSvn, fromGit, warned>>
    BY <1>6 DEF Finish, lists
  <2>2. /\ Kept(Wanted)' = Kept(Wanted) /\ Shipped(Wanted)' = Shipped(Wanted)
        /\ Located' = Located
    BY <2>1, WantedFixed DEF Located
  <2>3. QED BY <2>1, <2>2 DEF Dividing
<1>7. CASE UNCHANGED vars
  <2>1. UNCHANGED <<graph, svn, git, nreq, phase, chosen, left, exported, fromSvn, fromGit, warned>>
    BY <1>7 DEF vars, lists
  <2>2. /\ Wanted' = Wanted /\ Located' = Located
        /\ Kept(Wanted)' = Kept(Wanted) /\ Shipped(Wanted)' = Shipped(Wanted)
        /\ Kept(Wanted \ left)' = Kept(Wanted \ left)
        /\ Shipped(Wanted \ left)' = Shipped(Wanted \ left)
    BY <2>1, WantedFixed DEF Located
  <2>3. QED BY <2>1, <2>2 DEF Dividing, Untold
<1>8. QED
  BY <1>1, <1>2, <1>3, <1>4, <1>5, <1>6, <1>7 DEF Next, Work, Done

\* checkout.py:340-527: every variable holds what the program can put there.
THEOREM TypeCorrect == Spec => []TypeOK
<1>1. TypesInv => TypeOK
  BY DEF TypesInv
<1>2. Init => TypesInv
  BY TypeInit, ResolveInit DEF TypesInv
<1>3. QED BY <1>1, <1>2, TypeStep, PTL DEF Spec

\* checkout.py:449-527: for every graph, every gerrit subsystems and lists of
\* externals, what was needed comes from just one place, or is warned of; but a
\* gerrit subsystem in neither list that nobody brings along comes from nowhere,
\* without a warning.
THEOREM Division == Spec => []PlacedOrDropped
<1>1. Dividing => PlacedOrDropped
  <2> SUFFICES ASSUME Dividing, phase = "done", NEW n \in Name, Needed(n)
               PROVE  ComesFrom(n) = IF Dropped(n) THEN {} ELSE {Place(n)}
    BY DEF PlacedOrDropped
  <2>1. /\ Located = Kept(Wanted) /\ exported = Shipped(Wanted)
        /\ fromSvn = Located \cap svn /\ fromGit = Located \cap (git \ svn)
        /\ warned = Located \ (svn \cup git)
    BY DEF Dividing, Located
  <2>2. n \in Interfaces(Wanted) <=> BroughtAlong(n)
    BY NamesAssumption DEF Interfaces, INamesOf, Wanted, BroughtAlong
  <2>3. n \in Wanted
    BY DEF Wanted
  <2>4. /\ n \in exported <=> BroughtAlong(n) \/ (n \in Gerrit /\ n \in svn \cup git)
        /\ n \in Located <=> n \notin Gerrit /\ ~ BroughtAlong(n)
    BY <2>1, <2>2, <2>3 DEF Kept, Shipped
  <2>5. CASE Dropped(n)
    BY <2>1, <2>4, <2>5 DEF ComesFrom, Dropped
  <2>6. CASE BroughtAlong(n) \/ n \in Gerrit \cap (svn \cup git)
    <3>1. ~ Dropped(n) /\ Place(n) = "gerrit"
      BY <2>6 DEF Dropped, Place
    <3>2. ComesFrom(n) = {"gerrit"}
      BY <2>1, <2>4, <2>6 DEF ComesFrom
    <3>3. QED BY <3>1, <3>2
  <2>7. CASE ~ BroughtAlong(n) /\ n \notin Gerrit
    <3>1. /\ ~ Dropped(n)
          /\ n \in svn => Place(n) = "svn"
          /\ n \in git \ svn => Place(n) = "git"
          /\ n \notin svn \cup git => Place(n) = "warning"
      BY <2>7 DEF Dropped, Place
    <3>2. /\ n \in svn => ComesFrom(n) = {"svn"}
          /\ n \in git \ svn => ComesFrom(n) = {"git"}
          /\ n \notin svn \cup git => ComesFrom(n) = {"warning"}
      BY <2>1, <2>4, <2>7 DEF ComesFrom
    <3>3. QED BY <3>1, <3>2
  <2>8. QED BY <2>5, <2>6, <2>7 DEF Dropped
<1>2. Init => TypesInv /\ Dividing
  BY TypeInit, ResolveInit DEF TypesInv, Init, Dividing, Untold
<1>3. QED BY <1>1, <1>2, TypeStep, DivideStep, PTL DEF Spec

-----------------------------------------------------------------------------
(* The recursion and the two loops come to an end *)

\* What is left to do, the most significant first: the stages of the program,
\* requests, unmarked names, active calls, and what the innermost call or the
\* loop has still to visit.
Stage ==
  CASE phase = "resolve" -> 3
    [] phase = "divide" -> 2
    [] phase = "locate" -> 1
    [] phase = "done" -> 0

Unmarked == IF phase = "resolve" THEN Cardinality(Name \ chosen) ELSE 0
InHand == Cardinality(IF stack = <<>> THEN left ELSE Head(stack).kids)

Variant == <<Stage, Len(Requests) - nreq, Unmarked, Len(stack), InHand>>

\* The lexicographical order of five numbers, in which nothing descends for ever.
Smaller == LexProductOrdering(OpToRel(<, Nat), Nat, 5)

LEMMA SmallerWellFounded == IsWellFoundedOn(Smaller, [1 .. 5 -> Nat])
<1>1. 5 \in Nat
  OBVIOUS
<1>2. QED BY <1>1, NatLessThanWellFounded, WFLexProductOrdering DEF Smaller

LEMMA SmallerIf ==
  ASSUME NEW v \in [1 .. 5 -> Nat], NEW w \in [1 .. 5 -> Nat], NEW j \in 1 .. 5,
         \A i \in 1 .. (j - 1) : v[i] = w[i], v[j] < w[j]
  PROVE  <<v, w>> \in Smaller
<1>1. <<v[j], w[j]>> \in OpToRel(<, Nat)
  BY DEF OpToRel
<1>2. QED BY <1>1 DEF Smaller, LexProductOrdering

VariantOK ==
  IsFiniteSet(Name) =>
    /\ Stage \in Nat /\ Unmarked \in Nat /\ InHand \in Nat
    /\ Variant \in [1 .. 5 -> Nat]

LEMMA VariantType == TypesInv => VariantOK
<1> SUFFICES ASSUME IsFiniteSet(Name), TypesInv
             PROVE  /\ Stage \in Nat /\ Unmarked \in Nat /\ InHand \in Nat
                    /\ Variant \in [1 .. 5 -> Nat]
  BY DEF VariantOK
<1>1. /\ phase \in {"resolve", "divide", "locate", "done"}
      /\ Requests \in Seq(Name) /\ nreq \in 0 .. Len(Requests)
      /\ stack \in Seq(Frame) /\ left \subseteq Name
  BY NamesAssumption DEF TypesInv, TypeOK
<1>2. Stage \in Nat /\ Len(Requests) - nreq \in Nat /\ Len(stack) \in Nat
  BY <1>1 DEF Stage
<1>3. \A S \in SUBSET Name : Cardinality(S) \in Nat
  BY FS_Subset, FS_CardinalityType
<1>4. Unmarked \in Nat
  BY <1>3 DEF Unmarked
<1>5. stack # <<>> => Head(stack).kids \subseteq Name
  <2>1. stack # <<>> => Head(stack) \in Frame
    BY <1>1
  <2>2. QED BY <2>1 DEF Frame
<1>6. InHand \in Nat
  BY <1>1, <1>3, <1>5 DEF InHand
<1>7. QED BY <1>2, <1>4, <1>6 DEF Variant

LEMMA VariantTypeNext == TypesInv' => VariantOK'
BY VariantType, PTL

LEMMA WorkDescends ==
  ASSUME IsFiniteSet(Name), TypesInv, TypesInv', Work
  PROVE  <<Variant', Variant>> \in Smaller
<1>1. /\ phase \in {"resolve", "divide", "locate", "done"}
      /\ nreq \in 0 .. Len(Requests) /\ Len(Requests) \in Nat
      /\ stack \in Seq(Frame) /\ left \subseteq Name /\ chosen \subseteq Name
      /\ phase # "resolve" => stack = <<>>
  BY NamesAssumption DEF TypesInv, TypeOK
<1>2. /\ Variant \in [1 .. 5 -> Nat] /\ Variant' \in [1 .. 5 -> Nat]
      /\ Stage \in Nat /\ Unmarked \in Nat /\ Unmarked' \in Nat /\ InHand \in Nat /\ InHand' \in Nat
  BY VariantType, VariantTypeNext DEF VariantOK
<1>3. /\ Variant[1] = Stage /\ Variant[2] = Len(Requests) - nreq /\ Variant[3] = Unmarked
      /\ Variant[4] = Len(stack) /\ Variant[5] = InHand
      /\ Variant'[1] = Stage' /\ Variant'[2] = Len(Requests) - nreq' /\ Variant'[3] = Unmarked'
      /\ Variant'[4] = Len(stack') /\ Variant'[5] = InHand'
  BY DEF Variant
<1> DEFINE Before(j) == \A i \in 1 .. (j - 1) : Variant'[i] = Variant[i]
<1>4. /\ Stage' < Stage => <<Variant', Variant>> \in Smaller
      /\ Stage' = Stage /\ nreq' = nreq + 1 => <<Variant', Variant>> \in Smaller
      /\ Stage' = Stage /\ nreq' = nreq /\ Unmarked' < Unmarked => <<Variant', Variant>> \in Smaller
      /\ Stage' = Stage /\ nreq' = nreq /\ Unmarked' = Unmarked /\ Len(stack') < Len(stack)
           => <<Variant', Variant>> \in Smaller
      /\ Stage' = Stage /\ nreq' = nreq /\ Unmarked' = Unmarked /\ Len(stack') = Len(stack)
         /\ InHand' < InHand
           => <<Variant', Variant>> \in Smaller
  <2>1. \A j \in 1 .. 5 : Before(j) /\ Variant'[j] < Variant[j] => <<Variant', Variant>> \in Smaller
    BY <1>2, SmallerIf
  <2>2. CASE Stage' < Stage
    BY <2>1, <2>2, <1>3
  <2>3. CASE Stage' = Stage /\ nreq' = nreq + 1
    <3>1. Before(2)
      BY <2>3, <1>3
    <3>2. Variant'[2] < Variant[2]
      BY <2>3, <1>1, <1>3
    <3>3. QED BY <3>1, <3>2, <2>1
  <2>4. CASE Stage' = Stage /\ nreq' = nreq /\ Unmarked' < Unmarked
    <3>1. Before(3)
      BY <2>4, <1>3
    <3>2. Variant'[3] < Variant[3]
      BY <2>4, <1>3
    <3>3. QED BY <3>1, <3>2, <2>1
  <2>5. CASE Stage' = Stage /\ nreq' = nreq /\ Unmarked' = Unmarked /\ Len(stack') < Len(stack)
    <3>1. Before(4)
      BY <2>5, <1>3
    <3>2. Variant'[4] < Variant[4]
      BY <2>5, <1>3
    <3>3. QED BY <3>1, <3>2, <2>1
  <2>6. CASE Stage' = Stage /\ nreq' = nreq /\ Unmarked' = Unmarked /\ Len(stack') = Len(stack)
             /\ InHand' < InHand
    <3>1. Before(5)
      BY <2>6, <1>3
    <3>2. Variant'[5] < Variant[5]
      BY <2>6, <1>3
    <3>3. QED BY <3>1, <3>2, <2>1
  <2>7. QED BY <2>2, <2>3, <2>4, <2>5, <2>6
<1> HIDE DEF Before
<1>5. \A S \in SUBSET Name : \A n \in S :
        /\ Cardinality(S) \in Nat /\ Cardinality(S \ {n}) \in Nat
        /\ Cardinality(S \ {n}) < Cardinality(S)
  <2> TAKE S \in SUBSET Name
  <2> TAKE n \in S
  <2>1. IsFiniteSet(S) /\ Cardinality(S) \in Nat
    BY FS_Subset, FS_CardinalityType
  <2>2. IsFiniteSet(S \ {n}) /\ Cardinality(S \ {n}) = Cardinality(S) - 1
    BY <2>1, FS_RemoveElement
  <2>3. Cardinality(S \ {n}) \in Nat
    BY <2>2, FS_CardinalityType
  <2>4. QED BY <2>1, <2>2, <2>3
<1>6. phase' = phase => Stage' = Stage
  BY DEF Stage
<1>7. CASE Request
  BY <1>7, <1>4, <1>6 DEF Request
<1>8. CASE Return
  <2>1. /\ phase' = phase /\ nreq' = nreq /\ chosen' = chosen /\ stack # <<>> /\ stack' = Tail(stack)
    BY <1>8 DEF Return
  <2>2. Len(stack') < Len(stack) /\ Unmarked' = Unmarked
    BY <1>1, <2>1 DEF Unmarked
  <2>3. QED BY <1>4, <1>6, <2>1, <2>2
<1>9. CASE Resolved \/ Divided \/ Finish
  BY <1>9, <1>4 DEF Resolved, Divided, Finish, Stage
<1>10. ASSUME NEW k \in Name, Kid(k) PROVE <<Variant', Variant>> \in Smaller
  <2>1. /\ phase = "resolve" /\ phase' = phase /\ nreq' = nreq /\ stack # <<>> /\ k \in Head(stack).kids
        /\ left' = left
    BY <1>1, <1>10 DEF Kid
  <2>2. /\ Head(stack) \in Frame /\ Tail(stack) \in Seq(Frame) /\ Len(stack) = Len(Tail(stack)) + 1
        /\ Head(stack).kids \subseteq Name
    <3>1. Head(stack) \in Frame /\ Tail(stack) \in Seq(Frame) /\ Len(stack) = Len(Tail(stack)) + 1
      BY <1>1, <2>1
    <3>2. QED BY <3>1 DEF Frame
  <2>3. CASE k \in chosen
    <3>1. stack' = <<Drop(k)>> \o Tail(stack) /\ chosen' = chosen
      BY <1>10, <2>3 DEF Kid
    <3>2. Drop(k) \in Frame /\ Drop(k).kids = Head(stack).kids \ {k}
      BY <2>2 DEF Drop, Frame
    <3> HIDE DEF Drop
    <3>3. Len(stack') = Len(stack) /\ stack' # <<>> /\ Head(stack') = Drop(k)
      BY <2>2, <3>1, <3>2
    <3>4. InHand' < InHand
      BY <1>5, <2>1, <2>2, <3>2, <3>3 DEF InHand
    <3>5. Unmarked' = Unmarked
      BY <2>1, <3>1 DEF Unmarked
    <3>6. QED BY <1>4, <1>6, <2>1, <3>3, <3>4, <3>5
  <2>4. CASE k \notin chosen
    <3>1. chosen' = chosen \cup {k}
      BY <1>10, <2>4 DEF Kid
    <3>2. Name \ chosen' = (Name \ chosen) \ {k} /\ k \in Name \ chosen
      BY <2>4, <3>1
    <3>3. Unmarked' < Unmarked
      BY <1>5, <2>1, <3>2 DEF Unmarked
    <3>4. QED BY <1>4, <1>6, <2>1, <3>3
  <2>5. QED BY <2>3, <2>4
<1>11. ASSUME NEW n \in Name, Divide(n) \/ Locate(n) PROVE <<Variant', Variant>> \in Smaller
  <2>1. /\ phase # "resolve" /\ phase' = phase /\ nreq' = nreq /\ stack' = stack
        /\ n \in left /\ left' = left \ {n}
    BY <1>11 DEF Divide, Locate
  <2>2. stack = <<>> /\ Unmarked = 0 /\ Unmarked' = 0
    BY <1>1, <2>1 DEF Unmarked
  <2>3. InHand' < InHand
    BY <1>1, <1>5, <2>1, <2>2 DEF InHand
  <2>4. QED BY <1>4, <1>6, <2>1, <2>2, <2>3
<1>12. QED BY <1>7, <1>8, <1>9, <1>10, <1>11 DEF Work

\* checkout.py:343-359, 449-527: every step the program takes, on whatever graph
\* and with however many requests, leaves less to do in an order in which
\* nothing descends for ever: it takes finitely many.
THEOREM Descent ==
  ASSUME IsFiniteSet(Name)
  PROVE  /\ IsWellFoundedOn(Smaller, [1 .. 5 -> Nat])
         /\ Spec => [][Work => <<Variant', Variant>> \in Smaller]_vars
<1>1. Init => TypesInv
  BY TypeInit, ResolveInit DEF TypesInv
<1>2. TypesInv /\ TypesInv' /\ Work => <<Variant', Variant>> \in Smaller
  BY WorkDescends
<1>3. Spec => [][Work => <<Variant', Variant>> \in Smaller]_vars
  BY <1>1, <1>2, TypeStep, PTL DEF Spec
<1>4. QED BY <1>3, SmallerWellFounded
=============================================================================
