--------------------------- MODULE CompileProofs ---------------------------
(***************************************************************************)
(* Theorems about Compile, for every number of modules and tokens, every   *)
(* list of dependencies and every content of the workspace.                *)
(***************************************************************************)
EXTENDS Compile, FiniteSetTheorems, WellFoundedInduction, TLAPS

Subs(q) == {q[i].sub : i \in DOMAIN q}

\* The last line of q about module m, if there is one, names version v.
EndsOn(q, m, v) ==
  On(q, m) # {} => \E i \in On(q, m) : q[i].ver = v /\ \A k \in On(q, m) : k <= i

Switching == {"switch", "switchHead", "run", "check"}
Finished == {"group", "depends", "rev"} \cup Switching
AfterPools == {"ownFetch", "ownHead"} \cup Finished

Types ==
  /\ phase \in Pool \cup AfterPools \cup {"env", "exited"}
  /\ job = [p \in Pool |-> job[p]]
  /\ job["code"] = [i \in Mod |-> job["code"][i]]
  /\ head \in [Mod -> Version] /\ fetched \in [Mod -> Version]
  /\ lines \in Seq(Line) /\ todo \in Seq(Line) /\ rev \in Seq(RevLine)

\* A job may change a HEAD only while its pool runs.
Idle ==
  phase \in AfterPools => \A i \in Mod : job["code"][i] \in {"none", "ended"}

\* While the dependencies are visited, each is on rev.txt or still to visit.
Visited ==
  /\ phase \in Switching => /\ Subs(rev) \cup Subs(todo) = Subs(lines) \cup {Own}
                            /\ Subs(todo) \subseteq Subs(lines)
  /\ phase \in {"run", "check"} => todo = <<>>

\* Between fetch and checkout of a dependency there is one.
Here == phase = "switchHead" => todo # <<>> /\ Head(todo).sub # Nothing

LastTrue == phase \in Switching => \A m \in Mod : EndsOn(rev, m, head[m])

CopyTrue ==
  phase \in Finished =>
    product = head[Product] \/ (phase \in Switching /\ Product \in Subs(lines))

FilesInv == Types /\ Idle /\ Here /\ Visited /\ LastTrue /\ CopyTrue

-----------------------------------------------------------------------------
(* Lists of lines *)

LEMMA SubsOn ==
  ASSUME NEW q, NEW m
  PROVE  On(q, m) # {} <=> m \in Subs(q)
BY DEF On, Subs

LEMMA SubsHead ==
  ASSUME NEW q \in Seq(Line), q # <<>>
  PROVE  /\ Head(q) \in Line /\ Tail(q) \in Seq(Line)
         /\ Subs(q) = {Head(q).sub} \cup Subs(Tail(q))
<1>1. Head(q) \in Line /\ Tail(q) \in Seq(Line) /\ Len(q) \in Nat /\ Len(q) > 0
  OBVIOUS
<1>2. Head(q) = q[1] /\ Len(Tail(q)) = Len(q) - 1
      /\ \A i \in 1 .. Len(Tail(q)) : Tail(q)[i] = q[i + 1]
  OBVIOUS
<1>3. DOMAIN q = 1 .. Len(q) /\ DOMAIN Tail(q) = 1 .. Len(Tail(q))
  BY <1>1
<1>4. ASSUME NEW i \in DOMAIN q
      PROVE  q[i].sub \in {Head(q).sub} \cup Subs(Tail(q))
  <2>1. CASE i = 1
    BY <2>1, <1>2
  <2>2. CASE i # 1
    <3>1. i - 1 \in DOMAIN Tail(q) /\ Tail(q)[i - 1] = q[i]
      BY <2>2, <1>1, <1>2, <1>3
    <3>2. QED BY <3>1 DEF Subs
  <2>3. QED BY <2>1, <2>2
<1>5. ASSUME NEW i \in DOMAIN Tail(q)
      PROVE  Tail(q)[i].sub \in Subs(q)
  <2>1. i + 1 \in DOMAIN q /\ Tail(q)[i] = q[i + 1]
    BY <1>1, <1>2, <1>3
  <2>2. QED BY <2>1 DEF Subs
<1>6. Head(q).sub \in Subs(q)
  BY <1>1, <1>2, <1>3 DEF Subs
<1>7. Subs(q) = {Head(q).sub} \cup Subs(Tail(q))
  BY <1>4, <1>5, <1>6 DEF Subs
<1>8. QED BY <1>1, <1>7

\* What a further line changes.
LEMMA Appended ==
  ASSUME NEW q \in Seq(RevLine), NEW x \in RevLine
  PROVE  /\ Append(q, x) \in Seq(RevLine)
         /\ Subs(Append(q, x)) = Subs(q) \cup {x.sub}
         /\ EndsOn(Append(q, x), x.sub, x.ver)
         /\ \A m, v : m # x.sub /\ EndsOn(q, m, v) => EndsOn(Append(q, x), m, v)
<1> DEFINE r == Append(q, x)
<1>1. /\ Len(q) \in Nat /\ DOMAIN q = 1 .. Len(q) /\ DOMAIN r = 1 .. Len(q) + 1
      /\ r \in Seq(RevLine)
  OBVIOUS
<1>2. r[Len(q) + 1] = x /\ \A i \in 1 .. Len(q) : r[i] = q[i]
  OBVIOUS
<1> HIDE DEF r
<1>3. Subs(r) = Subs(q) \cup {x.sub}
  BY <1>1, <1>2 DEF Subs
<1>4. On(r, x.sub) = On(q, x.sub) \cup {Len(q) + 1}
  BY <1>1, <1>2 DEF On
<1>5. EndsOn(r, x.sub, x.ver)
  <2>1. \A k \in On(r, x.sub) : k <= Len(q) + 1
    BY <1>1 DEF On
  <2>2. QED BY <1>2, <1>4, <2>1 DEF EndsOn
<1>6. ASSUME NEW m, NEW v, m # x.sub, EndsOn(q, m, v)
      PROVE  EndsOn(r, m, v)
  <2>1. On(r, m) = On(q, m)
    BY <1>1, <1>2, <1>6 DEF On
  <2>2. \A i \in On(q, m) : r[i] = q[i]
    BY <1>1, <1>2 DEF On
  <2>3. QED BY <1>6, <2>1, <2>2 DEF EndsOn
<1>7. QED BY <1>1, <1>3, <1>5, <1>6 DEF r

\* EndsOn says of LastOn what RevTrue does.
LEMMA EndsOnLast ==
  ASSUME NEW q \in Seq(RevLine), NEW m, NEW v, EndsOn(q, m, v), On(q, m) # {}
  PROVE  LastOn(q, m).ver = v
<1>1. PICK i \in On(q, m) : q[i].ver = v /\ \A k \in On(q, m) : k <= i
  BY DEF EndsOn
<1> DEFINE c == CHOOSE j \in On(q, m) : \A k \in On(q, m) : k <= j
<1>2. c \in On(q, m) /\ \A k \in On(q, m) : k <= c
  BY <1>1
<1>3. On(q, m) \subseteq Nat
  BY DEF On
<1>4. c = i
  BY <1>1, <1>2, <1>3
<1>5. LastOn(q, m) = q[c]
  BY DEF LastOn
<1>6. QED BY <1>1, <1>4, <1>5

-----------------------------------------------------------------------------
(* The initial states and the steps *)

LEMMA Constants ==
  /\ Own \in Mod /\ Product \in Mod /\ Nothing \notin Mod
  /\ ConfigRef \in [Mod -> Ref] /\ Change \in Ref
  /\ Groups \subseteq Seq(Line) /\ Depends \in [Version -> Seq(Line)]
  /\ Ref \subseteq Version /\ "none" \in Version /\ "old" \in Version
BY CompileAssumption DEF Mod, Nothing, Version

LEMMA FilesInit == Init => FilesInv
<1> SUFFICES ASSUME Init PROVE FilesInv
  OBVIOUS
<1>1. Types
  <2>1. /\ job = [p \in Pool |-> job[p]]
        /\ job["code"] = [i \in Mod |-> job["code"][i]]
    BY DEF Init, Pool, Items
  <2>2. head \in [Mod -> Version]
    BY Constants DEF Init
  <2>3. lines \in Seq(Line) /\ todo \in Seq(Line) /\ rev \in Seq(RevLine)
    BY DEF Init
  <2>4. phase = "env" /\ fetched = head
    BY DEF Init
  <2>5. QED BY <2>1, <2>2, <2>3, <2>4 DEF Types
<1>2. Idle /\ Here /\ Visited /\ LastTrue /\ CopyTrue
  BY DEF Init, Idle, Here, Visited, LastTrue, CopyTrue, AfterPools, Finished, Switching
<1>3. QED BY <1>1, <1>2 DEF FilesInv

LEMMA FetchTypes ==
  ASSUME Types, NEW m \in Mod, NEW v \in Version, TryFetch(m, v)
  PROVE  fetched' \in [Mod -> Version]
BY Constants DEF Types, TryFetch

LEMMA HeadTypes ==
  ASSUME Types, NEW m \in Mod
  PROVE  FetchHead(m) \in Version
BY DEF Types, FetchHead

\* The jobs write no file, and a job that is idle stays so.
LEMMA JobStep ==
  ASSUME FilesInv, NEW p \in Pool, NEW i \in Items(p), Job(p, i)
  PROVE  FilesInv'
<1> USE DEF FilesInv
<1>1. /\ UNCHANGED <<phase, files, product>>
      /\ \E w \in {"head", "token", "ended"} : job' = [job EXCEPT ![p][i] = w]
  BY DEF Job, Foreign, ConfigFetch, ConfigHead, PutBack, Advance, files
<1>2. \/ UNCHANGED <<fetched, head>>
      \/ /\ p = "code" /\ job["code"][i] \in {"fetch", "head"} /\ i \in Mod
         /\ fetched' \in [Mod -> Version] /\ head' \in [Mod -> Version]
  <2>1. CASE p = "code" /\ ConfigFetch(i)
    BY <2>1, Constants, FetchTypes DEF ConfigFetch, Items, Types
  <2>2. CASE p = "code" /\ ConfigHead(i)
    BY <2>2, HeadTypes DEF ConfigHead, Items, Types
  <2>3. CASE Foreign(i) \/ PutBack(p, i)
    BY <2>3 DEF Foreign, PutBack, repos
  <2>4. QED BY <2>1, <2>2, <2>3 DEF Job
<1>3. Types'
  <2>1. job' = [q \in Pool |-> job'[q]]
    BY <1>1 DEF Types
  <2>2. job'["code"] = [k \in Mod |-> job'["code"][k]]
    BY <1>1 DEF Types, Pool, Items
  <2>3. QED BY <1>1, <1>2, <2>1, <2>2 DEF Types, files
<1>4. Idle'
  <2> SUFFICES ASSUME phase' \in AfterPools, NEW k \in Mod
               PROVE  job'["code"][k] \in {"none", "ended"}
    BY DEF Idle
  <2>1. job["code"][k] \in {"none", "ended"}
    BY <1>1 DEF Idle
  <2>2. CASE p = "code" /\ i = k
    <3>1. PutBack(p, i)
      BY <2>1, <2>2 DEF Job, ConfigFetch, ConfigHead
    <3>2. QED BY <3>1, <2>1, <2>2 DEF PutBack
  <2>3. CASE p # "code" \/ i # k
    <3>1. job'["code"][k] = job["code"][k]
      BY <1>1, <2>3 DEF Types, Pool
    <3>2. QED BY <3>1, <2>1
  <2>4. QED BY <2>2, <2>3
<1>5. phase \in AfterPools => UNCHANGED head
  BY <1>2 DEF Idle
<1>6. Here' /\ Visited' /\ LastTrue' /\ CopyTrue'
  BY <1>1, <1>5 DEF Here, Visited, LastTrue, CopyTrue, files, AfterPools, Finished, EndsOn
<1>7. QED BY <1>3, <1>4, <1>6

\* A step of the script before the dependencies are known.
LEMMA EarlyStep ==
  ASSUME FilesInv,
         \/ CheckEnvFails \/ CheckEnv \/ Wait \/ OwnFetch \/ OwnHead
         \/ Group \/ Depend \/ Listed \/ NoTemplate \/ Run \/ CheckResult
         \/ \E i \in Mod \cup Items("foreign") : Start(i)
  PROVE  FilesInv'
<1> USE DEF FilesInv
<1>1. CASE CheckEnvFails \/ CheckEnv \/ NoTemplate \/ CheckResult
  BY <1>1 DEF CheckEnvFails, CheckEnv, NoTemplate, CheckResult, Types, Idle, Here, Visited,
     LastTrue, CopyTrue, Pool, AfterPools, Finished, Switching, repos, files, pool
<1>2. CASE Run
  BY <1>2 DEF Run, Types, Idle, Here, Visited, LastTrue, CopyTrue, Pool, AfterPools,
     Finished, Switching, repos, files, pool, EndsOn
<1>3. CASE Wait
  BY <1>3 DEF Wait, Types, Idle, Here, Visited, LastTrue, CopyTrue, Pool, AfterPools,
     Finished, Switching, repos, files, Items
<1>4. CASE OwnFetch
  <2>1. fetched' \in [Mod -> Version]
    BY <1>4, Constants, FetchTypes DEF OwnFetch
  <2>2. QED BY <1>4, <2>1 DEF OwnFetch, Types, Idle, Here, Visited, LastTrue, CopyTrue,
     Pool, AfterPools, Finished, Switching, files, pool
<1>5. CASE OwnHead
  BY <1>5, Constants, HeadTypes DEF OwnHead, Types, Idle, Here, Visited, LastTrue, CopyTrue,
     Pool, AfterPools, Finished, Switching, files, pool
<1>6. CASE Group
  <2>1. lines' \in Seq(Line)
    BY <1>6, Constants DEF Group
  <2>2. Depends[head[Own]] \in Seq(Line)
    BY Constants DEF Types
  <2>3. todo' \in Seq(Line)
    BY <1>6, <2>2 DEF Group, Types
  <2>4. phase = "group" /\ phase' \in {"rev", "depends"}
        /\ UNCHANGED <<job, head, fetched, product, rev>>
    BY <1>6 DEF Group, pool, repos
  <2>5. QED BY <2>1, <2>3, <2>4 DEF Types, Idle, Here, Visited, LastTrue, CopyTrue, Pool,
     AfterPools, Finished, Switching
<1>7. CASE Depend
  <2>1. Head(todo) \in Line /\ Tail(todo) \in Seq(Line)
    BY <1>7, SubsHead DEF Depend, Types
  <2>2. PICK sub \in {Head(todo).sub, Nothing} :
          lines' = Append(lines, [Head(todo) EXCEPT !.sub = sub])
    BY <1>7 DEF Depend
  <2>3. [Head(todo) EXCEPT !.sub = sub] \in Line
    BY <2>1, <2>2 DEF Line
  <2>4. lines' \in Seq(Line)
    BY <2>2, <2>3 DEF Types
  <2>5. QED BY <1>7, <2>1, <2>4 DEF Depend, Types, Idle, Here, Visited, LastTrue, CopyTrue,
     Pool, AfterPools, Finished, Switching, repos, pool
<1>8. CASE Listed
  BY <1>8 DEF Listed, Types, Idle, Here, Visited, LastTrue, CopyTrue, Pool, AfterPools,
     Finished, Switching, repos, files, pool
<1>9. CASE \E i \in Mod \cup Items("foreign") : Start(i)
  <2>1. /\ phase \in Pool
        /\ UNCHANGED <<phase, product, head, fetched, files>>
        /\ \E i, w : job' = [job EXCEPT ![phase][i] = w]
    BY <1>9 DEF Start, repos
  <2>2. phase \notin AfterPools
    BY <2>1 DEF Pool, AfterPools, Finished, Switching
  <2>3. QED BY <2>1, <2>2 DEF Types, Idle, Here, Visited, LastTrue, CopyTrue, Pool,
     AfterPools, Finished, files
<1>10. QED
  BY <1>1, <1>2, <1>3, <1>4, <1>5, <1>6, <1>7, <1>8, <1>9

\* The line of the subsystem comes first on rev.txt.
LEMMA OwnRevStep ==
  ASSUME FilesInv, OwnRev
  PROVE  FilesInv'
<1> USE DEF FilesInv
<1> DEFINE x == RevOf(Own, Change, head)
<1>1. /\ phase = "rev" /\ phase' = "switch"
      /\ rev' = <<x>> /\ todo' = lines /\ lines' = lines
      /\ UNCHANGED <<job, head, fetched, product>>
  BY DEF OwnRev, pool, repos
<1>2. x \in RevLine /\ x.sub = Own /\ x.ver = head[Own]
  BY Constants DEF RevOf, RevLine, Types
<1> HIDE DEF x
<1>3. rev' \in Seq(RevLine) /\ DOMAIN rev' = {1} /\ rev'[1] = x
  BY <1>1, <1>2
<1>4. Subs(rev') = {Own}
  BY <1>2, <1>3 DEF Subs
<1>5. Visited'
  BY <1>1, <1>4 DEF Visited, Subs
<1>6. LastTrue'
  <2> SUFFICES ASSUME NEW m \in Mod, On(rev', m) # {}
               PROVE  \E i \in On(rev', m) :
                        rev'[i].ver = head[m] /\ \A k \in On(rev', m) : k <= i
    BY <1>1 DEF LastTrue, EndsOn, On
  <2>1. On(rev', m) = {1} /\ m = Own
    BY <1>2, <1>3 DEF On
  <2>2. QED BY <2>1, <1>2, <1>3
<1>7. Types' /\ Idle' /\ Here' /\ CopyTrue'
  BY <1>1, <1>3 DEF Types, Idle, Here, CopyTrue, AfterPools, Finished, Switching, Pool
<1>8. QED BY <1>5, <1>6, <1>7

\* What SwitchNothing and SwitchHead have in common: a line is written for the
\* dependency that is visited, with the HEAD its module has from now on.
LEMMA VisitStep ==
  ASSUME FilesInv, phase \in {"switch", "switchHead"}, phase' = "switch", todo # <<>>,
         NEW x \in RevLine, x.sub = Head(todo).sub,
         rev' = Append(rev, x), todo' = Tail(todo), lines' = lines,
         UNCHANGED <<job, fetched, product>>, head' \in [Mod -> Version],
         x.sub \in Mod => x.ver = head'[x.sub],
         \A m \in Mod : m # x.sub => head'[m] = head[m]
  PROVE  FilesInv'
<1> USE DEF FilesInv
<1>1. /\ Head(todo) \in Line /\ Tail(todo) \in Seq(Line)
      /\ Subs(todo) = {x.sub} \cup Subs(Tail(todo))
  BY SubsHead DEF Types
<1>2. /\ rev' \in Seq(RevLine) /\ Subs(rev') = Subs(rev) \cup {x.sub}
      /\ EndsOn(rev', x.sub, x.ver)
      /\ \A m, v : m # x.sub /\ EndsOn(rev, m, v) => EndsOn(rev', m, v)
  BY Appended DEF Types
<1>3. Types' /\ Idle' /\ Here'
  BY <1>1, <1>2 DEF Types, Idle, Here, AfterPools, Finished, Switching, Pool
<1>4. Visited'
  <2>1. Subs(rev) \cup Subs(todo) = Subs(lines) \cup {Own}
        /\ Subs(todo) \subseteq Subs(lines)
    BY DEF Visited, Switching
  <2>2. /\ Subs(rev') \cup Subs(todo') = Subs(lines') \cup {Own}
        /\ Subs(todo') \subseteq Subs(lines')
    BY <1>1, <1>2, <2>1
  <2>3. QED BY <2>2 DEF Visited
<1>5. LastTrue'
  <2> SUFFICES ASSUME NEW m \in Mod PROVE EndsOn(rev', m, head'[m])
    BY DEF LastTrue, EndsOn
  <2>1. EndsOn(rev, m, head[m])
    BY DEF LastTrue, Switching
  <2>2. CASE m = x.sub
    BY <2>2, <1>2
  <2>3. CASE m # x.sub
    BY <2>1, <2>3, <1>2
  <2>4. QED BY <2>2, <2>3
<1>6. CopyTrue'
  <2>1. product = head[Product] \/ Product \in Subs(lines)
    BY DEF CopyTrue, Finished, Switching
  <2>2. CASE Product = x.sub
    <3>1. Product \in Subs(lines)
      BY <1>1, <2>2 DEF Visited, Switching
    <3>2. QED BY <3>1 DEF CopyTrue, Switching
  <2>3. CASE Product # x.sub
    BY <2>1, <2>3, Constants DEF CopyTrue, Switching
  <2>4. QED BY <2>2, <2>3
<1>7. QED BY <1>3, <1>4, <1>5, <1>6

LEMMA SwitchStep ==
  ASSUME FilesInv, SwitchNothing \/ SwitchFetch \/ SwitchHead \/ Switched
  PROVE  FilesInv'
<1> USE DEF FilesInv
<1> DEFINE d == Head(todo)
<1>1. todo # <<>> => d \in Line
  BY SubsHead DEF Types
<1>2. CASE SwitchNothing
  <2> DEFINE x == [sub |-> Nothing, ref |-> d.ref, ver |-> "none"]
  <2>1. x \in RevLine /\ x.sub = d.sub
    BY <1>1, <1>2, Constants DEF SwitchNothing, Line, RevLine
  <2>2. x.sub \notin Mod
    BY Constants
  <2>3. /\ phase = "switch" /\ phase' = "switch" /\ todo # <<>>
        /\ rev' = Append(rev, x) /\ todo' = Tail(todo) /\ lines' = lines
        /\ UNCHANGED <<job, fetched, product, head>>
    BY <1>2 DEF SwitchNothing, pool, repos
  <2>4. head' \in [Mod -> Version]
    BY <2>3 DEF Types
  <2> HIDE DEF x
  <2>5. QED BY <2>1, <2>2, <2>3, <2>4, VisitStep
<1>3. CASE SwitchFetch
  <2>1. fetched' \in [Mod -> Version]
    <3>1. d.sub \in Mod /\ d.ref \in Version
      BY <1>1, <1>3, Constants DEF SwitchFetch, Line, Nothing
    <3>2. QED BY <1>3, <3>1, FetchTypes DEF SwitchFetch
  <2>2. /\ phase = "switch" /\ phase' = "switchHead"
        /\ todo # <<>> /\ Head(todo).sub # Nothing
        /\ UNCHANGED <<job, head, product, files>>
    BY <1>3 DEF SwitchFetch, pool
  <2>3. QED BY <2>1, <2>2 DEF Types, Idle, Here, Visited, LastTrue, CopyTrue, AfterPools,
     Finished, Switching, Pool, files, EndsOn
<1>4. CASE SwitchHead
  <2> DEFINE x == RevOf(d.sub, d.ref, head')
  <2>1. phase = "switchHead" /\ todo # <<>> /\ d.sub \in Mod /\ d.ref \in Ref
    BY <1>1, <1>4 DEF SwitchHead, Here, Line, Nothing
  <2>2. /\ phase' = "switch" /\ todo' = Tail(todo) /\ lines' = lines
        /\ rev' = Append(rev, x) /\ head' = [head EXCEPT ![d.sub] = FetchHead(d.sub)]
        /\ UNCHANGED <<job, fetched, product>>
    BY <1>4 DEF SwitchHead, pool
  <2>3. /\ head' \in [Mod -> Version]
        /\ \A m \in Mod : m # d.sub => head'[m] = head[m]
    BY <2>1, <2>2, HeadTypes DEF Types
  <2>4. x \in RevLine /\ x.sub = d.sub /\ x.ver = head'[x.sub]
    BY <2>1, <2>3 DEF RevOf, RevLine
  <2> HIDE DEF x
  <2>5. QED BY <2>1, <2>2, <2>3, <2>4, VisitStep
<1>5. CASE Switched
  BY <1>5 DEF Switched, Types, Idle, Here, Visited, LastTrue, CopyTrue, AfterPools,
     Finished, Switching, Pool, files, pool, repos, EndsOn
<1>6. QED BY <1>2, <1>3, <1>4, <1>5

LEMMA FilesStep == FilesInv /\ [Next]_vars => FilesInv'
<1> SUFFICES ASSUME FilesInv, [Next]_vars PROVE FilesInv'
  OBVIOUS
<1>1. CASE \E p \in Pool : \E i \in Items(p) : Job(p, i)
  BY <1>1, JobStep
<1>2. CASE Script
  BY <1>2, EarlyStep, OwnRevStep, SwitchStep DEF Script
<1>3. CASE UNCHANGED vars
  BY <1>3 DEF FilesInv, Types, Idle, Here, Visited, LastTrue, CopyTrue, EndsOn,
     vars, pool, repos, files
<1>4. QED BY <1>1, <1>2, <1>3 DEF Next, Ended

LEMMA FilesAlways == Spec => []FilesInv
<1>1. Init => FilesInv
  BY FilesInit
<1>2. FilesInv /\ [Next]_vars => FilesInv'
  BY FilesStep
<1>3. QED BY <1>1, <1>2, PTL DEF Spec

-----------------------------------------------------------------------------
(* What is compiled is what the build should have of each module *)

Word == {"none", "checkout", "fetch", "head", "token", "ended"}

BuildTypes ==
  /\ kind \in [task : Tasks, cloud : Cloud, merged : Merged]
  /\ config \subseteq Mod
  /\ left \subseteq Items("foreign") \cup Mod
  /\ tokens \in Nat
  /\ \A p \in Pool : job[p] \in [Items(p) -> Word]
  /\ repo \subseteq Mod
  /\ failed \subseteq Mod \X Ref
  /\ product \in Version
  /\ outcome \in Outcome

\* v is module m's version in h, or the fetch of it failed.
Got(h, m, v) == h[m] = v \/ <<m, v>> \in failed

\* The configured modules are started one by one, and all have ended before the
\* version under test is fetched.
PoolLeft ==
  /\ phase \in {"env", "foreign"} => \A m \in Mod : job["code"][m] = "none"
  /\ phase = "code" =>
       /\ left \subseteq config
       /\ \A m \in Mod : job["code"][m] = "none" <=> m \notin config \ left
  /\ phase \in AfterPools =>
       \A m \in Mod : job["code"][m] = "ended" <=> m \in config
  /\ phase # "code" => \A m \in Mod : job["code"][m] \in {"none", "ended"}

Configured ==
  \A m \in Mod :
    /\ job["code"][m] = "head" => Got(fetched, m, ConfigRef[m])
    /\ job["code"][m] \in {"token", "ended"} /\ phase \in {"code", "ownFetch", "ownHead"} =>
         Got(head, m, ConfigRef[m])

\* What a module should be on before the dependencies are switched.
Base(m) ==
  IF m = Own THEN {Change} ELSE IF m \in config THEN {ConfigRef[m]} ELSE {}

Based ==
  /\ phase = "ownHead" => Got(fetched, Own, Change)
  /\ phase \in {"group", "depends", "rev"} =>
       \A m \in Mod : \A v \in Base(m) : Got(head, m, v)

\* What is still to visit are the last lines of dependency.txt; the modules that
\* are not among them are on their versions.
IsRest(t, q) ==
  Len(t) <= Len(q) /\ \A i \in 1 .. Len(t) : t[i] = q[Len(q) - Len(t) + i]

Switches ==
  /\ phase = "switchHead" => Got(fetched, Head(todo).sub, Head(todo).ref)
  /\ phase \in Switching =>
       /\ IsRest(todo, lines)
       /\ \A m \in Mod \ Subs(todo) : \A v \in Wanted(m) : Got(head, m, v)

WantedInv ==
  FilesInv /\ BuildTypes /\ PoolLeft /\ Configured /\ Based /\ Switches

LEMMA WantedBase ==
  ASSUME NEW m
  PROVE  Wanted(m) = IF m \in Subs(lines) THEN {LastOn(lines, m).ref} ELSE Base(m)
BY SubsOn DEF Wanted, Base

LEMMA RestTail ==
  ASSUME NEW q \in Seq(Line), NEW t \in Seq(Line), t # <<>>, IsRest(t, q)
  PROVE  IsRest(Tail(t), q)
<1>1. /\ Len(q) \in Nat /\ Len(t) \in Nat /\ Len(t) > 0 /\ Len(Tail(t)) = Len(t) - 1
      /\ \A i \in 1 .. Len(t) - 1 : Tail(t)[i] = t[i + 1]
  OBVIOUS
<1>2. Len(Tail(t)) <= Len(q)
  BY <1>1 DEF IsRest
<1>3. ASSUME NEW i \in 1 .. Len(Tail(t))
      PROVE  Tail(t)[i] = q[Len(q) - Len(Tail(t)) + i]
  <2>1. i + 1 \in 1 .. Len(t) /\ Tail(t)[i] = t[i + 1]
    BY <1>1
  <2>2. t[i + 1] = q[Len(q) - Len(t) + (i + 1)]
    BY <2>1 DEF IsRest
  <2>3. Len(q) - Len(t) + (i + 1) = Len(q) - Len(Tail(t)) + i
    BY <1>1, <2>1
  <2>4. QED BY <2>1, <2>2, <2>3
<1>4. QED BY <1>2, <1>3 DEF IsRest

\* A line after which its module does not come again is its last.
LEMMA RestLast ==
  ASSUME NEW q \in Seq(Line), NEW t \in Seq(Line), t # <<>>, IsRest(t, q),
         Head(t).sub \notin Subs(Tail(t))
  PROVE  LastOn(q, Head(t).sub) = Head(t) /\ Head(t).sub \in Subs(q)
<1> DEFINE m == Head(t).sub
           c == Len(q) - Len(t) + 1
<1>1. /\ Len(q) \in Nat /\ Len(t) \in Nat /\ Len(t) > 0 /\ Len(t) <= Len(q)
      /\ DOMAIN q = 1 .. Len(q) /\ DOMAIN Tail(t) = 1 .. Len(t) - 1 /\ Head(t) = t[1]
      /\ \A i \in 1 .. Len(t) - 1 : Tail(t)[i] = t[i + 1]
  BY DEF IsRest
<1>2. c \in 1 .. Len(q) /\ q[c] = Head(t)
  BY <1>1 DEF IsRest
<1>3. c \in On(q, m)
  BY <1>1, <1>2 DEF On
<1>4. ASSUME NEW k \in On(q, m) PROVE k <= c
  <2>1. k \in 1 .. Len(q) /\ q[k].sub = m
    BY <1>1 DEF On
  <2> SUFFICES ASSUME k > c PROVE FALSE
    BY <1>2, <2>1
  <2> DEFINE i == k - c
  <2>2. i \in 1 .. Len(t) - 1 /\ i + 1 \in 1 .. Len(t)
    BY <1>1, <2>1
  <2>3. t[i + 1] = q[Len(q) - Len(t) + (i + 1)]
    BY <2>2 DEF IsRest
  <2>4. Len(q) - Len(t) + (i + 1) = k
    BY <1>1, <2>1
  <2>5. Tail(t)[i].sub = m
    BY <1>1, <2>1, <2>2, <2>3, <2>4
  <2>6. QED BY <1>1, <2>2, <2>5 DEF Subs
<1>5. On(q, m) \subseteq Nat
  BY DEF On
<1> DEFINE last == CHOOSE i \in On(q, m) : \A k \in On(q, m) : k <= i
<1>6. last \in On(q, m) /\ \A k \in On(q, m) : k <= last
  BY <1>3, <1>4
<1>7. last = c
  BY <1>2, <1>3, <1>4, <1>5, <1>6
<1>8. LastOn(q, m) = q[last]
  BY DEF LastOn
<1>9. QED BY <1>1, <1>2, <1>7, <1>8 DEF Subs

LEMMA WantedInit == Init => WantedInv
<1> SUFFICES ASSUME Init PROVE WantedInv
  OBVIOUS
<1>1. FilesInv
  BY FilesInit
<1>2. BuildTypes
  <2>1. config \subseteq Mod /\ repo \subseteq Mod
    BY CompileAssumption DEF Init
  <2>2. \A p \in Pool : job[p] \in [Items(p) -> Word]
    BY DEF Init, Word
  <2>3. tokens \in Nat
    BY CompileAssumption DEF Init
  <2>4. product \in Version
    BY Constants DEF Init
  <2>5. outcome \in Outcome
    BY DEF Init, Outcome
  <2>6. QED BY <2>1, <2>2, <2>3, <2>4, <2>5 DEF Init, BuildTypes
<1>3. PoolLeft /\ Configured /\ Based /\ Switches
  BY DEF Init, PoolLeft, Configured, Based, Switches, Pool, Items, AfterPools, Finished, Switching
<1>4. QED BY <1>1, <1>2, <1>3 DEF WantedInv

\* git fetch of v in m: it has it, or it has failed.
LEMMA Fetched ==
  ASSUME Types, BuildTypes, NEW m \in Mod, NEW v \in Ref, TryFetch(m, v)
  PROVE  /\ fetched'[m] = v \/ <<m, v>> \in failed'
         /\ \A n \in Mod : n # m => fetched'[n] = fetched[n]
         /\ failed \subseteq failed' /\ failed' \subseteq Mod \X Ref
BY DEF Types, BuildTypes, TryFetch

\* git checkout FETCH_HEAD, after such a fetch.
LEMMA Headed ==
  ASSUME Types, NEW m \in Mod, head' = [head EXCEPT ![m] = FetchHead(m)]
  PROVE  /\ head' \in [Mod -> Version]
         /\ \A n \in Mod : n # m => head'[n] = head[n]
         /\ \A v \in Ref : Got(fetched, m, v) => Got(head', m, v)
BY CompileAssumption, HeadTypes DEF Types, FetchHead, Got

\* Steps of the pools and of checkenv.
LEMMA PoolMoves ==
  ASSUME WantedInv, FilesInv',
         \/ CheckEnvFails \/ CheckEnv \/ Wait
         \/ \E i \in Mod \cup Items("foreign") : Start(i)
  PROVE  WantedInv'
<1> USE DEF WantedInv
<1>1. /\ UNCHANGED <<kind, config, repo, fetched, head, failed, product, lines, todo, rev>>
      /\ phase \in {"env", "foreign", "code"}
  BY DEF CheckEnvFails, CheckEnv, Wait, Start, Pool, repos, files
<1>2. CASE CheckEnvFails
  <2>1. BuildTypes'
    BY <1>1, <1>2 DEF CheckEnvFails, BuildTypes, Outcome, pool
  <2>2. PoolLeft' /\ Configured' /\ Based' /\ Switches'
    BY <1>1, <1>2 DEF CheckEnvFails, PoolLeft, Configured, Based, Switches, pool,
       AfterPools, Finished, Switching
  <2>3. QED BY <2>1, <2>2
<1>3. CASE CheckEnv
  <2>1. BuildTypes'
    BY <1>1, <1>3 DEF CheckEnv, BuildTypes
  <2>2. PoolLeft' /\ Configured' /\ Based' /\ Switches'
    BY <1>1, <1>3 DEF CheckEnv, PoolLeft, Configured, Based, Switches,
       AfterPools, Finished, Switching
  <2>3. QED BY <2>1, <2>2
<1>4. CASE Wait
  <2>1. BuildTypes'
    BY <1>1, <1>4 DEF Wait, BuildTypes
  <2>2. CASE phase = "foreign"
    BY <1>1, <1>4, <2>1, <2>2 DEF Wait, PoolLeft, Configured, Based, Switches, Got,
       AfterPools, Finished, Switching
  <2>3. CASE phase = "code"
    <3>1. phase' = "ownFetch" /\ left = {} /\ UNCHANGED job
          /\ \A i \in Mod : job["code"][i] \in {"none", "ended"}
      BY <1>4, <2>3 DEF Wait, Items
    <3>2. PoolLeft'
      BY <1>1, <2>3, <3>1 DEF PoolLeft, AfterPools
    <3>3. Configured' /\ Based' /\ Switches'
      BY <1>1, <2>3, <3>1 DEF Configured, Based, Switches, Got, Switching
    <3>4. QED BY <2>1, <3>2, <3>3
  <2>4. QED BY <1>4, <2>2, <2>3 DEF Wait, Pool
<1>5. ASSUME NEW i \in Mod \cup Items("foreign"), Start(i) PROVE WantedInv'
  <2>1. /\ phase \in Pool /\ i \in left /\ left' = left \ {i} /\ UNCHANGED <<phase, outcome>>
        /\ tokens > 0 /\ tokens' = tokens - 1
        /\ job' = [job EXCEPT ![phase][i] = IF phase = "foreign" THEN "checkout" ELSE "fetch"]
    BY <1>5 DEF Start
  <2>2. \A p \in Pool : job'[p] \in [Items(p) -> Word]
    BY <2>1 DEF BuildTypes, FilesInv, Types, Word
  <2>3. BuildTypes'
    BY <1>1, <2>1, <2>2 DEF BuildTypes
  <2>4. CASE phase = "foreign"
    <3>1. job'["code"] = job["code"]
      BY <2>1, <2>4 DEF FilesInv, Types, Pool
    <3>2. QED BY <1>1, <2>1, <2>3, <2>4, <3>1 DEF PoolLeft, Configured, Based, Switches, Got,
       AfterPools, Finished, Switching
  <2>5. CASE phase = "code"
    <3>1. i \in Mod /\ i \in config
      BY <2>1, <2>5 DEF PoolLeft, BuildTypes
    <3>2. job'["code"][i] = "fetch" /\ \A m \in Mod : m # i => job'["code"][m] = job["code"][m]
      BY <2>1, <2>5, <3>1 DEF FilesInv, Types, Pool
    <3>3. PoolLeft'
      BY <1>1, <2>1, <2>5, <3>1, <3>2 DEF PoolLeft, AfterPools, Finished, Switching
    <3>4. Configured'
      BY <1>1, <2>1, <2>5, <3>1, <3>2 DEF Configured, Got
    <3>5. Based' /\ Switches'
      BY <1>1, <2>1, <2>5 DEF Based, Switches, Switching
    <3>6. QED BY <2>3, <3>3, <3>4, <3>5
  <2>6. QED BY <2>1, <2>4, <2>5 DEF Pool
<1>6. QED BY <1>2, <1>3, <1>4, <1>5

\* Steps of a job.
LEMMA JobMoves ==
  ASSUME WantedInv, FilesInv', NEW p \in Pool, NEW i \in Items(p), Job(p, i)
  PROVE  WantedInv'
<1> USE DEF WantedInv
<1>1. /\ UNCHANGED <<kind, config, left, phase, product, lines, todo, rev, outcome>>
      /\ \E w \in {"head", "token", "ended"} : job' = [job EXCEPT ![p][i] = w]
      /\ job[p][i] \in {"checkout", "fetch", "head", "token"}
  BY DEF Job, Foreign, ConfigFetch, ConfigHead, PutBack, Advance, files
<1>2. \A q \in Pool : job'[q] \in [Items(q) -> Word]
  BY <1>1 DEF BuildTypes, FilesInv, Types, Word
<1>3. CASE p = "foreign"
  <2>1. UNCHANGED <<repo, fetched, head, failed>> /\ tokens' \in Nat
    BY <1>3 DEF Job, Foreign, PutBack, repos, BuildTypes
  <2>2. job'["code"] = job["code"]
    BY <1>1, <1>3 DEF FilesInv, Types, Pool
  <2>3. BuildTypes'
    BY <1>1, <1>2, <2>1 DEF BuildTypes
  <2>4. PoolLeft' /\ Configured' /\ Based'
    BY <1>1, <2>1, <2>2 DEF PoolLeft, Configured, Based, Got, Base
  <2>5. Switches'
    BY <1>1, <2>1 DEF Switches, Got, Wanted, On, LastOn, Subs
  <2>6. QED BY <2>3, <2>4, <2>5
<1>4. CASE p = "code"
  <2>1. i \in Mod /\ phase = "code"
    BY <1>1, <1>4 DEF Items, PoolLeft
  <2>2. i \in config \ left
    BY <1>1, <1>4, <2>1 DEF PoolLeft
  <2>3. /\ \A m \in Mod : m # i => job'["code"][m] = job["code"][m]
        /\ \A w \in Word : job' = [job EXCEPT !["code"][i] = w] => job'["code"][i] = w
    <3>1. DOMAIN job = Pool /\ "code" \in Pool /\ DOMAIN job["code"] = Mod
      BY DEF FilesInv, Types, Pool
    <3>2. \A m \in Mod : m # i => job'["code"][m] = job["code"][m]
      BY <1>1, <1>4, <3>1
    <3>3. ASSUME NEW w \in Word, job' = [job EXCEPT !["code"][i] = w]
          PROVE  job'["code"][i] = w
      BY <2>1, <3>1, <3>3
    <3>4. QED BY <3>2, <3>3
  <2>4. PoolLeft'
    BY <1>1, <2>1, <2>2, <2>3 DEF PoolLeft, AfterPools, Finished, Switching
  <2>5. Based' /\ Switches'
    BY <1>1, <2>1 DEF Based, Switches, Switching
  <2>6. CASE ConfigFetch(i)
    <3>1. /\ UNCHANGED <<head, tokens>> /\ repo' = repo \cup {i}
          /\ TryFetch(i, ConfigRef[i]) /\ job' = [job EXCEPT !["code"][i] = "head"]
      BY <2>6 DEF ConfigFetch, Advance
    <3>2. /\ fetched'[i] = ConfigRef[i] \/ <<i, ConfigRef[i]>> \in failed'
          /\ \A n \in Mod : n # i => fetched'[n] = fetched[n]
          /\ failed \subseteq failed' /\ failed' \subseteq Mod \X Ref
      BY <2>1, <3>1, Constants, Fetched DEF FilesInv
    <3>3. BuildTypes'
      BY <1>1, <1>2, <2>1, <3>1, <3>2 DEF BuildTypes
    <3>4. Configured'
      BY <1>1, <1>4, <2>3, <3>1, <3>2 DEF Configured, Got, Word
    <3>5. QED BY <2>4, <2>5, <3>3, <3>4
  <2>7. CASE ConfigHead(i)
    <3>1. /\ job["code"][i] = "head" /\ UNCHANGED <<tokens, repo, fetched, failed>>
          /\ head' = [head EXCEPT ![i] = FetchHead(i)]
          /\ job' = [job EXCEPT !["code"][i] = "token"]
      BY <2>7 DEF ConfigHead, Advance
    <3>2. /\ \A n \in Mod : n # i => head'[n] = head[n]
          /\ Got(head', i, ConfigRef[i])
      BY <2>1, <3>1, Constants, Headed DEF FilesInv, Configured
    <3>3. BuildTypes'
      BY <1>1, <1>2, <3>1 DEF BuildTypes
    <3>4. Configured'
      BY <1>1, <1>4, <2>3, <3>1, <3>2 DEF Configured, Got, Word
    <3>5. QED BY <2>4, <2>5, <3>3, <3>4
  <2>8. CASE PutBack(p, i)
    <3>1. /\ job["code"][i] = "token" /\ UNCHANGED <<repo, fetched, head, failed>>
          /\ job' = [job EXCEPT !["code"][i] = "ended"] /\ tokens' \in Nat
      BY <1>4, <2>8 DEF PutBack, Advance, repos, BuildTypes
    <3>2. BuildTypes'
      BY <1>1, <1>2, <3>1 DEF BuildTypes
    <3>3. Configured'
      BY <1>1, <1>4, <2>3, <3>1 DEF Configured, Got, Word
    <3>4. QED BY <2>4, <2>5, <3>2, <3>3
  <2>9. QED BY <1>4, <2>6, <2>7, <2>8 DEF Job
<1>5. QED BY <1>3, <1>4 DEF Pool


\* What depends on the jobs alone, in a step that starts and ends none.
LEMMA NoJob ==
  ASSUME WantedInv, UNCHANGED <<job, config, left>>, phase' # "code",
         phase \in AfterPools, phase' \in AfterPools \cup {"exited"}
  PROVE  /\ PoolLeft'
         /\ phase' \notin {"ownFetch", "ownHead"} => Configured'
<1>1. \A m \in Mod : job["code"][m] = "ended" <=> m \in config
  BY DEF WantedInv, PoolLeft
<1>2. \A m \in Mod : job["code"][m] \in {"none", "ended"}
  BY DEF WantedInv, FilesInv, Idle
<1>3. QED BY <1>1, <1>2 DEF PoolLeft, Configured, AfterPools, Finished, Switching

\* The steps in which the version under test is fetched and checked out.
LEMMA OwnMoves ==
  ASSUME WantedInv, FilesInv', OwnFetch \/ OwnHead
  PROVE  WantedInv'
<1> USE DEF WantedInv
<1>1. UNCHANGED <<kind, config, left, tokens, job, repo, lines, todo, rev, outcome>>
  BY DEF OwnFetch, OwnHead, pool, files
<1>2. Own \in Mod /\ Change \in Ref /\ Product \in Mod
  BY Constants
<1>3. CASE OwnFetch
  <2>1. phase = "ownFetch" /\ phase' = "ownHead" /\ UNCHANGED <<head, product>>
        /\ TryFetch(Own, Change)
    BY <1>3 DEF OwnFetch
  <2>2. /\ fetched'[Own] = Change \/ <<Own, Change>> \in failed'
        /\ failed \subseteq failed' /\ failed' \subseteq Mod \X Ref
    BY <1>2, <2>1, Fetched DEF FilesInv
  <2>3. BuildTypes'
    BY <1>1, <2>1, <2>2 DEF BuildTypes
  <2>4. PoolLeft'
    BY <1>1, <2>1, NoJob DEF AfterPools
  <2>5. Configured'
    <3>1. \A m \in Mod : job["code"][m] # "head"
      BY <2>1 DEF PoolLeft
    <3>2. QED BY <1>1, <2>1, <2>2, <3>1 DEF Configured, Got
  <2>6. Based' /\ Switches'
    BY <2>1, <2>2 DEF Based, Switches, Got, Switching
  <2>7. QED BY <2>3, <2>4, <2>5, <2>6
<1>4. CASE OwnHead
  <2>1. /\ phase = "ownHead" /\ phase' = "group" /\ UNCHANGED <<fetched, failed>>
        /\ head' = [head EXCEPT ![Own] = FetchHead(Own)] /\ product' = head'[Product]
    BY <1>4 DEF OwnHead
  <2>2. /\ head' \in [Mod -> Version] /\ \A n \in Mod : n # Own => head'[n] = head[n]
        /\ Got(head', Own, Change)
    BY <1>2, <2>1, Headed DEF FilesInv, Based
  <2>3. BuildTypes'
    BY <1>1, <1>2, <2>1, <2>2 DEF BuildTypes
  <2>4. PoolLeft' /\ Configured'
    BY <1>1, <2>1, NoJob DEF AfterPools, Finished
  <2>5. Based'
    <3> SUFFICES ASSUME NEW m \in Mod, NEW v \in Base(m) PROVE Got(head', m, v)
      BY <1>1, <2>1 DEF Based, Base, Got
    <3>1. CASE m = Own
      BY <2>2, <3>1 DEF Base
    <3>2. CASE m # Own
      <4>1. m \in config /\ v = ConfigRef[m]
        BY <3>2 DEF Base
      <4>2. job["code"][m] = "ended"
        BY <2>1, <4>1 DEF PoolLeft, AfterPools
      <4>3. Got(head, m, v)
        BY <2>1, <4>1, <4>2 DEF Configured
      <4>4. QED BY <2>2, <3>2, <4>3 DEF Got
    <3>3. QED BY <3>1, <3>2
  <2>6. Switches'
    BY <2>1 DEF Switches, Switching
  <2>7. QED BY <2>3, <2>4, <2>5, <2>6
<1>5. QED BY <1>3, <1>4

\* The steps in which dependency.txt is written.
LEMMA ListMoves ==
  ASSUME WantedInv, FilesInv', Group \/ Depend \/ Listed
  PROVE  WantedInv'
<1> USE DEF WantedInv
<1>1. /\ UNCHANGED <<kind, config, left, tokens, job, repo, fetched, head, failed, product, outcome>>
      /\ phase \in {"group", "depends"} /\ phase' \in {"depends", "rev"}
  BY DEF Group, Depend, Listed, pool, repos
<1>2. BuildTypes'
  BY <1>1 DEF BuildTypes
<1>3. PoolLeft' /\ Configured'
  BY <1>1, NoJob DEF AfterPools, Finished
<1>4. Based' /\ Switches'
  BY <1>1 DEF Based, Switches, Base, Got, Switching
<1>5. QED BY <1>2, <1>3, <1>4

\* rev.txt is begun: all the dependencies are still to visit.
LEMMA OwnRevMoves ==
  ASSUME WantedInv, FilesInv', OwnRev
  PROVE  WantedInv'
<1> USE DEF WantedInv
<1>1. /\ UNCHANGED <<kind, config, left, tokens, job, repo, fetched, head, failed, product, lines, outcome>>
      /\ phase = "rev" /\ phase' = "switch" /\ todo' = lines
  BY DEF OwnRev, pool, repos
<1>2. BuildTypes'
  BY <1>1 DEF BuildTypes
<1>3. PoolLeft' /\ Configured' /\ Based'
  BY <1>1, NoJob DEF AfterPools, Finished, Switching, Based
<1>4. IsRest(lines, lines)
  BY DEF IsRest, FilesInv, Types
<1>5. ASSUME NEW m \in Mod \ Subs(lines), NEW v \in Wanted(m) PROVE Got(head, m, v)
  BY <1>1, <1>5, WantedBase DEF Based
<1>6. Switches'
  BY <1>1, <1>4, <1>5 DEF Switches, Got, Wanted, On, LastOn
<1>7. QED BY <1>2, <1>3, <1>6

\* A dependency is left behind: if its module does not come again, the version
\* wanted is the one the line names.
LEMMA Passed ==
  ASSUME WantedInv, phase \in Switching, todo # <<>>, todo' = Tail(todo),
         UNCHANGED <<lines, config, failed>>,
         \A n \in Mod : n # Head(todo).sub => head'[n] = head[n],
         Head(todo).sub \in Mod => Got(head', Head(todo).sub, Head(todo).ref)
  PROVE  /\ IsRest(todo', lines')
         /\ \A m \in Mod \ Subs(todo') : \A v \in Wanted(m)' : Got(head', m, v)
<1> USE DEF WantedInv
<1>1. /\ todo \in Seq(Line) /\ lines \in Seq(Line) /\ IsRest(todo, lines)
      /\ Subs(todo) = {Head(todo).sub} \cup Subs(Tail(todo))
  BY SubsHead DEF FilesInv, Types, Switches
<1>2. IsRest(todo', lines')
  BY <1>1, RestTail
<1>3. ASSUME NEW m \in Mod \ Subs(todo'), NEW v \in Wanted(m) PROVE Got(head', m, v)
  <2>1. CASE m = Head(todo).sub
    <3>1. LastOn(lines, m) = Head(todo) /\ m \in Subs(lines)
      BY <1>1, <1>3, <2>1, RestLast
    <3>2. v = Head(todo).ref
      BY <3>1, WantedBase
    <3>3. QED BY <2>1, <3>2
  <2>2. CASE m # Head(todo).sub
    <3>1. m \notin Subs(todo)
      BY <1>1, <1>3, <2>2
    <3>2. Got(head, m, v)
      BY <3>1 DEF Switches
    <3>3. QED BY <2>2, <3>2 DEF Got
  <2>3. QED BY <2>1, <2>2
<1>4. \A m : Wanted(m)' = Wanted(m)
  BY DEF Wanted, On, LastOn
<1>5. QED BY <1>2, <1>3, <1>4

LEMMA SwitchMoves ==
  ASSUME WantedInv, FilesInv', SwitchNothing \/ SwitchFetch \/ SwitchHead \/ Switched
  PROVE  WantedInv'
<1> USE DEF WantedInv
<1>1. /\ UNCHANGED <<kind, config, left, tokens, job, repo, product, lines, outcome>>
      /\ phase \in {"switch", "switchHead"} /\ phase' \in {"switch", "switchHead", "run"}
  BY DEF SwitchNothing, SwitchFetch, SwitchHead, Switched, pool, repos, files
<1>2. PoolLeft' /\ Configured' /\ Based'
  BY <1>1, NoJob DEF AfterPools, Finished, Switching, Based
<1>3. todo # <<>> => Head(todo) \in Line
  BY SubsHead DEF FilesInv, Types
<1>4. CASE SwitchNothing
  <2>1. /\ todo # <<>> /\ todo' = Tail(todo) /\ Head(todo).sub \notin Mod
        /\ phase' = "switch" /\ UNCHANGED <<head, failed>>
    BY <1>4, Constants DEF SwitchNothing, repos
  <2>2. BuildTypes'
    BY <1>1, <2>1 DEF BuildTypes
  <2>3. phase \in Switching
    BY <1>1 DEF Switching
  <2>4. Switches'
    BY <1>1, <2>1, <2>3, Passed DEF Switches, Got
  <2>5. QED BY <1>2, <2>2, <2>4
<1>5. CASE SwitchFetch
  <2>1. /\ todo # <<>> /\ Head(todo).sub \in Mod /\ Head(todo).ref \in Ref
        /\ phase = "switch" /\ phase' = "switchHead" /\ UNCHANGED <<head, todo>>
        /\ TryFetch(Head(todo).sub, Head(todo).ref)
    BY <1>3, <1>5 DEF SwitchFetch, Line, Nothing, files
  <2>2. /\ Got(fetched, Head(todo).sub, Head(todo).ref)'
        /\ failed \subseteq failed' /\ failed' \subseteq Mod \X Ref
    BY <2>1, Fetched DEF FilesInv, Got
  <2>3. BuildTypes'
    BY <1>1, <2>1, <2>2 DEF BuildTypes
  <2>4. \A m : Wanted(m)' = Wanted(m)
    BY <1>1 DEF Wanted, On, LastOn
  <2>5. Switches'
    BY <1>1, <2>1, <2>2, <2>4 DEF Switches, Switching, Got, Subs
  <2>6. QED BY <1>2, <2>3, <2>5
<1>6. CASE SwitchHead
  <2>1. /\ todo # <<>> /\ Head(todo).sub \in Mod /\ Head(todo).ref \in Ref
        /\ todo' = Tail(todo) /\ phase = "switchHead" /\ phase' = "switch"
        /\ UNCHANGED <<fetched, failed>>
        /\ head' = [head EXCEPT ![Head(todo).sub] = FetchHead(Head(todo).sub)]
    BY <1>3, <1>6 DEF SwitchHead, FilesInv, Here, Line, Nothing
  <2>2. /\ \A n \in Mod : n # Head(todo).sub => head'[n] = head[n]
        /\ Got(head', Head(todo).sub, Head(todo).ref)
    BY <2>1, Headed DEF FilesInv, Switches
  <2>3. BuildTypes'
    BY <1>1, <2>1 DEF BuildTypes
  <2>4. phase \in Switching
    BY <2>1 DEF Switching
  <2>5. Switches'
    BY <1>1, <2>1, <2>2, <2>4, Passed DEF Switches, Got
  <2>6. QED BY <1>2, <2>3, <2>5
<1>7. CASE Switched
  <2>1. phase = "switch" /\ phase' = "run" /\ UNCHANGED <<head, failed, todo>>
    BY <1>7 DEF Switched, repos, files
  <2>2. BuildTypes'
    BY <1>1, <2>1 DEF BuildTypes
  <2>3. \A m : Wanted(m)' = Wanted(m)
    BY <1>1 DEF Wanted, On, LastOn
  <2>4. Switches'
    BY <1>1, <2>1, <2>3 DEF Switches, Switching, Got, Subs
  <2>5. QED BY <1>2, <2>2, <2>4
<1>8. QED BY <1>4, <1>5, <1>6, <1>7

LEMMA RunMoves ==
  ASSUME WantedInv, FilesInv', NoTemplate \/ Run \/ CheckResult
  PROVE  WantedInv'
<1> USE DEF WantedInv
<1>1. /\ UNCHANGED <<kind, config, left, tokens, job, repo, fetched, head, failed, product,
                     lines, todo>>
      /\ phase \in {"run", "check"} /\ phase' \in {"check", "exited"}
  BY DEF NoTemplate, Run, CheckResult, pool, repos, files
<1>2. outcome' \in Outcome
  <2>1. outcome \in Outcome
    BY DEF BuildTypes
  <2>2. CASE NoTemplate \/ CheckResult
    BY <2>1, <2>2 DEF NoTemplate, CheckResult, Outcome
  <2>3. CASE Run
    BY <2>3 DEF Run, Outcome
  <2>4. QED BY <2>2, <2>3
<1>3. BuildTypes'
  BY <1>1, <1>2 DEF BuildTypes
<1>4. PoolLeft' /\ Configured' /\ Based'
  BY <1>1, NoJob DEF AfterPools, Finished, Switching, Based
<1>5. \A m : Wanted(m)' = Wanted(m)
  BY <1>1 DEF Wanted, On, LastOn
<1>6. Switches'
  BY <1>1, <1>5 DEF Switches, Switching, Got, Subs
<1>7. QED BY <1>3, <1>4, <1>6

LEMMA WantedStep == WantedInv /\ [Next]_vars => WantedInv'
<1> SUFFICES ASSUME WantedInv, [Next]_vars PROVE WantedInv'
  OBVIOUS
<1>0. FilesInv'
  BY FilesStep DEF WantedInv
<1>1. CASE \E p \in Pool : \E i \in Items(p) : Job(p, i)
  BY <1>0, <1>1, JobMoves
<1>2. CASE Script
  BY <1>0, <1>2, PoolMoves, OwnMoves, ListMoves, OwnRevMoves, SwitchMoves, RunMoves DEF Script
<1>3. CASE UNCHANGED vars
  <2>1. UNCHANGED <<kind, phase, config, left, tokens, job, repo, fetched, head, failed,
                    product, lines, todo, outcome>>
    BY <1>3 DEF vars, pool, repos, files
  <2>2. BuildTypes' /\ PoolLeft' /\ Configured' /\ Based'
    BY <2>1 DEF WantedInv, BuildTypes, PoolLeft, Configured, Based, Base, Got
  <2>3. \A m : Wanted(m)' = Wanted(m)
    BY <2>1 DEF Wanted, On, LastOn
  <2>4. Switches'
    BY <2>1, <2>3 DEF WantedInv, Switches, Got, Subs
  <2>5. QED BY <1>0, <2>2, <2>4 DEF WantedInv
<1>4. QED BY <1>1, <1>2, <1>3 DEF Next, Ended

LEMMA WantedAlways == Spec => []WantedInv
BY WantedInit, WantedStep, PTL DEF Spec

-----------------------------------------------------------------------------
(* Theorems *)

\* compile.sh:249-268: what rev.txt ends with for a module is the revision that
\* is compiled, and it has a line for the subsystem and its dependencies only:
\* whatever the workspace held, whichever fetches failed, however often a module
\* is listed.
THEOREM RevFile == Spec => []RevTrue
<1>1. FilesInv => RevTrue
  <2> SUFFICES ASSUME FilesInv, Ready PROVE
        \A m \in Mod : /\ On(rev, m) # {} <=> m = Own \/ On(lines, m) # {}
                       /\ On(rev, m) # {} => LastOn(rev, m).ver = head[m]
    BY DEF RevTrue
  <2>1. phase \in Switching /\ todo = <<>>
    BY DEF FilesInv, Visited, Ready, Switching
  <2>2. Subs(rev) = Subs(lines) \cup {Own}
    BY <2>1 DEF FilesInv, Visited, Subs
  <2>3. TAKE m \in Mod
  <2>4. On(rev, m) # {} <=> m = Own \/ On(lines, m) # {}
    BY <2>2, SubsOn
  <2>5. On(rev, m) # {} => LastOn(rev, m).ver = head[m]
    BY <2>1, EndsOnLast DEF FilesInv, Types, LastTrue
  <2>6. QED BY <2>4, <2>5
<1>2. QED BY <1>1, FilesAlways, PTL

\* compile.sh:202: the copy of the product module is the version compiled,
\* unless a dependency has switched the module since.
THEOREM ProductCopy == Spec => []ProductCurrent
<1>1. FilesInv => ProductCurrent
  BY SubsOn DEF FilesInv, CopyTrue, ProductCurrent, Ready, Finished, Switching
<1>2. QED BY <1>1, FilesAlways, PTL

\* compile.sh: every variable of the script keeps its type.
THEOREM TypeCorrect == Spec => []TypeOK
<1>1. WantedInv => TypeOK
  BY DEF WantedInv, FilesInv, Types, BuildTypes, TypeOK, AfterPools, Finished, Switching, Word
<1>2. QED BY <1>1, WantedAlways, PTL

\* compile.sh:157-206 and 255-269: a build compiles the version it should have of
\* each module, or a fetch of that version failed: whatever the workspace held,
\* in whatever order the jobs ended, however often a module is listed.
THEOREM VersionsWanted == Spec => []BuildsWanted
<1>1. WantedInv => BuildsWanted
  <2> SUFFICES ASSUME WantedInv, Ready, NEW m \in Mod, NEW v \in Wanted(m)
               PROVE  Got(head, m, v)
    BY DEF BuildsWanted, Got
  <2>1. phase \in Switching /\ todo = <<>>
    BY DEF WantedInv, FilesInv, Visited, Ready, Switching
  <2>2. Subs(todo) = {}
    BY <2>1 DEF Subs
  <2>3. QED BY <2>1, <2>2 DEF WantedInv, Switches
<1>2. QED BY <1>1, WantedAlways, PTL
-----------------------------------------------------------------------------
(* The tokens, and that the script and its jobs are never stuck *)

\* A job that has been started and has not ended holds a token.
Slots == Pool \X (Mod \cup Items("foreign"))
Working == {"checkout", "fetch", "head", "token"}
Holding == {h \in Slots : h[2] \in Items(h[1]) /\ job[h[1]][h[2]] \in Working}
TokenBalance == tokens + Cardinality(Holding) = Thread

\* Each pool has jobs of its own kind, and those left to start are not started.
JobKinds ==
  /\ \A i \in Items("foreign") : job["foreign"][i] \in {"none", "checkout", "token", "ended"}
  /\ \A i \in Items("code") : job["code"][i] \in {"none", "fetch", "head", "token", "ended"}

ToStart ==
  /\ phase = "env" => \A i \in Items("foreign") : job["foreign"][i] = "none"
  /\ phase \in Pool => \A i \in left : i \in Items(phase) /\ job[phase][i] = "none"

TokenInv == WantedInv /\ TokenBalance /\ JobKinds /\ ToStart

LEMMA SlotsFinite ==
  /\ NMod \in Nat /\ NForeign \in Nat /\ Thread \in Nat /\ Thread > 0
  /\ Mod \subseteq Nat /\ \A p \in Pool : Items(p) \subseteq Nat
  /\ IsFiniteSet(Slots)
<1>1. NMod \in Nat /\ NForeign \in Nat /\ Thread \in Nat /\ Thread > 0
  BY CompileAssumption
<1>2. Mod \subseteq Nat /\ \A p \in Pool : Items(p) \subseteq Nat
  BY <1>1 DEF Mod, Items
<1>3. IsFiniteSet(Mod) /\ IsFiniteSet(Items("foreign"))
  <2>1. \A n \in Nat : IsFiniteSet(1 .. n)
    BY FS_Interval
  <2>2. QED BY <1>1, <2>1 DEF Mod, Items
<1>4. IsFiniteSet(Mod \cup Items("foreign"))
  BY <1>3, FS_Union
<1>5. IsFiniteSet(Pool)
  <2>1. IsFiniteSet({} \cup {"foreign"})
    BY FS_EmptySet, FS_AddElement
  <2>2. IsFiniteSet(({} \cup {"foreign"}) \cup {"code"})
    BY <2>1, FS_AddElement
  <2>3. Pool = ({} \cup {"foreign"}) \cup {"code"}
    BY DEF Pool
  <2>4. QED BY <2>2, <2>3
<1>6. QED BY <1>1, <1>2, <1>4, <1>5, FS_Product DEF Slots

LEMMA HoldingFinite == IsFiniteSet(Holding) /\ Cardinality(Holding) \in Nat
<1>1. Holding \subseteq Slots
  BY DEF Holding
<1>2. QED BY <1>1, SlotsFinite, FS_Subset, FS_CardinalityType

LEMMA InSlots == ASSUME NEW p \in Pool, NEW i \in Items(p) PROVE <<p, i>> \in Slots
BY DEF Slots, Items, Pool

\* What becomes of the jobs when one of them moves.
LEMMA OneMoves ==
  ASSUME BuildTypes, Types, NEW p \in Pool, NEW i \in Items(p), NEW w \in Word,
         job' = [job EXCEPT ![p][i] = w]
  PROVE  /\ job'[p][i] = w
         /\ \A q \in Pool : \A k \in Items(q) : <<q, k>> # <<p, i>> => job'[q][k] = job[q][k]
<1>1. DOMAIN job = Pool /\ DOMAIN job[p] = Items(p)
  BY DEF BuildTypes, Types
<1>2. QED BY <1>1

LEMMA OneInSlots ==
  ASSUME BuildTypes, Types, NEW p \in Pool, NEW i \in Items(p), NEW w \in Word,
         job' = [job EXCEPT ![p][i] = w]
  PROVE  /\ job'[p][i] = w /\ <<p, i>> \in Slots
         /\ \A h \in Slots : h[2] \in Items(h[1]) /\ h # <<p, i>> =>
              job'[h[1]][h[2]] = job[h[1]][h[2]]
<1>1. job'[p][i] = w /\ <<p, i>> \in Slots
  <2>1. job'[p][i] = w
    <3>1. DOMAIN job = Pool /\ DOMAIN job[p] = Items(p)
      BY DEF BuildTypes, Types
    <3>2. QED BY <3>1
  <2>2. <<p, i>> \in Slots
    BY InSlots
  <2>3. QED BY <2>1, <2>2
<1>2. ASSUME NEW h \in Slots, h[2] \in Items(h[1]), h # <<p, i>>
      PROVE  job'[h[1]][h[2]] = job[h[1]][h[2]]
  <2>1. h[1] \in Pool /\ h = <<h[1], h[2]>>
    BY DEF Slots
  <2>2. <<h[1], h[2]>> # <<p, i>>
    BY <1>2, <2>1
  <2>3. QED BY <1>2, <2>1, <2>2, OneMoves
<1>3. QED BY <1>1, <1>2

LEMMA Balance ==
  ASSUME BuildTypes, Types, TokenBalance, NEW p \in Pool, NEW i \in Items(p), NEW w \in Word,
         job' = [job EXCEPT ![p][i] = w],
         \/ job[p][i] \in Working /\ w \in Working /\ tokens' = tokens
         \/ job[p][i] \notin Working /\ w \in Working /\ tokens > 0 /\ tokens' = tokens - 1
         \/ job[p][i] \in Working /\ w \notin Working /\ tokens' = tokens + 1
  PROVE  TokenBalance'
<1>1. tokens \in Nat
  BY DEF BuildTypes
<1>2. /\ job'[p][i] = w /\ <<p, i>> \in Slots
      /\ \A h \in Slots : h[2] \in Items(h[1]) /\ h # <<p, i>> => job'[h[1]][h[2]] = job[h[1]][h[2]]
  BY OneInSlots
<1>3. CASE job[p][i] \in Working /\ w \in Working /\ tokens' = tokens
  <2>1. Holding' = Holding
    BY <1>2, <1>3 DEF Holding
  <2>2. QED BY <1>3, <2>1 DEF TokenBalance
<1>4. CASE job[p][i] \notin Working /\ w \in Working /\ tokens > 0 /\ tokens' = tokens - 1
  <2>1. Holding' = Holding \cup {<<p, i>>} /\ <<p, i>> \notin Holding
    BY <1>2, <1>4 DEF Holding
  <2>2. Cardinality(Holding') = Cardinality(Holding) + 1
    BY <2>1, HoldingFinite, FS_AddElement
  <2>3. QED BY <1>1, <1>4, <2>2, HoldingFinite DEF TokenBalance
<1>5. CASE job[p][i] \in Working /\ w \notin Working /\ tokens' = tokens + 1
  <2>1. Holding' = Holding \ {<<p, i>>} /\ <<p, i>> \in Holding
    BY <1>2, <1>5 DEF Holding
  <2>2. Cardinality(Holding') = Cardinality(Holding) - 1
    BY <2>1, HoldingFinite, FS_RemoveElement
  <2>3. QED BY <1>1, <1>5, <2>2, HoldingFinite DEF TokenBalance
<1>6. QED BY <1>3, <1>4, <1>5

LEMMA TokenInit == Init => TokenInv
<1> SUFFICES ASSUME Init PROVE TokenInv
  OBVIOUS
<1>1. WantedInv
  BY WantedInit
<1>2. \A p \in Pool : \A i \in Items(p) : job[p][i] = "none"
  BY DEF Init
<1>3. Holding = {}
  BY <1>2 DEF Holding, Slots, Working
<1>4. TokenBalance
  BY <1>3, FS_EmptySet, SlotsFinite DEF TokenBalance, Init
<1>5. JobKinds /\ ToStart
  BY <1>2 DEF JobKinds, ToStart, Init, Pool
<1>6. QED BY <1>1, <1>4, <1>5 DEF TokenInv

LEMMA TokenStep == TokenInv /\ [Next]_vars => TokenInv'
<1> SUFFICES ASSUME TokenInv, [Next]_vars PROVE TokenInv'
  OBVIOUS
<1>1. /\ WantedInv /\ WantedInv' /\ TokenBalance /\ JobKinds /\ ToStart
      /\ BuildTypes /\ Types /\ PoolLeft /\ left \in SUBSET left
  BY WantedStep DEF TokenInv, WantedInv, FilesInv
<1>2. CASE \E i \in Mod \cup Items("foreign") : Start(i)
  <2> DEFINE w == IF phase = "foreign" THEN "checkout" ELSE "fetch"
  <2>1. PICK i \in left : Start(i)
    BY <1>2 DEF Start
  <2>2. /\ phase \in Pool /\ phase' = phase /\ left' = left \ {i} /\ i \in Items(phase)
        /\ job[phase][i] = "none" /\ tokens > 0 /\ tokens' = tokens - 1
        /\ job' = [job EXCEPT ![phase][i] = w]
    BY <1>1, <2>1 DEF Start, ToStart
  <2>3. w \in Working /\ w \in Word /\ "none" \notin Working
    BY DEF Working, Word
  <2>3a. (phase = "foreign" => w = "checkout") /\ (phase # "foreign" => w = "fetch")
    OBVIOUS
  <2> HIDE DEF w
  <2>4. /\ job'[phase][i] = w
        /\ \A q \in Pool : \A k \in Items(q) : <<q, k>> # <<phase, i>> => job'[q][k] = job[q][k]
    BY <1>1, <2>2, <2>3, OneMoves
  <2>5. TokenBalance'
    BY <1>1, <2>2, <2>3, Balance
  <2>6. JobKinds'
    BY <1>1, <2>2, <2>4, <2>3a DEF JobKinds, Pool
  <2>7. ToStart'
    BY <1>1, <2>2, <2>4 DEF ToStart, Pool
  <2>8. QED BY <1>1, <2>5, <2>6, <2>7 DEF TokenInv
<1>3. ASSUME NEW p \in Pool, NEW i \in Items(p), Job(p, i) PROVE TokenInv'
  <2>1. PICK w \in Word :
          /\ job' = [job EXCEPT ![p][i] = w] /\ UNCHANGED <<phase, left>>
          /\ job[p][i] \in Working
          /\ \/ w \in Working /\ tokens' = tokens
             \/ w \notin Working /\ tokens' = tokens + 1
          /\ \/ p = "foreign" /\ w = "token"
             \/ p = "code" /\ w \in {"head", "token"}
             \/ w = "ended"
    BY <1>3 DEF Job, Foreign, ConfigFetch, ConfigHead, PutBack, Advance, Working, Word
  <2>2. /\ job'[p][i] = w
        /\ \A q \in Pool : \A k \in Items(q) : <<q, k>> # <<p, i>> => job'[q][k] = job[q][k]
    BY <1>1, <2>1, OneMoves
  <2>3. TokenBalance'
    BY <1>1, <2>1, Balance
  <2>4. JobKinds'
    BY <1>1, <2>1, <2>2 DEF JobKinds, Pool
  <2>5. ToStart'
    <3>1. job[p][i] # "none"
      BY <2>1 DEF Working
    <3>2. \A q \in Pool : \A k \in Items(q) : job[q][k] = "none" => job'[q][k] = "none"
      BY <2>2, <3>1
    <3>3. QED BY <1>1, <2>1, <3>2 DEF ToStart, Pool
  <2>6. QED BY <1>1, <2>3, <2>4, <2>5 DEF TokenInv
<1>4. CASE UNCHANGED <<tokens, job>> /\ UNCHANGED phase /\ UNCHANGED left
  <2>1. TokenBalance' /\ JobKinds' /\ ToStart'
    BY <1>1, <1>4 DEF TokenBalance, Holding, JobKinds, ToStart
  <2>2. QED BY <1>1, <2>1 DEF TokenInv
<1>5. CASE UNCHANGED <<tokens, job>> /\ phase' \notin Pool \cup {"env"}
  <2>1. TokenBalance' /\ JobKinds' /\ ToStart'
    BY <1>1, <1>5 DEF TokenBalance, Holding, JobKinds, ToStart
  <2>2. QED BY <1>1, <2>1 DEF TokenInv
<1>6. CASE CheckEnv
  <2>1. /\ UNCHANGED <<tokens, job>> /\ phase = "env" /\ phase' = "foreign"
        /\ left' \subseteq Items("foreign")
    BY <1>6 DEF CheckEnv
  <2>2. TokenBalance' /\ JobKinds' /\ ToStart'
    BY <1>1, <2>1 DEF TokenBalance, Holding, JobKinds, ToStart
  <2>3. QED BY <1>1, <2>2 DEF TokenInv
<1>7. CASE Wait /\ phase' \in Pool
  <2>1. /\ UNCHANGED <<tokens, job>> /\ phase = "foreign" /\ phase' = "code"
        /\ left' = config
    BY <1>7 DEF Wait, Pool
  <2>2. left' \subseteq Items("code") /\ \A m \in Items("code") : job["code"][m] = "none"
    BY <1>1, <2>1 DEF BuildTypes, PoolLeft, Items
  <2>3. TokenBalance' /\ JobKinds' /\ ToStart'
    BY <1>1, <2>1, <2>2 DEF TokenBalance, Holding, JobKinds, ToStart
  <2>4. QED BY <1>1, <2>3 DEF TokenInv
<1>8. CASE CheckEnvFails \/ (Wait /\ phase' \notin Pool) \/ NoTemplate \/ Run \/ CheckResult
  BY <1>5, <1>8 DEF CheckEnvFails, Wait, NoTemplate, Run, CheckResult, pool, Pool
<1>9. CASE OwnFetch \/ OwnHead \/ Group \/ Listed \/ OwnRev \/ SwitchFetch \/ SwitchHead
           \/ Switched
  BY <1>5, <1>9 DEF OwnFetch, OwnHead, Group, Listed, OwnRev, SwitchFetch, SwitchHead,
     Switched, pool, Pool
<1>10. CASE Depend \/ SwitchNothing \/ UNCHANGED vars
  BY <1>4, <1>10 DEF Depend, SwitchNothing, vars, pool
<1>11. QED
  BY <1>2, <1>3, <1>6, <1>7, <1>8, <1>9, <1>10 DEF Next, Script, Ended

LEMMA TokenAlways == Spec => []TokenInv
BY TokenInit, TokenStep, PTL DEF Spec

\* compile.sh:87-94, 135-149, 170-191: the fifo and the jobs of both pools share
\* `thread` tokens at every moment: no more jobs run at once, and the second
\* pool finds every token that the first one was given.
THEOREM TokensKept == Spec => []TokenBalance
<1>1. TokenInv => TokenBalance
  BY DEF TokenInv
<1>2. QED BY <1>1, TokenAlways, PTL

\* What the guards of the steps ask: of a job, and of the script.
JobCan(p, i) ==
  \/ job[p][i] = "token"
  \/ p = "foreign" /\ job[p][i] = "checkout"
  \/ p = "code" /\ job[p][i] \in {"fetch", "head"}

ScriptCan ==
  \/ phase \in {"env", "ownFetch", "ownHead", "depends", "rev", "switch", "run", "check"}
  \/ phase = "group" /\ Groups # {}
  \/ phase = "switchHead" /\ todo # <<>>
  \/ phase \in Pool /\ tokens > 0 /\ \E i \in left : \A k \in left : i <= k
  \/ phase \in Pool /\ left = {} /\ \A i \in Items(phase) : job[phase][i] \in {"none", "ended"}

\* `read -u6` waits for a token only while some job is to put one back, and
\* `wait` only for a job that can go on.
NotStuck ==
  phase = "exited" \/ ScriptCan \/ \E p \in Pool : \E i \in Items(p) : JobCan(p, i)

LEMMA LeastLeft ==
  ASSUME NEW S \in SUBSET Nat, S # {}
  PROVE  \E i \in S : \A k \in S : i <= k
<1>1. PICK i \in S : \A k \in S : ~ (<<k, i>> \in OpToRel(<, Nat))
  BY NatLessThanWellFounded, WFMin
<1>2. \A k \in S : ~ (k < i)
  BY <1>1 DEF OpToRel
<1>3. QED BY <1>2

LEMMA TokenNotStuck == ASSUME Groups # {} PROVE TokenInv => NotStuck
<1> SUFFICES ASSUME TokenInv, phase \in Pool,
                    \A p \in Pool : \A i \in Items(p) : ~ JobCan(p, i)
             PROVE  ScriptCan
  BY DEF NotStuck, ScriptCan, TokenInv, WantedInv, FilesInv, Types, Here, AfterPools,
     Finished, Switching
<1>1. \A p \in Pool : \A i \in Items(p) : job[p][i] \in {"none", "ended"}
  BY DEF TokenInv, JobKinds, JobCan, Pool
<1>2. tokens > 0
  <2>1. Holding = {}
    BY <1>1 DEF Holding, Slots, Working
  <2>2. Cardinality(Holding) = 0
    BY <2>1, FS_EmptySet
  <2>3. tokens \in Nat
    BY DEF TokenInv, WantedInv, BuildTypes
  <2>4. QED BY <2>2, <2>3, SlotsFinite DEF TokenInv, TokenBalance
<1>3. CASE left = {}
  BY <1>1, <1>3 DEF ScriptCan
<1>4. CASE left # {}
  <2>1. left \in SUBSET Nat
    BY SlotsFinite DEF TokenInv, ToStart
  <2>2. QED BY <1>2, <1>4, <2>1, LeastLeft DEF ScriptCan
<1>5. QED BY <1>3, <1>4

\* compile.sh:87-206: with any number of modules and tokens, there is always a
\* step that the script or one of its jobs can take, until the script has ended;
\* the dashboard gives some answer, be it none.
THEOREM NeverStuck == ASSUME Groups # {} PROVE Spec => []NotStuck
BY TokenAlways, TokenNotStuck, PTL

-----------------------------------------------------------------------------
(* The build comes to an end *)

\* What is left to do, the most significant first: the stages of the script, the
\* steps of the jobs, the dependencies and whether the first of them is fetched.
Stage ==
  CASE phase = "env" -> 11 [] phase = "foreign" -> 10 [] phase = "code" -> 9
    [] phase = "ownFetch" -> 8 [] phase = "ownHead" -> 7 [] phase = "group" -> 6
    [] phase = "depends" -> 5 [] phase = "rev" -> 4 [] phase \in {"switch", "switchHead"} -> 3
    [] phase = "run" -> 2 [] phase = "check" -> 1 [] phase = "exited" -> 0

StepsFrom(j) ==
  CASE j = "none" -> 4 [] j = "fetch" -> 3 [] j \in {"checkout", "head"} -> 2
    [] j = "token" -> 1 [] j = "ended" -> 0

JobSteps ==
  {x \in Slots \X (1 .. 4) :
     x[1][2] \in Items(x[1][1]) /\ x[2] <= StepsFrom(job[x[1][1]][x[1][2]])}
Fork == IF phase = "switchHead" THEN 0 ELSE 1

Variant == <<Stage, Cardinality(JobSteps), Len(todo), Fork>>

\* The lexicographical order of four numbers, in which nothing descends for ever.
Smaller == LexProductOrdering(OpToRel(<, Nat), Nat, 4)

LEMMA SmallerWellFounded == IsWellFoundedOn(Smaller, [1 .. 4 -> Nat])
<1>1. 4 \in Nat
  OBVIOUS
<1>2. QED BY <1>1, NatLessThanWellFounded, WFLexProductOrdering DEF Smaller

LEMMA SmallerIf ==
  ASSUME NEW v \in [1 .. 4 -> Nat], NEW w \in [1 .. 4 -> Nat], NEW j \in 1 .. 4,
         \A i \in 1 .. (j - 1) : v[i] = w[i], v[j] < w[j]
  PROVE  <<v, w>> \in Smaller
<1>1. <<v[j], w[j]>> \in OpToRel(<, Nat)
  BY DEF OpToRel
<1>2. QED BY <1>1 DEF Smaller, LexProductOrdering

StepsOK == IsFiniteSet(JobSteps) /\ Cardinality(JobSteps) \in Nat

LEMMA StepsFinite == StepsOK
<1>1. \A n \in Nat : IsFiniteSet(1 .. n)
  BY FS_Interval
<1>2. 4 \in Nat
  OBVIOUS
<1>3. IsFiniteSet(Slots \X (1 .. 4))
  BY <1>1, <1>2, SlotsFinite, FS_Product
<1>4. JobSteps \subseteq Slots \X (1 .. 4)
  BY DEF JobSteps
<1>5. QED BY <1>3, <1>4, FS_Subset, FS_CardinalityType DEF StepsOK

LEMMA StepsFiniteNext == StepsOK'
BY StepsFinite, PTL

VariantOK == Stage \in Nat /\ Len(todo) \in Nat /\ Fork \in Nat /\ Variant \in [1 .. 4 -> Nat]

LEMMA VariantType == TokenInv => VariantOK
<1> SUFFICES ASSUME TokenInv PROVE VariantOK
  OBVIOUS
<1>1. Stage \in Nat
  BY DEF Stage, TokenInv, WantedInv, FilesInv, Types, Pool, AfterPools, Finished, Switching
<1>2. Len(todo) \in Nat /\ Fork \in Nat
  BY DEF Fork, TokenInv, WantedInv, FilesInv, Types
<1>3. QED BY <1>1, <1>2, StepsFinite DEF Variant, VariantOK, StepsOK

LEMMA VariantTypeNext == TokenInv' => VariantOK'
BY VariantType, PTL

\* A job that moves on has less before it.
LEMMA JobLess ==
  ASSUME BuildTypes, Types, NEW p \in Pool, NEW i \in Items(p), NEW w \in Word,
         StepsFrom(w) < StepsFrom(job[p][i]), job' = [job EXCEPT ![p][i] = w]
  PROVE  Cardinality(JobSteps') < Cardinality(JobSteps)
<1> DEFINE x == <<<<p, i>>, StepsFrom(job[p][i])>>
<1>1. /\ job'[p][i] = w /\ <<p, i>> \in Slots
      /\ \A h \in Slots : h[2] \in Items(h[1]) /\ h # <<p, i>> => job'[h[1]][h[2]] = job[h[1]][h[2]]
  BY OneInSlots
<1>2. StepsFrom(job[p][i]) \in 1 .. 4 /\ StepsFrom(w) \in 0 .. 4
  <2>1. job[p][i] \in Word
    BY DEF BuildTypes
  <2>2. \A j \in Word : StepsFrom(j) \in 0 .. 4
    BY DEF StepsFrom, Word
  <2>3. QED BY <2>1, <2>2
<1>3. x \in JobSteps
  BY <1>1, <1>2 DEF JobSteps
<1>4. x \notin JobSteps'
  BY <1>1, <1>2 DEF JobSteps
<1>5. JobSteps' \subseteq JobSteps
  <2> SUFFICES ASSUME NEW h \in Slots, NEW k \in 1 .. 4, h[2] \in Items(h[1]),
                      k <= StepsFrom(job'[h[1]][h[2]])
               PROVE  k <= StepsFrom(job[h[1]][h[2]])
    BY DEF JobSteps
  <2>1. CASE h = <<p, i>>
    BY <1>1, <1>2, <2>1
  <2>2. CASE h # <<p, i>>
    BY <1>1, <2>2
  <2>3. QED BY <2>1, <2>2
<1>6. JobSteps' # JobSteps
  BY <1>3, <1>4
<1>7. QED BY <1>5, <1>6, StepsFinite, StepsFiniteNext, FS_Subset DEF StepsOK

Work == Script \/ \E p \in Pool : \E i \in Items(p) : Job(p, i)

\* One of the four numbers is less, and none before it has changed.
LEMMA SomeLess ==
  ASSUME TokenInv, TokenInv'
  PROVE  /\ Stage' < Stage => <<Variant', Variant>> \in Smaller
         /\ Stage' = Stage /\ Cardinality(JobSteps') < Cardinality(JobSteps)
            => <<Variant', Variant>> \in Smaller
         /\ Stage' = Stage /\ job' = job /\ Len(todo') < Len(todo)
            => <<Variant', Variant>> \in Smaller
         /\ Stage' = Stage /\ job' = job /\ todo' = todo /\ Fork' < Fork
            => <<Variant', Variant>> \in Smaller
<1>1. Variant \in [1 .. 4 -> Nat] /\ Variant' \in [1 .. 4 -> Nat]
  BY VariantType, VariantTypeNext DEF VariantOK
<1> DEFINE Less(j) == (\A i \in 1 .. (j - 1) : Variant'[i] = Variant[i]) /\ Variant'[j] < Variant[j]
<1>2. \A j \in 1 .. 4 : Less(j) => <<Variant', Variant>> \in Smaller
  BY <1>1, SmallerIf
<1>3. /\ Variant[1] = Stage /\ Variant[2] = Cardinality(JobSteps)
      /\ Variant[3] = Len(todo) /\ Variant[4] = Fork
      /\ Variant'[1] = Stage' /\ Variant'[2] = Cardinality(JobSteps')
      /\ Variant'[3] = Len(todo') /\ Variant'[4] = Fork'
  BY DEF Variant
<1>4. job' = job => JobSteps' = JobSteps
  BY DEF JobSteps
<1>5. Stage' < Stage => Less(1)
  BY <1>3
<1>6. Stage' = Stage /\ Cardinality(JobSteps') < Cardinality(JobSteps) => Less(2)
  BY <1>3
<1>7. Stage' = Stage /\ job' = job /\ Len(todo') < Len(todo) => Less(3)
  BY <1>3, <1>4
<1>8. Stage' = Stage /\ job' = job /\ todo' = todo /\ Fork' < Fork => Less(4)
  BY <1>3, <1>4
<1> HIDE DEF Less
<1>9. QED BY <1>2, <1>5, <1>6, <1>7, <1>8

LEMMA WorkDescends ==
  ASSUME TokenInv, TokenInv', Work
  PROVE  <<Variant', Variant>> \in Smaller
<1>1. /\ BuildTypes /\ Types /\ Here /\ ToStart /\ todo \in Seq(Line)
  BY DEF TokenInv, WantedInv, FilesInv, Types
<1>2. phase' = phase => Stage' = Stage
  BY DEF Stage
<1>3. CASE \E i \in Mod \cup Items("foreign") : Start(i)
  <2> DEFINE w == IF phase = "foreign" THEN "checkout" ELSE "fetch"
  <2>1. PICK i \in left : Start(i)
    BY <1>3 DEF Start
  <2>2. /\ phase \in Pool /\ phase' = phase /\ i \in Items(phase)
        /\ job[phase][i] = "none" /\ job' = [job EXCEPT ![phase][i] = w]
    BY <1>1, <2>1 DEF Start, ToStart
  <2>3. w \in Word /\ StepsFrom(w) < StepsFrom("none")
    BY DEF Word, StepsFrom
  <2> HIDE DEF w
  <2>4. Cardinality(JobSteps') < Cardinality(JobSteps)
    BY <1>1, <2>2, <2>3, JobLess
  <2>5. QED BY <1>2, <2>2, <2>4, SomeLess
<1>4. ASSUME NEW p \in Pool, NEW i \in Items(p), Job(p, i)
      PROVE  <<Variant', Variant>> \in Smaller
  <2>1. PICK w \in Word : StepsFrom(w) < StepsFrom(job[p][i]) /\ job' = [job EXCEPT ![p][i] = w]
    BY <1>4 DEF Job, Foreign, ConfigFetch, ConfigHead, PutBack, Advance, StepsFrom, Word
  <2>2. phase' = phase
    BY <1>4 DEF Job, Foreign, ConfigFetch, ConfigHead, PutBack
  <2>3. Cardinality(JobSteps') < Cardinality(JobSteps)
    BY <1>1, <2>1, JobLess
  <2>4. QED BY <1>2, <2>2, <2>3, SomeLess
<1>5. CASE CheckEnvFails \/ CheckEnv \/ Wait \/ OwnFetch \/ OwnHead \/ Group \/ Listed
           \/ OwnRev \/ Switched \/ NoTemplate \/ Run \/ CheckResult
  <2>1. Stage' < Stage
    BY <1>5 DEF CheckEnvFails, CheckEnv, Wait, OwnFetch, OwnHead, Group, Listed, OwnRev,
       Switched, NoTemplate, Run, CheckResult, Stage
  <2>2. QED BY <2>1, SomeLess
<1>6. CASE Depend \/ SwitchNothing \/ SwitchHead
  <2>1. todo # <<>> /\ todo' = Tail(todo) /\ job' = job
    BY <1>1, <1>6 DEF Depend, SwitchNothing, SwitchHead, Here, pool
  <2>2. Len(todo') < Len(todo)
    BY <1>1, <2>1
  <2>3. Stage' = Stage
    BY <1>6 DEF Depend, SwitchNothing, SwitchHead, Stage
  <2>4. QED BY <2>1, <2>2, <2>3, SomeLess
<1>7. CASE SwitchFetch
  <2>1. Stage' = Stage /\ Fork' < Fork /\ job' = job /\ todo' = todo
    BY <1>7 DEF SwitchFetch, Stage, Fork, pool, files
  <2>2. QED BY <2>1, SomeLess
<1>8. QED BY <1>3, <1>4, <1>5, <1>6, <1>7 DEF Work, Script

\* compile.sh: every step, of the script or of one of its jobs and in whatever
\* order they run, leaves less to do in an order in which nothing descends for
\* ever; with NeverStuck, the build comes to its end.
THEOREM Descent ==
  /\ IsWellFoundedOn(Smaller, [1 .. 4 -> Nat])
  /\ Spec => [][Work => <<Variant', Variant>> \in Smaller]_vars
<1>1. TokenInv /\ TokenInv' /\ Work => <<Variant', Variant>> \in Smaller
  BY WorkDescends
<1>2. Spec => [][Work => <<Variant', Variant>> \in Smaller]_vars
  BY <1>1, TokenInit, TokenStep, PTL DEF Spec
<1>3. QED BY <1>2, SmallerWellFounded
=============================================================================
