---------------------------- MODULE UsageProofs ----------------------------
(***************************************************************************)
(* Theorems about Reports, and with it Usage, for every set of runs, hosts *)
(* and projects, every order of their dates and every length of the file.  *)
(***************************************************************************)
EXTENDS Reports, FiniteSetTheorems, WellFoundedInduction, TLAPS

Shape ==
  /\ DOMAIN status = Run /\ DOMAIN pc = Run /\ DOMAIN result = Run
  /\ file.kind \in {"absent", "yaml", "broken"} /\ file.runs \in Seq(Run)
  /\ held \in [Run -> Seq(Run)] /\ safe \in Seq(Run)
  /\ db = [there |-> db.there, column |-> db.column, rows |-> db.rows]

-----------------------------------------------------------------------------
(* The newest entries, and the ends of sequences *)

LEMMA KeepAtLeast1 == Keep \in Nat \ {0}
  BY UsageAssumption

\* Counted from their ends, two sequences have the same elements.
Agree(s, t) ==
  \A i \in 1 .. Len(s), j \in 1 .. Len(t) : Len(s) - i = Len(t) - j => s[i] = t[j]

LEMMA Backwards ==
  ASSUME NEW s \in Seq(Run)
  PROVE  /\ Reverse(s) \in Seq(Run) /\ Len(Reverse(s)) = Len(s)
         /\ \A i, j \in 1 .. Len(s) : i + j = Len(s) + 1 => Reverse(s)[i] = s[j]
<1>1. /\ Reverse(s) = [i \in 1 .. Len(s) |-> s[(Len(s) - i) + 1]]
      /\ \A i \in 1 .. Len(s) : Len(s) - i + 1 \in 1 .. Len(s)
  BY DEF Reverse
<1>2. Reverse(s) \in Seq(Run) /\ Len(Reverse(s)) = Len(s)
  BY <1>1
<1>3. ASSUME NEW i \in 1 .. Len(s), NEW j \in 1 .. Len(s), i + j = Len(s) + 1
      PROVE  Reverse(s)[i] = s[j]
  <2>1. Len(s) - i + 1 = j
    BY <1>3
  <2>2. QED BY <1>1, <2>1
<1>4. QED BY <1>2, <1>3

LEMMA Suffix ==
  ASSUME NEW s \in Seq(Run), NEW t \in Seq(Run)
  PROVE  IsSuffix(s, t) <=> Len(s) <= Len(t) /\ Agree(s, t)
<1> DEFINE a == Reverse(s)
           b == Reverse(t)
<1> Len(s) \in Nat /\ Len(t) \in Nat
  OBVIOUS
<1>1. /\ a \in Seq(Run) /\ Len(a) = Len(s)
      /\ \A i, j \in 1 .. Len(s) : i + j = Len(s) + 1 => a[i] = s[j]
  BY Backwards
<1>2. /\ b \in Seq(Run) /\ Len(b) = Len(t)
      /\ \A i, j \in 1 .. Len(t) : i + j = Len(t) + 1 => b[i] = t[j]
  BY Backwards
<1>3. IsSuffix(s, t) <=> Len(a) <= Len(b) /\ SubSeq(a, 1, Len(a)) = SubSeq(b, 1, Len(a))
  BY DEF IsSuffix, IsPrefix
<1> HIDE DEF a, b
<1>4. ASSUME Len(a) <= Len(b)
      PROVE  SubSeq(a, 1, Len(a)) = SubSeq(b, 1, Len(a)) <=> \A i \in 1 .. Len(a) : a[i] = b[i]
  BY <1>1, <1>2, <1>4
<1>5. ASSUME Len(s) <= Len(t)
      PROVE  (\A i \in 1 .. Len(s) : a[i] = b[i]) <=> Agree(s, t)
  <2>1. ASSUME \A i \in 1 .. Len(s) : a[i] = b[i],
               NEW i \in 1 .. Len(s), NEW j \in 1 .. Len(t), Len(s) - i = Len(t) - j
        PROVE  s[i] = t[j]
    <3> DEFINE k == Len(s) + 1 - i
    <3>1. k \in 1 .. Len(s) /\ i + k = Len(s) + 1 /\ j + k = Len(t) + 1
      BY <2>1
    <3> HIDE DEF k
    <3>2. a[k] = s[i] /\ b[k] = t[j]
      BY <3>1, <1>1, <1>2, <1>5
    <3>3. QED BY <2>1, <3>1, <3>2
  <2>2. ASSUME Agree(s, t), NEW k \in 1 .. Len(s)
        PROVE  a[k] = b[k]
    <3> DEFINE i == Len(s) + 1 - k
               j == Len(t) + 1 - k
    <3>1. i \in 1 .. Len(s) /\ i + k = Len(s) + 1
      OBVIOUS
    <3>2. j \in 1 .. Len(t) /\ k \in 1 .. Len(t) /\ j + k = Len(t) + 1
      BY <1>5
    <3> HIDE DEF i, j
    <3>3. a[k] = s[i] /\ b[k] = t[j]
      BY <3>1, <3>2, <1>1, <1>2, <1>5
    <3>4. Len(s) - i = Len(t) - j
      BY <3>1, <3>2
    <3>5. QED BY <2>2, <3>1, <3>2, <3>3, <3>4 DEF Agree
  <2>3. QED BY <2>1, <2>2 DEF Agree
<1>6. QED BY <1>1, <1>2, <1>3, <1>4, <1>5

LEMMA NewestOf ==
  ASSUME NEW s \in Seq(Run)
  PROVE  /\ Newest(s) \in Seq(Run)
         /\ Len(Newest(s)) = IF Len(s) <= Keep THEN Len(s) ELSE Keep
         /\ Agree(Newest(s), s)
<1> DEFINE n == SubSeq(s, Len(s) - Keep + 1, Len(s))
<1>1. CASE Len(s) <= Keep
  BY <1>1 DEF Newest, Agree
<1>2. CASE Len(s) > Keep
  <2>1. /\ n \in Seq(Run) /\ Len(n) = Keep
        /\ \A i \in 1 .. Keep : n[i] = s[(Len(s) - Keep + 1) + i - 1]
    BY <1>2, KeepAtLeast1
  <2>2. Newest(s) = n
    BY <1>2, KeepAtLeast1 DEF Newest
  <2> HIDE DEF n
  <2>3. ASSUME NEW i \in 1 .. Keep, NEW j \in 1 .. Len(s), Keep - i = Len(s) - j
        PROVE  n[i] = s[j]
    <3>1. (Len(s) - Keep + 1) + i - 1 = j
      BY <2>3, KeepAtLeast1
    <3>2. n[i] = s[(Len(s) - Keep + 1) + i - 1]
      BY <2>1
    <3>3. QED BY <3>1, <3>2
  <2>4. Agree(n, s)
    BY <2>1, <2>3 DEF Agree
  <2>5. ~ (Len(s) <= Keep)
    BY <1>2, KeepAtLeast1
  <2>6. QED BY <2>1, <2>2, <2>4, <2>5
<1>3. QED BY <1>1, <1>2, KeepAtLeast1

LEMMA NewestEmpty ==
  ASSUME NEW t \in Seq(Run)
  PROVE  IsSuffix(Newest(<<>>), t)
<1>1. <<>> \in Seq(Run) /\ Len(<<>>) = 0
  OBVIOUS
<1>2. Newest(<<>>) = <<>>
  BY <1>1, KeepAtLeast1 DEF Newest
<1>3. Agree(<<>>, t) /\ Len(<<>>) <= Len(t)
  BY <1>1 DEF Agree
<1>4. IsSuffix(<<>>, t)
  BY <1>1, <1>3, Suffix
<1>5. QED BY <1>2, <1>4

LEMMA NewestAppend ==
  ASSUME NEW s \in Seq(Run), NEW t \in Seq(Run), NEW r \in Run, IsSuffix(Newest(s), t)
  PROVE  IsSuffix(Newest(Append(s, r)), Newest(Append(t, r)))
<1> DEFINE u == Append(s, r)
           v == Append(t, r)
           n == Newest(s)
           m == Newest(u)
           w == Newest(v)
<1> Len(s) \in Nat /\ Len(t) \in Nat
  OBVIOUS
<1>1. /\ u \in Seq(Run) /\ v \in Seq(Run) /\ Len(u) = Len(s) + 1 /\ Len(v) = Len(t) + 1
      /\ \A i \in 1 .. Len(s) : u[i] = s[i]
      /\ \A i \in 1 .. Len(t) : v[i] = t[i]
      /\ u[Len(u)] = r /\ v[Len(v)] = r
  OBVIOUS
<1>2. /\ n \in Seq(Run) /\ Len(n) = IF Len(s) <= Keep THEN Len(s) ELSE Keep
      /\ Agree(n, s)
  BY NewestOf
<1>3. /\ m \in Seq(Run) /\ Len(m) = IF Len(u) <= Keep THEN Len(u) ELSE Keep
      /\ Agree(m, u)
  BY NewestOf, <1>1
<1>4. /\ w \in Seq(Run) /\ Len(w) = IF Len(v) <= Keep THEN Len(v) ELSE Keep
      /\ Agree(w, v)
  BY NewestOf, <1>1
<1>5. Len(n) <= Len(t) /\ Agree(n, t)
  BY <1>2, Suffix
<1> HIDE DEF u, v, n, m, w
<1>6. Len(m) <= Len(w)
  BY <1>1, <1>2, <1>3, <1>4, <1>5, KeepAtLeast1
<1>7. ASSUME NEW i \in 1 .. Len(m), NEW j \in 1 .. Len(w), Len(m) - i = Len(w) - j
      PROVE  m[i] = w[j]
  <2> DEFINE x == Len(u) - (Len(m) - i)
             y == Len(v) - (Len(m) - i)
  <2>1. x \in 1 .. Len(u) /\ Len(u) - x = Len(m) - i
    BY <1>1, <1>3
  <2>2. y \in 1 .. Len(v) /\ Len(v) - y = Len(m) - i
    BY <1>1, <1>3, <1>4, <1>6, <1>7
  <2> HIDE DEF x, y
  <2>3. m[i] = u[x]
    BY <2>1, <1>3 DEF Agree
  <2>4. w[j] = v[y]
    BY <2>2, <1>4, <1>7 DEF Agree
  <2>5. CASE i = Len(m)
    <3>1. x = Len(u) /\ y = Len(v)
      BY <2>1, <2>2, <2>5, <1>1, <1>3
    <3>2. QED BY <2>3, <2>4, <3>1, <1>1
  <2>6. CASE i # Len(m)
    <3> Len(m) \in Nat
      BY <1>3
    <3>1. Len(u) = Len(s) + 1 /\ Len(v) = Len(t) + 1
      BY <1>1
    <3>2. x \in 1 .. Len(s) /\ y \in 1 .. Len(t) /\ Len(s) - x = Len(t) - y
      BY <2>1, <2>2, <2>6, <3>1
    <3> DEFINE k == Len(n) - (Len(s) - x)
    <3>3. k \in 1 .. Len(n) /\ Len(n) - k = Len(s) - x
      BY <2>1, <2>6, <3>2, <1>1, <1>2, <1>3, KeepAtLeast1
    <3> HIDE DEF k
    <3>4. n[k] = s[x]
      BY <3>2, <3>3, <1>2 DEF Agree
    <3>5. n[k] = t[y]
      BY <3>2, <3>3, <1>5 DEF Agree
    <3>6. u[x] = s[x] /\ v[y] = t[y]
      BY <3>2, <1>1
    <3>7. QED BY <2>3, <2>4, <3>4, <3>5, <3>6
  <2>7. QED BY <2>5, <2>6
<1>8. IsSuffix(m, w)
  BY <1>3, <1>4, <1>6, <1>7, Suffix DEF Agree
<1>9. QED BY <1>8 DEF m, w, u, v
LEMMA ShapeStep == Shape /\ [Next]_reportVars => Shape'
<1> SUFFICES ASSUME Shape, [Next]_reportVars PROVE Shape'
  OBVIOUS
<1> USE DEF Shape, table, script, records
<1>1. ASSUME NEW r \in Run,
             \/ Start(r) \/ ControllerDown(r) \/ NextProject(r)
             \/ NextAddress(r) \/ Timeout(r) \/ Get(r) \/ Process(r)
      PROVE  Shape'
  BY <1>1 DEF Start, ControllerDown, NextProject, NextAddress, Timeout, Get, Process, Login,
              Root, Flush, Put, Worker, GoTo, Exit
<1>2. ASSUME NEW r \in Run, Sampled(r) \/ CreateTable(r) \/ Insert(r) PROVE Shape'
  BY <1>2 DEF Sampled, CreateTable, Insert, GoTo, Exit
<1>3. ASSUME NEW r \in Run, Exists(r) PROVE Shape'
  BY <1>3 DEF Exists, ReadFile, GoTo, Exit
<1>4. ASSUME NEW r \in Run, Create(r) \/ Read(r) \/ Truncate(r) PROVE Shape'
  <2>1. <<>> \in Seq(Run)
    OBVIOUS
  <2>2. file' = file \/ file' = [kind |-> "yaml", runs |-> <<>>]
    BY <1>4 DEF Create, Read, Truncate, Emptied
  <2>3. file'.kind \in {"absent", "yaml", "broken"} /\ file'.runs \in Seq(Run)
    <3>1. CASE file' = file
      BY <3>1
    <3>2. CASE file' = [kind |-> "yaml", runs |-> <<>>]
      BY <2>1, <3>2
    <3>3. QED BY <2>2, <3>1, <3>2
  <2>4. QED BY <1>4, <2>3 DEF Create, Read, Truncate, ReadFile, GoTo, Exit
<1>5. ASSUME NEW r \in Run, Write(r) PROVE Shape'
  <2>1. Append(held[r], r) \in Seq(Run) /\ Append(safe, r) \in Seq(Run) /\ <<>> \in Seq(Run)
    OBVIOUS
  <2>2. Newest(Append(held[r], r)) \in Seq(Run)
    BY <2>1, NewestOf
  <2>3. \/ file' = [kind |-> "yaml", runs |-> Newest(Append(held[r], r))]
        \/ file' = [kind |-> "broken", runs |-> <<>>]
    BY <1>5 DEF Write
  <2>4. file'.kind \in {"absent", "yaml", "broken"} /\ file'.runs \in Seq(Run)
    <3>1. CASE file' = [kind |-> "yaml", runs |-> Newest(Append(held[r], r))]
      BY <2>2, <3>1
    <3>2. CASE file' = [kind |-> "broken", runs |-> <<>>]
      BY <2>1, <3>2
    <3>3. QED BY <2>3, <3>1, <3>2
  <2>5. QED BY <1>5, <2>1, <2>4 DEF Write, GoTo
<1>6. ASSUME NEW r \in Run, Kill(r) PROVE Shape'
  BY <1>6 DEF Kill, Exit
<1>7. CASE Admin
  BY <1>7 DEF Admin, LoadFile, DropTable, NewTable, SelectMax, LoadRows, AlterTable, Fixed
<1>8. CASE Report \/ Ended \/ UNCHANGED reportVars
  BY <1>8 DEF Report, Query, QueryFails, WritePage, Ended, reportVars, vars
<1>9. QED
  BY <1>1, <1>2, <1>3, <1>4, <1>5, <1>6, <1>7, <1>8 DEF Next, Beside, Collect, Parent

-----------------------------------------------------------------------------
(* The records: what an update that no other one overlaps reads is what the  *)
(* one before it wrote.                                                      *)

\* An update that has looked for the file meets every other one that has.
Meeting == \A q, r \in Run : q # r /\ Updating(q) /\ Updating(r) => r \in overlapped

NoneYet ==
  /\ file.kind = "absent" => safe = <<>>
  /\ \A r \in Run : At(r, "create") \/ At(r, "read") => safe = <<>>

\* A run between reading and writing holds the newest entries.
HeldNewest == \A r \in Run \ overlapped :
  At(r, "truncate") \/ At(r, "write") => IsSuffix(Newest(safe), held[r])

FileInv == Meeting /\ NoneYet /\ mixed \subseteq overlapped /\ HeldNewest /\ RecordKept

\* Steps that leave the file alone and begin no update.
Aside ==
  /\ UNCHANGED <<file, held, mixed, overlapped>>
  /\ \A r \in Run : Updating(r)' => Updating(r) /\ pc'[r] = pc[r]
  /\ \/ safe' = <<>>
     \/ safe' = safe /\ \A r \in Run : At(r, "write") => At(r, "write")'

LEMMA FileAside == Shape /\ FileInv /\ Aside => FileInv'
<1> SUFFICES ASSUME Shape, FileInv, Aside PROVE FileInv'
  OBVIOUS
<1>1. \A r \in Run : Updating(r)' => /\ Live(r) /\ Live(r)' /\ Updating(r)
                                     /\ pc'[r] = pc[r]
  BY DEF Aside, Updating, Live
<1>2. Meeting' /\ mixed' \subseteq overlapped'
  BY <1>1 DEF FileInv, Meeting, Aside
<1>3. NoneYet'
  BY <1>1 DEF FileInv, NoneYet, Aside, Updating, At, Live
<1>4. HeldNewest' /\ RecordKept'
  <2>1. CASE safe' = <<>>
    <3>1. \A t \in Seq(Run) : IsSuffix(Newest(safe'), t)
      BY <2>1, NewestEmpty
    <3>2. held' \in [Run -> Seq(Run)] /\ file'.runs \in Seq(Run)
      BY DEF Aside, Shape
    <3>3. Newest(safe)' = Newest(safe')
      BY DEF Newest
    <3>4. QED BY <3>1, <3>2, <3>3 DEF HeldNewest, RecordKept
  <2>2. CASE safe' = safe /\ \A r \in Run : At(r, "write") => At(r, "write")'
    <3>1. Newest(safe)' = Newest(safe)
      BY <2>2 DEF Newest
    <3>2. HeldNewest'
      BY <1>1, <3>1 DEF FileInv, HeldNewest, Aside, Updating, At, Live
    <3>3. RecordKept'
      BY <2>2, <3>1 DEF FileInv, RecordKept, Aside
    <3>4. QED BY <3>2, <3>3
  <2>3. QED BY <2>1, <2>2 DEF Aside
<1>5. QED BY <1>2, <1>3, <1>4 DEF FileInv

LEMMA AsideFor ==
  ASSUME Shape, NEW r \in Run,
         \/ Start(r) \/ ControllerDown(r) \/ NextProject(r) \/ NextAddress(r) \/ Sampled(r)
         \/ Timeout(r) \/ Get(r) \/ Process(r) \/ CreateTable(r) \/ Insert(r) \/ Kill(r)
  PROVE  Aside
<1> USE DEF Shape, Aside, Updating, Live, At, records
<1>1. CASE Start(r)
  BY <1>1 DEF Start, GoTo
<1>2. CASE ControllerDown(r)
  BY <1>2 DEF ControllerDown, Exit
<1>3. CASE NextProject(r)
  BY <1>3 DEF NextProject, GoTo
<1>4. CASE NextAddress(r) \/ Timeout(r) \/ Get(r)
  BY <1>4 DEF NextAddress, Timeout, Get, Worker
<1>5. CASE Sampled(r)
  BY <1>5 DEF Sampled, Idle, GoTo
<1>6. CASE Process(r)
  BY <1>6 DEF Process, Login, Root, Flush, Put, Worker
<1>7. CASE CreateTable(r)
  BY <1>7 DEF CreateTable, GoTo
<1>8. CASE Insert(r)
  BY <1>8 DEF Insert, Exit
<1>9. CASE Kill(r)
  BY <1>9 DEF Kill, Exit
<1>10. QED BY <1>1, <1>2, <1>3, <1>4, <1>5, <1>6, <1>7, <1>8, <1>9

\* The steps of an update.
LEMMA FileUpdate ==
  ASSUME Shape, FileInv, Shape', NEW r \in Run,
         Exists(r) \/ Create(r) \/ Read(r) \/ Truncate(r) \/ Write(r)
  PROVE  FileInv'
<1> USE DEF Shape, Updating, Live, At
<1>1. CASE Exists(r)
  <2>1. /\ Live(r) /\ pc[r] = "project"
        /\ UNCHANGED <<file, safe, mixed>>
        /\ overlapped \subseteq overlapped'
        /\ \A q \in Run : Updating(q) => q \in overlapped' /\ r \in overlapped'
    BY <1>1 DEF Exists
  <2>2. \A q \in Run \ {r} : status'[q] = status[q] /\ pc'[q] = pc[q] /\ held'[q] = held[q]
    BY <1>1 DEF Exists, ReadFile, GoTo, Exit
  <2>3. \/ At(r, "create")' /\ file.kind = "absent"
        \/ ~ Live(r)'
        \/ At(r, "truncate")' /\ held'[r] = file.runs
    BY <1>1 DEF Exists, ReadFile, GoTo, Exit
  <2>4. Meeting' /\ mixed' \subseteq overlapped'
    BY <2>1, <2>2 DEF FileInv, Meeting
  <2>5. NoneYet'
    BY <2>1, <2>2, <2>3 DEF FileInv, NoneYet
  <2>6. Newest(safe)' = Newest(safe) /\ RecordKept'
    BY <2>1, <2>2, <2>3 DEF FileInv, RecordKept, Newest
  <2>7. HeldNewest'
    <3> SUFFICES ASSUME NEW q \in Run \ overlapped', At(q, "truncate")' \/ At(q, "write")'
                 PROVE  IsSuffix(Newest(safe), held'[q])
      BY <2>6 DEF HeldNewest
    <3>1. q = r
      BY <2>1, <2>2
    <3>2. \A p \in Run : ~ At(p, "write")
      BY <2>1, <3>1
    <3>3. held'[q] = file.runs
      BY <2>3, <3>1
    <3>4. QED BY <3>2, <3>3 DEF FileInv, RecordKept
  <2>8. QED BY <2>4, <2>5, <2>6, <2>7 DEF FileInv
<1>2. CASE Create(r) \/ Read(r) \/ Truncate(r)
  <2>1. /\ UNCHANGED <<safe, overlapped>> /\ Updating(r)
        /\ \A q \in Run \ {r} : status'[q] = status[q] /\ pc'[q] = pc[q] /\ held'[q] = held[q]
        /\ \/ file' = file /\ mixed' = mixed
           \/ file'.kind = "yaml" /\ mixed' = {}
    <3>1. CASE Create(r)
      BY <3>1 DEF Create, Emptied, GoTo
    <3>2. CASE Read(r)
      <4>1. UNCHANGED <<safe, overlapped, file, mixed>> /\ Updating(r)
        BY <3>2 DEF Read
      <4>2. \A q \in Run \ {r} : /\ status'[q] = status[q]
                                /\ pc'[q] = pc[q] /\ held'[q] = held[q]
        BY <3>2 DEF Read, ReadFile, GoTo, Exit
      <4>3. QED BY <4>1, <4>2
    <3>3. CASE Truncate(r)
      BY <3>3 DEF Truncate, Emptied, GoTo
    <3>4. QED BY <1>2, <3>1, <3>2, <3>3
  <2>2. \/ ~ Live(r)' /\ safe = <<>>
        \/ At(r, "read")' /\ safe = <<>>
        \/ At(r, "truncate")' /\ safe = <<>>
        \/ At(r, "write")' /\ At(r, "truncate") /\ held' = held
    BY <1>2 DEF Create, Read, Truncate, ReadFile, GoTo, Exit, FileInv, NoneYet
  <2>3. Meeting' /\ mixed' \subseteq overlapped'
    BY <2>1, <2>2 DEF FileInv, Meeting
  <2>4. NoneYet'
    BY <2>1, <2>2 DEF FileInv, NoneYet
  <2>5. Newest(safe)' = Newest(safe)
    BY <2>1 DEF Newest
  <2>6. held' \in [Run -> Seq(Run)] /\ file'.runs \in Seq(Run)
    OBVIOUS
  <2>7. safe = <<>> => \A t \in Seq(Run) : IsSuffix(Newest(safe), t)
    BY NewestEmpty
  <2>8. HeldNewest'
    BY <2>1, <2>2, <2>5, <2>6, <2>7 DEF FileInv, HeldNewest
  <2>9. RecordKept'
    BY <2>2, <2>5, <2>6, <2>7 DEF RecordKept
  <2>10. QED BY <2>3, <2>4, <2>8, <2>9 DEF FileInv
<1>3. CASE Write(r)
  <2>1. /\ Updating(r) /\ At(r, "write") /\ pc'[r] = "table" /\ overlapped' = overlapped
        /\ \A q \in Run \ {r} : status'[q] = status[q] /\ pc'[q] = pc[q] /\ held'[q] = held[q]
        /\ file'.kind # "absent"
        /\ mixed' = {q \in Run \ {r} : At(q, "write")}
        /\ safe' = IF r \in overlapped THEN <<>> ELSE Append(safe, r)
    BY <1>3 DEF Write, GoTo
  <2>2. \A q \in Run \ {r} : Updating(q) => q \in overlapped /\ r \in overlapped
    BY <2>1 DEF FileInv, Meeting
  <2>3. Meeting' /\ mixed' \subseteq overlapped'
    BY <2>1, <2>2 DEF FileInv, Meeting
  <2>4. NoneYet'
    BY <2>1, <2>2 DEF FileInv, NoneYet
  <2>5. HeldNewest'
    BY <2>1, <2>2 DEF HeldNewest
  <2>6. Newest(safe)' = Newest(safe')
    BY DEF Newest
  <2>7. CASE r \in overlapped
    <3>1. IsSuffix(Newest(safe'), file'.runs)
      BY <2>1, <2>7, NewestEmpty
    <3>2. QED BY <2>3, <2>4, <2>5, <2>6, <3>1 DEF FileInv, RecordKept
  <2>8. CASE r \notin overlapped
    <3>1. r \notin mixed
      BY <2>8 DEF FileInv
    <3>2. file'.runs = Newest(Append(held[r], r)) /\ safe' = Append(safe, r)
      BY <1>3, <2>1, <2>8, <3>1 DEF Write
    <3>3. IsSuffix(Newest(safe), held[r])
      BY <2>1, <2>8 DEF FileInv, HeldNewest
    <3>4. IsSuffix(Newest(Append(safe, r)), Newest(Append(held[r], r)))
      BY <3>3, NewestAppend
    <3>5. QED BY <2>3, <2>4, <2>5, <2>6, <3>2, <3>4 DEF FileInv, RecordKept
  <2>9. QED BY <2>7, <2>8
<1>4. QED BY <1>1, <1>2, <1>3

LEMMA FileStep == Shape /\ FileInv /\ [Next]_reportVars => FileInv'
<1> SUFFICES ASSUME Shape, FileInv, [Next]_reportVars PROVE FileInv'
  OBVIOUS
<1>1. Shape'
  BY ShapeStep
<1>2. ASSUME NEW r \in Run,
             \/ Start(r) \/ ControllerDown(r) \/ NextProject(r) \/ NextAddress(r) \/ Sampled(r)
             \/ Timeout(r) \/ Get(r) \/ Process(r) \/ CreateTable(r) \/ Insert(r) \/ Kill(r)
      PROVE  FileInv'
  <2>1. Aside
    BY <1>2, AsideFor
  <2>2. QED BY <2>1, FileAside
<1>3. ASSUME NEW r \in Run, Exists(r) \/ Create(r) \/ Read(r) \/ Truncate(r) \/ Write(r)
      PROVE  FileInv'
  BY <1>1, <1>3, FileUpdate
<1>4. CASE Admin \/ Report \/ Ended \/ UNCHANGED reportVars
  <2>1. UNCHANGED <<pc, status, records>>
    BY <1>4 DEF Admin, LoadFile, DropTable, NewTable, SelectMax, LoadRows, AlterTable, Fixed,
                Report, Query, QueryFails, WritePage, Ended, reportVars, vars
  <2>2. Aside
    BY <2>1 DEF Aside, records, Updating, Live, At
  <2>3. QED BY <2>2, FileAside
<1>5. QED BY <1>2, <1>3, <1>4 DEF Next, Beside, Collect, Parent

LEMMA FileInit == ReportsInit => Shape /\ FileInv
<1> SUFFICES ASSUME ReportsInit PROVE Shape /\ FileInv
  OBVIOUS
<1>1. <<>> \in Seq(Run)
  OBVIOUS
<1>2. Shape
  BY <1>1 DEF ReportsInit, Init, Shape
<1>3. \A r \in Run : ~ Updating(r) /\ ~ At(r, "create") /\ ~ At(r, "read")
                     /\ ~ At(r, "truncate") /\ ~ At(r, "write")
  BY DEF ReportsInit, Init, Updating, At
<1>4. safe = <<>> /\ mixed = {} /\ file.runs \in Seq(Run)
  BY <1>2 DEF ReportsInit, Init, Shape
<1>5. RecordKept
  BY <1>4, NewestEmpty DEF RecordKept
<1>6. QED
  BY <1>2, <1>3, <1>4, <1>5 DEF FileInv, Meeting, NoneYet, HeldNewest

\* nova_compute.py:170-180: whatever the runs, their order and the length of the
\* file, its newest entries stay in it unless updates overlap or a run is killed
\* between truncating and writing.
THEOREM RecordsKept == Spec => []RecordKept
<1>1. Shape /\ FileInv => RecordKept
  BY DEF FileInv
<1>2. QED BY <1>1, FileInit, ShapeStep, FileStep, PTL DEF Spec

-----------------------------------------------------------------------------
(* The table *)

TableInv == (~ db.there => db.rows = {}) /\ TableKeeps

Untouched == called \cap {"drop", "missing"} = {}

\* Of a table that the administrator has not touched, every row was inserted by
\* a run that ended well.
Inserted == Untouched =>
  /\ admin.at = "none"
  /\ db.there => db.column
  /\ \A r \in Run : At(r, "insert") => db.there
  /\ \A x \in db.rows : x[2] \in Run /\ status[x[2]] = "0" /\ x[1] \in DOMAIN result[x[2]]

Started == /\ DOMAIN date \subseteq Run
           /\ \A r \in Run : status[r] # "none" => r \in DOMAIN date

RowsInv == TableInv /\ Inserted /\ Started /\ DbFailsFor

-----------------------------------------------------------------------------
(* Most steps are those of a run that has not come to the table. *)

Elsewhere ==
  /\ UNCHANGED <<date, tools, result, db, dropped, admin, called>>
  /\ \A r \in Run :
       /\ status'[r] # status[r] => /\ Live(r) /\ pc'[r] = pc[r]
                                    /\ \/ status'[r] = "killed"
                                       \/ status'[r] = "1" /\ pc[r] # "insert"
       /\ pc'[r] # pc[r] => Live(r) /\ pc'[r] # "insert"

LEMMA ElsewhereFor ==
  ASSUME Shape, NEW r \in Run,
         \/ Start(r) \/ ControllerDown(r) \/ Process(r) \/ Kill(r)
         \/ NextProject(r) \/ NextAddress(r) \/ Timeout(r) \/ Get(r)
         \/ Exists(r) \/ Create(r) \/ Read(r) \/ Truncate(r) \/ Write(r)
  PROVE  Elsewhere
<1> USE DEF table, script, records, Shape, Elsewhere, Live, At
<1>1. CASE Start(r)
  BY <1>1 DEF Start, GoTo
<1>2. CASE ControllerDown(r)
  BY <1>2 DEF ControllerDown, Exit
<1>3. CASE Process(r)
  BY <1>3 DEF Process, Login, Root, Flush, Put, Worker
<1>4. CASE Kill(r)
  BY <1>4 DEF Kill, Exit
<1>5. CASE NextProject(r)
  BY <1>5 DEF NextProject, GoTo
<1>6. CASE NextAddress(r)
  BY <1>6 DEF NextAddress
<1>7. CASE Timeout(r) \/ Get(r)
  BY <1>7 DEF Timeout, Get, Worker
<1>8. CASE Exists(r)
  <2>1. /\ Live(r) /\ pc[r] # "insert"
        /\ UNCHANGED <<result, db, dropped, admin, called>>
        /\ GoTo(r, "create") \/ Exit(r, "1") \/ GoTo(r, "truncate")
    BY <1>8 DEF Exists, ReadFile
  <2>2. QED BY <2>1 DEF GoTo, Exit
<1>9. CASE Create(r)
  BY <1>9 DEF Create, GoTo
<1>10. CASE Read(r)
  <2>1. /\ Live(r) /\ pc[r] # "insert"
        /\ UNCHANGED <<result, db, dropped, admin, called>>
        /\ GoTo(r, "truncate") \/ Exit(r, "1")
    BY <1>10 DEF Read, ReadFile
  <2>2. QED BY <2>1 DEF GoTo, Exit
<1>11. CASE Truncate(r)
  BY <1>11 DEF Truncate, GoTo
<1>12. CASE Write(r)
  BY <1>12 DEF Write, GoTo
<1>13. QED
  BY <1>1, <1>2, <1>3, <1>4, <1>5, <1>6, <1>7, <1>8, <1>9, <1>10, <1>11, <1>12

LEMMA RowsElsewhere == Shape /\ RowsInv /\ Elsewhere => RowsInv'
<1> SUFFICES ASSUME Shape, RowsInv, Elsewhere PROVE RowsInv'
  OBVIOUS
<1> USE DEF Elsewhere, Shape
<1>1. \A r \in Run : Rows(r)' = Rows(r)
  BY DEF Rows
<1>2. TableKeeps' /\ ((~ db.there)' => db'.rows = {})
  BY <1>1 DEF RowsInv, TableInv, TableKeeps
<1>3. Inserted'
  BY DEF RowsInv, Inserted, Untouched, Live, At
<1>4. Started'
  BY DEF RowsInv, Started, Live
<1>5. DbFailsFor'
  BY DEF RowsInv, DbFailsFor, Live, At
<1>6. QED BY <1>2, <1>3, <1>4, <1>5 DEF RowsInv, TableInv

LEMMA RowsChange ==
  ASSUME Shape, RowsInv, NEW r \in Run, Sampled(r) \/ CreateTable(r) \/ Insert(r)
  PROVE  RowsInv'
<1> USE DEF Shape, Live, At
<1>1. CASE Sampled(r)
  <2>1. /\ Live(r) /\ pc[r] = "address" /\ pc' = [pc EXCEPT ![r] = "project"]
        /\ result' = [result EXCEPT ![r] = [p \in DOMAIN @ \cup {project[r]} |->
                        IF p = project[r] THEN sample[r] ELSE result[r][p]]]
        /\ UNCHANGED <<date, tools, status, db, dropped, admin, called>>
    BY <1>1 DEF Sampled, Idle, GoTo, table
  <2>2. \A q \in Run \ {r} : result'[q] = result[q]
    BY <2>1
  <2>3. DOMAIN result[r] \subseteq DOMAIN result'[r]
    BY <2>1
  <2>4. \A q \in Run : q # r => Rows(q)' = Rows(q)
    BY <2>2 DEF Rows
  <2>5. TableInv'
    BY <2>1, <2>4 DEF RowsInv, TableInv, TableKeeps
  <2>6. Inserted'
    BY <2>1, <2>2, <2>3 DEF RowsInv, Inserted, Untouched
  <2>7. Started'
    BY <2>1 DEF RowsInv, Started
  <2>8. DbFailsFor'
    <3>1. \A q \in Run : DOMAIN result[q] \subseteq DOMAIN result'[q]
      BY <2>2, <2>3
    <3>2. pc'[r] # "insert" /\ \A q \in Run \ {r} : pc'[q] = pc[q]
      BY <2>1
    <3>3. ASSUME NEW q \in Run, status[q] = "1", pc[q] = "insert", Untouched
          PROVE  \E p \in DOMAIN date \ {q} :
                   date[p] = date[q] /\ DOMAIN result'[p] \cap DOMAIN result'[q] # {}
      <4>1. PICK p \in DOMAIN date \ {q} :
              date[p] = date[q] /\ DOMAIN result[p] \cap DOMAIN result[q] # {}
        BY <3>3 DEF RowsInv, DbFailsFor, Untouched
      <4>2. p \in Run
        BY DEF RowsInv, Started
      <4>3. DOMAIN result'[p] \cap DOMAIN result'[q] # {}
        BY <3>1, <4>1, <4>2
      <4>4. QED BY <4>1, <4>3
    <3>4. QED BY <2>1, <3>2, <3>3 DEF DbFailsFor, Untouched
  <2>9. QED BY <2>5, <2>6, <2>7, <2>8 DEF RowsInv
<1>2. CASE CreateTable(r)
  <2>1. /\ Live(r) /\ pc[r] = "table" /\ pc' = [pc EXCEPT ![r] = "insert"]
        /\ db'.there /\ db'.rows = db.rows
        /\ Untouched => db'.column
        /\ UNCHANGED <<date, tools, status, result, dropped, admin, called>>
    BY <1>2 DEF CreateTable, GoTo, script, RowsInv, TableInv, Inserted
  <2>2. \A q \in Run : Rows(q)' = Rows(q)
    BY <2>1 DEF Rows
  <2>3. TableInv'
    BY <2>1, <2>2 DEF RowsInv, TableInv, TableKeeps
  <2>4. Inserted'
    BY <2>1 DEF RowsInv, Inserted, Untouched
  <2>5. Started'
    BY <2>1 DEF RowsInv, Started
  <2>6. DbFailsFor'
    BY <2>1 DEF RowsInv, DbFailsFor
  <2>7. QED BY <2>3, <2>4, <2>5, <2>6 DEF RowsInv
<1>3. CASE Insert(r)
  <2>1. /\ Live(r) /\ pc[r] = "insert"
        /\ UNCHANGED <<date, tools, pc, result, dropped, admin, called>>
        /\ \A q \in Run : Rows(q)' = Rows(q)
    BY <1>3 DEF Insert, Exit, script, Rows
  <2>2. CASE Rows(r) = {} \/ (Fits(Rows(r)) /\ db.column)
    <3>1. /\ status' = [status EXCEPT ![r] = "0"]
          /\ db'.rows = db.rows \cup Rows(r)
          /\ db'.there = db.there /\ db'.column = db.column
      BY <1>3, <2>2 DEF Insert, Exit
    <3>2. Rows(r) # {} => db.there
      BY <2>2 DEF Fits
    <3>3. \A x \in Rows(r) : x[2] = r /\ x[1] \in DOMAIN result[r]
      BY DEF Rows
    <3>4. TableInv'
      BY <2>1, <3>1, <3>2 DEF RowsInv, TableInv, TableKeeps
    <3>5. Inserted'
      BY <2>1, <3>1, <3>3 DEF RowsInv, Inserted, Untouched
    <3>6. Started'
      BY <2>1, <3>1 DEF RowsInv, Started
    <3>7. DbFailsFor'
      BY <2>1, <3>1 DEF RowsInv, DbFailsFor
    <3>8. QED BY <3>4, <3>5, <3>6, <3>7 DEF RowsInv
  <2>3. CASE ~ (Rows(r) = {} \/ (Fits(Rows(r)) /\ db.column))
    <3>1. status' = [status EXCEPT ![r] = "1"] /\ db' = db
      BY <1>3, <2>3 DEF Insert, Exit
    <3>2. TableInv'
      BY <2>1, <3>1 DEF RowsInv, TableInv, TableKeeps
    <3>3. Inserted'
      BY <2>1, <3>1 DEF RowsInv, Inserted, Untouched
    <3>4. Started'
      BY <2>1, <3>1 DEF RowsInv, Started
    <3>5. ASSUME Untouched
          PROVE  \E q \in DOMAIN date \ {r} :
                   date[q] = date[r] /\ DOMAIN result[q] \cap DOMAIN result[r] # {}
      <4>1. ~ Fits(Rows(r)) /\ db.there
        BY <2>1, <2>3, <3>5 DEF RowsInv, Inserted
      <4>2. \A x \in db.rows : /\ x[2] \in Run /\ x[2] # r /\ x[2] \in DOMAIN date
                              /\ x[1] \in DOMAIN result[x[2]]
        BY <2>1, <3>5 DEF RowsInv, Inserted, Started
      <4>3. \A x \in Rows(r) : /\ x[2] = r /\ x[1] \in DOMAIN result[r]
                              /\ x = <<x[1], r>>
        BY DEF Rows
      <4>4. Clash(Rows(r), Rows(r) \cup db.rows)
        BY <4>1, <4>2, <4>3 DEF Fits
      <4>5. PICK x \in Rows(r), y \in Rows(r) \cup db.rows :
              x # y /\ x[1] = y[1] /\ date[x[2]] = date[y[2]]
        BY <4>4 DEF Clash
      <4>6. y \in db.rows
        BY <4>3, <4>5
      <4>7. QED BY <4>2, <4>3, <4>5, <4>6
    <3>6. DbFailsFor'
      BY <2>1, <3>1, <3>5 DEF RowsInv, DbFailsFor, Untouched
    <3>7. QED BY <3>2, <3>3, <3>4, <3>6 DEF RowsInv
  <2>4. QED BY <2>2, <2>3
<1>4. QED BY <1>1, <1>2, <1>3

\* What the administrator does: no row of a run that ended well goes without
\* being counted as dropped, and only what was loaded again is not any more.
LEMMA RowsAdmin == Shape /\ RowsInv /\ Admin => RowsInv'
<1> SUFFICES ASSUME Shape, RowsInv, Admin PROVE RowsInv'
  OBVIOUS
<1> USE DEF Shape
<1>1. UNCHANGED <<date, tools, pc, status, result>>
  BY DEF Admin, LoadFile, DropTable, NewTable, SelectMax, LoadRows, AlterTable, Fixed, script
<1>2. \A q \in Run : Rows(q)' = Rows(q)
  BY <1>1 DEF Rows
<1>3. Started'
  BY <1>1 DEF RowsInv, Started
<1>4. called \subseteq called'
  BY DEF Admin, LoadFile, DropTable, NewTable, SelectMax, LoadRows, AlterTable, Call
<1>5. DbFailsFor'
  BY <1>1, <1>4 DEF RowsInv, DbFailsFor, At, Live
<1>6. ASSUME UNCHANGED table PROVE TableInv'
  BY <1>1, <1>2, <1>6 DEF RowsInv, TableInv, TableKeeps, table
<1>7. CASE LoadFile("drop") \/ LoadFile("missing")
  <2>1. ~ Untouched'
    BY <1>7 DEF LoadFile, Call, Untouched
  <2>2. QED BY <1>3, <1>5, <1>6, <1>7, <2>1 DEF LoadFile, RowsInv, Inserted
<1>8. CASE AlterTable
  <2>1. /\ db'.there = db.there /\ db'.rows = db.rows /\ db'.column = db.there
        /\ UNCHANGED <<dropped, admin>> /\ called' = called \cup {"alter"}
    BY <1>8 DEF AlterTable, Call
  <2>2. TableInv'
    BY <1>1, <1>2, <2>1 DEF RowsInv, TableInv, TableKeeps
  <2>3. Inserted'
    BY <1>1, <2>1 DEF RowsInv, Inserted, Untouched, At, Live
  <2>4. QED BY <1>3, <1>5, <2>2, <2>3 DEF RowsInv
<1>9. ASSUME DropTable \/ NewTable \/ SelectMax \/ LoadRows
      PROVE  Inserted' /\ (TableInv' => RowsInv')
  <2>1. admin.at # "none" /\ called' = called
    BY <1>9 DEF DropTable, NewTable, SelectMax, LoadRows
  <2>2. Inserted'
    BY <2>1 DEF RowsInv, Inserted, Untouched
  <2>3. QED BY <1>3, <1>5, <2>2 DEF RowsInv
<1>10. CASE DropTable
  <2>1. CASE db.there
    <3>1. /\ db'.rows = {}
          /\ dropped' = dropped \cup {x[2] : x \in db.rows}
      BY <1>10, <2>1 DEF DropTable
    <3>2. ASSUME NEW r \in Run, status[r] = "0"
          PROVE  Rows(r) \subseteq db'.rows \/ r \in dropped'
      <4>1. CASE Rows(r) = {}
        BY <4>1
      <4>2. CASE r \in dropped
        BY <3>1, <4>2
      <4>3. CASE Rows(r) # {} /\ r \notin dropped
        <5>1. PICK x : x \in Rows(r)
          BY <4>3
        <5>2. x \in db.rows /\ x[2] = r
          BY <3>2, <4>3, <5>1 DEF RowsInv, TableInv, TableKeeps, Rows
        <5>3. QED BY <3>1, <5>2
      <4>4. QED BY <4>1, <4>2, <4>3
    <3>3. TableInv'
      BY <1>1, <1>2, <3>1, <3>2 DEF TableInv, TableKeeps
    <3>4. QED BY <1>9, <1>10, <3>3
  <2>2. CASE ~ db.there
    BY <1>6, <1>9, <1>10, <2>2 DEF DropTable
  <2>3. QED BY <2>1, <2>2
<1>11. CASE NewTable
  <2>1. db'.there /\ db'.rows = db.rows /\ dropped' = dropped
    BY <1>11 DEF NewTable
  <2>2. TableInv'
    BY <1>1, <1>2, <2>1 DEF RowsInv, TableInv, TableKeeps
  <2>3. QED BY <1>9, <1>11, <2>2
<1>12. CASE SelectMax
  BY <1>6, <1>9, <1>12 DEF SelectMax
<1>13. CASE LoadRows
  <2> DEFINE R == UNION {Rows(r) : r \in admin.data}
  <2>1. CASE Fits(R)
    <3>1. /\ db'.rows = db.rows \cup R /\ db'.there = db.there /\ db.there
          /\ dropped' = dropped \ admin.data
      BY <1>13, <2>1 DEF LoadRows, Fits
    <3>2. \A r \in admin.data : Rows(r) \subseteq R
      OBVIOUS
    <3>3. TableInv'
      BY <1>1, <1>2, <3>1, <3>2 DEF RowsInv, TableInv, TableKeeps
    <3>4. QED BY <1>9, <1>13, <3>3
  <2>2. CASE ~ Fits(R)
    BY <1>6, <1>9, <1>13, <2>2 DEF LoadRows
  <2>3. QED BY <2>1, <2>2
<1>14. QED BY <1>7, <1>8, <1>10, <1>11, <1>12, <1>13 DEF Admin

LEMMA RowsStep == Shape /\ RowsInv /\ [Next]_reportVars => RowsInv'
<1> SUFFICES ASSUME Shape, RowsInv, [Next]_reportVars PROVE RowsInv'
  OBVIOUS
<1>1. ASSUME NEW r \in Run,
             \/ Start(r) \/ ControllerDown(r) \/ Process(r) \/ Kill(r)
             \/ NextProject(r) \/ NextAddress(r) \/ Timeout(r) \/ Get(r)
             \/ Exists(r) \/ Create(r) \/ Read(r) \/ Truncate(r) \/ Write(r)
      PROVE  RowsInv'
  <2>1. Elsewhere
    BY <1>1, ElsewhereFor
  <2>2. QED BY <2>1, RowsElsewhere
<1>2. ASSUME NEW r \in Run, Sampled(r) \/ CreateTable(r) \/ Insert(r) PROVE RowsInv'
  BY <1>2, RowsChange
<1>3. CASE Admin
  BY <1>3, RowsAdmin
<1>4. CASE Report \/ Ended \/ UNCHANGED reportVars
  <2>1. UNCHANGED <<date, tools, pc, status, result, db, dropped, admin, called>>
    BY <1>4 DEF Report, Query, QueryFails, WritePage, Ended, reportVars, vars, script, table
  <2>2. Elsewhere
    BY <2>1 DEF Elsewhere
  <2>3. QED BY <2>2, RowsElsewhere
<1>5. QED BY <1>1, <1>2, <1>3, <1>4 DEF Next, Beside, Collect, Parent

LEMMA RowsInit == ReportsInit => RowsInv
<1> SUFFICES ASSUME ReportsInit PROVE RowsInv
  OBVIOUS
<1>1. \A r \in Run : status[r] \in {"running", "none"} /\ pc[r] = "idle"
  BY DEF ReportsInit, Init
<1>2. db.rows = {} /\ ~ db.there /\ admin.at = "none"
  BY DEF ReportsInit, Init
<1>3. Started
  BY UsageAssumption DEF ReportsInit, Init, Started
<1>4. QED
  BY <1>1, <1>2, <1>3 DEF RowsInv, TableInv, TableKeeps, Inserted, DbFailsFor, At

\* nova_compute.py:201-207, history_handling.py:9-53: the samples of a run that
\* ended well stay in the table, or are among those that loadfile2db dropped and
\* did not put back.
THEOREM SamplesStay == Spec => []TableKeeps
<1>1. RowsInv => TableKeeps
  BY DEF RowsInv, TableInv
<1>2. QED BY <1>1, FileInit, RowsInit, ShapeStep, RowsStep, PTL DEF Spec

\* nova_compute.py:196-207: beside a table that nobody touches, only another run
\* of the same second, with a project of the same name, makes an insert fail.
THEOREM OnlyClashes == Spec => []DbFailsFor
<1>1. RowsInv => DbFailsFor
  BY DEF RowsInv
<1>2. QED BY <1>1, FileInit, RowsInit, ShapeStep, RowsStep, PTL DEF Spec
-----------------------------------------------------------------------------
(* The samples, and the pages made of them *)

\* Without a failure of nova list, who is logged in is asked of a project that has
\* instances only: an address belongs to one.
Sampling(r) ==
  /\ worker[r] # "none" => pc[r] = "address"
  /\ pc[r] = "address" => project[r] \in Project /\ r \in DOMAIN date
  /\ pc[r] = "address" /\ "nova" \notin tools =>
       (ips[r] # {} \/ worker[r] # "none" \/ sample[r]["connection"] => sample[r]["instance"])
  /\ DOMAIN result[r] \subseteq Project /\ IsFiniteSet(DOMAIN result[r])
  /\ DOMAIN result[r] # {} => r \in DOMAIN date
  /\ "nova" \notin tools =>
       \A p \in DOMAIN result[r] : result[r][p]["connection"] => result[r][p]["instance"]

SampleShape ==
  /\ todo \in [Run -> SUBSET Project]
  /\ DOMAIN project = Run /\ DOMAIN ips = Run /\ DOMAIN worker = Run
  /\ sample \in [Run -> [instance : BOOLEAN, connection : BOOLEAN]]
  /\ Started

SampleInv == SampleShape /\ \A r \in Run : Sampling(r)

\* The dates stay, and no sample is taken back.
LEMMA Monotone ==
  ASSUME Shape, [Next]_reportVars
  PROVE  /\ UNCHANGED <<date, tools>>
         /\ \A r \in Run : DOMAIN result[r] \subseteq DOMAIN result'[r]
<1> DEFINE Grown == /\ UNCHANGED <<date, tools>>
                    /\ \A r \in Run : DOMAIN result[r] \subseteq DOMAIN result'[r]
<1>1. ASSUME NEW r \in Run,
             \/ Start(r) \/ ControllerDown(r) \/ Process(r) \/ Kill(r)
             \/ NextProject(r) \/ NextAddress(r) \/ Timeout(r) \/ Get(r)
             \/ Exists(r) \/ Create(r) \/ Read(r) \/ Truncate(r) \/ Write(r)
      PROVE  Grown
  BY <1>1, ElsewhereFor DEF Elsewhere
<1>2. ASSUME NEW r \in Run, CreateTable(r) \/ Insert(r) PROVE Grown
  BY <1>2 DEF CreateTable, Insert, GoTo, Exit, script
<1>3. ASSUME NEW r \in Run, Sampled(r) PROVE Grown
  <2>1. /\ UNCHANGED <<date, tools>>
        /\ result' = [result EXCEPT ![r] = [p \in DOMAIN @ \cup {project[r]} |->
                        IF p = project[r] THEN sample[r] ELSE result[r][p]]]
    BY <1>3 DEF Sampled, GoTo
  <2>2. DOMAIN result'[r] = DOMAIN result[r] \cup {project[r]}
    BY <2>1 DEF Shape
  <2>3. QED BY <2>1, <2>2
<1>4. CASE Admin
  <2>1. Fixed
    BY <1>4 DEF Admin, LoadFile, DropTable, NewTable, SelectMax, LoadRows, AlterTable
  <2>2. QED BY <2>1 DEF Fixed, script
<1>5. CASE Report \/ Ended \/ UNCHANGED reportVars
  BY <1>5 DEF Report, Query, QueryFails, WritePage, Ended, reportVars, vars, script
<1>6. QED BY <1>1, <1>2, <1>3, <1>4, <1>5 DEF Next, Beside, Collect, Parent

\* A step of one run, as far as its samples go.
LEMMA SampleAlone ==
  ASSUME SampleInv, SampleShape', NEW r \in Run, UNCHANGED <<date, tools>>, Sampling(r)',
         \A q \in Run \ {r} : /\ pc'[q] = pc[q] /\ worker'[q] = worker[q] /\ ips'[q] = ips[q]
                              /\ sample'[q] = sample[q] /\ project'[q] = project[q]
                              /\ result'[q] = result[q]
  PROVE  SampleInv'
<1>1. ASSUME NEW q \in Run \ {r} PROVE Sampling(q)'
  <2>1. Sampling(q)
    BY DEF SampleInv
  <2>2. QED BY <2>1 DEF Sampling
<1>2. QED BY <1>1 DEF SampleInv

\* Steps that take no sample.
LEMMA SampleOff ==
  ASSUME SampleInv, UNCHANGED <<date, tools, project, ips, sample, worker, result>>, SampleShape',
         \A q \in Run : pc'[q] = pc[q] \/ (pc[q] # "address" /\ pc'[q] # "address")
  PROVE  SampleInv'
<1>1. ASSUME NEW q \in Run PROVE Sampling(q)'
  <2>1. Sampling(q)
    BY DEF SampleInv
  <2>2. QED BY <2>1 DEF Sampling
<1>2. QED BY <1>1 DEF SampleInv

LEMMA SampleStep == Shape /\ SampleInv /\ RowsInv /\ [Next]_reportVars => SampleInv'
<1> SUFFICES ASSUME Shape, SampleInv, RowsInv, [Next]_reportVars PROVE SampleInv'
  OBVIOUS
<1>0. Started' /\ date' = date /\ tools' = tools
  <2>1. Started'
    BY RowsStep DEF RowsInv
  <2>2. QED BY <2>1, Monotone
<1>1. ASSUME NEW r \in Run, Start(r) PROVE SampleInv'
  <2>1. /\ pc[r] = "idle" /\ pc' = [pc EXCEPT ![r] = "project"]
        /\ todo' = [todo EXCEPT ![r] = Visited(r)]
        /\ UNCHANGED <<project, ips, sample, worker, result>>
    BY <1>1 DEF Start, At, GoTo
  <2>2. Visited(r) \subseteq Project
    BY UsageAssumption DEF Visited
  <2>3. SampleShape'
    BY <1>0, <2>1, <2>2 DEF SampleInv, SampleShape
  <2>4. QED BY <1>0, <2>1, <2>3, SampleOff DEF Shape
<1>2. ASSUME NEW r \in Run, NextProject(r) PROVE SampleInv'
  <2>0. PICK p \in todo[r] : \E servers \in Servers(r, p) :
          /\ todo' = [todo EXCEPT ![r] = @ \ {p}]
          /\ project' = [project EXCEPT ![r] = p]
          /\ ips' = [ips EXCEPT ![r] = Addresses(r, p)]
          /\ sample' = [sample EXCEPT ![r] = [instance |-> servers, connection |-> FALSE]]
    BY <1>2 DEF NextProject
  <2>1. PICK servers \in Servers(r, p) :
          /\ todo' = [todo EXCEPT ![r] = @ \ {p}]
          /\ project' = [project EXCEPT ![r] = p]
          /\ ips' = [ips EXCEPT ![r] = Addresses(r, p)]
          /\ sample' = [sample EXCEPT ![r] = [instance |-> servers, connection |-> FALSE]]
    BY <2>0
  <2>2. /\ Live(r) /\ pc[r] = "project" /\ pc' = [pc EXCEPT ![r] = "address"]
        /\ UNCHANGED <<worker, result>>
    BY <1>2 DEF NextProject, At, GoTo
  <2>3. p \in Project /\ servers \in BOOLEAN
    BY DEF SampleInv, SampleShape, Servers
  <2>4. SampleShape'
    BY <1>0, <2>1, <2>2, <2>3 DEF SampleInv, SampleShape
  <2>5. Sampling(r)
    BY DEF SampleInv
  <2>6. r \in DOMAIN date
    BY <2>2 DEF SampleInv, SampleShape, Started, Live
  <2>7. /\ pc'[r] = "address" /\ project'[r] = p /\ ips'[r] = Addresses(r, p)
        /\ sample'[r]["instance"] = servers /\ sample'[r]["connection"] = FALSE
        /\ worker'[r] = "none"
    BY <2>1, <2>2, <2>5 DEF SampleInv, SampleShape, Shape, Sampling
  <2>8. Addresses(r, p) # {} /\ "nova" \notin tools => servers
    BY <2>1 DEF Addresses, Servers
  <2>9. Sampling(r)'
    BY <1>0, <2>2, <2>3, <2>5, <2>6, <2>7, <2>8 DEF Sampling
  <2>10. QED
    BY <1>0, <2>1, <2>2, <2>4, <2>9, SampleAlone DEF SampleInv, SampleShape, Shape
<1>3. ASSUME NEW r \in Run, NextAddress(r) PROVE SampleInv'
  <2>1. /\ pc[r] = "address" /\ ips[r] # {} /\ worker[r] = "none"
        /\ UNCHANGED <<pc, todo, project, sample, result>>
        /\ DOMAIN ips' = Run /\ DOMAIN worker' = Run
        /\ \A q \in Run \ {r} : ips'[q] = ips[q] /\ worker'[q] = worker[q]
    BY <1>3 DEF NextAddress, Idle, At, SampleInv, SampleShape
  <2>2. SampleShape'
    BY <1>0, <2>1 DEF SampleInv, SampleShape
  <2>3. Sampling(r)
    BY DEF SampleInv
  <2>4. Sampling(r)'
    BY <1>0, <2>1, <2>3 DEF Sampling
  <2>5. QED BY <1>0, <2>1, <2>2, <2>4, SampleAlone
<1>4. ASSUME NEW r \in Run, Sampled(r) PROVE SampleInv'
  <2>1. /\ pc[r] = "address" /\ worker[r] = "none" /\ pc' = [pc EXCEPT ![r] = "project"]
        /\ UNCHANGED <<todo, project, ips, sample, worker>>
        /\ result' = [result EXCEPT ![r] = [p \in DOMAIN @ \cup {project[r]} |->
                        IF p = project[r] THEN sample[r] ELSE result[r][p]]]
    BY <1>4 DEF Sampled, Idle, At, GoTo
  <2>2. SampleShape'
    BY <1>0, <2>1 DEF SampleInv, SampleShape
  <2>3. Sampling(r)
    BY DEF SampleInv
  <2>4. /\ DOMAIN result'[r] = DOMAIN result[r] \cup {project[r]}
        /\ \A p \in DOMAIN result'[r] :
             result'[r][p] = IF p = project[r] THEN sample[r] ELSE result[r][p]
    BY <2>1 DEF Shape
  <2>5. IsFiniteSet(DOMAIN result'[r])
    BY <2>3, <2>4, FS_AddElement DEF Sampling
  <2>6. Sampling(r)'
    BY <1>0, <2>1, <2>3, <2>4, <2>5 DEF Sampling, Shape
  <2>7. \A q \in Run \ {r} : pc'[q] = pc[q] /\ result'[q] = result[q]
    BY <2>1
  <2>8. QED BY <1>0, <2>1, <2>2, <2>6, <2>7, SampleAlone
<1>5. ASSUME NEW r \in Run, Timeout(r) \/ Process(r) \/ Get(r) PROVE SampleInv'
  <2>1. /\ pc[r] = "address" /\ worker[r] # "none"
        /\ UNCHANGED <<pc, todo, project, ips, result>>
        /\ \E label : worker' = [worker EXCEPT ![r] = label]
        /\ \/ sample' = sample
           \/ sample' = [sample EXCEPT ![r].connection = @ \/ queue[r] = "users"]
    BY <1>5 DEF Timeout, Process, Get, Login, Root, Flush, Put, Working, Worker, At
  <2>2. /\ sample' \in [Run -> [instance : BOOLEAN, connection : BOOLEAN]]
        /\ sample'[r]["instance"] = sample[r]["instance"]
        /\ \A q \in Run \ {r} : sample'[q] = sample[q]
    BY <2>1 DEF SampleInv, SampleShape
  <2>3. DOMAIN worker' = Run /\ \A q \in Run \ {r} : worker'[q] = worker[q]
    BY <2>1 DEF SampleInv, SampleShape
  <2>4. SampleShape'
    BY <1>0, <2>1, <2>2, <2>3 DEF SampleInv, SampleShape
  <2>5. Sampling(r)
    BY DEF SampleInv
  <2>6. Sampling(r)'
    BY <1>0, <2>1, <2>2, <2>5 DEF Sampling
  <2>7. QED BY <1>0, <2>1, <2>2, <2>3, <2>4, <2>6, SampleAlone
<1>6. ASSUME UNCHANGED script,
             \A q \in Run : pc'[q] = pc[q] \/ (pc[q] # "address" /\ pc'[q] # "address")
      PROVE  SampleInv'
  <2>1. SampleShape'
    BY <1>0, <1>6 DEF SampleInv, SampleShape, script
  <2>2. QED BY <1>0, <1>6, <2>1, SampleOff DEF script
<1>7. ASSUME NEW r \in Run, ControllerDown(r) \/ Kill(r) \/ CreateTable(r) \/ Insert(r)
      PROVE  SampleInv'
  <2>1. UNCHANGED script /\ \A q \in Run : pc'[q] = pc[q] \/ (pc[q] # "address" /\ pc'[q] # "address")
    BY <1>7 DEF ControllerDown, Kill, CreateTable, Insert, GoTo, Exit, At, Shape
  <2>2. QED BY <1>6, <2>1
<1>8. ASSUME NEW r \in Run, Exists(r) \/ Create(r) \/ Read(r) \/ Truncate(r) \/ Write(r)
      PROVE  SampleInv'
  <2>1. UNCHANGED script /\ pc[r] # "address"
    BY <1>8 DEF Exists, Create, Read, Truncate, Write, At
  <2>2. \A q \in Run : pc'[q] = pc[q] \/ (pc[q] # "address" /\ pc'[q] # "address")
    <3>1. CASE Exists(r)
      <4>1. GoTo(r, "create") \/ GoTo(r, "truncate") \/ pc' = pc
        BY <3>1 DEF Exists, ReadFile, Exit, Shape
      <4>2. QED BY <2>1, <4>1 DEF GoTo, Shape
    <3>2. CASE Read(r)
      <4>1. GoTo(r, "truncate") \/ pc' = pc
        BY <3>2 DEF Read, ReadFile, Exit
      <4>2. QED BY <2>1, <4>1 DEF GoTo, Shape
    <3>3. CASE Create(r) \/ Truncate(r) \/ Write(r)
      BY <2>1, <3>3 DEF Create, Truncate, Write, GoTo, Shape
    <3>4. QED BY <1>8, <3>1, <3>2, <3>3
  <2>3. QED BY <1>6, <2>1, <2>2
<1>9. CASE Admin \/ Report \/ Ended \/ UNCHANGED reportVars
  <2>1. UNCHANGED <<pc, script>>
    BY <1>9 DEF Admin, LoadFile, DropTable, NewTable, SelectMax, LoadRows, AlterTable, Fixed,
                Report, Query, QueryFails, WritePage, Ended, reportVars, vars
  <2>2. QED BY <1>6, <2>1
<1>10. QED
  BY <1>1, <1>2, <1>3, <1>4, <1>5, <1>7, <1>8, <1>9 DEF Next, Beside, Collect, Parent

LEMMA SampleInit == ReportsInit => SampleInv
<1> SUFFICES ASSUME ReportsInit PROVE SampleInv
  OBVIOUS
<1>1. /\ pc = [r \in Run |-> "idle"] /\ worker = [r \in Run |-> "none"]
      /\ project = [r \in Run |-> "none"] /\ ips = [r \in Run |-> {}]
      /\ todo = [r \in Run |-> {}] /\ result = [r \in Run |-> <<>>]
      /\ sample = [r \in Run |-> [instance |-> FALSE, connection |-> FALSE]]
  BY DEF ReportsInit, Init
<1>2. Started
  BY RowsInit DEF RowsInv
<1>3. SampleShape
  BY <1>1, <1>2 DEF SampleShape
<1>4. ASSUME NEW r \in Run PROVE Sampling(r)
  <2>1. /\ pc[r] = "idle" /\ worker[r] = "none" /\ DOMAIN result[r] = {}
    BY <1>1
  <2>2. QED BY <2>1, FS_EmptySet DEF Sampling
<1>5. QED BY <1>3, <1>4 DEF SampleInv

\* Rows that stand for samples taken, at dates there are.
Genuine(R, dates, samples) ==
  /\ R \subseteq Project \X DOMAIN dates
  /\ IsFiniteSet(R)
  /\ \A x \in R : x[1] \in DOMAIN samples[x[2]]

LEMMA GenuineGrows ==
  ASSUME Shape, Started, [Next]_reportVars, NEW R, Genuine(R, date, result)
  PROVE  Genuine(R, date', result')
<1>1. date' = date /\ DOMAIN date \subseteq Run
  BY Monotone DEF Started
<1>2. \A r \in Run : DOMAIN result[r] \subseteq DOMAIN result'[r]
  BY Monotone
<1>3. QED BY <1>1, <1>2 DEF Genuine

LEMMA GenuineBoth ==
  ASSUME NEW R, NEW S, Genuine(R, date, result), Genuine(S, date, result)
  PROVE  Genuine(R \cup S, date, result)
<1>1. IsFiniteSet(R \cup S)
  BY FS_Union DEF Genuine
<1>2. QED BY <1>1 DEF Genuine

LEMMA GenuinePart ==
  ASSUME NEW R, NEW S \in SUBSET R, Genuine(R, date, result)
  PROVE  Genuine(S, date, result)
<1>1. IsFiniteSet(S)
  BY FS_Subset DEF Genuine
<1>2. QED BY <1>1 DEF Genuine

LEMMA GenuineRows ==
  ASSUME SampleInv, NEW r \in Run
  PROVE  Genuine(Rows(r), date, result)
<1>1. Sampling(r)
  BY DEF SampleInv
<1> DEFINE f == [p \in DOMAIN result[r] |-> <<p, r>>]
<1>2. f \in Surjection(DOMAIN result[r], Rows(r))
  BY DEF Rows, Surjection
<1>3. IsFiniteSet(DOMAIN result[r])
  BY <1>1 DEF Sampling
<1> HIDE DEF f
<1>4. IsFiniteSet(Rows(r))
  BY <1>2, <1>3, FS_Surjection
<1>5. QED BY <1>1, <1>4 DEF Genuine, Rows, Sampling

LEMMA GenuineAll ==
  ASSUME SampleInv, NEW A \in SUBSET Run, IsFiniteSet(A)
  PROVE  Genuine(UNION {Rows(r) : r \in A}, date, result)
<1> DEFINE All == {Rows(r) : r \in A}
           f == [r \in A |-> Rows(r)]
<1>1. f \in Surjection(A, All)
  BY DEF Surjection
<1> HIDE DEF f
<1>2. IsFiniteSet(All)
  BY <1>1, FS_Surjection
<1>3. \A R \in All : Genuine(R, date, result)
  BY GenuineRows
<1> HIDE DEF All
<1>4. IsFiniteSet(UNION All)
  BY <1>2, <1>3, FS_UNION DEF Genuine
<1>5. Genuine(UNION All, date, result)
  BY <1>3, <1>4 DEF Genuine
<1>6. QED BY <1>5 DEF All

LEMMA ElementsFinite ==
  ASSUME NEW s \in Seq(Run)
  PROVE  ToSet(s) \subseteq Run /\ IsFiniteSet(ToSet(s))
<1>1. Len(s) \in Nat /\ DOMAIN s = 1 .. Len(s) /\ \A i \in 1 .. Len(s) : s[i] \in Run
  OBVIOUS
<1>2. ToSet(s) = {s[i] : i \in 1 .. Len(s)}
  BY <1>1 DEF ToSet
<1> DEFINE f == [i \in 1 .. Len(s) |-> s[i]]
<1>3. f \in Surjection(1 .. Len(s), ToSet(s))
  BY <1>2 DEF Surjection
<1>4. IsFiniteSet(1 .. Len(s))
  BY <1>1, FS_Interval
<1> HIDE DEF f
<1>5. IsFiniteSet(ToSet(s))
  BY <1>3, <1>4, FS_Surjection
<1>6. QED BY <1>1, <1>2, <1>5

\* What the table holds, and what the administrator has read, are samples.
KnownInv ==
  /\ \A r \in DOMAIN date : date[r] \in Nat
  /\ Genuine(db.rows, date, result)
  /\ admin = [at |-> admin.at, data |-> admin.data]
  /\ admin.data \subseteq Run /\ IsFiniteSet(admin.data)

LEMMA KnownStep ==
  ASSUME Shape, SampleInv, RowsInv, KnownInv, [Next]_reportVars
  PROVE  KnownInv'
<1>1. Started /\ UNCHANGED <<date, tools>>
  BY Monotone DEF RowsInv
<1>2. \A r \in DOMAIN date' : date'[r] \in Nat
  BY <1>1 DEF KnownInv
<1>3. ASSUME NEW R, R = db.rows PROVE Genuine(R, date', result')
  BY <1>1, <1>3, GenuineGrows DEF KnownInv
<1>4. ASSUME db'.rows = db.rows, admin' = admin PROVE KnownInv'
  BY <1>2, <1>3, <1>4 DEF KnownInv
<1>5. ASSUME NEW R, Genuine(R, date, result), db'.rows = db.rows \cup R, UNCHANGED result
      PROVE  Genuine(db'.rows, date', result')
  <2>1. Genuine(db.rows \cup R, date, result)
    BY <1>5, GenuineBoth DEF KnownInv
  <2>2. QED BY <1>1, <1>5, <2>1
<1>6. ASSUME NEW r \in Run,
             \/ Start(r) \/ ControllerDown(r) \/ Process(r) \/ Kill(r)
             \/ NextProject(r) \/ NextAddress(r) \/ Timeout(r) \/ Get(r)
             \/ Exists(r) \/ Create(r) \/ Read(r) \/ Truncate(r) \/ Write(r)
      PROVE  KnownInv'
  BY <1>4, <1>6, ElsewhereFor DEF Elsewhere
<1>7. ASSUME NEW r \in Run, Sampled(r) \/ CreateTable(r) PROVE KnownInv'
  BY <1>4, <1>7 DEF Sampled, CreateTable, RowsInv, TableInv, table
<1>8. ASSUME NEW r \in Run, Insert(r) PROVE KnownInv'
  <2>1. UNCHANGED <<result, admin>>
    BY <1>8 DEF Insert, script
  <2>2. CASE Rows(r) = {} \/ (Fits(Rows(r)) /\ db.column)
    <3>1. db'.rows = db.rows \cup Rows(r)
      BY <1>8, <2>2 DEF Insert, Shape
    <3>2. Genuine(db'.rows, date', result')
      BY <1>5, <2>1, <3>1, GenuineRows
    <3>3. QED BY <1>2, <2>1, <3>2 DEF KnownInv
  <2>3. CASE ~ (Rows(r) = {} \/ (Fits(Rows(r)) /\ db.column))
    BY <1>4, <1>8, <2>3 DEF Insert
  <2>4. QED BY <2>2, <2>3
<1>9. CASE Admin
  <2>1. UNCHANGED result
    BY <1>9 DEF Admin, LoadFile, DropTable, NewTable, SelectMax, LoadRows, AlterTable, Fixed,
                script
  <2>0. admin' = [at |-> admin'.at, data |-> admin'.data]
    BY <1>9 DEF KnownInv, Admin, LoadFile, DropTable, NewTable, SelectMax, LoadRows, AlterTable,
                Over
  <2>2. ASSUME NEW A, A \subseteq Run, IsFiniteSet(A), admin'.data = A, db'.rows = db.rows
        PROVE  KnownInv'
    BY <1>2, <1>3, <2>0, <2>2 DEF KnownInv
  <2>3. ASSUME NEW f, LoadFile(f) PROVE KnownInv'
    <3>1. CASE file.kind = "yaml"
      <4>1. admin'.data = ToSet(file.runs) /\ db'.rows = db.rows
        BY <2>3, <3>1 DEF LoadFile, table
      <4>2. QED BY <2>2, <4>1, ElementsFinite DEF Shape
    <3>2. CASE file.kind # "yaml"
      BY <1>4, <2>3, <3>2 DEF LoadFile, table
    <3>3. QED BY <3>1, <3>2
  <2>4. IsFiniteSet({}) /\ Genuine({}, date, result)
    BY FS_EmptySet DEF Genuine
  <2>5. CASE DropTable
    <3>1. CASE db.there
      <4>1. db'.rows = {} /\ admin'.data = admin.data
        BY <2>5, <3>1 DEF DropTable, KnownInv
      <4>2. Genuine(db'.rows, date', result')
        BY <1>1, <2>1, <2>4, <4>1
      <4>3. QED BY <1>2, <2>0, <4>1, <4>2 DEF KnownInv
    <3>2. CASE ~ db.there
      BY <2>2, <2>4, <2>5, <3>2 DEF DropTable, Over, table
    <3>3. QED BY <3>1, <3>2
  <2>6. CASE NewTable
    BY <2>2, <2>6 DEF NewTable, KnownInv, Shape
  <2>7. CASE SelectMax
    <3> DEFINE Later == {q \in admin.data : \A x \in db.rows : date[x[2]] < date[q]}
    <3>1. CASE db.there
      <4>1. admin'.data = Later /\ db'.rows = db.rows
        BY <2>7, <3>1 DEF SelectMax, table
      <4>2. Later \subseteq admin.data
        OBVIOUS
      <4> HIDE DEF Later
      <4>3. Later \subseteq Run /\ IsFiniteSet(Later)
        BY <4>2, FS_Subset DEF KnownInv
      <4>4. QED BY <2>2, <4>1, <4>3
    <3>2. CASE ~ db.there
      BY <2>2, <2>4, <2>7, <3>2 DEF SelectMax, Over, table
    <3>3. QED BY <3>1, <3>2
  <2>8. CASE LoadRows
    <3> DEFINE R == UNION {Rows(r) : r \in admin.data}
    <3>1. Genuine(R, date, result)
      BY GenuineAll DEF KnownInv
    <3>2. admin'.data = {}
      BY <2>8 DEF LoadRows, Over
    <3>3. CASE Fits(R)
      <4>1. db'.rows = db.rows \cup R
        BY <2>8, <3>3 DEF LoadRows, Shape
      <4> HIDE DEF R
      <4>2. Genuine(db'.rows, date', result')
        BY <1>5, <2>1, <3>1, <4>1
      <4>3. QED BY <1>2, <2>0, <2>4, <3>2, <4>2 DEF KnownInv
    <3>4. CASE ~ Fits(R)
      BY <2>2, <2>4, <2>8, <3>2, <3>4 DEF LoadRows, table
    <3>5. QED BY <3>3, <3>4
  <2>9. CASE AlterTable
    BY <1>4, <2>9 DEF AlterTable, Shape
  <2>10. QED BY <1>9, <2>3, <2>5, <2>6, <2>7, <2>8, <2>9 DEF Admin
<1>10. CASE Report \/ Ended \/ UNCHANGED reportVars
  BY <1>4, <1>10 DEF Report, Query, QueryFails, WritePage, Ended, reportVars, vars, table
<1>11. QED BY <1>6, <1>7, <1>8, <1>9, <1>10 DEF Next, Beside, Collect, Parent

LEMMA KnownInit == ReportsInit => KnownInv
<1> SUFFICES ASSUME ReportsInit PROVE KnownInv
  OBVIOUS
<1>1. /\ db.rows = {} /\ admin = [at |-> "none", data |-> {}]
      /\ \A r \in DOMAIN date : date[r] \in Nat
  BY UsageAssumption DEF ReportsInit, Init
<1>2. QED BY <1>1, FS_EmptySet DEF KnownInv, Genuine

\* What a query asks of a row.
In(x, w, dates) ==
  LET day == dates[x[2]] \div 48
      hour == (dates[x[2]] % 48) \div 2
  IN  /\ From <= day /\ day < To
      /\ w[1] < hour /\ hour < w[2]

\* The answers of a page are those of one table.
OfOne(p, a, dates) ==
  \E R : \A k \in 1 .. Len(Queries(p)) : a[k] = {x \in R : In(x, Queries(p)[k], dates)}

Paged == {"daily", "hourly"}

LEMMA QueriesOf ==
  /\ /\ Len(Queries("daily")) = 3
     /\ Queries("daily")[1] = <<-1, 24>> /\ Queries("daily")[2] = <<-1, 24>>
     /\ Queries("daily")[3] = <<0, 24>>
  /\ /\ Len(Queries("hourly")) = 5
     /\ Queries("hourly")[1] = <<-1, 24>> /\ Queries("hourly")[2] = <<-1, 24>>
     /\ Queries("hourly")[3] = <<9, 14>> /\ Queries("hourly")[4] = <<14, 18>>
     /\ Queries("hourly")[5] = <<18, 21>>
  BY DEF Queries, AllDay

Rowwise == Seq(SUBSET (Project \X Run))

\* As long as nothing has moved, the answers are those of the table as it is.
AnswersInv ==
  /\ page \in Paged \cup {"none", "failed"}
  /\ answers \in Rowwise
  /\ \A k \in 1 .. Len(answers) : Genuine(answers[k], date, result)
  /\ page \in Paged => Len(answers) <= Len(Queries(page))
  /\ page \in Paged /\ ~ moved =>
       \A k \in 1 .. Len(answers) : answers[k] = {x \in db.rows : In(x, Queries(page)[k], date)}

\* What is written comes of the table; of one table, if the page is steady.
WrittenInv ==
  /\ written \in [Paged -> Rowwise]
  /\ \A p \in Paged : /\ written[p] # <<>> => Len(written[p]) = Len(Queries(p))
                      /\ \A k \in 1 .. Len(written[p]) : Genuine(written[p][k], date, result)
  /\ steady \subseteq Paged
  /\ page = "daily" => steady = {}
  /\ page = "hourly" => "hourly" \notin steady
  /\ \A p \in steady : written[p] # <<>> /\ OfOne(p, written[p], date)

PageInv == AnswersInv /\ WrittenInv

LEMMA PageInit == ReportsInit => PageInv
<1> SUFFICES ASSUME ReportsInit PROVE PageInv
  OBVIOUS
<1>1. /\ page \in {"daily", "none"} /\ answers = <<>> /\ steady = {}
      /\ written = [p \in Paged |-> <<>>]
  BY DEF ReportsInit, Paged
<1>2. <<>> \in Rowwise /\ Len(<<>>) = 0
  BY DEF Rowwise
<1>3. AnswersInv
  BY <1>1, <1>2, QueriesOf DEF AnswersInv, Paged
<1>4. WrittenInv
  BY <1>1, <1>2 DEF WrittenInv
<1>5. QED BY <1>3, <1>4 DEF PageInv

\* Steps of others, or none, leave the pages as they are.
LEMMA PageBeside ==
  ASSUME Shape, Started, PageInv, [Next]_reportVars, UNCHANGED <<page, answers, written, steady>>,
         ~ moved' => ~ moved /\ (answers = <<>> \/ db'.rows = db.rows)
  PROVE  PageInv'
<1>1. date' = date
  BY Monotone
<1>2. \A R : Genuine(R, date, result) => Genuine(R, date', result')
  BY GenuineGrows
<1>3. AnswersInv'
  <2>1. /\ page' \in Paged \cup {"none", "failed"}
        /\ answers' \in Rowwise
        /\ \A k \in 1 .. Len(answers') : Genuine(answers'[k], date', result')
        /\ page' \in Paged => Len(answers') <= Len(Queries(page'))
    BY <1>2 DEF PageInv, AnswersInv
  <2>2. ASSUME page \in Paged, ~ moved', NEW k \in 1 .. Len(answers)
        PROVE  answers[k] = {x \in db'.rows : In(x, Queries(page)[k], date)}
    <3>1. answers # <<>>
      BY <2>2
    <3>2. ~ moved /\ db'.rows = db.rows
      BY <2>2, <3>1
    <3>3. answers[k] = {x \in db.rows : In(x, Queries(page)[k], date)}
      BY <2>2, <3>2 DEF PageInv, AnswersInv
    <3>4. QED BY <3>2, <3>3
  <2>3. QED BY <1>1, <2>1, <2>2 DEF AnswersInv
<1>4. WrittenInv'
  BY <1>1, <1>2 DEF PageInv, WrittenInv
<1>5. QED BY <1>3, <1>4 DEF PageInv

LEMMA PageQuery ==
  ASSUME Started, KnownInv, PageInv, Query
  PROVE  PageInv'
<1> DEFINE w == Queries(page)[Len(answers) + 1]
<1>1. /\ page \in Paged /\ Len(answers) < Len(Queries(page))
      /\ answers' = Append(answers, Select(w))
      /\ ~ moved' => ~ moved \/ answers = <<>>
      /\ UNCHANGED <<page, written, steady, date, result, db>>
  BY DEF Query, PageInv, WrittenInv, vars, script, table
<1>2. Select(w) = {x \in db.rows : In(x, w, date)}
  BY DEF Select, In, Day, Hour
<1>3. Genuine(Select(w), date, result)
  BY <1>2, GenuinePart DEF KnownInv
<1>4. Select(w) \in SUBSET (Project \X Run)
  BY <1>3 DEF Genuine, Started
<1>5. answers \in Rowwise /\ Len(answers) \in Nat /\ Len(Queries(page)) \in Nat
  BY <1>1, QueriesOf DEF PageInv, AnswersInv, Rowwise, Paged
<1> HIDE DEF w
<1>6. /\ answers' \in Rowwise /\ Len(answers') = Len(answers) + 1
      /\ \A k \in 1 .. Len(answers) : answers'[k] = answers[k]
      /\ answers'[Len(answers) + 1] = Select(w)
  BY <1>1, <1>4, <1>5 DEF Rowwise
<1>7. \A k \in 1 .. Len(answers') : k \in 1 .. Len(answers) \/ k = Len(answers) + 1
  BY <1>5, <1>6
<1>8. \A k \in 1 .. Len(answers') : Genuine(answers'[k], date, result)
  BY <1>3, <1>6, <1>7 DEF PageInv, AnswersInv
<1>9. Len(answers') <= Len(Queries(page))
  BY <1>1, <1>5, <1>6
<1>10. ASSUME ~ moved', NEW k \in 1 .. Len(answers')
       PROVE  answers'[k] = {x \in db.rows : In(x, Queries(page)[k], date)}
  <2>1. CASE k = Len(answers) + 1
    BY <1>2, <1>6, <2>1 DEF w
  <2>2. CASE k \in 1 .. Len(answers)
    <3>1. answers # <<>>
      BY <2>2
    <3>2. ~ moved
      BY <1>1, <1>10, <3>1
    <3>3. QED BY <1>1, <1>6, <2>2, <3>2 DEF PageInv, AnswersInv
  <2>3. QED BY <1>7, <2>1, <2>2
<1>11. AnswersInv'
  BY <1>1, <1>6, <1>8, <1>9, <1>10 DEF PageInv, AnswersInv
<1>12. WrittenInv'
  BY <1>1 DEF PageInv, WrittenInv
<1>13. QED BY <1>11, <1>12 DEF PageInv

LEMMA PageWritten ==
  ASSUME PageInv, WritePage
  PROVE  PageInv'
<1>1. page \in Paged /\ UNCHANGED <<date, result, db, moved>>
  BY DEF WritePage, PageInv, WrittenInv, vars, script, table
<1>2. CASE Fails(page, answers)
  <2>1. page' = "failed" /\ UNCHANGED <<answers, written, steady>>
    BY <1>2 DEF WritePage
  <2>2. AnswersInv'
    BY <1>1, <2>1 DEF PageInv, AnswersInv, Paged
  <2>3. WrittenInv'
    BY <1>1, <2>1 DEF PageInv, WrittenInv
  <2>4. QED BY <2>2, <2>3 DEF PageInv
<1>3. CASE ~ Fails(page, answers)
  <2>1. /\ written' = [written EXCEPT ![page] = answers]
        /\ page' = IF page = "daily" THEN "hourly" ELSE "none"
        /\ answers' = <<>>
        /\ steady' = IF moved THEN steady ELSE steady \cup {page}
        /\ Len(answers) = Len(Queries(page))
    BY <1>3 DEF WritePage
  <2>2. <<>> \in Rowwise /\ Len(<<>>) = 0
    BY DEF Rowwise
  <2>3. AnswersInv'
    BY <1>1, <2>1, <2>2, QueriesOf DEF AnswersInv, Paged
  <2>4. page \notin steady
    BY <1>1 DEF PageInv, WrittenInv, Paged
  <2>5. /\ written' \in [Paged -> Rowwise] /\ written'[page] = answers
        /\ \A p \in Paged \ {page} : written'[p] = written[p]
    BY <1>1, <2>1 DEF PageInv, AnswersInv, WrittenInv
  <2>6. ASSUME NEW p \in Paged
        PROVE  /\ written'[p] # <<>> => Len(written'[p]) = Len(Queries(p))
               /\ \A k \in 1 .. Len(written'[p]) : Genuine(written'[p][k], date, result)
    <3>1. CASE p = page
      BY <2>1, <2>5, <3>1 DEF PageInv, AnswersInv
    <3>2. CASE p # page
      BY <2>5, <3>2 DEF PageInv, WrittenInv
    <3>3. QED BY <3>1, <3>2
  <2>7. /\ steady' \subseteq Paged
        /\ page' = "daily" => steady' = {}
        /\ page' = "hourly" => "hourly" \notin steady'
    BY <1>1, <2>1 DEF PageInv, WrittenInv, Paged
  <2>8. ASSUME NEW p \in steady'
        PROVE  written'[p] # <<>> /\ OfOne(p, written'[p], date)
    <3>1. CASE p = page
      <4>1. ~ moved
        BY <2>1, <2>4, <2>8, <3>1
      <4>2. Len(answers) \in {3, 5}
        BY <1>1, <2>1, QueriesOf DEF Paged
      <4>3. answers # <<>>
        BY <2>2, <4>2
      <4>4. \A k \in 1 .. Len(Queries(p)) :
              answers[k] = {x \in db.rows : In(x, Queries(p)[k], date)}
        BY <1>1, <2>1, <3>1, <4>1 DEF PageInv, AnswersInv
      <4>5. OfOne(p, answers, date)
        BY <4>4 DEF OfOne
      <4>6. QED BY <2>5, <3>1, <4>3, <4>5
    <3>2. CASE p # page
      <4>1. p \in steady /\ p \in Paged
        BY <2>1, <2>7, <2>8, <3>2
      <4>2. QED BY <2>5, <3>2, <4>1 DEF PageInv, WrittenInv
    <3>3. QED BY <3>1, <3>2
  <2>9. WrittenInv'
    BY <1>1, <2>5, <2>6, <2>7, <2>8 DEF WrittenInv
  <2>10. QED BY <2>3, <2>9 DEF PageInv
<1>4. QED BY <1>2, <1>3

LEMMA PageStep ==
  ASSUME Shape, SampleInv, RowsInv, KnownInv, PageInv, [Next]_reportVars
  PROVE  PageInv'
<1>1. Started
  BY DEF RowsInv
<1>2. CASE Beside
  BY <1>1, <1>2, PageBeside DEF Beside, pages
<1>3. CASE Query
  BY <1>1, <1>3, PageQuery
<1>4. CASE WritePage
  BY <1>4, PageWritten
<1>5. CASE QueryFails
  <2>1. /\ page' = "failed" /\ UNCHANGED <<answers, written, steady, date, result>>
    BY <1>5 DEF QueryFails, vars, script
  <2>2. AnswersInv'
    BY <2>1 DEF PageInv, AnswersInv, Paged
  <2>3. WrittenInv'
    BY <2>1 DEF PageInv, WrittenInv
  <2>4. QED BY <2>2, <2>3 DEF PageInv
<1>6. CASE Ended \/ UNCHANGED reportVars
  <2>1. UNCHANGED <<page, answers, written, steady, moved, db>>
    BY <1>6 DEF Ended, reportVars, pages, vars, table
  <2>2. QED BY <1>1, <2>1, PageBeside
<1>7. QED BY <1>2, <1>3, <1>4, <1>5, <1>6 DEF Next, Report

LEMMA HoursOfDay ==
  ASSUME NEW t \in Nat
  PROVE  (t % 48) \div 2 \in 0 .. 23
<1>1. t % 48 \in 0 .. 47
  OBVIOUS
<1>2. \A m \in 0 .. 47 : m \div 2 \in 0 .. 23
  OBVIOUS
<1>3. QED BY <1>1, <1>2

\* The columns of a page ask for hours that their headings name, and for all of
\* them but the first.
LEMMA Columns ==
  ASSUME NEW p \in Paged, NEW h \in Int, NEW k \in 3 .. Len(Queries(p))
  PROVE  LET c == Headings(p) IN
         /\ Queries(p)[k][1] < h /\ h < Queries(p)[k][2] => c[k - 2] <= h /\ h < c[k - 1]
         /\ c[k - 2] <= h /\ h < c[k - 1] /\ h # c[k - 2] =>
              Queries(p)[k][1] < h /\ h < Queries(p)[k][2]
<1>1. CASE p = "daily"
  <2>1. Len(Queries(p)) = 3 /\ Queries(p)[3][1] = 0 /\ Queries(p)[3][2] = 24
    BY <1>1, QueriesOf
  <2>2. k = 3
    BY <2>1
  <2>3. Headings(p)[1] = 0 /\ Headings(p)[2] = 24
    BY <1>1 DEF Headings
  <2>4. QED BY <2>1, <2>2, <2>3
<1>2. CASE p = "hourly"
  <2>1. k = 3 \/ k = 4 \/ k = 5
    <3>1. Len(Queries(p)) = 5
      BY <1>2, QueriesOf
    <3>2. QED BY <3>1
  <2>2. /\ Queries(p)[3][1] = 9 /\ Queries(p)[3][2] = 14
        /\ Queries(p)[4][1] = 14 /\ Queries(p)[4][2] = 18
        /\ Queries(p)[5][1] = 18 /\ Queries(p)[5][2] = 21
    BY <1>2, QueriesOf
  <2>3. /\ Headings(p)[1] = 9 /\ Headings(p)[2] = 14
        /\ Headings(p)[3] = 18 /\ Headings(p)[4] = 21
    BY <1>2 DEF Headings
  <2>4. CASE k = 3
    BY <2>2, <2>3, <2>4
  <2>5. CASE k = 4
    BY <2>2, <2>3, <2>5
  <2>6. CASE k = 5
    BY <2>2, <2>3, <2>6
  <2>7. QED BY <2>1, <2>4, <2>5, <2>6
<1>3. QED BY <1>1, <1>2 DEF Paged

LEMMA CellsRight ==
  ASSUME KnownInv, PageInv
  PROVE  CellsAddUp
<1> SUFFICES ASSUME NEW p \in steady, NEW l \in Lines(p, written[p]),
                    NEW k \in 3 .. Len(written[p])
             PROVE  LET a == written[p]
                        shown == UNION {Cell(a, k, l, d) : d \in Days(a[1])} IN
                    /\ Of(l, a[k]) = shown /\ shown \subseteq Headed(p, k, Of(l, a[2]))
                    /\ \A x \in Headed(p, k, Of(l, a[2])) :
                         Hour(x) # Headings(p)[k - 2] => x \in shown
  BY DEF CellsAddUp
<1> DEFINE a == written[p]
           Q == Queries(p)
           shown == UNION {Cell(a, k, l, d) : d \in Days(a[1])}
<1>1. /\ p \in Paged /\ Len(a) = Len(Q)
      /\ \A j \in 1 .. Len(a) : Genuine(a[j], date, result)
      /\ OfOne(p, a, date)
  BY DEF PageInv, WrittenInv
<1>2. PICK R : \A j \in 1 .. Len(Q) : a[j] = {x \in R : In(x, Q[j], date)}
  BY <1>1 DEF OfOne
<1>3. /\ Len(Q) \in {3, 5} /\ Q[1] = Q[2] /\ Q[2][1] = -1 /\ Q[2][2] = 24
  <2>1. CASE p = "daily"
    BY <2>1, QueriesOf
  <2>2. CASE p = "hourly"
    BY <2>2, QueriesOf
  <2>3. QED BY <1>1, <2>1, <2>2 DEF Paged
<1>4. k \in 3 .. Len(Q)
  BY <1>1
<1> HIDE DEF a, Q
<1>5. 1 \in 1 .. Len(Q) /\ 2 \in 1 .. Len(Q) /\ k \in 1 .. Len(Q)
  BY <1>3, <1>4
<1>6. \A j \in 1 .. Len(Q) : \A x \in a[j] : date[x[2]] \in Nat
  BY <1>1 DEF Genuine, KnownInv
<1>7. \A j \in 1 .. Len(Q) : \A x \in a[j] : Hour(x) \in 0 .. 23
  BY <1>6, HoursOfDay DEF Hour
<1>8. \A j \in 1 .. Len(Q) : \A x : x \in a[j] <=>
        /\ x \in R /\ From <= Day(x) /\ Day(x) < To
        /\ Q[j][1] < Hour(x) /\ Hour(x) < Q[j][2]
  BY <1>2 DEF In, Day, Hour
<1>9. a[1] = a[2] /\ a[k] \subseteq a[2]
  <2>1. a[1] = a[2]
    BY <1>2, <1>3, <1>5
  <2>2. ASSUME NEW x \in a[k] PROVE x \in a[2]
    <3>1. Hour(x) \in 0 .. 23
      BY <1>5, <1>7
    <3>2. -1 < Hour(x) /\ Hour(x) < 24
      BY <3>1
    <3>3. x \in R /\ From <= Day(x) /\ Day(x) < To
      BY <1>5, <1>8
    <3>4. QED BY <1>3, <1>5, <1>8, <3>2, <3>3
  <2>3. QED BY <2>1, <2>2
<1>10. Of(l, a[k]) = shown
  <2>1. ASSUME NEW x \in Of(l, a[k])
        PROVE  x \in shown
    <3>1. x \in a[1]
      BY <1>9, <2>1 DEF Of
    <3>2. Day(x) \in Days(a[1])
      BY <3>1 DEF Days
    <3>3. x \in Cell(a, k, l, Day(x))
      BY <2>1 DEF Cell
    <3>4. QED BY <3>2, <3>3
  <2>2. shown \subseteq Of(l, a[k])
    BY DEF Cell
  <2>3. QED BY <2>1, <2>2
<1> HIDE DEF shown
<1>11. ASSUME NEW x \in Of(l, a[k])
       PROVE  x \in Headed(p, k, Of(l, a[2]))
  <2>1. x \in a[k] /\ Line(x) = l
    BY <1>11 DEF Of
  <2>2. Q[k][1] < Hour(x) /\ Hour(x) < Q[k][2] /\ Hour(x) \in Int
    BY <1>5, <1>7, <1>8, <2>1
  <2>3. Headings(p)[k - 2] <= Hour(x) /\ Hour(x) < Headings(p)[k - 1]
    BY <1>1, <1>4, <2>2, Columns DEF Q
  <2>4. QED BY <1>9, <2>1, <2>3 DEF Headed, Of
<1>12. ASSUME NEW x \in Headed(p, k, Of(l, a[2])), Hour(x) # Headings(p)[k - 2]
       PROVE  x \in Of(l, a[k])
  <2>1. /\ x \in a[2] /\ Line(x) = l
        /\ Headings(p)[k - 2] <= Hour(x) /\ Hour(x) < Headings(p)[k - 1]
    BY <1>12 DEF Headed, Of
  <2>2. Hour(x) \in Int
    <3>1. Hour(x) \in 0 .. 23
      BY <1>5, <1>7, <2>1
    <3>2. QED BY <3>1
  <2>3. Q[k][1] < Hour(x) /\ Hour(x) < Q[k][2]
    BY <1>1, <1>4, <1>12, <2>1, <2>2, Columns DEF Q
  <2>4. x \in R /\ From <= Day(x) /\ Day(x) < To
    BY <1>5, <1>8, <2>1
  <2>5. QED BY <1>5, <1>8, <2>1, <2>3, <2>4 DEF Of
<1>13. QED BY <1>10, <1>11, <1>12 DEF a, shown

LEMMA AtLeast ==
  ASSUME NEW n \in Nat
  PROVE  n <= Max({n, 1}) /\ Max({n, 1}) \in Nat
<1>1. \E m \in {n, 1} : \A k \in {n, 1} : m >= k
  OBVIOUS
<1>2. \A k \in {n, 1} : Max({n, 1}) >= k
  BY <1>1 DEF Max
<1>3. Max({n, 1}) \in {n, 1}
  BY <1>1 DEF Max
<1>4. QED BY <1>2, <1>3

\* A rate of samples, wherever they come from.
LEMMA RateRight ==
  ASSUME SampleInv, "nova" \notin tools, NEW R, Genuine(R, date, result)
  PROVE  Rate(R)[1] <= Rate(R)[2]
<1> DEFINE C == {x \in R : result[x[2]][x[1]]["connection"]}
           I == {x \in R : result[x[2]][x[1]]["instance"]}
<1>1. C \subseteq I
  <2>1. ASSUME NEW x \in C PROVE x \in I
    <3>1. x[2] \in Run /\ x[1] \in DOMAIN result[x[2]]
      BY DEF Genuine, SampleInv, SampleShape, Started
    <3>2. Sampling(x[2])
      BY <3>1 DEF SampleInv
    <3>3. QED BY <3>1, <3>2 DEF Sampling
  <2>2. QED BY <2>1
<1>2. I \subseteq R /\ IsFiniteSet(R)
  BY DEF Genuine
<1>3. Rate(R) = <<Cardinality(C), Max({Cardinality(I), 1})>>
  BY DEF Rate, Valid
<1> HIDE DEF C, I
<1>4. IsFiniteSet(I)
  BY <1>2, FS_Subset
<1>5. Cardinality(C) <= Cardinality(I) /\ IsFiniteSet(C)
  BY <1>1, <1>4, FS_Subset
<1>6. Cardinality(C) \in Nat /\ Cardinality(I) \in Nat
  BY <1>4, <1>5, FS_CardinalityType
<1>7. Cardinality(I) <= Max({Cardinality(I), 1}) /\ Max({Cardinality(I), 1}) \in Nat
  <2>1. ASSUME NEW n \in Nat PROVE n <= Max({n, 1}) /\ Max({n, 1}) \in Nat
    BY AtLeast
  <2>2. QED BY <1>6, <2>1
<1>8. QED BY <1>3, <1>5, <1>6, <1>7

LEMMA RatesRight ==
  ASSUME SampleInv, PageInv
  PROVE  RatesBounded
<1> SUFFICES ASSUME NEW p \in Paged, written[p] # <<>>, "nova" \notin tools,
                    NEW l \in Lines(p, written[p])
             PROVE  LET a == written[p]
                        rates == {Rate(Of(l, a[2]))} \cup
                                   {Rate(Cell(a, k, l, d)) : k \in 3 .. Len(a), d \in Days(a[1])}
                    IN  \A rate \in rates : rate[1] <= rate[2]
  BY DEF RatesBounded, PageInv, WrittenInv
<1> DEFINE a == written[p]
<1>1. Len(a) \in {3, 5} /\ \A k \in 1 .. Len(a) : Genuine(a[k], date, result)
  BY QueriesOf DEF PageInv, WrittenInv, Paged
<1> HIDE DEF a
<1>2. Rate(Of(l, a[2]))[1] <= Rate(Of(l, a[2]))[2]
  <2>1. Of(l, a[2]) \subseteq a[2] /\ 2 \in 1 .. Len(a)
    BY <1>1 DEF Of
  <2>2. Genuine(Of(l, a[2]), date, result)
    BY <1>1, <2>1, GenuinePart
  <2>3. QED BY <2>2, RateRight
<1>3. ASSUME NEW k \in 3 .. Len(a), NEW d \in Days(a[1])
      PROVE  Rate(Cell(a, k, l, d))[1] <= Rate(Cell(a, k, l, d))[2]
  <2>1. Cell(a, k, l, d) \subseteq a[k] /\ k \in 1 .. Len(a)
    BY <1>1 DEF Cell, Of
  <2>2. Genuine(Cell(a, k, l, d), date, result)
    BY <1>1, <2>1, GenuinePart
  <2>3. QED BY <2>2, RateRight
<1>4. QED BY <1>2, <1>3 DEF a

\* reports.py:100-228: if the table did not change while a page was put together, a
\* column of a line is made of samples of its total of the hours of the heading, and
\* of all of them past the first hour; and no rate is above 100%, unless nova list
\* has failed.
THEOREM PagesRight == Spec => []PagesTrue
<1>1. SampleInv /\ KnownInv /\ PageInv => PagesTrue
  BY CellsRight, RatesRight DEF PagesTrue
<1>2. QED
  BY <1>1, FileInit, RowsInit, SampleInit, KnownInit, PageInit,
     ShapeStep, RowsStep, SampleStep, KnownStep, PageStep, PTL DEF Spec

-----------------------------------------------------------------------------
(* Every run comes to its end, or waits for what a terminated worker owes it. *)

Own(r) == Start(r) \/ ControllerDown(r) \/ Parent(r) \/ Process(r) \/ Kill(r)

Forward == {<<"idle", "project">>, <<"project", "create">>, <<"project", "truncate">>,
            <<"create", "read">>, <<"read", "truncate">>, <<"truncate", "write">>,
            <<"write", "table">>, <<"table", "insert">>}
Handed == {<<"login", "root">>, <<"login", "put">>, <<"root", "put">>, <<"put", "sent">>,
           <<"login", "terminated">>, <<"root", "terminated">>, <<"put", "terminated">>,
           <<"sent", "none">>}

\* The steps of a run, by what they do to it: it ends, goes on to another part of
\* the script, visits a project, samples it, asks an address, or its worker moves.
Quits(r) == ~ Live(r)'
Advances(r) ==
  /\ <<pc[r], pc'[r]>> \in Forward /\ todo'[r] \in {todo[r], Visited(r)}
  /\ ips'[r] = ips[r] /\ worker'[r] = worker[r]
Visits(r) ==
  /\ pc[r] = "project" /\ pc'[r] = "address"
  /\ \E p \in todo[r] : todo'[r] = todo[r] \ {p} /\ ips'[r] = Addresses(r, p)
  /\ worker'[r] = worker[r]
Samples(r) ==
  /\ pc[r] = "address" /\ pc'[r] = "project"
  /\ todo'[r] = todo[r] /\ ips'[r] = ips[r] /\ worker'[r] = worker[r]
Asks(r) ==
  /\ pc[r] = "address" /\ pc'[r] = "address" /\ todo'[r] = todo[r]
  /\ \E ip \in ips[r] : ips'[r] = ips[r] \ {ip}
  /\ worker'[r] \in {worker[r], "login"}
Hands(r) ==
  /\ pc[r] = "address" /\ pc'[r] = "address" /\ todo'[r] = todo[r] /\ ips'[r] = ips[r]
  /\ <<worker[r], worker'[r]>> \in Handed

Apart(r) ==
  /\ pc'[r] = pc[r] /\ status'[r] = status[r] /\ todo'[r] = todo[r]
  /\ ips'[r] = ips[r] /\ worker'[r] = worker[r]

LEMMA OwnMoves ==
  ASSUME Shape, SampleShape, NEW r \in Run, Own(r)
  PROVE  /\ Live(r) /\ \A q \in Run \ {r} : Apart(q)
         /\ \/ Quits(r) /\ pc'[r] = pc[r] /\ todo'[r] = todo[r] /\ ips'[r] = ips[r]
               /\ worker'[r] = worker[r]
            \/ /\ Live(r)'
               /\ Advances(r) \/ Visits(r) \/ Samples(r) \/ Asks(r) \/ Hands(r)
<1>0. /\ DOMAIN status = Run /\ DOMAIN pc = Run /\ todo \in [Run -> SUBSET Project]
      /\ DOMAIN ips = Run /\ DOMAIN worker = Run
  BY DEF Shape, SampleShape
<1>1. ASSUME NEW c, c # "running", Exit(r, c), UNCHANGED script, Live(r)
      PROVE  /\ Quits(r) /\ \A q \in Run \ {r} : Apart(q)
             /\ pc'[r] = pc[r] /\ todo'[r] = todo[r] /\ ips'[r] = ips[r] /\ worker'[r] = worker[r]
  BY <1>0, <1>1 DEF Exit, script, Quits, Live, Apart
<1>2. ASSUME NEW to, GoTo(r, to), <<pc[r], to>> \in Forward, UNCHANGED script, Live(r)
      PROVE  Live(r)' /\ Advances(r) /\ \A q \in Run \ {r} : Apart(q)
  BY <1>0, <1>2 DEF GoTo, script, Advances, Live, Apart
<1>3. CASE Start(r)
  <2>1. /\ pc[r] = "idle" /\ Live(r) /\ GoTo(r, "project")
        /\ todo' = [todo EXCEPT ![r] = Visited(r)] /\ UNCHANGED <<ips, worker>>
    BY <1>3 DEF Start, At
  <2>2. <<"idle", "project">> \in Forward
    BY DEF Forward
  <2>3. Live(r)' /\ Advances(r) /\ \A q \in Run \ {r} : Apart(q)
    BY <1>0, <2>1, <2>2 DEF GoTo, Advances, Live, Apart
  <2>4. QED BY <2>1, <2>3
<1>4. CASE ControllerDown(r) \/ Kill(r)
  <2>1. UNCHANGED script /\ Live(r) /\ (Exit(r, "1") \/ Exit(r, "killed"))
    BY <1>4 DEF ControllerDown, Kill, At
  <2>2. QED BY <1>1, <2>1
<1>5. CASE NextProject(r)
  <2>1. /\ pc[r] = "project" /\ Live(r) /\ GoTo(r, "address") /\ UNCHANGED worker
        /\ \E p \in todo[r] : /\ todo' = [todo EXCEPT ![r] = @ \ {p}]
                              /\ ips' = [ips EXCEPT ![r] = Addresses(r, p)]
    BY <1>5 DEF NextProject, At
  <2>2. Live(r)' /\ Visits(r) /\ \A q \in Run \ {r} : Apart(q)
    BY <1>0, <2>1 DEF GoTo, Visits, Live, Apart
  <2>3. QED BY <2>1, <2>2
<1>6. CASE NextAddress(r)
  <2>1. /\ pc[r] = "address" /\ Live(r) /\ UNCHANGED <<pc, status, todo>>
        /\ \E ip \in ips[r] : ips' = [ips EXCEPT ![r] = @ \ {ip}]
        /\ worker' = [worker EXCEPT ![r] = "login"] \/ worker' = worker
    BY <1>6 DEF NextAddress, Idle, At
  <2>2. Live(r)' /\ Asks(r) /\ \A q \in Run \ {r} : Apart(q)
    BY <1>0, <2>1 DEF Asks, Live, Apart
  <2>3. QED BY <2>1, <2>2
<1>7. CASE Sampled(r)
  <2>1. /\ pc[r] = "address" /\ Live(r) /\ GoTo(r, "project")
        /\ UNCHANGED <<todo, ips, worker>>
    BY <1>7 DEF Sampled, Idle, At
  <2>2. Live(r)' /\ Samples(r) /\ \A q \in Run \ {r} : Apart(q)
    BY <1>0, <2>1 DEF GoTo, Samples, Live, Apart
  <2>3. QED BY <2>1, <2>2
<1>8. CASE Timeout(r) \/ Get(r) \/ Process(r)
  <2>1. /\ pc[r] = "address" /\ Live(r) /\ UNCHANGED <<pc, status, todo, ips>>
        /\ \E to : <<worker[r], to>> \in Handed /\ worker' = [worker EXCEPT ![r] = to]
    <3>1. CASE Timeout(r)
      <4>1. worker[r] \in {"login", "root", "put"} /\ Worker(r, "terminated") /\ At(r, "address")
        BY <3>1 DEF Timeout
      <4>2. <<worker[r], "terminated">> \in Handed
        BY <4>1 DEF Handed
      <4>3. QED BY <4>1, <4>2 DEF Worker, At
    <3>2. CASE Get(r)
      <4>1. worker[r] = "sent" /\ Worker(r, "none") /\ At(r, "address")
        BY <3>2 DEF Get, Working
      <4>2. <<worker[r], "none">> \in Handed
        BY <4>1 DEF Handed
      <4>3. QED BY <4>1, <4>2 DEF Worker, At
    <3>3. CASE Login(r)
      BY <3>3 DEF Login, Put, Worker, Working, At, Handed
    <3>4. CASE Root(r) \/ Flush(r)
      BY <3>4 DEF Root, Flush, Put, Worker, Working, At, Handed
    <3>5. QED BY <1>8, <3>1, <3>2, <3>3, <3>4 DEF Process
  <2>2. Live(r)' /\ Hands(r) /\ \A q \in Run \ {r} : Apart(q)
    BY <1>0, <2>1 DEF Hands, Live, Apart
  <2>3. QED BY <2>1, <2>2
<1>9. CASE Exists(r)
  <2>1. /\ pc[r] = "project" /\ Live(r) /\ UNCHANGED script
        /\ GoTo(r, "create") \/ GoTo(r, "truncate") \/ Exit(r, "1")
    BY <1>9 DEF Exists, ReadFile, At, Shape
  <2>2. <<"project", "create">> \in Forward /\ <<"project", "truncate">> \in Forward
    BY DEF Forward
  <2>3. QED BY <1>1, <1>2, <2>1, <2>2
<1>10. CASE Create(r) \/ Read(r) \/ Truncate(r) \/ Write(r)
  <2>1. /\ Live(r) /\ UNCHANGED script
        /\ Exit(r, "1") \/ \E to : <<pc[r], to>> \in Forward /\ GoTo(r, to)
    BY <1>10 DEF Create, Read, Truncate, Write, ReadFile, At, Forward
  <2>2. QED BY <1>1, <1>2, <2>1
<1>11. CASE CreateTable(r) \/ Insert(r)
  <2>1. /\ Live(r) /\ UNCHANGED script
        /\ \/ Exit(r, "0") \/ Exit(r, "1")
           \/ <<pc[r], "insert">> \in Forward /\ GoTo(r, "insert")
    BY <1>11 DEF CreateTable, Insert, At, Forward
  <2>2. QED BY <1>1, <1>2, <2>1
<1>12. QED
  BY <1>3, <1>4, <1>5, <1>6, <1>7, <1>8, <1>9, <1>10, <1>11 DEF Own, Parent

\* What OpenStack lists is finite.
Listed ==
  \A r \in Run :
    /\ IsFiniteSet(DOMAIN Projects[Host[r]])
    /\ \A p \in DOMAIN Projects[Host[r]] : IsFiniteSet(Projects[Host[r]][p])

Labels == {"idle", "project", "address", "create", "read", "truncate", "write", "table", "insert"}
Stages == {"none", "login", "root", "put", "sent", "terminated"}

Within(r) ==
  /\ pc[r] \in Labels /\ worker[r] \in Stages
  /\ todo[r] \subseteq Visited(r) /\ IsFiniteSet(ips[r])
WithinInv == Shape /\ SampleShape /\ \A r \in Run : Within(r)

LEMMA AddressesFinite ==
  ASSUME Listed, NEW r \in Run, NEW p \in Visited(r)
  PROVE  IsFiniteSet(Addresses(r, p))
<1>1. IsFiniteSet(Projects[Host[r]][p])
  BY DEF Listed, Visited
<1>2. Addresses(r, p) \subseteq Projects[Host[r]][p]
  BY DEF Addresses
<1>3. QED BY <1>1, <1>2, FS_Subset

LEMMA WithinInit == ReportsInit => \A r \in Run : Within(r)
<1>1. IsFiniteSet({})
  BY FS_EmptySet
<1>2. QED BY <1>1 DEF ReportsInit, Init, Within, Labels, Stages

\* Who does not move is where he was.
LEMMA Bystander ==
  ASSUME NEW r \in Run, Apart(r), Within(r), UNCHANGED <<date, tools>>
  PROVE  Within(r)'
  BY DEF Within, Apart, Visited

LEMMA WithinOwn ==
  ASSUME Listed, Shape, SampleShape, NEW r \in Run, Own(r), Within(r)
  PROVE  Within(r)'
<1>1. Visited(r)' = Visited(r)
  BY DEF Visited
<1>2. \/ Quits(r) /\ pc'[r] = pc[r] /\ todo'[r] = todo[r] /\ ips'[r] = ips[r]
         /\ worker'[r] = worker[r]
      \/ Advances(r) \/ Visits(r) \/ Samples(r) \/ Asks(r) \/ Hands(r)
  BY OwnMoves
<1>3. CASE pc'[r] = pc[r] /\ todo'[r] = todo[r] /\ ips'[r] = ips[r] /\ worker'[r] = worker[r]
  BY <1>1, <1>3 DEF Within
<1>4. CASE Advances(r)
  <2>1. pc'[r] \in Labels
    BY <1>4 DEF Advances, Forward, Labels
  <2>2. QED BY <1>1, <1>4, <2>1 DEF Advances, Within
<1>5. CASE Visits(r)
  <2>1. PICK p \in todo[r] : todo'[r] = todo[r] \ {p} /\ ips'[r] = Addresses(r, p)
    BY <1>5 DEF Visits
  <2>2. p \in Visited(r)
    BY <2>1 DEF Within
  <2>3. IsFiniteSet(ips'[r])
    BY <2>1, <2>2, AddressesFinite
  <2>4. QED BY <1>1, <1>5, <2>1, <2>3 DEF Visits, Within, Labels
<1>6. CASE Samples(r)
  BY <1>1, <1>6 DEF Samples, Within, Labels
<1>7. CASE Asks(r)
  <2>1. IsFiniteSet(ips'[r])
    BY <1>7, FS_RemoveElement DEF Asks, Within
  <2>2. QED BY <1>1, <1>7, <2>1 DEF Asks, Within, Stages
<1>8. CASE Hands(r)
  <2>1. worker'[r] \in Stages
    BY <1>8 DEF Hands, Handed, Stages
  <2>2. QED BY <1>1, <1>8, <2>1 DEF Hands, Within
<1>9. QED BY <1>2, <1>3, <1>4, <1>5, <1>6, <1>7, <1>8

\* The administrator and the pages move no run.
LEMMA NobodyMoves ==
  ASSUME Admin \/ Report \/ Ended \/ UNCHANGED reportVars
  PROVE  \A r \in Run : Apart(r)
<1>1. UNCHANGED <<pc, status, script>>
  BY DEF Admin, LoadFile, DropTable, NewTable, SelectMax, LoadRows, AlterTable, Fixed,
         Report, Query, QueryFails, WritePage, Ended, reportVars, vars
<1>2. QED BY <1>1 DEF Apart, script

LEMMA WithinStep ==
  ASSUME Listed, WithinInv, [Next]_reportVars
  PROVE  \A r \in Run : Within(r)'
<1>0. UNCHANGED <<date, tools>>
  BY Monotone DEF WithinInv
<1>1. CASE \E r \in Run : Own(r)
  <2>1. PICK r \in Run : Own(r)
    BY <1>1
  <2>2. \A q \in Run \ {r} : Apart(q)
    BY <2>1, OwnMoves DEF WithinInv
  <2>3. QED BY <1>0, <2>1, <2>2, WithinOwn, Bystander DEF WithinInv
<1>2. CASE Admin \/ Report \/ Ended \/ UNCHANGED reportVars
  BY <1>0, <1>2, NobodyMoves, Bystander DEF WithinInv
<1>3. QED BY <1>1, <1>2 DEF Next, Beside, Collect, Own

\* What a run has still to do, the most significant first: the parts of the
\* script, projects, the sample of this one, addresses, and the worker's stages.
Part(r) ==
  IF ~ Live(r) THEN 0
  ELSE CASE pc[r] = "idle" -> 8 [] pc[r] \in {"project", "address"} -> 7
         [] pc[r] = "create" -> 6 [] pc[r] = "read" -> 5 [] pc[r] = "truncate" -> 4
         [] pc[r] = "write" -> 3 [] pc[r] = "table" -> 2 [] pc[r] = "insert" -> 1

Inside(r) == IF pc[r] = "address" THEN 1 ELSE 0

Errand(r) ==
  CASE worker[r] = "login" -> 5 [] worker[r] = "root" -> 4 [] worker[r] = "put" -> 3
    [] worker[r] = "sent" -> 2 [] worker[r] = "terminated" -> 1 [] worker[r] = "none" -> 0

Variant(r) ==
  <<Part(r), Cardinality(todo[r]), Inside(r), Cardinality(ips[r]), Errand(r)>>

\* The lexicographical order of five numbers, in which nothing descends for ever.
Smaller == LexProductOrdering(OpToRel(<, Nat), Nat, 5)

LEMMA SmallerWellFounded == IsWellFoundedOn(Smaller, [1 .. 5 -> Nat])
<1>1. 5 \in Nat
  OBVIOUS
<1>2. QED BY <1>1, NatLessThanWellFounded, WFLexProductOrdering DEF Smaller

LEMMA SmallerIf ==
  ASSUME NEW v \in [1 .. 5 -> Nat], NEW w \in [1 .. 5 -> Nat], NEW j \in 1 .. 5,
         \A i \in 1 .. (j - 1) : v[i] = w[i], v[j] < w[j]
  PROVE  <<v, w>> \in Smaller
<1>1. <<v[j], w[j]>> \in OpToRel(<, Nat)
  BY DEF OpToRel
<1>2. QED BY <1>1 DEF Smaller, LexProductOrdering

VariantOK(r) ==
  /\ IsFiniteSet(todo[r]) /\ Cardinality(todo[r]) \in Nat
  /\ Variant(r) \in [1 .. 5 -> Nat]

LEMMA VariantType == ASSUME NEW r \in Run PROVE Listed /\ Within(r) => VariantOK(r)
<1> SUFFICES ASSUME Listed, Within(r) PROVE VariantOK(r)
  OBVIOUS
<1>1. IsFiniteSet(todo[r])
  <2>1. todo[r] \subseteq DOMAIN Projects[Host[r]]
    BY DEF Within, Visited
  <2>2. QED BY <2>1, FS_Subset DEF Listed
<1>2. Cardinality(todo[r]) \in Nat /\ Cardinality(ips[r]) \in Nat
  BY <1>1, FS_CardinalityType DEF Within
<1>3. Part(r) \in Nat /\ Inside(r) \in Nat
  BY DEF Part, Inside, Within, Labels
<1>4. Errand(r) \in Nat
  BY DEF Errand, Within, Stages
<1>5. QED BY <1>1, <1>2, <1>3, <1>4 DEF VariantOK, Variant

LEMMA VariantTypeNext == ASSUME NEW r \in Run PROVE Listed' /\ Within(r)' => VariantOK(r)'
BY VariantType, PTL

\* One of the five numbers is less, and none before it has changed.
LEMMA FirstLess ==
  ASSUME NEW v \in [1 .. 5 -> Nat], NEW w \in [1 .. 5 -> Nat],
         \/ v[1] < w[1]
         \/ v[1] = w[1] /\ v[2] < w[2]
         \/ v[1] = w[1] /\ v[2] = w[2] /\ v[3] < w[3]
         \/ v[1] = w[1] /\ v[2] = w[2] /\ v[3] = w[3] /\ v[4] < w[4]
         \/ v[1] = w[1] /\ v[2] = w[2] /\ v[3] = w[3] /\ v[4] = w[4] /\ v[5] < w[5]
  PROVE  <<v, w>> \in Smaller
<1>1. PICK j \in 1 .. 5 : (\A i \in 1 .. (j - 1) : v[i] = w[i]) /\ v[j] < w[j]
  OBVIOUS
<1>2. QED BY <1>1, SmallerIf

LEMMA SomeLess ==
  ASSUME NEW r \in Run, Variant(r) \in [1 .. 5 -> Nat], Variant(r)' \in [1 .. 5 -> Nat],
         \/ Part(r)' < Part(r)
         \/ /\ Part(r)' = Part(r)
            /\ \/ Cardinality(todo'[r]) < Cardinality(todo[r])
               \/ todo'[r] = todo[r] /\ Inside(r)' < Inside(r)
               \/ /\ todo'[r] = todo[r] /\ Inside(r)' = Inside(r)
                  /\ Cardinality(ips'[r]) < Cardinality(ips[r])
               \/ /\ todo'[r] = todo[r] /\ Inside(r)' = Inside(r) /\ ips'[r] = ips[r]
                  /\ Errand(r)' < Errand(r)
  PROVE  <<Variant(r)', Variant(r)>> \in Smaller
<1> DEFINE v == Variant(r)'
           w == Variant(r)
<1>1. /\ w[1] = Part(r) /\ w[2] = Cardinality(todo[r]) /\ w[3] = Inside(r)
      /\ w[4] = Cardinality(ips[r]) /\ w[5] = Errand(r)
      /\ v[1] = Part(r)' /\ v[2] = Cardinality(todo'[r]) /\ v[3] = Inside(r)'
      /\ v[4] = Cardinality(ips'[r]) /\ v[5] = Errand(r)'
  BY DEF Variant
<1>2. v \in [1 .. 5 -> Nat] /\ w \in [1 .. 5 -> Nat]
  OBVIOUS
<1> HIDE DEF v, w
<1>3. \/ v[1] < w[1]
      \/ v[1] = w[1] /\ v[2] < w[2]
      \/ v[1] = w[1] /\ v[2] = w[2] /\ v[3] < w[3]
      \/ v[1] = w[1] /\ v[2] = w[2] /\ v[3] = w[3] /\ v[4] < w[4]
      \/ v[1] = w[1] /\ v[2] = w[2] /\ v[3] = w[3] /\ v[4] = w[4] /\ v[5] < w[5]
  <2>1. todo'[r] = todo[r] => v[2] = w[2]
    BY <1>1
  <2>2. ips'[r] = ips[r] => v[4] = w[4]
    BY <1>1
  <2>3. QED BY <1>1, <2>1, <2>2
<1>4. QED BY <1>2, <1>3, FirstLess DEF v, w

LEMMA OneLess ==
  ASSUME NEW S, IsFiniteSet(S), NEW x \in S
  PROVE  Cardinality(S \ {x}) < Cardinality(S)
<1>1. Cardinality(S \ {x}) = Cardinality(S) - 1 /\ Cardinality(S) \in Nat
  BY FS_RemoveElement, FS_CardinalityType
<1>2. QED BY <1>1

LEMMA OwnDescends ==
  ASSUME Listed, WithinInv, NEW r \in Run, Own(r)
  PROVE  <<Variant(r)', Variant(r)>> \in Smaller
<1>0. /\ Within(r) /\ Within(r)' /\ IsFiniteSet(todo[r])
      /\ Variant(r) \in [1 .. 5 -> Nat] /\ Variant(r)' \in [1 .. 5 -> Nat]
  <2>1. Within(r) /\ Within(r)' /\ Listed'
    BY WithinOwn DEF WithinInv, Listed
  <2>2. QED BY <2>1, VariantType, VariantTypeNext DEF VariantOK
<1>1. /\ Live(r)
      /\ Quits(r) \/ (Live(r)' /\ (Advances(r) \/ Visits(r) \/ Samples(r) \/ Asks(r) \/ Hands(r)))
  BY OwnMoves DEF WithinInv
<1>2. CASE Quits(r)
  <2>1. Part(r)' = 0
    BY <1>2 DEF Part, Quits
  <2>2. 0 < Part(r)
    BY <1>0, <1>1 DEF Part, Within, Labels
  <2>3. Part(r)' < Part(r)
    BY <2>1, <2>2
  <2>4. QED BY <1>0, <2>3, SomeLess
<1>3. CASE Live(r)' /\ Advances(r)
  <2>1. <<pc[r], pc'[r]>> \in Forward
    BY <1>3 DEF Advances
  <2>2. Part(r)' < Part(r)
    BY <1>1, <1>3, <2>1 DEF Part, Forward
  <2>3. QED BY <1>0, <2>2, SomeLess
<1>4. CASE Live(r)' /\ Visits(r)
  <2>1. Part(r)' = Part(r)
    BY <1>1, <1>4 DEF Part, Visits
  <2>2. Cardinality(todo'[r]) < Cardinality(todo[r])
    BY <1>0, <1>4, OneLess DEF Visits
  <2>3. QED BY <1>0, <2>1, <2>2, SomeLess
<1>5. CASE Live(r)' /\ Samples(r)
  <2>1. Part(r)' = Part(r) /\ todo'[r] = todo[r]
    BY <1>1, <1>5 DEF Part, Samples
  <2>2. Inside(r)' < Inside(r)
    BY <1>5 DEF Inside, Samples
  <2>3. QED BY <1>0, <2>1, <2>2, SomeLess
<1>6. CASE Live(r)' /\ Asks(r)
  <2>1. Part(r)' = Part(r) /\ todo'[r] = todo[r] /\ Inside(r)' = Inside(r)
    BY <1>1, <1>6 DEF Part, Inside, Asks
  <2>2. Cardinality(ips'[r]) < Cardinality(ips[r])
    BY <1>0, <1>6, OneLess DEF Asks, Within
  <2>3. QED BY <1>0, <2>1, <2>2, SomeLess
<1>7. CASE Live(r)' /\ Hands(r)
  <2>1. Part(r)' = Part(r) /\ todo'[r] = todo[r] /\ Inside(r)' = Inside(r) /\ ips'[r] = ips[r]
    BY <1>1, <1>7 DEF Part, Inside, Hands
  <2>2. <<worker[r], worker'[r]>> \in Handed
    BY <1>7 DEF Hands
  <2>3. Errand(r)' < Errand(r)
    BY <2>2 DEF Errand, Handed
  <2>4. QED BY <1>0, <2>1, <2>3, SomeLess
<1>8. QED BY <1>1, <1>2, <1>3, <1>4, <1>5, <1>6, <1>7

\* What a step of the system does to what is left to do.
LessToDo ==
  \A r \in Run :
    /\ Own(r) => <<Variant(r)', Variant(r)>> \in Smaller
    /\ Own(r) => \A q \in Run \ {r} : Variant(q)' = Variant(q)
    /\ Admin \/ Report => Variant(r)' = Variant(r)

\* nova_compute.py:16-61: every step of a run, its worker's and the time-out's
\* among them, leaves it less to do, in an order in which nothing descends for
\* ever, and no other run, page or function gives it more: whatever overlaps, no
\* run goes on for ever on the projects and addresses that OpenStack lists.
THEOREM Descent ==
  ASSUME Listed
  PROVE  /\ IsWellFoundedOn(Smaller, [1 .. 5 -> Nat])
         /\ Spec => [][LessToDo]_reportVars
<1>1. WithinInv => LessToDo
  <2> SUFFICES ASSUME WithinInv, NEW r \in Run
               PROVE  /\ Own(r) => <<Variant(r)', Variant(r)>> \in Smaller
                      /\ Own(r) => \A q \in Run \ {r} : Variant(q)' = Variant(q)
                      /\ Admin \/ Report => Variant(r)' = Variant(r)
    BY DEF LessToDo
  <2>1. \A q \in Run : Apart(q) => Variant(q)' = Variant(q)
    BY DEF Apart, Variant, Part, Inside, Errand, Live
  <2>2. QED BY <2>1, OwnDescends, OwnMoves, NobodyMoves DEF WithinInv
<1>2. ReportsInit => WithinInv
  BY WithinInit, FileInit, SampleInit DEF WithinInv, SampleInv
<1>3. WithinInv /\ Shape' /\ SampleShape' /\ [Next]_reportVars => WithinInv'
  BY WithinStep DEF WithinInv
<1>4. SampleInv => SampleShape
  BY DEF SampleInv
<1>5. Spec => [][LessToDo]_reportVars
  BY <1>1, <1>2, <1>3, <1>4, FileInit, RowsInit, SampleInit,
     ShapeStep, RowsStep, SampleStep, PTL DEF Spec
<1>6. QED BY <1>5, SmallerWellFounded
=============================================================================
