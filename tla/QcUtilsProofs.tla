--------------------------- MODULE QcUtilsProofs ---------------------------
(***************************************************************************)
(* Theorems about QcUtils, for any number of uploaders and reporters, any  *)
(* contents of Quality Center at first, any number of results, retries and *)
(* calls that fail.                                                        *)
(***************************************************************************)
EXTENDS QcUtils, FiniteSetTheorems, WellFoundedInduction, TLAPS

Uploading == {"find_test", "add_test", "update_test", "find_coverage", "add_coverage"}
Reporting == {"find_set", "add_set", "get_instances", "find_case", "add_instance", "add_run"}
Link == [test : Nat, by : Uploader]
Instance == [set : Nat, test : Nat, by : Reporter]
QcRun == [inst : Nat, set : Nat, by : Reporter, result : Nat]
Found == [result : Nat, test : Nat]

\* The values of the variables.  An uploader makes calls of REST and a reporter
\* those of SOAP.
TypeOK ==
  /\ tests \in Seq(TestCase) /\ links \in Seq(Link)
  /\ sets \in Seq(Reporter \cup {Nobody})
  /\ instances \in Seq(Instance) /\ runs \in Seq(QcRun)
  /\ pc \in [Process -> Ended \cup Uploading \cup Reporting]
  /\ \A u \in Uploader : pc[u] \in Ended \cup Uploading
  /\ \A r \in Reporter : pc[r] \in Ended \cup Reporting
  /\ tries \in [Reporter -> Nat]
  /\ target \in [Uploader -> Nat]
  /\ set \in [Reporter -> Nat] /\ known \in [Reporter -> Nat]
  /\ found \in [Reporter -> Seq(Found)]
  /\ at \in [Reporter -> Nat] /\ instance \in [Reporter -> Nat]

-----------------------------------------------------------------------------
(* What a step of one process does. *)

OneMore(s, t, e) ==
  Len(t) = Len(s) + 1 /\ t[Len(s) + 1] = e /\ \A i \in 1 .. Len(s) : t[i] = s[i]

LEMMA Appends ==
  ASSUME NEW S, NEW s \in Seq(S), NEW e \in S
  PROVE  Append(s, e) \in Seq(S) /\ OneMore(s, Append(s, e), e)
  BY DEF OneMore

LEMMA Places ==
  ASSUME NEW S, NEW s \in Seq(S)
  PROVE  Len(s) \in Nat /\ DOMAIN s = 1 .. Len(s) /\ \A i \in 1 .. Len(s) : s[i] \in S
  OBVIOUS

\* The positions of the sequences that Quality Center keeps.
Sizes ==
  /\ Len(tests) \in Nat /\ DOMAIN tests = 1 .. Len(tests)
  /\ Len(links) \in Nat /\ DOMAIN links = 1 .. Len(links)
  /\ Len(sets) \in Nat /\ DOMAIN sets = 1 .. Len(sets)
  /\ Len(instances) \in Nat /\ DOMAIN instances = 1 .. Len(instances)
  /\ Len(runs) \in Nat /\ DOMAIN runs = 1 .. Len(runs)
  /\ \A r \in Reporter : Len(found[r]) \in Nat /\ DOMAIN found[r] = 1 .. Len(found[r])

LEMMA Sized == TypeOK => Sizes
  BY DEF TypeOK, Sizes

\* At most one thing is added, by the call that p was about to make.
Adds(p) ==
  /\ \/ tests' = tests
     \/ /\ p \in Uploader /\ pc[p] = "add_test"
        /\ OneMore(tests, tests', [tc |-> Upload[p].tc, path |-> Upload[p].path, by |-> p])
  /\ \/ links' = links
     \/ /\ p \in Uploader /\ pc[p] = "add_coverage"
        /\ OneMore(links, links', [test |-> target[p], by |-> p])
  /\ \/ sets' = sets
     \/ /\ p \in Reporter /\ pc[p] = "add_set"
        /\ OneMore(sets, sets', p)
  /\ \/ instances' = instances
     \/ /\ p \in Reporter /\ pc[p] = "add_instance"
        /\ OneMore(instances, instances', [set |-> set[p], test |-> found[p][at[p]].test, by |-> p])
  /\ \/ runs' = runs
     \/ /\ p \in Reporter /\ pc[p] = "add_run"
        /\ OneMore(runs, runs', [inst |-> instance[p], set |-> set[p], by |-> p,
                                 result |-> found[p][at[p]].result])

\* The other processes are where they were, and what history says stays true.
Others(p) ==
  /\ \A q \in Process \ {p} : pc'[q] = pc[q]
  /\ \A u \in Uploader \ {p} : target'[u] = target[u]
  /\ \A r \in Reporter \ {p} :
       /\ set'[r] = set[r] /\ known'[r] = known[r] /\ found'[r] = found[r]
       /\ at'[r] = at[r] /\ instance'[r] = instance[r]
  /\ overlap \subseteq overlap' /\ lost \subseteq lost'

\* A reporter that has a result to report has looked that one up.
InRange ==
  \A r \in Reporter : pc[r] \in {"add_instance", "add_run"} => at[r] \in DOMAIN found[r]

LEMMA Served ==
  ASSUME TypeOK, InRange, NEW p \in Process, Serve(p) \/ UNCHANGED server
  PROVE  /\ tests' \in Seq(TestCase) /\ links' \in Seq(Link)
         /\ sets' \in Seq(Reporter \cup {Nobody})
         /\ instances' \in Seq(Instance) /\ runs' \in Seq(QcRun)
         /\ Adds(p)
<1>1. CASE UNCHANGED server
  BY <1>1 DEF server, Adds, TypeOK
<1>2. CASE pc[p] = "add_test" /\ tests' = Append(tests, [tc |-> Upload[p].tc, path |-> Upload[p].path, by |-> p])
           /\ UNCHANGED <<links, sets, instances, runs>>
  <2>1. p \in Uploader
    BY <1>2 DEF TypeOK, Process, Ended, Reporting
  <2>2. [tc |-> Upload[p].tc, path |-> Upload[p].path, by |-> p] \in TestCase
    BY <2>1, QcAssumption DEF TestCase
  <2>3. QED BY <1>2, <2>1, <2>2, Appends DEF TypeOK, Adds
<1>3. CASE pc[p] = "add_coverage" /\ links' = Append(links, [test |-> target[p], by |-> p])
           /\ UNCHANGED <<tests, sets, instances, runs>>
  <2>1. p \in Uploader
    BY <1>3 DEF TypeOK, Process, Ended, Reporting
  <2>2. [test |-> target[p], by |-> p] \in Link
    BY <2>1 DEF Link, TypeOK
  <2>3. QED BY <1>3, <2>1, <2>2, Appends DEF TypeOK, Adds
<1>4. CASE pc[p] = "add_set" /\ sets' = Append(sets, p)
           /\ UNCHANGED <<tests, links, instances, runs>>
  <2>1. p \in Reporter
    BY <1>4 DEF TypeOK, Process, Ended, Uploading
  <2>2. QED BY <1>4, <2>1, Appends DEF TypeOK, Adds
<1>5. CASE pc[p] = "add_instance" /\ instances' = Append(instances,
             [set |-> set[p], test |-> found[p][at[p]].test, by |-> p])
           /\ UNCHANGED <<tests, links, sets, runs>>
  <2>1. p \in Reporter
    BY <1>5 DEF TypeOK, Process, Ended, Uploading
  <2>2. found[p][at[p]] \in Found
    BY <1>5, <2>1, Places DEF TypeOK, InRange
  <2>3. [set |-> set[p], test |-> found[p][at[p]].test, by |-> p] \in Instance
    BY <2>1, <2>2 DEF Instance, Found, TypeOK
  <2>4. QED BY <1>5, <2>1, <2>3, Appends DEF TypeOK, Adds
<1>6. CASE pc[p] = "add_run" /\ runs' = Append(runs, [inst |-> instance[p], set |-> set[p], by |-> p,
                              result |-> found[p][at[p]].result])
           /\ UNCHANGED <<tests, links, sets, instances>>
  <2>1. p \in Reporter
    BY <1>6 DEF TypeOK, Process, Ended, Uploading
  <2>2. found[p][at[p]] \in Found
    BY <1>6, <2>1, Places DEF TypeOK, InRange
  <2>3. [inst |-> instance[p], set |-> set[p], by |-> p, result |-> found[p][at[p]].result] \in QcRun
    BY <2>1, <2>2 DEF QcRun, Found, TypeOK
  <2>4. QED BY <1>6, <2>1, <2>3, Appends DEF TypeOK, Adds
<1>7. QED BY <1>1, <1>2, <1>3, <1>4, <1>5, <1>6 DEF Serve

\* The loop over results comes to its end, to a test that is not in the set as
\* far as the reporter knows, or to one that is.
LEMMA ReportsAt ==
  ASSUME NEW r \in Reporter, NEW k, NEW results, ReportAt(r, k, results)
  PROVE  \/ k > Len(results) /\ Goto(r, "done") /\ instance' = instance
         \/ /\ ~ (k > Len(results)) /\ Already(r, results[k].test) = {}
            /\ Goto(r, "add_instance") /\ instance' = instance
         \/ /\ ~ (k > Len(results)) /\ Goto(r, "add_run")
            /\ \E i \in Already(r, results[k].test) : instance' = [instance EXCEPT ![r] = i]
<1>1. CASE k > Len(results)
  BY <1>1 DEF ReportAt
<1>2. CASE ~ (k > Len(results)) /\ Already(r, results[k].test) = {}
  BY <1>2 DEF ReportAt
<1>3. CASE ~ (k > Len(results)) /\ Already(r, results[k].test) # {}
  <2>1. /\ Goto(r, "add_run")
        /\ \E i \in Already(r, results[k].test) : /\ \A x \in Already(r, results[k].test) : x <= i
                                                  /\ instance' = [instance EXCEPT ![r] = i]
    BY <1>3 DEF ReportAt
  <2>2. QED BY <1>3, <2>1
<1>4. QED BY <1>1, <1>2, <1>3

\* So it sets nothing but pc and instance, of this reporter.
LEMMA ReportsAtTypes ==
  ASSUME TypeOK, NEW r \in Reporter, NEW k, NEW results, ReportAt(r, k, results)
  PROVE  /\ instance' \in [Reporter -> Nat]
         /\ \A q \in Reporter \ {r} : instance'[q] = instance[q]
         /\ \E to \in Ended \cup Reporting : Goto(r, to)
<1>1. \A t : Already(r, t) \subseteq Nat
  BY DEF Already, TypeOK
<1>2. CASE instance' = instance
  BY <1>2, ReportsAt DEF TypeOK, Ended, Reporting
<1>3. CASE Goto(r, "add_run") /\ \E i \in Nat : instance' = [instance EXCEPT ![r] = i]
  BY <1>3 DEF TypeOK, Reporting
<1>4. QED
  BY <1>1, <1>2, <1>3, ReportsAt

LEMMA NextCaseTypes ==
  ASSUME TypeOK, NEW r \in Reporter, NEW results \in Seq(Found), NextCase(r, results)
  PROVE  /\ found' \in [Reporter -> Seq(Found)] /\ at' \in [Reporter -> Nat]
         /\ instance' \in [Reporter -> Nat]
         /\ \A q \in Reporter \ {r} :
              found'[q] = found[q] /\ at'[q] = at[q] /\ instance'[q] = instance[q]
         /\ pc' = pc \/ \E to \in Ended \cup Reporting : Goto(r, to)
<1>1. CASE at[r] < Len(Results[r])
  <2>1. /\ found' = [found EXCEPT ![r] = results] /\ at' = [at EXCEPT ![r] = @ + 1]
        /\ pc' = pc /\ instance' = instance
    BY <1>1 DEF NextCase
  <2>2. /\ found \in [Reporter -> Seq(Found)] /\ at \in [Reporter -> Nat]
        /\ instance \in [Reporter -> Nat]
    BY DEF TypeOK
  <2>3. QED BY <2>1, <2>2
<1>2. CASE ~ (at[r] < Len(Results[r]))
  <2>1. ReportAt(r, 1, results) /\ found' = [found EXCEPT ![r] = results] /\ at' = [at EXCEPT ![r] = 1]
    BY <1>2 DEF NextCase
  <2>2. QED BY <2>1, ReportsAtTypes DEF TypeOK
<1>3. QED BY <1>1, <1>2

\* A process goes to a place of its own.
LEMMA Goes ==
  ASSUME TypeOK, NEW p \in Process, NEW to, Goto(p, to),
         p \in Uploader => to \in Ended \cup Uploading,
         p \in Reporter => to \in Ended \cup Reporting
  PROVE  /\ pc' \in [Process -> Ended \cup Uploading \cup Reporting]
         /\ \A u \in Uploader : pc'[u] \in Ended \cup Uploading
         /\ \A r \in Reporter : pc'[r] \in Ended \cup Reporting
         /\ \A q \in Process \ {p} : pc'[q] = pc[q]
         /\ pc'[p] = to
  BY DEF Goto, TypeOK, Process

LEMMA StepTypes ==
  ASSUME TypeOK, InRange, NEW p \in Process, Start(p) \/ Step(p)
  PROVE  TypeOK' /\ Adds(p) /\ Others(p)
<1>0. Uploader \cap Reporter = {} /\ SetId \in [Reporter -> Nat]
  BY QcAssumption
<1>1. CASE Start(p)
  <2>1. UNCHANGED <<server, tries, local, lost>> /\ overlap \subseteq overlap'
    BY <1>1 DEF Start
  <2>2. \E to : Goto(p, to) /\ (p \in Uploader => to \in Uploading) /\ (p \in Reporter => to \in Reporting)
    BY <1>0, <1>1 DEF Start, Uploading, Reporting
  <2>3. QED BY <2>1, <2>2, Goes, Served DEF TypeOK, Others, server, local
<1>2. CASE p \in Uploader /\ Uploads(p)
  <2>1. UNCHANGED <<tries, set, known, found, at, instance, lost, overlap>> /\ Serve(p)
    BY <1>2 DEF Uploads
  <2>2. tests' \in Seq(TestCase) /\ Len(tests') \in Nat
    BY <2>1, Served
  <2>3. /\ target' \in [Uploader -> Nat] /\ \A u \in Uploader \ {p} : target'[u] = target[u]
        /\ \E to \in Ended \cup Uploading : Goto(p, to)
    <3>1. CASE GetTestCaseByTCID(p)
      <4>1. Same(p) \subseteq Nat
        BY DEF Same, TypeOK
      <4>2. \/ target' = target /\ (Goto(p, "add_test") \/ Goto(p, "failed"))
            \/ Goto(p, "update_test") /\ \E i \in Nat : target' = [target EXCEPT ![p] = i]
        BY <3>1, <4>1 DEF GetTestCaseByTCID
      <4>3. \E to \in Ended \cup Uploading : Goto(p, to)
        BY <4>2 DEF Ended, Uploading
      <4>4. QED BY <1>2, <4>2, <4>3 DEF TypeOK
    <3>2. CASE AddTestCase(p)
      BY <1>2, <2>2, <3>2 DEF AddTestCase, AfterTest, TypeOK, Ended, Uploading
    <3>3. CASE UpdateTestCase(p) \/ GetReqCoverage(p) \/ AddReqCoverage(p)
      BY <1>2, <3>3 DEF UpdateTestCase, GetReqCoverage, AddReqCoverage, AfterTest, TypeOK,
        Ended, Uploading
    <3>4. QED BY <1>2, <3>1, <3>2, <3>3 DEF Uploads
  <2>4. QED BY <1>0, <1>2, <2>1, <2>3, Goes, Served DEF TypeOK, Others
<1>3. CASE p \in Reporter /\ Reports(p)
  <2>1. UNCHANGED <<target, lost, overlap>> /\ Serve(p) /\ tries' = [tries EXCEPT ![p] = 0]
    BY <1>3 DEF Reports
  <2>2. /\ sets' \in Seq(Reporter \cup {Nobody}) /\ Len(sets') \in Nat
        /\ instances' \in Seq(Instance) /\ Len(instances') \in Nat
    BY <2>1, Served
  <2>3. /\ set' \in [Reporter -> Nat] /\ known' \in [Reporter -> Nat]
        /\ found' \in [Reporter -> Seq(Found)] /\ at' \in [Reporter -> Nat]
        /\ instance' \in [Reporter -> Nat]
        /\ \A r \in Reporter \ {p} :
             /\ set'[r] = set[r] /\ known'[r] = known[r] /\ found'[r] = found[r]
             /\ at'[r] = at[r] /\ instance'[r] = instance[r]
        /\ pc' = pc \/ \E to \in Ended \cup Reporting : Goto(p, to)
    <3>1. CASE FindTestSet(p) \/ AddTestSet(p)
      <4>1. /\ UNCHANGED <<known, found, at, instance>>
            /\ Goto(p, "get_instances") \/ Goto(p, "add_set")
            /\ set' = set \/ \E n \in Nat : set' = [set EXCEPT ![p] = n]
        BY <2>2, <3>1 DEF FindTestSet, AddTestSet
      <4>2. \E to \in Ended \cup Reporting : Goto(p, to)
        BY <4>1 DEF Reporting
      <4>3. QED BY <1>3, <4>1, <4>2 DEF TypeOK
    <3>2. CASE GetTestSetInstances(p)
      <4>1. Len(instances) \in Nat
        BY DEF TypeOK
      <4>2. QED BY <1>3, <3>2, <4>1 DEF GetTestSetInstances, TypeOK, Ended, Reporting
    <3>3a. CASE Unbound(p) /\ FindTestCase(p)
      <4>1. UNCHANGED <<set, known>>
        BY <3>3a DEF FindTestCase
      <4>2. \/ UNCHANGED <<found, at, instance>> /\ Goto(p, "failed")
            \/ ~ Unbound(p)
        BY <3>3a DEF FindTestCase
      <4>3. QED BY <1>3, <3>3a, <4>1, <4>2 DEF TypeOK, Ended
    <3>3b. CASE ~ Unbound(p) /\ FindTestCase(p)
      <4>1. PICK results \in Seq(Found) : NextCase(p, results)
        <5>1. found[p] \in Seq(Found) /\ at[p] \in Nat
          BY <1>3 DEF TypeOK
        <5>2. \A i \in Matching(p) : [result |-> at[p], test |-> i] \in Found
          BY <5>1, Sized DEF Matching, Found, Sizes
        <5>3. \A i \in Matching(p) : Append(found[p], [result |-> at[p], test |-> i]) \in Seq(Found)
          BY <5>1, <5>2
        <5>4. QED BY <3>3b, <5>1, <5>3 DEF FindTestCase
      <4>2. UNCHANGED <<set, known>>
        BY <3>3b DEF FindTestCase
      <4>3. QED BY <1>3, <4>1, <4>2, NextCaseTypes DEF TypeOK
    <3>4. CASE AddTestToTestSet(p)
      BY <1>3, <2>2, <3>4 DEF AddTestToTestSet, TypeOK, Ended, Reporting
    <3>5. CASE AddRunToTestSet(p)
      <4>1. /\ UNCHANGED <<set, known, found>> /\ at' = [at EXCEPT ![p] = @ + 1]
            /\ ReportAt(p, at'[p], found[p])
        BY <3>5 DEF AddRunToTestSet
      <4>2. /\ instance' \in [Reporter -> Nat]
            /\ \A r \in Reporter \ {p} : instance'[r] = instance[r]
            /\ \E to \in Ended \cup Reporting : Goto(p, to)
        BY <1>3, <4>1, ReportsAtTypes
      <4>3. at' \in [Reporter -> Nat] /\ \A r \in Reporter \ {p} : at'[r] = at[r]
        <5>1. at' = [at EXCEPT ![p] = @ + 1] /\ at \in [Reporter -> Nat]
          BY <4>1 DEF TypeOK
        <5>2. at[p] + 1 \in Nat
          BY <1>3, <5>1
        <5>3. QED BY <5>1, <5>2
      <4>4. /\ set' \in [Reporter -> Nat] /\ known' \in [Reporter -> Nat]
            /\ found' \in [Reporter -> Seq(Found)]
        BY <4>1 DEF TypeOK
      <4>5. QED BY <4>1, <4>2, <4>3, <4>4
    <3>6. QED BY <1>3, <3>1, <3>2, <3>3a, <3>3b, <3>4, <3>5 DEF Reports
  <2>4. /\ pc' \in [Process -> Ended \cup Uploading \cup Reporting]
        /\ \A u \in Uploader : pc'[u] \in Ended \cup Uploading
        /\ \A r \in Reporter : pc'[r] \in Ended \cup Reporting
        /\ \A q \in Process \ {p} : pc'[q] = pc[q]
    <3>1. CASE pc' = pc
      BY <3>1 DEF TypeOK
    <3>2. CASE \E to \in Ended \cup Reporting : Goto(p, to)
      BY <1>0, <1>3, <3>2, Goes
    <3>3. QED BY <2>3, <3>1, <3>2
  <2>5. tries' \in [Reporter -> Nat]
    BY <2>1 DEF TypeOK
  <2>6. QED BY <2>1, <2>3, <2>4, <2>5, Served DEF TypeOK, Others
<1>4. CASE Fails(p)
  <2>1. /\ UNCHANGED <<target, set, known, overlap>> /\ lost \subseteq lost'
        /\ Serve(p) \/ UNCHANGED server
        /\ Active(p)
        /\ \/ p \in Reporter /\ Again(p)
           \/ Raised(p) /\ tries' = IF p \in Reporter THEN [tries EXCEPT ![p] = 0] ELSE tries
    BY <1>4 DEF Fails
  <2>2. tries' \in [Reporter -> Nat]
    <3>1. tries \in [Reporter -> Nat]
      BY DEF TypeOK
    <3>2. CASE tries' = [tries EXCEPT ![p] = @ + 1] \/ tries' = tries \/ tries' = [tries EXCEPT ![p] = 0]
      BY <3>1, <3>2
    <3>3. QED BY <2>1, <3>2 DEF Again
  <2>3. /\ found' \in [Reporter -> Seq(Found)] /\ at' \in [Reporter -> Nat]
        /\ instance' \in [Reporter -> Nat]
        /\ \A r \in Reporter \ {p} :
             found'[r] = found[r] /\ at'[r] = at[r] /\ instance'[r] = instance[r]
        /\ \/ pc' = pc
           \/ \E to : /\ Goto(p, to) /\ (p \in Uploader => to \in Ended \cup Uploading)
                      /\ (p \in Reporter => to \in Ended \cup Reporting)
    <3>1. CASE UNCHANGED <<pc, found, at, instance>>
      BY <3>1 DEF TypeOK
    <3>2. CASE UNCHANGED <<found, at, instance>> /\ Goto(p, "failed")
      BY <3>2 DEF TypeOK, Ended
    <3>3. CASE UNCHANGED <<found, at, instance>> /\ pc[p] = "find_set" /\ Goto(p, "add_set")
      <4>1. p \notin Uploader
        BY <3>3 DEF TypeOK, Ended, Uploading
      <4>2. QED BY <3>3, <4>1 DEF TypeOK, Reporting
    <3>4. CASE pc[p] = "find_case" /\ NextCase(p, found[p])
      <4>1. p \notin Uploader
        BY <3>4 DEF TypeOK, Ended, Uploading
      <4>2. p \in Reporter /\ found[p] \in Seq(Found)
        BY <4>1 DEF Process, TypeOK
      <4>3. QED BY <3>4, <4>1, <4>2, NextCaseTypes
    <3>5. QED BY <2>1, <3>1, <3>2, <3>3, <3>4 DEF Again, Raised
  <2>4. /\ pc' \in [Process -> Ended \cup Uploading \cup Reporting]
        /\ \A u \in Uploader : pc'[u] \in Ended \cup Uploading
        /\ \A r \in Reporter : pc'[r] \in Ended \cup Reporting
        /\ \A q \in Process \ {p} : pc'[q] = pc[q]
    <3>1. CASE pc' = pc
      BY <3>1 DEF TypeOK
    <3>2. CASE \E to : /\ Goto(p, to) /\ (p \in Uploader => to \in Ended \cup Uploading)
                       /\ (p \in Reporter => to \in Ended \cup Reporting)
      BY <3>2, Goes
    <3>3. QED BY <2>3, <3>1, <3>2
  <2>5. QED BY <2>1, <2>2, <2>3, <2>4, Served DEF TypeOK, Others
<1>5. QED BY <1>1, <1>2, <1>3, <1>4 DEF Step

LEMMA More ==
  ASSUME NEW s, NEW t, NEW e, Len(s) \in Nat, DOMAIN s = 1 .. Len(s), DOMAIN t = 1 .. Len(t),
         t = s \/ OneMore(s, t, e)
  PROVE  /\ \A i \in DOMAIN s : i \in DOMAIN t /\ t[i] = s[i]
         /\ \A i \in (DOMAIN t) \ (DOMAIN s) : t # s /\ i = Len(s) + 1 /\ t[i] = e
<1>1. CASE t = s
  BY <1>1
<1>2. CASE OneMore(s, t, e)
  <2>1. Len(t) = Len(s) + 1 /\ t[Len(s) + 1] = e /\ \A i \in 1 .. Len(s) : t[i] = s[i]
    BY <1>2 DEF OneMore
  <2>2. t # s
    BY <2>1
  <2>3. \A i \in 1 .. Len(s) : i \in 1 .. Len(s) + 1
    OBVIOUS
  <2>4. \A i \in 1 .. Len(s) + 1 : i \in 1 .. Len(s) \/ i = Len(s) + 1
    OBVIOUS
  <2>5. DOMAIN s = 1 .. Len(s) /\ DOMAIN t = 1 .. Len(s) + 1
    BY <2>1
  <2>6. ASSUME NEW i \in DOMAIN s PROVE i \in DOMAIN t /\ t[i] = s[i]
    BY <2>1, <2>3, <2>5
  <2>7. ASSUME NEW i \in (DOMAIN t) \ (DOMAIN s) PROVE i = Len(s) + 1 /\ t[i] = e
    BY <2>1, <2>4, <2>5
  <2>8. QED BY <2>2, <2>6, <2>7
<1>3. QED BY <1>1, <1>2

\* The same for every position: nothing that is there changes, and what is new
\* comes from the call that p was about to make.
TestsGrow(p) ==
  /\ Len(tests) \in Nat /\ DOMAIN tests = 1 .. Len(tests)
  /\ Len(tests') \in Nat /\ DOMAIN tests' = 1 .. Len(tests')
  /\ \A i \in DOMAIN tests : i \in DOMAIN tests' /\ tests'[i] = tests[i]
  /\ \A i \in (DOMAIN tests') \ (DOMAIN tests) :
       /\ p \in Uploader /\ pc[p] = "add_test" /\ i = Len(tests) + 1
       /\ tests'[i] = [tc |-> Upload[p].tc, path |-> Upload[p].path, by |-> p]

LinksGrow(p) ==
  /\ Len(links) \in Nat /\ DOMAIN links = 1 .. Len(links)
  /\ Len(links') \in Nat /\ DOMAIN links' = 1 .. Len(links')
  /\ \A i \in DOMAIN links : i \in DOMAIN links' /\ links'[i] = links[i]
  /\ \A i \in (DOMAIN links') \ (DOMAIN links) :
       /\ p \in Uploader /\ pc[p] = "add_coverage" /\ i = Len(links) + 1
       /\ links'[i] = [test |-> target[p], by |-> p]

SetsGrow(p) ==
  /\ Len(sets) \in Nat /\ DOMAIN sets = 1 .. Len(sets)
  /\ Len(sets') \in Nat /\ DOMAIN sets' = 1 .. Len(sets')
  /\ \A i \in DOMAIN sets : i \in DOMAIN sets' /\ sets'[i] = sets[i]
  /\ \A i \in (DOMAIN sets') \ (DOMAIN sets) :
       /\ p \in Reporter /\ pc[p] = "add_set" /\ i = Len(sets) + 1
       /\ sets'[i] = p

InstancesGrow(p) ==
  /\ Len(instances) \in Nat /\ DOMAIN instances = 1 .. Len(instances)
  /\ Len(instances') \in Nat /\ DOMAIN instances' = 1 .. Len(instances')
  /\ \A i \in DOMAIN instances : i \in DOMAIN instances' /\ instances'[i] = instances[i]
  /\ \A i \in (DOMAIN instances') \ (DOMAIN instances) :
       /\ p \in Reporter /\ pc[p] = "add_instance" /\ i = Len(instances) + 1
       /\ instances'[i] = [set |-> set[p], test |-> found[p][at[p]].test, by |-> p]

RunsGrow(p) ==
  /\ Len(runs) \in Nat /\ DOMAIN runs = 1 .. Len(runs)
  /\ Len(runs') \in Nat /\ DOMAIN runs' = 1 .. Len(runs')
  /\ \A i \in DOMAIN runs : i \in DOMAIN runs' /\ runs'[i] = runs[i]
  /\ \A i \in (DOMAIN runs') \ (DOMAIN runs) :
       /\ p \in Reporter /\ pc[p] = "add_run" /\ i = Len(runs) + 1
       /\ runs'[i] = [inst |-> instance[p], set |-> set[p], by |-> p,
                       result |-> found[p][at[p]].result]

Grow(p) ==
  TestsGrow(p) /\ LinksGrow(p) /\ SetsGrow(p) /\ InstancesGrow(p) /\ RunsGrow(p)

LEMMA StepAdds ==
  ASSUME TypeOK, InRange, NEW p \in Process, Start(p) \/ Step(p)
  PROVE  /\ TypeOK' /\ Others(p) /\ Grow(p)
         /\ overlap \subseteq overlap' /\ lost \subseteq lost'
<1>1. TypeOK' /\ Others(p) /\ Adds(p)
  BY StepTypes
<1>2. Sizes
  BY Sized
<1>3. Sizes'
  BY <1>1 DEF TypeOK, Sizes
<1>4. TestsGrow(p)
  <2> DEFINE e == [tc |-> Upload[p].tc, path |-> Upload[p].path, by |-> p]
  <2>1. tests' = tests \/ (p \in Uploader /\ pc[p] = "add_test" /\ OneMore(tests, tests', e))
    BY <1>1 DEF Adds
  <2>2. /\ Len(tests) \in Nat /\ DOMAIN tests = 1 .. Len(tests)
        /\ Len(tests') \in Nat /\ DOMAIN tests' = 1 .. Len(tests')
    BY <1>2, <1>3 DEF Sizes
  <2> HIDE DEF e
  <2>3. /\ \A i \in DOMAIN tests : i \in DOMAIN tests' /\ tests'[i] = tests[i]
        /\ \A i \in (DOMAIN tests') \ (DOMAIN tests) : tests' # tests /\ i = Len(tests) + 1 /\ tests'[i] = e
    BY <2>1, <2>2, More
  <2>4. QED BY <2>1, <2>2, <2>3 DEF e, TestsGrow
<1>5. LinksGrow(p)
  <2> DEFINE e == [test |-> target[p], by |-> p]
  <2>1. links' = links \/ (p \in Uploader /\ pc[p] = "add_coverage" /\ OneMore(links, links', e))
    BY <1>1 DEF Adds
  <2>2. /\ Len(links) \in Nat /\ DOMAIN links = 1 .. Len(links)
        /\ Len(links') \in Nat /\ DOMAIN links' = 1 .. Len(links')
    BY <1>2, <1>3 DEF Sizes
  <2> HIDE DEF e
  <2>3. /\ \A i \in DOMAIN links : i \in DOMAIN links' /\ links'[i] = links[i]
        /\ \A i \in (DOMAIN links') \ (DOMAIN links) : links' # links /\ i = Len(links) + 1 /\ links'[i] = e
    BY <2>1, <2>2, More
  <2>4. QED BY <2>1, <2>2, <2>3 DEF e, LinksGrow
<1>6. SetsGrow(p)
  <2> DEFINE e == p
  <2>1. sets' = sets \/ (p \in Reporter /\ pc[p] = "add_set" /\ OneMore(sets, sets', e))
    BY <1>1 DEF Adds
  <2>2. /\ Len(sets) \in Nat /\ DOMAIN sets = 1 .. Len(sets)
        /\ Len(sets') \in Nat /\ DOMAIN sets' = 1 .. Len(sets')
    BY <1>2, <1>3 DEF Sizes
  <2> HIDE DEF e
  <2>3. /\ \A i \in DOMAIN sets : i \in DOMAIN sets' /\ sets'[i] = sets[i]
        /\ \A i \in (DOMAIN sets') \ (DOMAIN sets) : sets' # sets /\ i = Len(sets) + 1 /\ sets'[i] = e
    BY <2>1, <2>2, More
  <2>4. QED BY <2>1, <2>2, <2>3 DEF e, SetsGrow
<1>7. InstancesGrow(p)
  <2> DEFINE e == [set |-> set[p], test |-> found[p][at[p]].test, by |-> p]
  <2>1. instances' = instances \/ (p \in Reporter /\ pc[p] = "add_instance" /\ OneMore(instances, instances', e))
    BY <1>1 DEF Adds
  <2>2. /\ Len(instances) \in Nat /\ DOMAIN instances = 1 .. Len(instances)
        /\ Len(instances') \in Nat /\ DOMAIN instances' = 1 .. Len(instances')
    BY <1>2, <1>3 DEF Sizes
  <2> HIDE DEF e
  <2>3. /\ \A i \in DOMAIN instances : i \in DOMAIN instances' /\ instances'[i] = instances[i]
        /\ \A i \in (DOMAIN instances') \ (DOMAIN instances) : instances' # instances /\ i = Len(instances) + 1 /\ instances'[i] = e
    BY <2>1, <2>2, More
  <2>4. QED BY <2>1, <2>2, <2>3 DEF e, InstancesGrow
<1>8. RunsGrow(p)
  <2> DEFINE e == [inst |-> instance[p], set |-> set[p], by |-> p,
                    result |-> found[p][at[p]].result]
  <2>1. runs' = runs \/ (p \in Reporter /\ pc[p] = "add_run" /\ OneMore(runs, runs', e))
    BY <1>1 DEF Adds
  <2>2. /\ Len(runs) \in Nat /\ DOMAIN runs = 1 .. Len(runs)
        /\ Len(runs') \in Nat /\ DOMAIN runs' = 1 .. Len(runs')
    BY <1>2, <1>3 DEF Sizes
  <2> HIDE DEF e
  <2>3. /\ \A i \in DOMAIN runs : i \in DOMAIN runs' /\ runs'[i] = runs[i]
        /\ \A i \in (DOMAIN runs') \ (DOMAIN runs) : runs' # runs /\ i = Len(runs) + 1 /\ runs'[i] = e
    BY <2>1, <2>2, More
  <2>4. QED BY <2>1, <2>2, <2>3 DEF e, RunsGrow
<1>9. QED
  BY <1>1, <1>4, <1>5, <1>6, <1>7, <1>8 DEF Others, Grow

-----------------------------------------------------------------------------
(* Processes that run at the same time are on record. *)

Met ==
  \A p, q \in Process : p # q /\ Active(p) /\ Active(q) => Together(p, q)

\* Nobody becomes active but by Start.
LEMMA Activates ==
  ASSUME NEW p \in Process, Start(p) \/ Step(p), ~ Active(p)
  PROVE  Start(p)
<1>1. ASSUME Serve(p) PROVE FALSE
  BY <1>1 DEF Serve, Active, Ended
<1>2. QED BY <1>1 DEF Step, Uploads, Reports, Fails

LEMMA MetStep ==
  ASSUME TypeOK, InRange, Met, NEW p \in Process, Start(p) \/ Step(p)
  PROVE  Met'
<1>0. Others(p)
  BY StepAdds
<1> SUFFICES ASSUME NEW q \in Process, NEW s \in Process, q # s, Active(q)', Active(s)'
             PROVE  {q, s} \in overlap'
  BY DEF Met, Together
<1>1. ASSUME NEW x \in Process, x # p, Active(x)' PROVE Active(x) /\ {p, x} \in overlap'
  <2>1. Active(x)
    BY <1>0, <1>1 DEF Others, Active
  <2>2. CASE Active(p)
    BY <1>0, <1>1, <2>1, <2>2 DEF Met, Together, Others
  <2>3. CASE ~ Active(p)
    BY <2>1, <2>3, Activates DEF Start
  <2>4. QED BY <2>1, <2>2, <2>3
<1>2. CASE q = p
  BY <1>1, <1>2
<1>3. CASE s = p
  <2>1. {p, q} = {q, s}
    BY <1>3
  <2>2. QED BY <1>1, <1>3, <2>1
<1>4. CASE q # p /\ s # p
  BY <1>0, <1>1, <1>4 DEF Met, Together, Others
<1>5. QED BY <1>2, <1>3, <1>4

-----------------------------------------------------------------------------
(* Uploads.  While an uploader is about to add a test case or a link, what it *)
(* has not seen is by uploaders that run at the same time. *)

NewTest ==
  \A u \in Uploader : pc[u] = "add_test" =>
    \A i \in DOMAIN tests :
      tests[i].tc = Upload[u].tc /\ tests[i].path = Upload[u].path => Together(tests[i].by, u)
NewLink ==
  \A u \in Uploader : pc[u] = "add_coverage" =>
    \A i \in DOMAIN links : links[i].test = target[u] => Together(links[i].by, u)
UploadInv == NewTest /\ NewLink /\ UploadedOnce

\* Where an uploader comes to the call that adds something.
LEMMA ToAdd ==
  ASSUME TypeOK, NEW u \in Uploader, Start(u) \/ Step(u)
  PROVE  /\ pc'[u] = "add_test" => tests' = tests /\ Same(u) = {}
         /\ pc'[u] = "add_coverage" =>
              /\ links' = links /\ target'[u] = target[u]
              /\ \A i \in DOMAIN links : links[i].test # target[u]
<1>0. u \in Process /\ u \notin Reporter /\ pc[u] \in Ended \cup Uploading
  BY QcAssumption DEF Process, TypeOK
<1>1. \A to : Goto(u, to) => pc'[u] = to
  BY <1>0 DEF Goto, TypeOK
<1>2. CASE Start(u)
  BY <1>0, <1>1, <1>2 DEF Start
<1>3. CASE Uploads(u)
  <2>1. CASE GetTestCaseByTCID(u)
    <3>1. Serve(u) /\ pc[u] = "find_test"
      BY <1>3, <2>1 DEF Uploads, GetTestCaseByTCID
    <3>2. UNCHANGED server
      BY <3>1 DEF Serve
    <3>3. QED BY <1>1, <2>1, <3>2 DEF GetTestCaseByTCID, server
  <2>2. CASE AddTestCase(u) \/ UpdateTestCase(u)
    BY <1>1, <2>2 DEF AddTestCase, UpdateTestCase, AfterTest
  <2>3. CASE GetReqCoverage(u)
    <3>1. Serve(u) /\ pc[u] = "find_coverage"
      BY <1>3, <2>3 DEF Uploads, GetReqCoverage
    <3>2. UNCHANGED server
      BY <3>1 DEF Serve
    <3>3. QED BY <1>1, <2>3, <3>2 DEF GetReqCoverage, server
  <2>4. CASE AddReqCoverage(u)
    BY <1>1, <2>4 DEF AddReqCoverage
  <2>5. QED BY <1>3, <2>1, <2>2, <2>3, <2>4 DEF Uploads
<1>4. CASE Fails(u)
  BY <1>0, <1>1, <1>4 DEF Fails, Raised, Ended, Uploading
<1>5. QED BY <1>0, <1>2, <1>3, <1>4 DEF Step

LEMMA UploadStep ==
  ASSUME TypeOK, InRange, Met, UploadInv, NEW p \in Process, Start(p) \/ Step(p)
  PROVE  UploadInv'
<1>0. Others(p) /\ TestsGrow(p) /\ LinksGrow(p) /\ overlap \subseteq overlap'
  BY StepAdds DEF Grow
<1>1. Uploader \subseteq Process /\ \A u \in Uploader : u \notin Reporter
  BY QcAssumption DEF Process
<1>2. \A u \in Uploader : pc[u] = "add_test" \/ pc[u] = "add_coverage" => Active(u)
  BY DEF Active, Ended
\* What is there of the test case, or of the link, of a call to come.
<1>3. ASSUME NEW u \in Uploader, pc'[u] = "add_test", NEW i \in DOMAIN tests',
             tests'[i].tc = Upload[u].tc, tests'[i].path = Upload[u].path
      PROVE  {tests'[i].by, u} \in overlap'
  <2>1. CASE u = p
    <3>1. tests' = tests /\ Same(u) = {}
      BY <1>3, <2>1, ToAdd
    <3>2. QED BY <1>3, <3>1 DEF Same
  <2>2. CASE u # p
    <3>1. pc[u] = "add_test" /\ Active(u)
      BY <1>0, <1>1, <1>2, <1>3, <2>2 DEF Others
    <3>2. CASE i \in DOMAIN tests
      BY <1>0, <1>3, <3>1, <3>2 DEF TestsGrow, UploadInv, NewTest, Together
    <3>3. CASE i \notin DOMAIN tests
      <4>1. p \in Uploader /\ pc[p] = "add_test" /\ tests'[i].by = p
        BY <1>0, <1>3, <3>3 DEF TestsGrow
      <4>2. QED BY <1>0, <1>1, <1>2, <2>2, <3>1, <4>1 DEF Met, Together
    <3>4. QED BY <3>2, <3>3
  <2>3. QED BY <2>1, <2>2
<1>4. ASSUME NEW u \in Uploader, pc'[u] = "add_coverage", NEW i \in DOMAIN links',
             links'[i].test = target'[u]
      PROVE  {links'[i].by, u} \in overlap'
  <2>1. CASE u = p
    BY <1>4, <2>1, ToAdd
  <2>2. CASE u # p
    <3>1. pc[u] = "add_coverage" /\ Active(u) /\ target'[u] = target[u]
      BY <1>0, <1>1, <1>2, <1>4, <2>2 DEF Others
    <3>2. CASE i \in DOMAIN links
      BY <1>0, <1>4, <3>1, <3>2 DEF LinksGrow, UploadInv, NewLink, Together
    <3>3. CASE i \notin DOMAIN links
      <4>1. p \in Uploader /\ pc[p] = "add_coverage" /\ links'[i].by = p
        BY <1>0, <1>4, <3>3 DEF LinksGrow
      <4>2. QED BY <1>0, <1>1, <1>2, <2>2, <3>1, <4>1 DEF Met, Together
    <3>4. QED BY <3>2, <3>3
  <2>3. QED BY <2>1, <2>2
\* What was added.
<1>5. ASSUME NEW i \in DOMAIN tests', NEW k \in DOMAIN tests', i < k, tests'[k].by # Nobody,
             tests'[i].tc = tests'[k].tc, tests'[i].path = tests'[k].path
      PROVE  {tests'[i].by, tests'[k].by} \in overlap'
  <2>1. i \in DOMAIN tests /\ tests'[i] = tests[i]
    <3>1. \A x \in DOMAIN tests' : x <= Len(tests) + 1
      BY <1>0 DEF TestsGrow
    <3>2. i # Len(tests) + 1
      BY <1>0, <1>5, <3>1 DEF TestsGrow
    <3>3. QED BY <1>0, <1>5, <3>2 DEF TestsGrow
  <2>2. CASE k \in DOMAIN tests
    BY <1>0, <1>5, <2>1, <2>2 DEF TestsGrow, UploadInv, UploadedOnce, Together
  <2>3. CASE k \notin DOMAIN tests
    <3>1. /\ p \in Uploader /\ pc[p] = "add_test"
          /\ tests'[k] = [tc |-> Upload[p].tc, path |-> Upload[p].path, by |-> p]
      BY <1>0, <1>5, <2>3 DEF TestsGrow
    <3>2. QED BY <1>0, <1>5, <2>1, <3>1 DEF UploadInv, NewTest, Together
  <2>4. QED BY <2>2, <2>3
<1>6. ASSUME NEW i \in DOMAIN links', NEW k \in DOMAIN links', i # k,
             links'[i].test = links'[k].test
      PROVE  {links'[i].by, links'[k].by} \in overlap'
  <2>1. ASSUME NEW x \in DOMAIN links'
        PROVE  \/ x \in DOMAIN links /\ links'[x] = links[x]
               \/ /\ x = Len(links) + 1 /\ links'[x].test = target[p] /\ links'[x].by = p
                  /\ p \in Uploader /\ pc[p] = "add_coverage"
    BY <1>0 DEF LinksGrow
  <2>2. ASSUME NEW x \in DOMAIN links, links[x].test = target[p],
               p \in Uploader, pc[p] = "add_coverage"
        PROVE  {links[x].by, p} \in overlap'
    BY <1>0, <2>2 DEF UploadInv, NewLink, Together
  <2>3. CASE i \in DOMAIN links /\ k \in DOMAIN links /\ links'[i] = links[i] /\ links'[k] = links[k]
    BY <1>0, <1>6, <2>3 DEF UploadInv, UploadedOnce, Together
  <2>4. CASE k \notin DOMAIN links
    BY <1>6, <2>1, <2>2, <2>4
  <2>5. CASE i \notin DOMAIN links
    <3>1. {links'[k].by, p} \in overlap' /\ links'[i].by = p
      BY <1>6, <2>1, <2>2, <2>5
    <3>2. {links'[k].by, p} = {p, links'[k].by}
      OBVIOUS
    <3>3. QED BY <3>1, <3>2
  <2>6. QED BY <1>0, <2>3, <2>4, <2>5 DEF LinksGrow
<1>7. QED
  BY <1>3, <1>4, <1>5, <1>6 DEF UploadInv, NewTest, NewLink, UploadedOnce, Together

-----------------------------------------------------------------------------
(* Test sets.  A reporter that is about to add the second one did not see the *)
(* first: it was added since, or the call that tells was not answered. *)

Excused(r) == Lost(r, "find_set") \/ Lost(r, "add_set")
NewSet ==
  \A r \in Reporter : pc[r] = "add_set" /\ Len(sets) = 1 => Together(sets[1], r) \/ Excused(r)
SetInv == NewSet /\ OneSet

\* A reporter that comes to add a set has not found just one, or not been told;
\* one that stays there was not answered.
LEMMA ToAddSet ==
  ASSUME TypeOK, NEW r \in Reporter, Start(r) \/ Step(r), pc'[r] = "add_set"
  PROVE  \/ sets' = sets /\ Len(sets) # 1
         \/ <<r, "find_set">> \in lost' \/ <<r, "add_set">> \in lost'
<1>0. r \in Process /\ r \notin Uploader /\ pc[r] \in Ended \cup Reporting
  BY QcAssumption DEF Process, TypeOK
<1>1. \A to : Goto(r, to) => to = "add_set"
  BY <1>0 DEF Goto, TypeOK
<1>2. \A k, results : ~ ReportAt(r, k, results)
  BY <1>1, ReportsAt
<1>3. \A results : NextCase(r, results) => pc' = pc
  BY <1>2 DEF NextCase
<1>4. CASE Start(r)
  BY <1>0, <1>1, <1>4 DEF Start
<1>5. CASE Reports(r)
  <2>1. CASE FindTestSet(r)
    <3>1. Serve(r) /\ pc[r] = "find_set"
      BY <1>5, <2>1 DEF Reports, FindTestSet
    <3>2. UNCHANGED server
      BY <3>1 DEF Serve
    <3>3. QED BY <1>1, <2>1, <3>2 DEF FindTestSet, server
  <2>2. CASE AddTestSet(r) \/ GetTestSetInstances(r) \/ AddTestToTestSet(r) \/ AddRunToTestSet(r)
    BY <1>1, <1>2, <2>2 DEF AddTestSet, GetTestSetInstances, AddTestToTestSet, AddRunToTestSet
  <2>3. CASE FindTestCase(r)
    <3>1. pc' = pc \/ Goto(r, "failed")
      BY <1>3, <2>3 DEF FindTestCase
    <3>2. pc[r] = "find_case"
      BY <2>3 DEF FindTestCase
    <3>3. QED BY <1>1, <3>1, <3>2
  <2>4. QED BY <1>5, <2>1, <2>2, <2>3 DEF Reports
<1>6. CASE Fails(r)
  <2>1. <<r, pc[r]>> \in lost' /\ (Again(r) \/ Raised(r))
    BY <1>6 DEF Fails
  <2>2. pc[r] \in {"find_set", "add_set"}
    BY <1>1, <1>3, <2>1 DEF Again, Raised
  <2>3. QED BY <2>1, <2>2
<1>7. QED BY <1>0, <1>4, <1>5, <1>6 DEF Step

LEMMA SetStep ==
  ASSUME TypeOK, InRange, Met, SetInv, NEW p \in Process, Start(p) \/ Step(p)
  PROVE  SetInv'
<1>0. /\ Others(p) /\ SetsGrow(p)
      /\ overlap \subseteq overlap' /\ lost \subseteq lost'
  BY StepAdds DEF Grow
<1>1. Reporter \subseteq Process
  BY DEF Process
<1>2. \A r \in Reporter : pc[r] = "add_set" => Active(r)
  BY DEF Active, Ended
<1>3. ASSUME NEW r \in Reporter, pc'[r] = "add_set", Len(sets') = 1
      PROVE  {sets'[1], r} \in overlap' \/ <<r, "find_set">> \in lost' \/ <<r, "add_set">> \in lost'
  <2>1. CASE r = p
    <3>1. CASE sets' = sets /\ Len(sets) # 1
      BY <1>3, <3>1
    <3>2. QED BY <1>3, <2>1, <3>1, ToAddSet
  <2>2. CASE r # p
    <3>1. pc[r] = "add_set" /\ Active(r) /\ 1 \in DOMAIN sets'
      BY <1>0, <1>1, <1>2, <1>3, <2>2 DEF SetsGrow, Others
    <3>2. CASE 1 \in DOMAIN sets
      <4>1. Len(sets) = 1
        <5>1. Len(sets) \in Nat /\ DOMAIN sets = 1 .. Len(sets) /\ Len(sets) >= 1
          BY <1>0, <3>2 DEF SetsGrow
        <5>2. Len(sets) \in DOMAIN sets' /\ DOMAIN sets' = 1 .. Len(sets')
          BY <1>0, <5>1 DEF SetsGrow
        <5>3. Len(sets) \in 1 .. 1
          BY <1>3, <5>2
        <5>4. QED BY <5>3
      <4>2. QED BY <1>0, <3>1, <3>2, <4>1 DEF SetsGrow, SetInv, NewSet, Together, Excused, Lost
    <3>3. CASE 1 \notin DOMAIN sets
      <4>1. p \in Reporter /\ pc[p] = "add_set" /\ sets'[1] = p
        BY <1>0, <3>1, <3>3 DEF SetsGrow
      <4>2. QED BY <1>0, <1>1, <1>2, <2>2, <3>1, <4>1 DEF Met, Together
    <3>4. QED BY <3>2, <3>3
  <2>3. QED BY <2>1, <2>2
<1>4. ASSUME Len(sets') > 1, sets'[2] # Nobody
      PROVE  \/ {sets'[1], sets'[2]} \in overlap'
             \/ <<sets'[2], "find_set">> \in lost' \/ <<sets'[2], "add_set">> \in lost'
  <2>0. 1 \in DOMAIN sets' /\ 2 \in DOMAIN sets'
    BY <1>0, <1>4 DEF SetsGrow
  <2>1. CASE 2 \in DOMAIN sets
    <3>1. Len(sets) > 1 /\ sets'[1] = sets[1] /\ sets'[2] = sets[2]
      BY <1>0, <2>1 DEF SetsGrow
    <3>2. QED BY <1>0, <1>4, <3>1 DEF SetInv, OneSet, Together, Lost
  <2>2. CASE 2 \notin DOMAIN sets
    <3>1. p \in Reporter /\ pc[p] = "add_set" /\ 2 = Len(sets) + 1 /\ sets'[2] = p
      BY <1>0, <2>0, <2>2 DEF SetsGrow
    <3>2. Len(sets) = 1 /\ sets'[1] = sets[1]
      BY <1>0, <3>1 DEF SetsGrow
    <3>3. QED BY <1>0, <3>1, <3>2 DEF SetInv, NewSet, Together, Excused, Lost
  <2>3. QED BY <2>1, <2>2
<1>5. QED
  BY <1>3, <1>4 DEF SetInv, NewSet, OneSet, Together, Excused, Lost

-----------------------------------------------------------------------------
(* Reports: the steps of a reporter, by what they do to it. *)

Before == {"absent", "idle", "find_set", "add_set", "get_instances"}
Adding(r) == pc[r] \in {"add_instance", "add_run"}
Keeps(r) ==
  set'[r] = set[r] /\ found'[r] = found[r] /\ at'[r] = at[r] /\ instance'[r] = instance[r]

Prepares(r) ==
  /\ pc[r] \in Before /\ pc'[r] \in Before
  /\ known'[r] = known[r] /\ found'[r] = found[r] /\ at'[r] = at[r]
Stops(r) ==
  /\ pc'[r] \in {"done", "failed"} /\ Keeps(r)
  /\ known'[r] \in {known[r], Len(instances)}
  /\ pc[r] = "done" \/ pc'[r] = "failed" \/ Results[r] = <<>>
Reads(r) ==
  /\ pc[r] = "get_instances" /\ pc'[r] = "find_case" /\ Keeps(r)
  /\ known'[r] = Len(instances) /\ Results[r] # <<>>
LooksFor(r, results) ==
  /\ pc[r] = "find_case" /\ set'[r] = set[r] /\ known'[r] = known[r] /\ found'[r] = results
  /\ \/ at[r] < Len(Results[r]) /\ pc'[r] = "find_case" /\ at'[r] = at[r] + 1
     \/ ~ (at[r] < Len(Results[r])) /\ at'[r] = 1 /\ ReportAt(r, 1, results)
Finds(r) == \E i \in Matching(r) :
  Matching(r) = {i} /\ LooksFor(r, Append(found[r], [result |-> at[r], test |-> i]))
Misses(r) ==
  LooksFor(r, found[r]) /\ (<<r, "find_case">> \in lost' \/ Cardinality(Matching(r)) # 1)
Enters(r) ==
  /\ pc[r] = "add_instance" /\ pc'[r] = "add_run"
  /\ set'[r] = set[r] /\ known'[r] = known[r] /\ found'[r] = found[r] /\ at'[r] = at[r]
  /\ OneMore(instances, instances', [set |-> set[r], test |-> found[r][at[r]].test, by |-> r])
  /\ instance'[r] = Len(instances')
Records(r) ==
  /\ pc[r] = "add_run" /\ set'[r] = set[r] /\ known'[r] = known[r] /\ found'[r] = found[r]
  /\ at'[r] = at[r] + 1 /\ ReportAt(r, at[r] + 1, found[r])
  /\ OneMore(runs, runs', [inst |-> instance[r], set |-> set[r], by |-> r,
                           result |-> found[r][at[r]].result])
Retries(r) ==
  pc'[r] = pc[r] /\ Keeps(r) /\ known'[r] = known[r] /\ <<r, pc[r]>> \in lost'

LEMMA NextCaseDoes ==
  ASSUME TypeOK, NEW r \in Reporter, NEW results \in Seq(Found), NextCase(r, results),
         pc[r] = "find_case", UNCHANGED <<set, known>>
  PROVE  LooksFor(r, results)
<1>1. found \in [Reporter -> Seq(Found)] /\ at \in [Reporter -> Nat]
  BY DEF TypeOK
<1>2. found'[r] = results
  BY <1>1 DEF NextCase
<1>3. CASE at[r] < Len(Results[r])
  BY <1>1, <1>2, <1>3 DEF NextCase, LooksFor
<1>4. CASE ~ (at[r] < Len(Results[r]))
  BY <1>1, <1>2, <1>4 DEF NextCase, LooksFor
<1>5. QED BY <1>3, <1>4

LEMMA OwnSteps ==
  ASSUME TypeOK, InRange, NEW r \in Reporter, Start(r) \/ Step(r)
  PROVE  \/ Prepares(r) \/ Stops(r) \/ Reads(r) \/ Finds(r) \/ Misses(r)
         \/ Enters(r) \/ Records(r) \/ Retries(r)
<1>0. r \in Process /\ r \notin Uploader /\ pc[r] \in Ended \cup Reporting
  BY QcAssumption DEF Process, TypeOK
<1>1. \A to : Goto(r, to) => pc'[r] = to
  BY <1>0 DEF Goto, TypeOK
<1>2. /\ set \in [Reporter -> Nat] /\ known \in [Reporter -> Nat] /\ at \in [Reporter -> Nat]
      /\ found \in [Reporter -> Seq(Found)] /\ instance \in [Reporter -> Nat]
  BY DEF TypeOK
<1>3. CASE Start(r)
  <2>1. pc[r] = "idle" /\ UNCHANGED <<known, found, at>> /\ pc'[r] \in Before
    BY <1>0, <1>1, <1>3 DEF Start, local, Before
  <2>2. QED BY <2>1 DEF Prepares, Before
<1>4. CASE Reports(r)
  <2>0. Serve(r)
    BY <1>4 DEF Reports
  <2>1. CASE FindTestSet(r) \/ AddTestSet(r)
    <3>1. /\ pc[r] \in {"find_set", "add_set"} /\ UNCHANGED <<known, found, at>>
          /\ pc'[r] \in {"add_set", "get_instances"}
      BY <1>1, <2>1 DEF FindTestSet, AddTestSet
    <3>2. QED BY <3>1 DEF Prepares, Before
  <2>2. CASE GetTestSetInstances(r)
    <3>1. pc[r] = "get_instances" /\ UNCHANGED <<set, found, at, instance>>
      BY <2>2 DEF GetTestSetInstances
    <3>2. CASE set[r] \notin DOMAIN sets
      BY <1>1, <2>2, <3>1, <3>2 DEF GetTestSetInstances, Stops, Keeps
    <3>3. CASE set[r] \in DOMAIN sets /\ Results[r] = <<>>
      BY <1>1, <1>2, <2>2, <3>1, <3>3 DEF GetTestSetInstances, Stops, Keeps
    <3>4. CASE set[r] \in DOMAIN sets /\ Results[r] # <<>>
      BY <1>1, <1>2, <2>2, <3>1, <3>4 DEF GetTestSetInstances, Reads, Keeps
    <3>5. QED BY <3>2, <3>3, <3>4
  <2>3. CASE FindTestCase(r)
    <3>1. pc[r] = "find_case" /\ UNCHANGED <<set, known>>
      BY <2>3 DEF FindTestCase
    <3>2. ASSUME NEW i \in Matching(r), Matching(r) = {i},
                 NextCase(r, Append(found[r], [result |-> at[r], test |-> i]))
          PROVE  Finds(r)
      <4>1. [result |-> at[r], test |-> i] \in Found
        BY <1>2, Sized DEF Matching, Found, Sizes
      <4>2. Append(found[r], [result |-> at[r], test |-> i]) \in Seq(Found)
        BY <1>2, <4>1
      <4>3. QED BY <3>1, <3>2, <4>2, NextCaseDoes DEF Finds
    <3>3. CASE Cardinality(Matching(r)) # 1 /\ NextCase(r, found[r])
      BY <1>2, <3>1, <3>3, NextCaseDoes DEF Misses
    <3>4. CASE Goto(r, "failed") /\ UNCHANGED <<found, at, instance>>
      BY <1>1, <3>1, <3>4 DEF Stops, Keeps
    <3>5. QED BY <2>3, <3>2, <3>3, <3>4 DEF FindTestCase
  <2>4. CASE AddTestToTestSet(r)
    <3>1. /\ pc[r] = "add_instance" /\ UNCHANGED <<set, known, found, at>>
          /\ pc'[r] = "add_run" /\ instance'[r] = Len(instances')
      BY <1>1, <1>2, <2>4 DEF AddTestToTestSet
    <3>2. instances' = Append(instances, [set |-> set[r], test |-> found[r][at[r]].test, by |-> r])
      BY <2>0, <3>1 DEF Serve
    <3>3. [set |-> set[r], test |-> found[r][at[r]].test, by |-> r] \in Instance
      <4>1. found[r][at[r]] \in Found
        BY <1>2, <3>1, Places DEF InRange
      <4>2. QED BY <1>2, <4>1 DEF Instance, Found
    <3>4. QED BY <3>1, <3>2, <3>3, Appends DEF Enters, TypeOK
  <2>5. CASE AddRunToTestSet(r)
    <3>1. /\ pc[r] = "add_run" /\ UNCHANGED <<set, known, found>>
          /\ at'[r] = at[r] + 1 /\ ReportAt(r, at[r] + 1, found[r])
      BY <1>2, <2>5 DEF AddRunToTestSet
    <3>2. runs' = Append(runs, [inst |-> instance[r], set |-> set[r], by |-> r,
                                result |-> found[r][at[r]].result])
      BY <2>0, <3>1 DEF Serve
    <3>3. [inst |-> instance[r], set |-> set[r], by |-> r, result |-> found[r][at[r]].result] \in QcRun
      <4>1. found[r][at[r]] \in Found
        BY <1>2, <3>1, Places DEF InRange
      <4>2. QED BY <1>2, <4>1 DEF QcRun, Found
    <3>4. QED BY <3>1, <3>2, <3>3, Appends DEF Records, TypeOK
  <2>6. QED BY <1>4, <2>1, <2>2, <2>3, <2>4, <2>5 DEF Reports
<1>5. CASE Fails(r)
  <2>1. <<r, pc[r]>> \in lost' /\ UNCHANGED <<set, known>> /\ (Again(r) \/ Raised(r))
    BY <1>5 DEF Fails
  <2>2. CASE Again(r)
    BY <2>1, <2>2 DEF Again, Retries, Keeps
  <2>3. CASE pc[r] = "find_set" /\ Goto(r, "add_set") /\ UNCHANGED <<found, at, instance>>
    BY <1>1, <2>1, <2>3 DEF Prepares, Before
  <2>4. CASE pc[r] = "find_case" /\ NextCase(r, found[r])
    BY <1>2, <2>1, <2>4, NextCaseDoes DEF Misses
  <2>5. CASE Goto(r, "failed") /\ UNCHANGED <<found, at, instance>>
    BY <1>1, <2>1, <2>5 DEF Stops, Keeps
  <2>6. QED BY <2>1, <2>2, <2>3, <2>4, <2>5 DEF Raised
<1>6. QED BY <1>0, <1>3, <1>4, <1>5 DEF Step

\* And where the loop over results goes from a position.
LEMMA ReportsFrom ==
  ASSUME TypeOK, NEW r \in Reporter, NEW k \in Nat, k >= 1, NEW results \in Seq(Found),
         ReportAt(r, k, results)
  PROVE  \/ k > Len(results) /\ pc'[r] = "done"
         \/ /\ k \in 1 .. Len(results) /\ pc'[r] = "add_instance"
            /\ \A i \in 1 .. known[r] :
                 ~ (instances[i].set = set[r] /\ instances[i].test = results[k].test)
         \/ /\ k \in 1 .. Len(results) /\ pc'[r] = "add_run" /\ instance'[r] \in 1 .. known[r]
            /\ instances[instance'[r]].set = set[r]
            /\ instances[instance'[r]].test = results[k].test
<1>0. r \in Process /\ \A to : Goto(r, to) => pc'[r] = to
  BY DEF Goto, TypeOK, Process
<1>1. Len(results) \in Nat /\ instance \in [Reporter -> Nat]
  BY DEF TypeOK
<1>2. CASE k > Len(results) /\ Goto(r, "done")
  BY <1>0, <1>2
<1>3. CASE ~ (k > Len(results)) /\ Already(r, results[k].test) = {} /\ Goto(r, "add_instance")
  BY <1>0, <1>1, <1>3 DEF Already
<1>4. CASE /\ ~ (k > Len(results)) /\ Goto(r, "add_run")
           /\ \E i \in Already(r, results[k].test) : instance' = [instance EXCEPT ![r] = i]
  BY <1>0, <1>1, <1>4 DEF Already
<1>5. QED BY <1>2, <1>3, <1>4, ReportsAt

-----------------------------------------------------------------------------
(* What is so of a reporter at all times.  Its results are those it has looked *)
(* up, in order, each with a test of its id.  *)

LookedUp(r) ==
  /\ pc[r] \in Before => found[r] = <<>> /\ at[r] = 1
  /\ pc[r] = "find_case" =>
       /\ at[r] \in 1 .. Len(Results[r])
       /\ \A m \in 1 .. Len(found[r]) : found[r][m].result < at[r]
  /\ Adding(r) => at[r] \in 1 .. Len(found[r])
  /\ \A m \in 1 .. Len(found[r]) :
       /\ found[r][m].result \in 1 .. Len(Results[r]) /\ found[r][m].test \in DOMAIN tests
       /\ tests[found[r][m].test].tc = Results[r][found[r][m].result]
  /\ \A m, n \in 1 .. Len(found[r]) : m < n => found[r][m].result < found[r][n].result

\* It has added nothing before it has looked up everything.
Silent(r) ==
  pc[r] \in Before \cup {"find_case"} =>
    /\ \A i \in DOMAIN instances : instances[i].by # r
    /\ \A i \in DOMAIN runs : runs[i].by # r

\* Instances it does not know of are its own or from reporters that run at the
\* same time, and a test it is about to add is in none that it knows of.
Unknown(r) ==
  /\ known[r] \in 0 .. Len(instances)
  /\ pc[r] = "find_case" \/ Adding(r) =>
       \A i \in DOMAIN instances :
         i > known[r] => instances[i].by = r \/ Together(instances[i].by, r)
  /\ pc[r] = "add_instance" =>
       \A i \in 1 .. known[r] :
         ~ (instances[i].set = set[r] /\ instances[i].test = found[r][at[r]].test)

\* What it has added is of results it has been at.
AddedBy(r) ==
  /\ Adding(r) /\ ~ Lost(r, "add_instance") =>
       \A i \in DOMAIN instances : instances[i].by = r =>
         \E m \in 1 .. at[r] :
           instances[i].test = found[r][m].test /\ (pc[r] = "add_instance" => m # at[r])
  /\ Adding(r) /\ ~ Lost(r, "add_run") =>
       \A i \in DOMAIN runs : runs[i].by = r =>
         \E m \in 1 .. at[r] : runs[i].result = found[r][m].result /\ m # at[r]

\* A run is about to go into an instance of the test of its result.
Fits(r) ==
  pc[r] = "add_run" =>
    /\ instance[r] \in DOMAIN instances
    /\ instances[instance[r]].set = set[r]
    /\ instances[instance[r]].test = found[r][at[r]].test

\* No result is passed over without a reason.
Unique(tc) ==
  \E i \in DOMAIN tests : tests[i].tc = tc /\ \A k \in DOMAIN tests : tests[k].tc = tc => k = i
Excuse(r, n) ==
  \/ Lost(r, "find_case")
  \/ ~ Unique(Results[r][n])
  \/ \E u \in Uploader : Together(u, r) /\ Upload[u].tc = Results[r][n]
Covered(r, n) == (\E m \in 1 .. Len(found[r]) : found[r][m].result = n) \/ Excuse(r, n)
Complete(r) ==
  /\ pc[r] = "find_case" => \A n \in 1 .. at[r] - 1 : Covered(r, n)
  /\ Adding(r) =>
       /\ \A n \in 1 .. Len(Results[r]) : Covered(r, n)
       /\ \A m \in 1 .. at[r] - 1 : Reported(r, found[r][m].result)

\* Every run has its instance.
Placed ==
  \A i \in DOMAIN runs :
    LET r == runs[i].by IN
      /\ pc[r] \notin Before \cup {"find_case"}
      /\ runs[i].inst \in DOMAIN instances
      /\ runs[i].set = set[r] /\ instances[runs[i].inst].set = set[r]
      /\ instances[runs[i].inst].test \in DOMAIN tests
      /\ tests[instances[runs[i].inst].test].tc = Results[r][runs[i].result]

ReportInv ==
  \A r \in Reporter :
    LookedUp(r) /\ Silent(r) /\ Unknown(r) /\ AddedBy(r) /\ Fits(r) /\ Complete(r)

QcInv ==
  /\ TypeOK /\ Met /\ UploadInv /\ SetInv
  /\ ReportInv /\ OneInstance /\ Placed /\ RunsBelong

LEMMA Ranged == ReportInv /\ TypeOK => InRange
  BY Sized DEF ReportInv, LookedUp, InRange, Sizes, Adding

\* A step of another process takes nothing of that away.
LEMMA OthersKept ==
  ASSUME QcInv, NEW p \in Process, Start(p) \/ Step(p), NEW r \in Reporter, r # p
  PROVE  (LookedUp(r) /\ Silent(r) /\ Unknown(r) /\ AddedBy(r) /\ Fits(r))'
<1>0. /\ TypeOK /\ Met /\ InRange
      /\ LookedUp(r) /\ Silent(r) /\ Unknown(r) /\ AddedBy(r) /\ Fits(r)
  BY Ranged DEF QcInv, ReportInv
<1>1. /\ TestsGrow(p) /\ InstancesGrow(p) /\ RunsGrow(p)
      /\ overlap \subseteq overlap' /\ lost \subseteq lost'
  BY <1>0, StepAdds DEF Grow
<1>2. /\ pc'[r] = pc[r] /\ set'[r] = set[r] /\ known'[r] = known[r]
      /\ found'[r] = found[r] /\ at'[r] = at[r] /\ instance'[r] = instance[r]
  BY <1>0, StepAdds DEF Others, Process
<1>3. known[r] \in Nat /\ at[r] \in Nat
  BY <1>0 DEF TypeOK
<1>4. LookedUp(r)'
  BY <1>0, <1>1, <1>2 DEF LookedUp, TestsGrow, Adding
<1>5. Silent(r)'
  BY <1>0, <1>1, <1>2 DEF Silent, InstancesGrow, RunsGrow
<1>6. Unknown(r)'
  <2>1. known'[r] \in 0 .. Len(instances')
    <3>1. \A i \in 1 .. Len(instances) : i \in 1 .. Len(instances')
      BY <1>1 DEF InstancesGrow
    <3>2. Len(instances) <= Len(instances') /\ Len(instances) \in Nat /\ Len(instances') \in Nat
      <4>1. Len(instances) \in Nat /\ Len(instances') \in Nat
        BY <1>1 DEF InstancesGrow
      <4>2. QED BY <3>1, <4>1
    <3>3. QED BY <1>0, <1>2, <1>3, <3>2 DEF Unknown
  <2>2. ASSUME pc[r] = "find_case" \/ Adding(r), NEW i \in DOMAIN instances', i > known[r]
        PROVE  instances'[i].by = r \/ {instances'[i].by, r} \in overlap'
    <3>1. CASE i \in DOMAIN instances
      BY <1>0, <1>1, <2>2, <3>1 DEF Unknown, InstancesGrow, Together
    <3>2. CASE i \notin DOMAIN instances
      <4>1. pc[p] = "add_instance" /\ instances'[i].by = p
        BY <1>1, <2>2, <3>2 DEF InstancesGrow
      <4>2. Active(p) /\ Active(r) /\ r \in Process
        BY <2>2, <4>1 DEF Active, Ended, Adding, Process
      <4>3. QED BY <1>0, <1>1, <4>1, <4>2 DEF Met, Together
    <3>3. QED BY <3>1, <3>2
  <2>3. ASSUME pc[r] = "add_instance", NEW i \in 1 .. known[r]
        PROVE  ~ (instances'[i].set = set[r] /\ instances'[i].test = found[r][at[r]].test)
    <3>1. i \in DOMAIN instances
      BY <1>0, <1>1, <1>3 DEF Unknown, InstancesGrow
    <3>2. instances'[i] = instances[i]
      BY <1>1, <3>1 DEF InstancesGrow
    <3>3. QED BY <1>0, <2>3, <3>2 DEF Unknown
  <2>4. QED BY <1>2, <2>1, <2>2, <2>3 DEF Unknown, Adding, Together
<1>7. AddedBy(r)'
  <2>1. \A i \in DOMAIN instances' : instances'[i].by = r =>
          i \in DOMAIN instances /\ instances'[i] = instances[i]
    BY <1>1 DEF InstancesGrow
  <2>2. \A i \in DOMAIN runs' : runs'[i].by = r => i \in DOMAIN runs /\ runs'[i] = runs[i]
    BY <1>1 DEF RunsGrow
  <2>3. QED BY <1>0, <1>1, <1>2, <2>1, <2>2 DEF AddedBy, Adding, Lost
<1>8. Fits(r)'
  BY <1>0, <1>1, <1>2 DEF Fits, InstancesGrow
<1>9. QED BY <1>4, <1>5, <1>6, <1>7, <1>8

\* What LooksFor makes of a reporter, once the results are shown to be in order.
LEMMA LooksForKept ==
  ASSUME QcInv, NEW r \in Reporter, Start(r) \/ Step(r), NEW results \in Seq(Found),
         LooksFor(r, results),
         \A m \in 1 .. Len(results) :
           /\ results[m].result \in 1 .. Len(Results[r]) /\ results[m].test \in DOMAIN tests
           /\ tests[results[m].test].tc = Results[r][results[m].result]
           /\ results[m].result <= at[r],
         \A m, n \in 1 .. Len(results) : m < n => results[m].result < results[n].result
  PROVE  (LookedUp(r) /\ Silent(r) /\ Unknown(r) /\ AddedBy(r) /\ Fits(r))'
<1>0. /\ TypeOK /\ InRange /\ LookedUp(r) /\ Silent(r) /\ Unknown(r)
      /\ r \in Process /\ r \notin Uploader
  BY Ranged, QcAssumption DEF QcInv, ReportInv, Process
<1>1. /\ TestsGrow(r) /\ InstancesGrow(r) /\ RunsGrow(r) /\ TypeOK'
      /\ overlap \subseteq overlap' /\ lost \subseteq lost'
  BY <1>0, StepAdds DEF Grow
<1>2. /\ pc[r] = "find_case" /\ set'[r] = set[r] /\ known'[r] = known[r] /\ found'[r] = results
      /\ Len(results) \in Nat /\ at[r] \in Nat /\ Len(Results[r]) \in Nat
  BY <1>0, QcAssumption DEF LooksFor, TypeOK
<1>3. /\ DOMAIN instances' = DOMAIN instances /\ DOMAIN runs' = DOMAIN runs
      /\ \A i \in DOMAIN instances : instances'[i] = instances[i]
      /\ \A i \in DOMAIN runs : runs'[i] = runs[i]
      /\ Len(instances') = Len(instances)
  <2>1. DOMAIN instances' = DOMAIN instances /\ DOMAIN runs' = DOMAIN runs
    BY <1>1, <1>2 DEF InstancesGrow, RunsGrow
  <2>2. Len(instances') = Len(instances)
    <3>1. \A m, n \in Nat : 1 .. m = 1 .. n => m = n
      <4> SUFFICES ASSUME NEW m \in Nat, NEW n \in Nat, 1 .. m = 1 .. n PROVE m = n
        OBVIOUS
      <4>1. m \in 1 .. n \/ m = 0
        OBVIOUS
      <4>2. n \in 1 .. m \/ n = 0
        OBVIOUS
      <4>3. QED BY <4>1, <4>2
    <3>2. QED BY <1>1, <2>1, <3>1 DEF InstancesGrow
  <2>3. QED BY <1>1, <2>1, <2>2 DEF InstancesGrow, RunsGrow
<1>4. \A i \in DOMAIN instances' : instances'[i].by # r
  BY <1>0, <1>2, <1>3 DEF Silent
<1>5. \A i \in DOMAIN runs' : runs'[i].by # r
  BY <1>0, <1>2, <1>3 DEF Silent
\* The results, and where the reporter goes.
<1>6. \A m \in 1 .. Len(found'[r]) :
        /\ found'[r][m].result \in 1 .. Len(Results[r]) /\ found'[r][m].test \in DOMAIN tests'
        /\ tests'[found'[r][m].test].tc = Results[r][found'[r][m].result]
  BY <1>1, <1>2 DEF TestsGrow
<1>7. \A m, n \in 1 .. Len(found'[r]) : m < n => found'[r][m].result < found'[r][n].result
  BY <1>2
<1>8. \/ /\ at[r] < Len(Results[r]) /\ pc'[r] = "find_case" /\ at'[r] = at[r] + 1
      \/ pc'[r] = "done"
      \/ /\ at'[r] = 1 /\ 1 \in 1 .. Len(results) /\ pc'[r] = "add_instance"
         /\ \A i \in 1 .. known[r] :
              ~ (instances[i].set = set[r] /\ instances[i].test = results[1].test)
      \/ /\ at'[r] = 1 /\ 1 \in 1 .. Len(results) /\ pc'[r] = "add_run"
         /\ instance'[r] \in 1 .. known[r]
         /\ instances[instance'[r]].set = set[r] /\ instances[instance'[r]].test = results[1].test
  BY <1>0, ReportsFrom DEF LooksFor
<1>9. LookedUp(r)'
  <2>1. pc'[r] \notin Before
    BY <1>8 DEF Before
  <2>2. ASSUME pc'[r] = "find_case"
        PROVE  /\ at'[r] \in 1 .. Len(Results[r])
               /\ \A m \in 1 .. Len(found'[r]) : found'[r][m].result < at'[r]
    <3>1. at[r] < Len(Results[r]) /\ at'[r] = at[r] + 1
      BY <1>8, <2>2
    <3>2. QED BY <1>2, <1>6, <3>1
  <2>3. Adding(r)' => at'[r] \in 1 .. Len(found'[r])
    BY <1>2, <1>8 DEF Adding
  <2>4. QED BY <1>6, <1>7, <2>1, <2>2, <2>3 DEF LookedUp
<1>10. Silent(r)'
  BY <1>4, <1>5 DEF Silent
<1>11. Unknown(r)'
  <2>1. known'[r] \in 0 .. Len(instances')
    BY <1>0, <1>2, <1>3 DEF Unknown
  <2>2. \A i \in DOMAIN instances' :
          i > known'[r] => instances'[i].by = r \/ {instances'[i].by, r} \in overlap'
    BY <1>0, <1>1, <1>2, <1>3 DEF Unknown, Together
  <2>3. ASSUME pc'[r] = "add_instance", NEW i \in 1 .. known'[r]
        PROVE  ~ (instances'[i].set = set'[r] /\ instances'[i].test = found'[r][at'[r]].test)
    <3>1. i \in DOMAIN instances
      BY <1>0, <1>1, <1>2, <1>3, <2>1 DEF Unknown, InstancesGrow
    <3>2. QED BY <1>2, <1>3, <1>8, <2>3, <3>1
  <2>4. QED BY <2>1, <2>2, <2>3 DEF Unknown, Together
<1>12. AddedBy(r)'
  BY <1>4, <1>5 DEF AddedBy
<1>13. Fits(r)'
  <2> SUFFICES ASSUME pc'[r] = "add_run"
               PROVE  /\ instance'[r] \in DOMAIN instances'
                      /\ instances'[instance'[r]].set = set'[r]
                      /\ instances'[instance'[r]].test = found'[r][at'[r]].test
    BY DEF Fits
  <2>1. /\ at'[r] = 1 /\ instance'[r] \in 1 .. known[r]
        /\ instances[instance'[r]].set = set[r] /\ instances[instance'[r]].test = results[1].test
    BY <1>8
  <2>2. instance'[r] \in DOMAIN instances
    BY <1>0, <1>1, <2>1 DEF Unknown, InstancesGrow
  <2>3. QED BY <1>2, <1>3, <2>1, <2>2
<1>14. QED BY <1>9, <1>10, <1>11, <1>12, <1>13

\* The look-up of a case adds it to the results, or not.
LEMMA FindsInOrder ==
  ASSUME TypeOK, NEW r \in Reporter, LookedUp(r), pc[r] = "find_case", NEW i \in Matching(r)
  PROVE  \E results \in Seq(Found) :
         /\ results = Append(found[r], [result |-> at[r], test |-> i])
         /\ Len(results) = Len(found[r]) + 1 /\ results[Len(results)].result = at[r]
         /\ \A m \in 1 .. Len(found[r]) : results[m] = found[r][m]
         /\ \A m \in 1 .. Len(results) :
              /\ results[m].result \in 1 .. Len(Results[r]) /\ results[m].test \in DOMAIN tests
              /\ tests[results[m].test].tc = Results[r][results[m].result]
              /\ results[m].result <= at[r]
         /\ \A m, n \in 1 .. Len(results) : m < n => results[m].result < results[n].result
<1> DEFINE results == Append(found[r], [result |-> at[r], test |-> i])
<1> DEFINE e == [result |-> at[r], test |-> i]
<1>1. /\ found[r] \in Seq(Found) /\ Len(found[r]) \in Nat /\ at[r] \in Nat
      /\ i \in Nat /\ i \in DOMAIN tests /\ tests[i].tc = Results[r][at[r]]
      /\ Len(Results[r]) \in Nat
  <2>1. i \in DOMAIN tests /\ tests[i].tc = Results[r][at[r]]
    BY DEF Matching
  <2>2. i \in Nat
    BY <2>1, Sized DEF Sizes
  <2>3. found[r] \in Seq(Found) /\ at[r] \in Nat
    BY DEF TypeOK
  <2>4. Results[r] \in Seq(Tc \cup {NoId})
    BY QcAssumption
  <2>5. QED BY <2>1, <2>2, <2>3, <2>4
<1>2. e \in Found /\ e.result = at[r] /\ e.test = i
  BY <1>1 DEF Found
<1>3. results \in Seq(Found) /\ OneMore(found[r], results, e)
  BY <1>1, <1>2, Appends
<1>a. results = Append(found[r], [result |-> at[r], test |-> i])
  OBVIOUS
<1> HIDE DEF e, results
<1>4. /\ Len(results) = Len(found[r]) + 1 /\ results[Len(found[r]) + 1] = e
      /\ \A m \in 1 .. Len(found[r]) : results[m] = found[r][m]
  BY <1>3 DEF OneMore
<1>5. \A m \in 1 .. Len(results) : m \in 1 .. Len(found[r]) \/ m = Len(found[r]) + 1
  BY <1>1, <1>4
<1>6. ASSUME NEW m \in 1 .. Len(found[r])
      PROVE  /\ found[r][m].result \in 1 .. Len(Results[r]) /\ found[r][m].test \in DOMAIN tests
             /\ tests[found[r][m].test].tc = Results[r][found[r][m].result]
             /\ found[r][m].result < at[r]
  BY DEF LookedUp
<1>7. ASSUME NEW m \in 1 .. Len(results)
      PROVE  /\ results[m].result \in 1 .. Len(Results[r]) /\ results[m].test \in DOMAIN tests
             /\ tests[results[m].test].tc = Results[r][results[m].result]
             /\ results[m].result <= at[r]
  <2>1. CASE m \in 1 .. Len(found[r])
    <3>1. results[m] = found[r][m]
      BY <1>4, <2>1
    <3>2. /\ found[r][m].result \in 1 .. Len(Results[r]) /\ found[r][m].test \in DOMAIN tests
          /\ tests[found[r][m].test].tc = Results[r][found[r][m].result]
          /\ found[r][m].result < at[r]
      BY <1>6, <2>1
    <3>3. found[r][m].result <= at[r]
      BY <1>1, <3>2
    <3>4. QED BY <3>1, <3>2, <3>3
  <2>2. CASE m = Len(found[r]) + 1
    <3>1. results[m] = e
      BY <1>4, <2>2
    <3>2. at[r] \in 1 .. Len(Results[r]) /\ at[r] <= at[r]
      BY <1>1 DEF LookedUp
    <3>3. QED BY <1>1, <1>2, <3>1, <3>2
  <2>3. QED BY <1>5, <2>1, <2>2
<1>8. ASSUME NEW m \in 1 .. Len(results), NEW n \in 1 .. Len(results), m < n
      PROVE  results[m].result < results[n].result
  <2>1. m \in 1 .. Len(found[r])
    BY <1>1, <1>4, <1>8
  <2>2. CASE n \in 1 .. Len(found[r])
    BY <1>4, <1>8, <2>1, <2>2 DEF LookedUp
  <2>3. CASE n = Len(found[r]) + 1
    BY <1>2, <1>4, <1>6, <2>1, <2>3
  <2>4. QED BY <1>5, <2>2, <2>3
<1>9. results[Len(results)].result = at[r]
  BY <1>2, <1>4
<1>10. QED BY <1>3, <1>a, <1>4, <1>7, <1>8, <1>9

LEMMA OwnKept ==
  ASSUME QcInv, NEW r \in Reporter, Start(r) \/ Step(r)
  PROVE  (LookedUp(r) /\ Silent(r) /\ Unknown(r) /\ AddedBy(r) /\ Fits(r))'
<1>0. /\ TypeOK /\ InRange /\ LookedUp(r) /\ Silent(r) /\ Unknown(r) /\ AddedBy(r) /\ Fits(r)
      /\ r \in Process /\ r \notin Uploader
  BY Ranged, QcAssumption DEF QcInv, ReportInv, Process
<1>1. /\ TestsGrow(r) /\ InstancesGrow(r) /\ RunsGrow(r)
      /\ overlap \subseteq overlap' /\ lost \subseteq lost'
  BY <1>0, StepAdds DEF Grow
<1>2. /\ known[r] \in Nat /\ at[r] \in Nat /\ found[r] \in Seq(Found) /\ Len(found[r]) \in Nat
      /\ Len(Results[r]) \in Nat /\ Len(instances) \in Nat /\ Len(instances') \in Nat
  <2>1. known[r] \in Nat /\ at[r] \in Nat /\ found[r] \in Seq(Found)
    BY <1>0 DEF TypeOK
  <2>2. Results[r] \in Seq(Tc \cup {NoId})
    BY QcAssumption
  <2>3. QED BY <1>1, <2>1, <2>2 DEF InstancesGrow
<1>3. Len(instances) <= Len(instances')
  <2>1. \A i \in 1 .. Len(instances) : i \in 1 .. Len(instances')
    BY <1>1 DEF InstancesGrow
  <2>2. QED BY <1>2, <2>1
<1>4. CASE Finds(r)
  <2>1. PICK i \in Matching(r) : LooksFor(r, Append(found[r], [result |-> at[r], test |-> i]))
    BY <1>4 DEF Finds
  <2>2. pc[r] = "find_case"
    BY <2>1 DEF LooksFor
  <2>3. PICK results \in Seq(Found) :
          /\ results = Append(found[r], [result |-> at[r], test |-> i])
          /\ \A m \in 1 .. Len(results) :
               /\ results[m].result \in 1 .. Len(Results[r]) /\ results[m].test \in DOMAIN tests
               /\ tests[results[m].test].tc = Results[r][results[m].result]
               /\ results[m].result <= at[r]
          /\ \A m, n \in 1 .. Len(results) : m < n => results[m].result < results[n].result
    BY <1>0, <2>2, FindsInOrder
  <2>4. LooksFor(r, results)
    BY <2>1, <2>3
  <2>5. QED BY <2>3, <2>4, LooksForKept
<1>5. CASE Misses(r)
  <2>1. LooksFor(r, found[r]) /\ pc[r] = "find_case"
    BY <1>5 DEF Misses, LooksFor
  <2>2. \A m \in 1 .. Len(found[r]) : found[r][m] \in Found
    BY <1>2
  <2>3. \A m \in 1 .. Len(found[r]) : found[r][m].result <= at[r]
    BY <1>0, <1>2, <2>1, <2>2 DEF LookedUp, Found
  <2>4. /\ \A m \in 1 .. Len(found[r]) :
             /\ found[r][m].result \in 1 .. Len(Results[r]) /\ found[r][m].test \in DOMAIN tests
             /\ tests[found[r][m].test].tc = Results[r][found[r][m].result]
             /\ found[r][m].result <= at[r]
        /\ \A m, n \in 1 .. Len(found[r]) : m < n => found[r][m].result < found[r][n].result
    BY <1>0, <2>3 DEF LookedUp
  <2>5. QED BY <1>2, <2>1, <2>4, LooksForKept
<1>6. CASE Prepares(r) \/ Stops(r) \/ Reads(r)
  <2>1. /\ found'[r] = found[r] /\ at'[r] = at[r]
        /\ known'[r] = known[r] \/ known'[r] = Len(instances)
        /\ ~ Adding(r)'
    BY <1>6 DEF Prepares, Stops, Reads, Keeps, Adding, Before
  <2>2. \/ pc[r] \in Before /\ pc'[r] \in Before
        \/ pc'[r] \in {"done", "failed"}
        \/ /\ pc[r] = "get_instances" /\ pc'[r] = "find_case"
           /\ known'[r] = Len(instances) /\ Results[r] # <<>>
    BY <1>6 DEF Prepares, Stops, Reads
  <2>3. pc[r] \in Before \/ pc'[r] \in {"done", "failed"}
    BY <2>2 DEF Before
  <2>4. LookedUp(r)'
    <3>1. pc'[r] \in Before => found'[r] = <<>> /\ at'[r] = 1
      BY <1>0, <2>1, <2>2 DEF LookedUp, Before
    <3>2. pc'[r] = "find_case" =>
            /\ at'[r] \in 1 .. Len(Results[r])
            /\ \A m \in 1 .. Len(found'[r]) : found'[r][m].result < at'[r]
      <4> SUFFICES ASSUME pc'[r] = "find_case"
                   PROVE  /\ at'[r] \in 1 .. Len(Results[r])
                          /\ \A m \in 1 .. Len(found'[r]) : found'[r][m].result < at'[r]
        OBVIOUS
      <4>1. pc[r] \in Before /\ Results[r] # <<>>
        BY <2>2 DEF Before
      <4>2. found'[r] = <<>> /\ at'[r] = 1
        BY <1>0, <2>1, <4>1 DEF LookedUp
      <4>3. Len(Results[r]) >= 1
        <5>1. Results[r] \in Seq(Tc \cup {NoId})
          BY QcAssumption
        <5>2. QED BY <4>1, <5>1
      <4>4. QED BY <1>2, <4>2, <4>3
    <3>3. QED BY <1>0, <1>1, <2>1, <3>1, <3>2 DEF LookedUp, TestsGrow
  <2>5. Silent(r)'
    <3>1. CASE pc'[r] \in {"done", "failed"}
      BY <3>1 DEF Silent, Before
    <3>2. CASE pc[r] \in Before
      BY <1>0, <1>1, <3>2 DEF Silent, InstancesGrow, RunsGrow, Before
    <3>3. QED BY <2>3, <3>1, <3>2
  <2>6. Unknown(r)'
    <3>1. known'[r] \in 0 .. Len(instances')
      BY <1>0, <1>2, <1>3, <2>1 DEF Unknown
    <3>2. ASSUME pc'[r] = "find_case", NEW i \in DOMAIN instances', i > known'[r] PROVE FALSE
      <4>1. pc[r] = "get_instances" /\ known'[r] = Len(instances)
        BY <2>2, <3>2 DEF Before
      <4>2. i \in DOMAIN instances
        BY <1>1, <3>2, <4>1 DEF InstancesGrow
      <4>3. QED BY <1>1, <1>2, <3>2, <4>1, <4>2 DEF InstancesGrow
    <3>3. QED BY <2>1, <3>1, <3>2 DEF Unknown, Adding
  <2>7. QED BY <2>1, <2>4, <2>5, <2>6 DEF AddedBy, Fits, Adding
<1>7. CASE Enters(r) \/ Records(r) \/ (Retries(r) /\ Adding(r))
  <2>1. /\ Adding(r) /\ set'[r] = set[r] /\ known'[r] = known[r] /\ found'[r] = found[r]
        /\ at[r] \in 1 .. Len(found[r])
    BY <1>0, <1>7 DEF Enters, Records, Retries, Keeps, Adding, LookedUp
  <2>2. \/ pc[r] = "add_instance" /\ pc'[r] = "add_run" /\ at'[r] = at[r]
        \/ pc[r] = "add_run" /\ at'[r] = at[r] + 1 /\ ReportAt(r, at[r] + 1, found[r])
        \/ pc'[r] = pc[r] /\ at'[r] = at[r] /\ instance'[r] = instance[r] /\ <<r, pc[r]>> \in lost'
    BY <1>7 DEF Enters, Records, Retries, Keeps
  <2>3. \/ pc[r] = "add_instance" /\ pc'[r] = "add_run" /\ at'[r] = at[r]
        \/ pc[r] = "add_run" /\ pc'[r] = "done"
        \/ /\ pc[r] = "add_run" /\ at'[r] = at[r] + 1 /\ at[r] + 1 \in 1 .. Len(found[r])
           /\ pc'[r] = "add_instance"
           /\ \A i \in 1 .. known[r] :
                ~ (instances[i].set = set[r] /\ instances[i].test = found[r][at[r] + 1].test)
        \/ /\ pc[r] = "add_run" /\ at'[r] = at[r] + 1 /\ at[r] + 1 \in 1 .. Len(found[r])
           /\ pc'[r] = "add_run"
           /\ instance'[r] \in 1 .. known[r]
           /\ instances[instance'[r]].set = set[r]
           /\ instances[instance'[r]].test = found[r][at[r] + 1].test
        \/ pc'[r] = pc[r] /\ at'[r] = at[r] /\ instance'[r] = instance[r] /\ <<r, pc[r]>> \in lost'
    <3>1. at[r] + 1 \in Nat /\ at[r] + 1 >= 1
      BY <1>2
    <3>2. QED BY <1>0, <1>2, <2>2, <3>1, ReportsFrom
  <2>4. LookedUp(r)'
    <3>1. pc'[r] \notin Before /\ pc'[r] # "find_case"
      BY <2>1, <2>3 DEF Adding, Before
    <3>2. Adding(r)' => at'[r] \in 1 .. Len(found'[r])
      BY <2>1, <2>3 DEF Adding
    <3>3. QED BY <1>0, <1>1, <2>1, <3>1, <3>2 DEF LookedUp, TestsGrow
  <2>5. Silent(r)'
    BY <2>1, <2>3 DEF Silent, Adding, Before
  <2>6. Unknown(r)'
    <3>1. known'[r] \in 0 .. Len(instances')
      BY <1>0, <1>2, <1>3, <2>1 DEF Unknown
    <3>2. \A i \in DOMAIN instances' :
            i > known'[r] => instances'[i].by = r \/ {instances'[i].by, r} \in overlap'
      <4> SUFFICES ASSUME NEW i \in DOMAIN instances', i > known[r]
                   PROVE  instances'[i].by = r \/ {instances'[i].by, r} \in overlap'
        BY <2>1
      <4>1. CASE i \in DOMAIN instances
        BY <1>0, <1>1, <2>1, <4>1 DEF Unknown, InstancesGrow, Together
      <4>2. CASE i \notin DOMAIN instances
        BY <1>1, <4>2 DEF InstancesGrow
      <4>3. QED BY <4>1, <4>2
    <3>3. ASSUME pc'[r] = "add_instance", NEW i \in 1 .. known'[r]
          PROVE  ~ (instances'[i].set = set'[r] /\ instances'[i].test = found'[r][at'[r]].test)
      <4>1. i \in DOMAIN instances /\ i \in 1 .. known[r]
        BY <1>0, <1>1, <1>2, <2>1 DEF Unknown, InstancesGrow
      <4>2. instances'[i] = instances[i]
        BY <1>1, <4>1 DEF InstancesGrow
      <4>3. ~ (instances[i].set = set[r] /\ instances[i].test = found[r][at'[r]].test)
        BY <1>0, <2>3, <3>3, <4>1 DEF Unknown
      <4>4. QED BY <2>1, <4>2, <4>3
    <3>4. QED BY <3>1, <3>2, <3>3 DEF Unknown, Together
  <2>7. AddedBy(r)'
    <3>1. ASSUME Adding(r)', <<r, "add_instance">> \notin lost', NEW i \in DOMAIN instances',
                 instances'[i].by = r
          PROVE  \E m \in 1 .. at'[r] :
                   instances'[i].test = found'[r][m].test /\ (pc'[r] = "add_instance" => m # at'[r])
      <4>1. at'[r] \in {at[r], at[r] + 1} /\ (pc'[r] = "add_instance" => at'[r] = at[r] + 1)
        BY <2>1, <2>3, <3>1 DEF Adding
      <4>2. CASE i \in DOMAIN instances
        <5>1. instances'[i] = instances[i] /\ <<r, "add_instance">> \notin lost
          BY <1>1, <3>1, <4>2 DEF InstancesGrow
        <5>2. PICK m \in 1 .. at[r] : instances[i].test = found[r][m].test
          BY <1>0, <2>1, <3>1, <4>2, <5>1 DEF AddedBy, Lost
        <5>3. m \in 1 .. at'[r] /\ (at'[r] = at[r] + 1 => m # at'[r])
          BY <1>2, <4>1
        <5>4. QED BY <2>1, <4>1, <5>1, <5>2, <5>3
      <4>3. CASE i \notin DOMAIN instances
        <5>1. pc[r] = "add_instance" /\ instances'[i].test = found[r][at[r]].test
          BY <1>1, <4>3 DEF InstancesGrow
        <5>2. pc'[r] = "add_run" /\ at'[r] = at[r]
          BY <2>3, <3>1, <5>1
        <5>3. at[r] \in 1 .. at[r]
          BY <1>2, <2>1
        <5>4. QED BY <2>1, <5>1, <5>2, <5>3
      <4>4. QED BY <4>2, <4>3
    <3>2. ASSUME Adding(r)', <<r, "add_run">> \notin lost', NEW i \in DOMAIN runs', runs'[i].by = r
          PROVE  \E m \in 1 .. at'[r] : runs'[i].result = found'[r][m].result /\ m # at'[r]
      <4>1. \/ pc[r] = "add_instance" /\ at'[r] = at[r]
            \/ pc[r] = "add_run" /\ at'[r] = at[r] + 1
        BY <2>1, <2>3, <3>2 DEF Adding
      <4>2. CASE i \in DOMAIN runs
        <5>1. runs'[i] = runs[i] /\ <<r, "add_run">> \notin lost
          BY <1>1, <3>2, <4>2 DEF RunsGrow
        <5>2. PICK m \in 1 .. at[r] : runs[i].result = found[r][m].result /\ m # at[r]
          BY <1>0, <2>1, <3>2, <4>2, <5>1 DEF AddedBy, Lost
        <5>3. m \in 1 .. at'[r] /\ m # at'[r]
          BY <1>2, <4>1, <5>2
        <5>4. QED BY <2>1, <5>1, <5>2, <5>3
      <4>3. CASE i \notin DOMAIN runs
        <5>1. pc[r] = "add_run" /\ runs'[i].result = found[r][at[r]].result
          BY <1>1, <4>3 DEF RunsGrow
        <5>2. at'[r] = at[r] + 1 /\ at[r] \in 1 .. at'[r] /\ at[r] # at'[r]
          BY <1>2, <2>1, <4>1, <5>1
        <5>3. QED BY <2>1, <5>1, <5>2
      <4>4. QED BY <4>2, <4>3
    <3>3. QED BY <3>1, <3>2 DEF AddedBy, Lost
  <2>8. Fits(r)'
    <3> SUFFICES ASSUME pc'[r] = "add_run"
                 PROVE  /\ instance'[r] \in DOMAIN instances'
                        /\ instances'[instance'[r]].set = set'[r]
                        /\ instances'[instance'[r]].test = found'[r][at'[r]].test
      BY DEF Fits
    <3>1. CASE Enters(r)
      <4>1. /\ Len(instances') = Len(instances) + 1 /\ instance'[r] = Len(instances) + 1
            /\ instances'[Len(instances) + 1] =
                 [set |-> set[r], test |-> found[r][at[r]].test, by |-> r]
            /\ at'[r] = at[r]
        BY <3>1 DEF Enters, OneMore
      <4>2. instance'[r] \in DOMAIN instances'
        BY <1>1, <1>2, <4>1 DEF InstancesGrow
      <4>3. QED BY <2>1, <4>1, <4>2
    <3>2. CASE Records(r)
      <4>1. /\ at'[r] = at[r] + 1 /\ instance'[r] \in 1 .. known[r]
            /\ instances[instance'[r]].set = set[r]
            /\ instances[instance'[r]].test = found[r][at[r] + 1].test
        <5>1. at[r] + 1 \in Nat /\ at[r] + 1 >= 1
          BY <1>2
        <5>2. QED BY <1>0, <1>2, <3>2, <5>1, ReportsFrom DEF Records
      <4>2. instance'[r] \in DOMAIN instances
        BY <1>0, <1>1, <1>2, <4>1 DEF Unknown, InstancesGrow
      <4>3. QED BY <1>1, <2>1, <4>1, <4>2 DEF InstancesGrow
    <3>3. CASE Retries(r)
      BY <1>0, <1>1, <2>1, <3>3 DEF Retries, Keeps, Fits, InstancesGrow
    <3>4. QED BY <1>7, <3>1, <3>2, <3>3
  <2>9. QED BY <2>4, <2>5, <2>6, <2>7, <2>8
<1>8. CASE Retries(r) /\ ~ Adding(r)
  <2>1. /\ pc'[r] = pc[r] /\ found'[r] = found[r] /\ at'[r] = at[r] /\ known'[r] = known[r]
        /\ pc[r] # "add_instance" /\ pc[r] # "add_run"
    BY <1>8 DEF Retries, Keeps, Adding
  <2>2. LookedUp(r)'
    BY <1>0, <1>1, <2>1 DEF LookedUp, TestsGrow, Adding
  <2>3. Silent(r)'
    BY <1>0, <1>1, <2>1 DEF Silent, InstancesGrow, RunsGrow
  <2>4. Unknown(r)'
    <3>1. known'[r] \in 0 .. Len(instances')
      BY <1>0, <1>2, <1>3, <2>1 DEF Unknown
    <3>2. \A i \in DOMAIN instances' : i \in DOMAIN instances /\ instances'[i] = instances[i]
      BY <1>1, <2>1 DEF InstancesGrow
    <3>3. QED BY <1>0, <1>1, <2>1, <3>1, <3>2 DEF Unknown, Adding, Together
  <2>5. QED BY <2>1, <2>2, <2>3, <2>4 DEF AddedBy, Fits, Adding
<1>9. QED BY <1>0, <1>4, <1>5, <1>6, <1>7, <1>8, OwnSteps

-----------------------------------------------------------------------------
(* Why a result has no run yet. *)

LEMMA OnlyOne ==
  ASSUME TypeOK, NEW tc
  PROVE  Cardinality({i \in DOMAIN tests : tests[i].tc = tc}) = 1 <=> Unique(tc)
<1> DEFINE S == {i \in DOMAIN tests : tests[i].tc = tc}
<1>1. IsFiniteSet(S)
  <2>1. Len(tests) \in Nat /\ DOMAIN tests = 1 .. Len(tests)
    BY Sized DEF Sizes
  <2>2. 1 \in Int /\ Len(tests) \in Int
    BY <2>1
  <2>3. IsFiniteSet(1 .. Len(tests))
    BY <2>2, FS_Interval
  <2>4. S \subseteq 1 .. Len(tests)
    BY <2>1
  <2>5. QED BY <2>3, <2>4, FS_Subset
<1>2. Cardinality(S) = 1 <=> \E x : S = {x}
  BY <1>1, FS_Singleton
<1>3. ASSUME NEW x, S = {x} PROVE Unique(tc)
  <2>1. x \in S /\ \A k \in S : k = x
    BY <1>3
  <2>2. QED BY <2>1 DEF Unique
<1>4. ASSUME Unique(tc) PROVE \E x : S = {x}
  <2>1. PICK i \in DOMAIN tests :
          tests[i].tc = tc /\ \A k \in DOMAIN tests : tests[k].tc = tc => k = i
    BY <1>4 DEF Unique
  <2>2. S = {i}
    BY <2>1
  <2>3. QED BY <2>2
<1>5. QED BY <1>2, <1>3, <1>4

LEMMA ExcuseStays ==
  ASSUME QcInv, NEW p \in Process, Start(p) \/ Step(p), NEW r \in Reporter, Active(r), NEW n,
         Excuse(r, n)
  PROVE  Excuse(r, n)'
<1>0. /\ TypeOK /\ Met /\ InRange /\ r \in Process
  BY Ranged DEF QcInv, Process
<1>1. TestsGrow(p) /\ overlap \subseteq overlap' /\ lost \subseteq lost'
  BY <1>0, StepAdds DEF Grow
<1>2. CASE Lost(r, "find_case")
  BY <1>1, <1>2 DEF Excuse, Lost
<1>3. CASE \E u \in Uploader : Together(u, r) /\ Upload[u].tc = Results[r][n]
  BY <1>1, <1>3 DEF Excuse, Together
<1>4. CASE ~ Unique(Results[r][n])
  <2> SUFFICES ASSUME NEW i \in DOMAIN tests', tests'[i].tc = Results[r][n],
                      \A k \in DOMAIN tests' : tests'[k].tc = Results[r][n] => k = i
               PROVE  \E u \in Uploader : {u, r} \in overlap' /\ Upload[u].tc = Results[r][n]
    BY DEF Excuse, Unique, Together
  <2>1. CASE i \in DOMAIN tests
    BY <1>1, <1>4, <2>1 DEF Unique, TestsGrow
  <2>2. CASE i \notin DOMAIN tests
    <3>1. p \in Uploader /\ pc[p] = "add_test" /\ Upload[p].tc = Results[r][n]
      BY <1>1, <2>2 DEF TestsGrow
    <3>2. Active(p) /\ p # r
      BY <3>1, QcAssumption DEF Active, Ended
    <3>3. {p, r} \in overlap'
      BY <1>0, <1>1, <3>2 DEF Met, Together
    <3>4. QED BY <3>1, <3>3
  <2>3. QED BY <2>1, <2>2
<1>5. QED BY <1>2, <1>3, <1>4 DEF Excuse

\* A case that was looked up without success is excused.
LEMMA MissExcused ==
  ASSUME TypeOK, NEW r \in Reporter, Misses(r), UNCHANGED tests, NEW n, n = at[r]
  PROVE  Excuse(r, n)'
<1>1. CASE <<r, "find_case">> \in lost'
  BY <1>1 DEF Excuse, Lost
<1>2. CASE Cardinality(Matching(r)) # 1
  <2>1. ~ Unique(Results[r][n])
    BY <1>2, OnlyOne DEF Matching
  <2>2. QED BY <2>1 DEF Excuse, Unique
<1>3. QED BY <1>1, <1>2 DEF Misses

LEMMA CompleteStays ==
  ASSUME QcInv, NEW p \in Process, Start(p) \/ Step(p), NEW r \in Reporter, r # p
  PROVE  Complete(r)'
<1>0. TypeOK /\ InRange /\ Complete(r)
  BY Ranged DEF QcInv, ReportInv
<1>1. pc'[r] = pc[r] /\ found'[r] = found[r] /\ at'[r] = at[r] /\ RunsGrow(p)
  BY <1>0, StepAdds DEF Others, Process, Grow
<1>2. \A n : Active(r) /\ Covered(r, n) => Covered(r, n)'
  BY <1>1, ExcuseStays DEF Covered
<1>3. \A n : Reported(r, n) => Reported(r, n)'
  BY <1>1 DEF Reported, RunsGrow
<1>4. pc[r] = "find_case" \/ Adding(r) => Active(r)
  BY DEF Adding, Active, Ended
<1>5. QED BY <1>0, <1>1, <1>2, <1>3, <1>4 DEF Complete, Adding

LEMMA CompleteStep ==
  ASSUME QcInv, NEW r \in Reporter, Start(r) \/ Step(r)
  PROVE  Complete(r)'
<1>0. /\ TypeOK /\ InRange /\ LookedUp(r) /\ Complete(r)
      /\ r \in Process /\ r \notin Uploader
  BY Ranged, QcAssumption DEF QcInv, ReportInv, Process
<1>1. TestsGrow(r) /\ RunsGrow(r) /\ TypeOK'
  BY <1>0, StepAdds DEF Grow
<1>2. /\ at[r] \in Nat /\ found[r] \in Seq(Found) /\ Len(found[r]) \in Nat
      /\ Len(Results[r]) \in Nat
  <2>1. at[r] \in Nat /\ found[r] \in Seq(Found)
    BY <1>0 DEF TypeOK
  <2>2. Results[r] \in Seq(Tc \cup {NoId})
    BY QcAssumption
  <2>3. QED BY <2>1, <2>2
<1>3. \A n : Active(r) /\ Excuse(r, n) => Excuse(r, n)'
  BY <1>0, ExcuseStays
<1>4. \A n : Reported(r, n) => Reported(r, n)'
  BY <1>1 DEF Reported, RunsGrow
<1>5. pc[r] = "find_case" \/ Adding(r) => Active(r)
  BY DEF Adding, Active, Ended
\* Looking up.
<1>6. ASSUME NEW results \in Seq(Found), LooksFor(r, results),
             NEW k, k = at[r], Covered(r, k)',
             \A m \in 1 .. Len(found[r]) : m \in 1 .. Len(results) /\ results[m] = found[r][m]
      PROVE  Complete(r)'
  <2>1. pc[r] = "find_case" /\ found'[r] = results /\ at[r] \in 1 .. Len(Results[r])
    BY <1>0, <1>6 DEF LooksFor, LookedUp
  <2>2. \A n \in 1 .. at[r] - 1 : Covered(r, n)'
    <3>1. \A n \in 1 .. at[r] - 1 : Covered(r, n)
      BY <1>0, <2>1 DEF Complete
    <3>2. QED BY <1>3, <1>5, <1>6, <2>1, <3>1 DEF Covered
  <2>3. \A n \in 1 .. at[r] : Covered(r, n)'
    <3>1. \A n \in 1 .. at[r] : n \in 1 .. at[r] - 1 \/ n = at[r]
      BY <1>2
    <3>2. \A n : n = k => Covered(r, n)'
      BY <1>6
    <3>3. QED BY <1>6, <2>2, <3>1, <3>2
  <2>4. \/ at'[r] = at[r] + 1 /\ pc'[r] = "find_case"
        \/ at'[r] = 1 /\ ~ (at[r] < Len(Results[r])) /\ pc'[r] # "find_case"
    <3>1. ReportAt(r, 1, results) => pc'[r] # "find_case"
      BY <1>0, ReportsFrom
    <3>2. QED BY <1>6, <3>1 DEF LooksFor
  <2>5. CASE at'[r] = at[r] + 1 /\ pc'[r] = "find_case"
    BY <1>2, <2>3, <2>5 DEF Complete, Adding
  <2>6. CASE at'[r] = 1 /\ ~ (at[r] < Len(Results[r])) /\ pc'[r] # "find_case"
    <3>1. at[r] = Len(Results[r])
      BY <1>2, <2>1, <2>6
    <3>2. QED BY <2>3, <2>6, <3>1 DEF Complete
  <2>7. QED BY <2>4, <2>5, <2>6
<1>7. CASE Finds(r)
  <2>1. PICK i \in Matching(r) : LooksFor(r, Append(found[r], [result |-> at[r], test |-> i]))
    BY <1>7 DEF Finds
  <2>2. pc[r] = "find_case"
    BY <2>1 DEF LooksFor
  <2>3. PICK results \in Seq(Found) :
          /\ results = Append(found[r], [result |-> at[r], test |-> i])
          /\ Len(results) = Len(found[r]) + 1 /\ results[Len(results)].result = at[r]
          /\ \A m \in 1 .. Len(found[r]) : results[m] = found[r][m]
    BY <1>0, <2>2, FindsInOrder
  <2>4. LooksFor(r, results) /\ found'[r] = results
    BY <2>1, <2>3 DEF LooksFor
  <2>5. Len(results) \in 1 .. Len(results) /\ \A m \in 1 .. Len(found[r]) : m \in 1 .. Len(results)
    BY <1>2, <2>3
  <2>6. ASSUME NEW k, k = at[r] PROVE Covered(r, k)'
    BY <2>3, <2>4, <2>5, <2>6 DEF Covered
  <2>7. QED BY <1>6, <2>3, <2>4, <2>5, <2>6
<1>8. CASE Misses(r)
  <2>1. LooksFor(r, found[r]) /\ pc[r] = "find_case"
    BY <1>8 DEF Misses, LooksFor
  <2>2. tests' = tests
    BY <1>0, <2>1, StepTypes DEF Adds
  <2>3. ASSUME NEW k, k = at[r] PROVE Excuse(r, k)'
    BY <1>0, <1>8, <2>2, <2>3, MissExcused
  <2>4. ASSUME NEW k, k = at[r] PROVE Covered(r, k)'
    BY <2>3, <2>4 DEF Covered
  <2>5. QED BY <1>2, <1>6, <2>1, <2>4
\* Reporting.
<1>9. CASE Enters(r) \/ Records(r) \/ (Retries(r) /\ Adding(r))
  <2>1. Adding(r) /\ found'[r] = found[r] /\ pc'[r] # "find_case"
    <3>1. at[r] + 1 \in Nat /\ at[r] + 1 >= 1
      BY <1>2
    <3>2. Records(r) => pc'[r] # "find_case"
      BY <1>0, <1>2, <3>1, ReportsFrom DEF Records
    <3>3. QED BY <1>9, <3>2 DEF Enters, Records, Retries, Keeps, Adding
  <2>2. \A n \in 1 .. Len(Results[r]) : Covered(r, n)'
    <3>1. \A n \in 1 .. Len(Results[r]) : Covered(r, n)
      BY <1>0, <2>1 DEF Complete
    <3>2. QED BY <1>3, <1>5, <2>1, <3>1 DEF Covered
  <2>3. \A m \in 1 .. at[r] - 1 : Reported(r, found[r][m].result)'
    BY <1>0, <1>4, <2>1 DEF Complete
  <2>4. \A m \in 1 .. at'[r] - 1 : Reported(r, found[r][m].result)'
    <3>1. CASE at'[r] = at[r]
      BY <2>3, <3>1
    <3>2. CASE Records(r)
      <4>1. ASSUME NEW n, n = found[r][at[r]].result PROVE Reported(r, n)'
        <5>1. /\ Len(runs') = Len(runs) + 1
              /\ runs'[Len(runs) + 1].by = r /\ runs'[Len(runs) + 1].result = found[r][at[r]].result
          BY <3>2 DEF Records, OneMore
        <5>2. Len(runs) + 1 \in DOMAIN runs'
          BY <1>1, <5>1 DEF RunsGrow
        <5>3. QED BY <4>1, <5>1, <5>2 DEF Reported
      <4>2. at'[r] - 1 = at[r]
        BY <1>2, <3>2 DEF Records
      <4>3. \A m \in 1 .. at[r] : m \in 1 .. at[r] - 1 \/ m = at[r]
        BY <1>2
      <4>4. ASSUME NEW m \in 1 .. at[r] PROVE Reported(r, found[r][m].result)'
        <5>1. CASE m \in 1 .. at[r] - 1
          BY <2>3, <5>1
        <5>2. CASE m = at[r]
          BY <2>1, <4>1, <5>2
        <5>3. QED BY <4>3, <5>1, <5>2
      <4>5. QED BY <4>2, <4>4
    <3>3. QED BY <1>9, <3>1, <3>2 DEF Enters, Retries, Keeps
  <2>5. QED BY <2>1, <2>2, <2>4 DEF Complete
<1>10. CASE Prepares(r) \/ Stops(r)
  BY <1>10 DEF Prepares, Stops, Before, Complete, Adding
<1>11. CASE Reads(r)
  <2>1. pc'[r] = "find_case" /\ at'[r] = 1
    BY <1>0, <1>11 DEF Reads, Keeps, LookedUp, Before
  <2>2. QED BY <2>1 DEF Complete, Adding
<1>12. CASE Retries(r) /\ ~ Adding(r)
  <2>1. pc'[r] = pc[r] /\ found'[r] = found[r] /\ at'[r] = at[r] /\ ~ Adding(r)'
    BY <1>12 DEF Retries, Keeps, Adding
  <2>2. QED BY <1>0, <1>3, <1>5, <2>1 DEF Complete, Covered
<1>13. QED BY <1>0, <1>7, <1>8, <1>9, <1>10, <1>11, <1>12, OwnSteps

-----------------------------------------------------------------------------
(* Instances and runs. *)

\* A reporter adds a test a second time only where it has the id twice.
LEMMA SecondOfOne ==
  ASSUME TypeOK, NEW r \in Reporter, LookedUp(r), AddedBy(r), pc[r] = "add_instance",
         ~ Lost(r, "add_instance"),
         NEW i \in DOMAIN instances, instances[i].by = r,
         instances[i].test = found[r][at[r]].test
  PROVE  Twice(r)
<1>1. PICK m \in 1 .. at[r] : instances[i].test = found[r][m].test /\ m # at[r]
  BY DEF AddedBy, Adding
<1>2. at[r] \in 1 .. Len(found[r]) /\ Len(found[r]) \in Nat /\ DOMAIN Results[r] = 1 .. Len(Results[r])
  <2>1. Results[r] \in Seq(Tc \cup {NoId})
    BY QcAssumption
  <2>2. QED BY <2>1, Sized DEF LookedUp, Adding, Sizes
<1>3. m \in 1 .. Len(found[r]) /\ m < at[r]
  BY <1>1, <1>2
<1>4. found[r][m].result < found[r][at[r]].result
  BY <1>2, <1>3 DEF LookedUp
<1>5. /\ found[r][m].result \in 1 .. Len(Results[r])
      /\ found[r][at[r]].result \in 1 .. Len(Results[r])
      /\ tests[found[r][m].test].tc = Results[r][found[r][m].result]
      /\ tests[found[r][at[r]].test].tc = Results[r][found[r][at[r]].result]
  BY <1>2, <1>3 DEF LookedUp
<1>6. found[r][m].result # found[r][at[r]].result
  <2>1. Len(Results[r]) \in Nat
    BY QcAssumption
  <2>2. QED BY <1>4, <1>5, <2>1
<1>7. QED BY <1>1, <1>2, <1>5, <1>6 DEF Twice

LEMMA InstanceStep ==
  ASSUME QcInv, NEW p \in Process, Start(p) \/ Step(p)
  PROVE  OneInstance'
<1>0. TypeOK /\ InRange /\ OneInstance
  BY Ranged DEF QcInv
<1>1. InstancesGrow(p) /\ overlap \subseteq overlap' /\ lost \subseteq lost'
  BY <1>0, StepAdds DEF Grow
<1> SUFFICES ASSUME NEW i \in DOMAIN instances', NEW k \in DOMAIN instances', i < k,
                    instances'[i].set = instances'[k].set, instances'[i].test = instances'[k].test
             PROVE  IF instances'[i].by = instances'[k].by
                    THEN <<instances'[k].by, "add_instance">> \in lost' \/ Twice(instances'[k].by)
                    ELSE {instances'[i].by, instances'[k].by} \in overlap'
  BY DEF OneInstance, Lost, Together, Twice
<1>2. i \in DOMAIN instances /\ instances'[i] = instances[i]
  <2>1. i \in 1 .. Len(instances') /\ k \in 1 .. Len(instances')
    BY <1>1 DEF InstancesGrow
  <2>2. k \in DOMAIN instances \/ k = Len(instances) + 1
    BY <1>1 DEF InstancesGrow
  <2>3. i \in DOMAIN instances
    BY <1>1, <2>1, <2>2 DEF InstancesGrow
  <2>4. QED BY <1>1, <2>3 DEF InstancesGrow
<1>3. CASE k \in DOMAIN instances
  <2>1. instances'[k] = instances[k]
    BY <1>1, <1>3 DEF InstancesGrow
  <2>2. QED BY <1>0, <1>1, <1>2, <1>3, <2>1 DEF OneInstance, Lost, Together
<1>4. CASE k \notin DOMAIN instances
  <2>1. /\ p \in Reporter /\ pc[p] = "add_instance" /\ instances'[k].by = p
        /\ instances'[k].set = set[p] /\ instances'[k].test = found[p][at[p]].test
    BY <1>1, <1>4 DEF InstancesGrow
  <2>2. LookedUp(p) /\ Unknown(p) /\ AddedBy(p)
    BY <2>1 DEF QcInv, ReportInv
  <2>3. i > known[p]
    <3>1. known[p] \in Nat /\ i \in Nat /\ i >= 1
      BY <1>0, <1>1, <1>2, <2>1 DEF TypeOK, InstancesGrow
    <3>2. i \notin 1 .. known[p]
      BY <1>2, <2>1, <2>2 DEF Unknown
    <3>3. QED BY <3>1, <3>2
  <2>4. instances[i].by = p \/ {instances[i].by, p} \in overlap
    BY <1>2, <2>1, <2>2, <2>3 DEF Unknown, Adding, Together
  <2>5. CASE instances[i].by = p
    <3>1. Lost(p, "add_instance") \/ Twice(p)
      BY <1>0, <1>2, <2>1, <2>2, <2>5, SecondOfOne
    <3>2. QED BY <1>1, <1>2, <2>1, <2>5, <3>1 DEF Lost
  <2>6. CASE instances[i].by # p
    BY <1>1, <1>2, <2>1, <2>4, <2>6
  <2>7. QED BY <2>5, <2>6
<1>5. QED BY <1>3, <1>4

LEMMA PlacedStep ==
  ASSUME QcInv, NEW p \in Process, Start(p) \/ Step(p)
  PROVE  Placed'
<1>0. TypeOK /\ InRange /\ Placed
  BY Ranged DEF QcInv
<1>1. TypeOK' /\ Others(p) /\ TestsGrow(p) /\ InstancesGrow(p) /\ RunsGrow(p)
  BY <1>0, StepAdds DEF Grow
\* A reporter that is past its look-ups stays there, with its set.
<1>2. ASSUME NEW r \in Reporter, pc[r] \notin Before \cup {"find_case"}
      PROVE  pc'[r] \notin Before \cup {"find_case"} /\ set'[r] = set[r]
  <2>1. CASE r # p
    BY <1>1, <1>2, <2>1 DEF Others, Process
  <2>2. CASE r = p
    <3>1. at[r] + 1 \in Nat /\ at[r] + 1 >= 1 /\ found[r] \in Seq(Found)
      <4>1. at[r] \in Nat /\ found[r] \in Seq(Found)
        BY <1>0 DEF TypeOK
      <4>2. QED BY <4>1
    <3>2. ~ Finds(r) /\ ~ Misses(r) /\ ~ Reads(r) /\ ~ Prepares(r)
      BY <1>2 DEF Finds, Misses, LooksFor, Reads, Prepares, Before
    <3>3. CASE Records(r)
      <4>1. pc'[r] \in {"done", "add_instance", "add_run"}
        BY <1>0, <3>1, <3>3, ReportsFrom DEF Records
      <4>2. QED BY <3>3, <4>1 DEF Records, Before
    <3>4. CASE Stops(r) \/ Enters(r) \/ Retries(r)
      BY <1>2, <3>4 DEF Stops, Enters, Retries, Keeps, Before
    <3>5. QED BY <1>0, <2>2, <3>2, <3>3, <3>4, OwnSteps
  <2>3. QED BY <2>1, <2>2
<1> SUFFICES ASSUME NEW i \in DOMAIN runs', NEW r, r = runs'[i].by
             PROVE  /\ pc'[r] \notin Before \cup {"find_case"}
                    /\ runs'[i].inst \in DOMAIN instances'
                    /\ runs'[i].set = set'[r] /\ instances'[runs'[i].inst].set = set'[r]
                    /\ instances'[runs'[i].inst].test \in DOMAIN tests'
                    /\ tests'[instances'[runs'[i].inst].test].tc = Results[r][runs'[i].result]
  BY DEF Placed
<1>3. r \in Reporter
  <2>1. runs' \in Seq(QcRun)
    BY <1>1 DEF TypeOK
  <2>2. runs'[i] \in QcRun
    BY <2>1
  <2>3. QED BY <2>2 DEF QcRun
<1>4. CASE i \in DOMAIN runs
  <2>1. runs'[i] = runs[i]
    BY <1>1, <1>4 DEF RunsGrow
  <2>2. /\ pc[r] \notin Before \cup {"find_case"}
        /\ runs[i].inst \in DOMAIN instances
        /\ runs[i].set = set[r] /\ instances[runs[i].inst].set = set[r]
        /\ instances[runs[i].inst].test \in DOMAIN tests
        /\ tests[instances[runs[i].inst].test].tc = Results[r][runs[i].result]
    BY <1>0, <1>4, <2>1 DEF Placed
  <2>3. runs[i].inst \in DOMAIN instances' /\ instances'[runs[i].inst] = instances[runs[i].inst]
    BY <1>1, <2>2 DEF InstancesGrow
  <2>4. /\ instances[runs[i].inst].test \in DOMAIN tests'
        /\ tests'[instances[runs[i].inst].test] = tests[instances[runs[i].inst].test]
    BY <1>1, <2>2 DEF TestsGrow
  <2>5. QED BY <1>2, <1>3, <2>1, <2>2, <2>3, <2>4
<1>5. CASE i \notin DOMAIN runs
  <2>1. /\ p = r /\ pc[r] = "add_run"
        /\ runs'[i] = [inst |-> instance[r], set |-> set[r], by |-> r,
                       result |-> found[r][at[r]].result]
    BY <1>1, <1>5 DEF RunsGrow
  <2>2. LookedUp(r) /\ Fits(r)
    BY <1>3 DEF QcInv, ReportInv
  <2>3. /\ instance[r] \in DOMAIN instances /\ instances[instance[r]].set = set[r]
        /\ instances[instance[r]].test = found[r][at[r]].test
    BY <2>1, <2>2 DEF Fits
  <2>4. /\ found[r][at[r]].test \in DOMAIN tests
        /\ tests[found[r][at[r]].test].tc = Results[r][found[r][at[r]].result]
    BY <2>1, <2>2 DEF LookedUp, Adding
  <2>5. instance[r] \in DOMAIN instances' /\ instances'[instance[r]] = instances[instance[r]]
    BY <1>1, <2>3 DEF InstancesGrow
  <2>6. /\ found[r][at[r]].test \in DOMAIN tests'
        /\ tests'[found[r][at[r]].test] = tests[found[r][at[r]].test]
    BY <1>1, <2>4 DEF TestsGrow
  <2>7. pc'[r] \notin Before \cup {"find_case"} /\ set'[r] = set[r]
    BY <1>2, <1>3, <2>1 DEF Before
  <2>8. QED BY <2>1, <2>3, <2>4, <2>5, <2>6, <2>7
<1>6. QED BY <1>4, <1>5

LEMMA RunStep ==
  ASSUME QcInv, Placed', NEW p \in Process, Start(p) \/ Step(p)
  PROVE  RunsBelong'
<1>0. TypeOK /\ InRange /\ RunsBelong
  BY Ranged DEF QcInv
<1>1. RunsGrow(p) /\ lost \subseteq lost'
  BY <1>0, StepAdds DEF Grow
<1>2. ASSUME NEW i \in DOMAIN runs, NEW k \in DOMAIN runs' \ DOMAIN runs,
             runs[i].by = runs'[k].by, runs[i].result = runs'[k].result
      PROVE  <<runs[i].by, "add_run">> \in lost'
  <2>1. /\ p \in Reporter /\ pc[p] = "add_run" /\ runs[i].by = p
        /\ runs[i].result = found[p][at[p]].result
    BY <1>1, <1>2 DEF RunsGrow
  <2>2. LookedUp(p) /\ AddedBy(p)
    BY <2>1 DEF QcInv, ReportInv
  <2>3. SUFFICES ASSUME ~ Lost(p, "add_run") PROVE FALSE
    BY <1>1, <2>1 DEF Lost
  <2>4. PICK m \in 1 .. at[p] : runs[i].result = found[p][m].result /\ m # at[p]
    BY <2>1, <2>2, <2>3 DEF AddedBy, Adding
  <2>5. at[p] \in 1 .. Len(found[p]) /\ Len(found[p]) \in Nat
    BY <1>0, <2>1, <2>2, Sized DEF LookedUp, Adding, Sizes
  <2>6. m \in 1 .. Len(found[p]) /\ m < at[p]
    BY <2>4, <2>5
  <2>7. found[p][m].result < found[p][at[p]].result
    BY <2>2, <2>5, <2>6 DEF LookedUp
  <2>8. found[p][at[p]].result \in 1 .. Len(Results[p]) /\ Len(Results[p]) \in Nat
    BY <2>1, <2>2, <2>5, QcAssumption DEF LookedUp
  <2>9. QED BY <2>1, <2>4, <2>7, <2>8
<1>3. ASSUME NEW i \in DOMAIN runs', NEW k \in DOMAIN runs', i # k,
             runs'[i].by = runs'[k].by, runs'[i].result = runs'[k].result
      PROVE  <<runs'[i].by, "add_run">> \in lost'
  <2>1. \A x \in DOMAIN runs' : (x \in DOMAIN runs /\ runs'[x] = runs[x]) \/ x = Len(runs) + 1
    BY <1>1 DEF RunsGrow
  <2>2. CASE i \in DOMAIN runs /\ k \in DOMAIN runs
    BY <1>0, <1>1, <1>3, <2>2 DEF RunsBelong, RunsGrow, Lost
  <2>3. CASE i \in DOMAIN runs /\ k \notin DOMAIN runs
    BY <1>1, <1>2, <1>3, <2>3 DEF RunsGrow
  <2>4. CASE k \in DOMAIN runs /\ i \notin DOMAIN runs
    BY <1>1, <1>2, <1>3, <2>4 DEF RunsGrow
  <2>5. QED BY <1>3, <2>1, <2>2, <2>3, <2>4
<1>4. QED BY <1>3 DEF RunsBelong, Placed, Lost

-----------------------------------------------------------------------------
LEMMA QcInit == Init => QcInv
<1> SUFFICES ASSUME Init PROVE QcInv
  OBVIOUS
<1>1. PICK team \in Teams : pc = [q \in Process |-> IF q \in team THEN "idle" ELSE "absent"]
  BY DEF Init
<1>2. \A q \in Process : pc[q] \in {"idle", "absent"}
  BY <1>1
<1>3. TypeOK
  <2>1. tests \in Seq(TestCase) /\ sets \in Seq(Reporter \cup {Nobody})
    <3>1. tests \in Tests0 /\ sets \in Sets0
      BY DEF Init
    <3>2. \A s \in Seq({Nobody}) : s \in Seq(Reporter \cup {Nobody})
      OBVIOUS
    <3>3. [tc : Tc, path : Path, by : {Nobody}] \subseteq TestCase
      BY DEF TestCase
    <3>4. \A S, T : S \subseteq T => \A s \in Seq(S) : s \in Seq(T)
      OBVIOUS
    <3>5. QED BY <3>1, <3>2, <3>3, <3>4, QcAssumption
  <2>2. /\ links \in Seq(Link) /\ instances \in Seq(Instance) /\ runs \in Seq(QcRun)
        /\ tries \in [Reporter -> Nat] /\ target \in [Uploader -> Nat]
        /\ set \in [Reporter -> Nat] /\ known \in [Reporter -> Nat]
        /\ found \in [Reporter -> Seq(Found)]
        /\ at \in [Reporter -> Nat] /\ instance \in [Reporter -> Nat]
    BY QcAssumption DEF Init
  <2>3. pc \in [Process -> Ended \cup Uploading \cup Reporting]
    BY <1>1 DEF Ended
  <2>4. (\A u \in Uploader : pc[u] \in Ended) /\ \A r \in Reporter : pc[r] \in Ended
    BY <1>2 DEF Process, Ended
  <2>5. QED BY <2>1, <2>2, <2>3, <2>4 DEF TypeOK
<1>4. Met
  BY <1>2 DEF Met, Active, Ended
<1>5. /\ links = <<>> /\ instances = <<>> /\ runs = <<>>
      /\ DOMAIN links = {} /\ DOMAIN instances = {} /\ DOMAIN runs = {} /\ Len(instances) = 0
  BY DEF Init
<1>6. UploadInv
  <2>1. tests \in Seq([tc : Tc, path : Path, by : {Nobody}])
    BY QcAssumption DEF Init
  <2>2. \A i \in DOMAIN tests : tests[i].by = Nobody
    <3>1. \A i \in DOMAIN tests : tests[i] \in [tc : Tc, path : Path, by : {Nobody}]
      BY <2>1, Places
    <3>2. QED BY <3>1
  <2>3. NewTest /\ NewLink
    BY <1>2 DEF NewTest, NewLink, Process
  <2>4. UploadedOnce
    BY <1>5, <2>2 DEF UploadedOnce
  <2>5. QED BY <2>3, <2>4 DEF UploadInv
<1>7. SetInv
  <2>1. sets \in Seq({Nobody})
    BY QcAssumption DEF Init
  <2>2. Len(sets) > 1 => sets[2] = Nobody
    BY <2>1
  <2>3. QED BY <1>2, <2>2 DEF SetInv, NewSet, OneSet, Process
<1>8. ReportInv
  <2> SUFFICES ASSUME NEW r \in Reporter
               PROVE  LookedUp(r) /\ Silent(r) /\ Unknown(r) /\ AddedBy(r) /\ Fits(r) /\ Complete(r)
    BY DEF ReportInv
  <2>1. pc[r] \in Before /\ ~ Adding(r) /\ pc[r] # "find_case" /\ found[r] = <<>> /\ at[r] = 1 /\ known[r] = 0
    BY <1>2 DEF Init, Before, Adding, Process
  <2>2. Len(found[r]) = 0
    BY <2>1
  <2>3. QED
    BY <1>5, <2>1, <2>2 DEF LookedUp, Silent, Unknown, AddedBy, Fits, Complete, Adding
<1>9. OneInstance /\ Placed /\ RunsBelong
  BY <1>5 DEF OneInstance, Placed, RunsBelong
<1>10. QED BY <1>3, <1>4, <1>6, <1>7, <1>8, <1>9 DEF QcInv

LEMMA QcStep == QcInv /\ [Next]_vars => QcInv'
<1> SUFFICES ASSUME QcInv, [Next]_vars PROVE QcInv'
  OBVIOUS
<1>1. ASSUME NEW p \in Process, Start(p) \/ Step(p) PROVE QcInv'
  <2>1. TypeOK /\ InRange /\ Met /\ UploadInv /\ SetInv
    BY Ranged DEF QcInv
  <2>2. TypeOK' /\ Met' /\ UploadInv' /\ SetInv'
    BY <1>1, <2>1, StepTypes, MetStep, UploadStep, SetStep
  <2>3. ASSUME NEW r \in Reporter
        PROVE  (LookedUp(r) /\ Silent(r) /\ Unknown(r) /\ AddedBy(r) /\ Fits(r))' /\ Complete(r)'
    <3>1. CASE r = p
      BY <1>1, <3>1, OwnKept, CompleteStep
    <3>2. CASE r # p
      BY <1>1, <3>2, OthersKept, CompleteStays
    <3>3. QED BY <3>1, <3>2
  <2>4. OneInstance' /\ Placed'
    BY <1>1, InstanceStep, PlacedStep
  <2>5. RunsBelong'
    BY <1>1, <2>4, RunStep
  <2>6. QED BY <2>2, <2>3, <2>4, <2>5 DEF QcInv, ReportInv
<1>2. CASE UNCHANGED vars
  <2>1. UNCHANGED <<tests, links, sets, instances, runs, pc, tries, target, set, known, found,
                    at, instance, lost, overlap>>
    BY <1>2 DEF vars, server, local
  <2>2. TypeOK' /\ Met' /\ UploadInv' /\ SetInv'
    BY <2>1 DEF QcInv, TypeOK, Met, UploadInv, SetInv, Active, NewTest, NewLink, UploadedOnce,
      NewSet, OneSet, Together, Excused, Lost
  <2>3. ASSUME NEW r \in Reporter
        PROVE  (LookedUp(r) /\ Silent(r) /\ Unknown(r) /\ AddedBy(r) /\ Fits(r) /\ Complete(r))'
    <3>1. LookedUp(r) /\ Silent(r) /\ Unknown(r) /\ AddedBy(r) /\ Fits(r) /\ Complete(r)
      BY DEF QcInv, ReportInv
    <3>2. LookedUp(r)' /\ Silent(r)'
      BY <2>1, <3>1 DEF LookedUp, Silent, Adding
    <3>3. Unknown(r)' /\ AddedBy(r)' /\ Fits(r)'
      BY <2>1, <3>1 DEF Unknown, AddedBy, Fits, Adding, Together, Lost
    <3>4. Complete(r)'
      BY <2>1, <3>1 DEF Complete, Adding, Covered, Excuse, Unique, Reported, Together, Lost
    <3>5. QED BY <3>2, <3>3, <3>4
  <2>4. OneInstance' /\ Placed' /\ RunsBelong'
    BY <2>1 DEF QcInv, OneInstance, Placed, RunsBelong, Together, Lost
  <2>5. QED BY <2>2, <2>3, <2>4 DEF QcInv, ReportInv
<1>3. QED BY <1>1, <1>2 DEF Next, Rest

LEMMA QcInductive == Spec => []QcInv
  BY QcInit, QcStep, PTL DEF Spec

-----------------------------------------------------------------------------
(* The results *)

\* The values stay what TypeOK says they are.
THEOREM TypeCorrect == Spec => []TypeOK
<1>1. QcInv => TypeOK
  BY DEF QcInv
<1>2. QED BY <1>1, QcInductive, PTL

\* addtc.py:56-73: however many uploaders run and in whatever order their calls
\* are served, only those that ran at the same time have added one test case
\* twice or linked it twice.
THEOREM AddedOnce == Spec => []UploadedOnce
<1>1. QcInv => UploadedOnce
  BY DEF QcInv, UploadInv
<1>2. QED BY <1>1, QcInductive, PTL

\* robot2qc.py:69-73: there is a second test set only from reporters that ran
\* at the same time or a look-up or an addition that was not answered.
THEOREM SecondSet == Spec => []OneSet
<1>1. QcInv => OneSet
  BY DEF QcInv, SetInv
<1>2. QED BY <1>1, QcInductive, PTL

\* robot2qc.py:74, 95-98: a test is in a set twice only by reporters that ran at
\* the same time, an addition that was not answered or a report that lists it
\* twice, for any number of results and retries.
THEOREM SecondInstance == Spec => []OneInstance
<1>1. QcInv => OneInstance
  BY DEF QcInv
<1>2. QED BY <1>1, QcInductive, PTL

\* robot2qc.py:92-99: every run is in the set of its reporter and of the test of
\* its result, and it is the only one of its result unless an answer was lost.
THEOREM RunsInPlace == Spec => []RunsBelong
<1>1. QcInv => RunsBelong
  BY DEF QcInv
<1>2. QED BY <1>1, QcInductive, PTL

\* When a reporter comes to its end, each of its results has a run or a reason
\* for which there is none.
LEMMA AtTheEnd ==
  ASSUME QcInv, NEW r \in Reporter, Start(r) \/ Step(r), pc[r] # "done", pc'[r] = "done",
         NEW n \in 1 .. Len(Results[r])
  PROVE  /\ Reported(r, n)' \/ Excuse(r, n)'
         /\ tests' = tests /\ overlap' = overlap
<1>0. /\ TypeOK /\ InRange /\ LookedUp(r) /\ Complete(r)
      /\ r \in Process /\ r \notin Uploader
  BY Ranged, QcAssumption DEF QcInv, ReportInv, Process
<1>1. TestsGrow(r) /\ RunsGrow(r)
  BY <1>0, StepAdds DEF Grow
<1>2. /\ at[r] \in Nat /\ found[r] \in Seq(Found) /\ Len(found[r]) \in Nat
      /\ Len(Results[r]) \in Nat
  <2>1. at[r] \in Nat /\ found[r] \in Seq(Found)
    BY <1>0 DEF TypeOK
  <2>2. Results[r] \in Seq(Tc \cup {NoId})
    BY QcAssumption
  <2>3. QED BY <2>1, <2>2
<1>3. Active(r) /\ Excuse(r, n) => Excuse(r, n)'
  BY <1>0, ExcuseStays
<1>4. Reported(r, n) => Reported(r, n)'
  BY <1>1 DEF Reported, RunsGrow
<1>5. ASSUME Misses(r) \/ Finds(r) \/ Records(r) PROVE tests' = tests /\ overlap' = overlap /\ Active(r)
  <2>1. pc[r] \in {"find_case", "add_run"}
    BY <1>5 DEF Misses, Finds, LooksFor, Records
  <2>2. tests' = tests
    BY <1>0, <2>1, StepTypes DEF Adds
  <2>3. overlap' = overlap
    BY <1>0, <2>1 DEF Start, Step, Reports, Fails
  <2>4. QED BY <2>1, <2>2, <2>3 DEF Active, Ended
<1>6. CASE Finds(r)
  <2>1. PICK i \in Matching(r) : LooksFor(r, Append(found[r], [result |-> at[r], test |-> i]))
    BY <1>6 DEF Finds
  <2>2. pc[r] = "find_case"
    BY <2>1 DEF LooksFor
  <2>3. PICK results \in Seq(Found) :
          /\ results = Append(found[r], [result |-> at[r], test |-> i])
          /\ Len(results) = Len(found[r]) + 1
    BY <1>0, <2>2, FindsInOrder
  <2>4. ReportAt(r, 1, results)
    BY <2>1, <2>3 DEF LooksFor
  <2>5. 1 > Len(results)
    <3>1. 1 \in Nat /\ 1 >= 1
      OBVIOUS
    <3>2. QED BY <1>0, <2>4, <3>1, ReportsFrom
  <2>6. QED BY <1>2, <2>3, <2>5
<1>7. CASE Misses(r)
  <2>1. /\ pc[r] = "find_case" /\ ~ (at[r] < Len(Results[r])) /\ ReportAt(r, 1, found[r])
    BY <1>7 DEF Misses, LooksFor
  <2>2. Len(found[r]) = 0
    <3>1. 1 > Len(found[r])
      BY <1>0, <1>2, <2>1, ReportsFrom
    <3>2. QED BY <1>2, <3>1
  <2>3. n \in 1 .. at[r] - 1 \/ n = at[r]
    BY <1>0, <1>2, <2>1 DEF LookedUp
  <2>4. CASE n \in 1 .. at[r] - 1
    <3>1. Covered(r, n)
      BY <1>0, <2>1, <2>4 DEF Complete
    <3>2. Excuse(r, n)
      BY <2>2, <3>1 DEF Covered
    <3>3. QED BY <1>3, <1>5, <1>7, <3>2
  <2>5. CASE n = at[r]
    BY <1>0, <1>5, <1>7, <2>5, MissExcused
  <2>6. QED BY <2>3, <2>4, <2>5
<1>8. CASE Records(r)
  <2>1. Adding(r) /\ ReportAt(r, at[r] + 1, found[r])
    BY <1>8 DEF Records, Adding
  <2>2. at[r] = Len(found[r])
    <3>1. at[r] + 1 \in Nat /\ at[r] + 1 >= 1
      BY <1>2
    <3>2. at[r] + 1 > Len(found[r])
      BY <1>0, <1>2, <2>1, <3>1, ReportsFrom
    <3>3. QED BY <1>0, <1>2, <2>1, <3>2 DEF LookedUp
  <2>3. Covered(r, n)
    BY <1>0, <2>1 DEF Complete
  <2>4. ASSUME NEW m \in 1 .. Len(found[r]), found[r][m].result = n PROVE Reported(r, n)'
    <3>1. CASE m \in 1 .. at[r] - 1
      BY <1>0, <1>4, <2>1, <2>4, <3>1 DEF Complete
    <3>2. CASE m = at[r]
      <4>1. /\ Len(runs') = Len(runs) + 1
            /\ runs'[Len(runs) + 1].by = r /\ runs'[Len(runs) + 1].result = found[r][at[r]].result
        BY <1>8 DEF Records, OneMore
      <4>2. Len(runs) + 1 \in DOMAIN runs'
        BY <1>1, <4>1 DEF RunsGrow
      <4>3. QED BY <2>4, <3>2, <4>1, <4>2 DEF Reported
    <3>3. QED BY <1>2, <2>2, <2>4, <3>1, <3>2
  <2>5. QED BY <1>3, <1>5, <1>8, <2>3, <2>4 DEF Covered
<1>9. CASE Prepares(r) \/ Stops(r) \/ Reads(r) \/ Enters(r) \/ Retries(r)
  <2>1. Stops(r)
    BY <1>9 DEF Prepares, Before, Reads, Enters, Retries
  <2>2. Len(Results[r]) = 0
    BY <2>1 DEF Stops
  <2>3. QED BY <2>2
<1>10. QED BY <1>0, <1>5, <1>6, <1>7, <1>8, <1>9, OwnSteps

\* robot2qc.py:78-90: a report that ends well leaves out no result but those of
\* which the look-up was not answered, or whose test case was not unique or was
\* just being uploaded.
THEOREM NothingLeftOut == Spec => ReportedInFull
<1> DEFINE Full ==
      \A r \in Reporter :
        pc[r] # "done" /\ pc'[r] = "done" =>
          \A n \in DOMAIN Results[r] :
            \/ Reported(r, n)'
            \/ Lost(r, "find_case")'
            \/ Cardinality({i \in DOMAIN tests : tests[i].tc = Results[r][n]}) # 1
            \/ \E u \in Uploader : Together(u, r) /\ Upload[u].tc = Results[r][n]
<1>1. QcInv /\ [Next]_vars => [Full]_vars
  <2> SUFFICES ASSUME QcInv, [Next]_vars, NEW r \in Reporter,
                      pc[r] # "done", pc'[r] = "done", NEW n \in DOMAIN Results[r]
               PROVE  \/ Reported(r, n)'
                      \/ Lost(r, "find_case")'
                      \/ Cardinality({i \in DOMAIN tests : tests[i].tc = Results[r][n]}) # 1
                      \/ \E u \in Uploader : Together(u, r) /\ Upload[u].tc = Results[r][n]
    OBVIOUS
  <2>1. n \in 1 .. Len(Results[r])
    BY QcAssumption
  <2>2. pc' # pc
    OBVIOUS
  <2>3. PICK p \in Process : Start(p) \/ Step(p)
    BY <2>2 DEF Next, Rest, vars
  <2>4. TypeOK /\ InRange
    BY Ranged DEF QcInv
  <2>5. p = r
    BY <2>3, <2>4, StepAdds DEF Others, Process
  <2>6. /\ Reported(r, n)' \/ Excuse(r, n)'
        /\ tests' = tests /\ overlap' = overlap
    BY <2>1, <2>3, <2>5, AtTheEnd
  <2>7. CASE Excuse(r, n)'
    <3>1. \/ Lost(r, "find_case")' \/ ~ Unique(Results[r][n])
          \/ \E u \in Uploader : Together(u, r) /\ Upload[u].tc = Results[r][n]
      BY <2>6, <2>7 DEF Excuse, Unique, Together
    <3>2. QED BY <2>4, <3>1, OnlyOne
  <2>8. QED BY <2>6, <2>7
<1>2. QED
  BY <1>1, QcInductive, PTL DEF Spec, ReportedInFull
-----------------------------------------------------------------------------
(* Every upload and every report comes to its end. *)

\* What a process has still to do: calls of another kind, results to look up or
\* to report, the instance before the run, and attempts at the call.
Level(p) ==
  CASE pc[p] = "idle" -> 7
    [] pc[p] = "find_set" -> 6
    [] pc[p] \in {"add_set", "find_test"} -> 5
    [] pc[p] \in {"get_instances", "add_test", "update_test"} -> 4
    [] pc[p] \in {"find_case", "find_coverage"} -> 3
    [] pc[p] \in {"add_instance", "add_run", "add_coverage"} -> 2
    [] pc[p] \in {"done", "failed", "absent"} -> 0

Togo(p) ==
  CASE pc[p] = "find_case" -> Len(Results[p]) + 1 - at[p]
    [] pc[p] \in {"add_instance", "add_run"} -> Len(found[p]) + 1 - at[p]
    [] OTHER -> 0

Entry(p) == IF pc[p] = "add_instance" THEN 1 ELSE 0

Attempts(p) == IF p \in Reporter THEN MaxAttempt - tries[p] ELSE 0

Variant(p) == <<Level(p), Togo(p), Entry(p), Attempts(p)>>

\* The lexicographical order of four numbers, in which nothing descends for ever.
Smaller == LexProductOrdering(OpToRel(<, Nat), Nat, 4)

LEMMA SmallerWellFounded == IsWellFoundedOn(Smaller, [1 .. 4 -> Nat])
<1>1. 4 \in Nat
  OBVIOUS
<1>2. QED BY <1>1, NatLessThanWellFounded, WFLexProductOrdering DEF Smaller

LEMMA SmallerIf ==
  ASSUME NEW v \in [1 .. 4 -> Nat], NEW w \in [1 .. 4 -> Nat], NEW j \in 1 .. 4,
         \A i \in 1 .. (j - 1) : v[i] = w[i], v[j] < w[j]
  PROVE  <<v, w>> \in Smaller
<1>1. <<v[j], w[j]>> \in OpToRel(<, Nat)
  BY DEF OpToRel
<1>2. QED BY <1>1 DEF Smaller, LexProductOrdering

\* retry.py: no more attempts than there may be.
TriesInv == QcInv /\ \A r \in Reporter : tries[r] <= MaxAttempt

LEMMA TriesInit == Init => TriesInv
<1>1. Init => QcInv
  BY QcInit
<1>2. QED BY <1>1, QcAssumption DEF Init, TriesInv

LEMMA TriesStep == TriesInv /\ [Next]_vars => TriesInv'
<1> SUFFICES ASSUME TriesInv, [Next]_vars PROVE TriesInv'
  OBVIOUS
<1>1. QcInv'
  BY QcStep DEF TriesInv
<1>2. tries \in [Reporter -> Nat] /\ MaxAttempt \in Nat /\ \A r \in Reporter : tries[r] <= MaxAttempt
  BY QcAssumption DEF TriesInv, QcInv, TypeOK
<1>3. ASSUME NEW p \in Process, Start(p) \/ Step(p)
      PROVE  \/ tries' = tries \/ tries' = [tries EXCEPT ![p] = 0]
             \/ tries[p] < MaxAttempt /\ tries' = [tries EXCEPT ![p] = @ + 1]
  BY <1>3 DEF Start, Step, Uploads, Reports, Fails, Again
<1>4. CASE \E p \in Process : Start(p) \/ Step(p)
  BY <1>1, <1>2, <1>3, <1>4 DEF TriesInv
<1>5. CASE UNCHANGED vars
  BY <1>1, <1>2, <1>5 DEF TriesInv, vars
<1>6. QED BY <1>4, <1>5 DEF Next, Rest

VariantOK(p) ==
  /\ Level(p) \in Nat /\ Togo(p) \in Nat /\ Entry(p) \in Nat /\ Attempts(p) \in Nat
  /\ Variant(p) \in [1 .. 4 -> Nat]

LEMMA VariantType == ASSUME NEW p \in Process PROVE TriesInv => VariantOK(p)
<1> SUFFICES ASSUME TriesInv PROVE VariantOK(p)
  OBVIOUS
<1>0. TypeOK /\ \A r \in Reporter : LookedUp(r)
  BY DEF TriesInv, QcInv, ReportInv
<1>1. Level(p) \in Nat /\ Entry(p) \in Nat
  BY <1>0 DEF Level, Entry, TypeOK, Ended, Uploading, Reporting
<1>2. Attempts(p) \in Nat
  BY <1>0, QcAssumption DEF Attempts, TriesInv, TypeOK
<1>3. Togo(p) \in Nat
  <2>1. \A k \in Nat : \A i \in 1 .. k : k + 1 - i \in Nat
    OBVIOUS
  <2>2. ASSUME pc[p] \in {"find_case", "add_instance", "add_run"} PROVE p \in Reporter
    BY <1>0, <2>2 DEF Process, TypeOK, Ended, Uploading
  <2>3. CASE pc[p] = "find_case"
    <3>1. Len(Results[p]) \in Nat /\ at[p] \in 1 .. Len(Results[p])
      BY <1>0, <2>2, <2>3, QcAssumption DEF LookedUp
    <3>2. Togo(p) = Len(Results[p]) + 1 - at[p]
      BY <2>3 DEF Togo
    <3>3. QED BY <2>1, <3>1, <3>2
  <2>4. CASE pc[p] \in {"add_instance", "add_run"}
    <3>1. Len(found[p]) \in Nat /\ at[p] \in 1 .. Len(found[p])
      BY <1>0, <2>2, <2>4, Sized DEF LookedUp, Adding, Sizes
    <3>2. Togo(p) = Len(found[p]) + 1 - at[p]
      BY <2>4 DEF Togo
    <3>3. QED BY <2>1, <3>1, <3>2
  <2>5. CASE pc[p] \notin {"find_case", "add_instance", "add_run"}
    BY <2>5 DEF Togo
  <2>6. QED BY <2>3, <2>4, <2>5
<1>4. QED BY <1>1, <1>2, <1>3 DEF VariantOK, Variant

LEMMA VariantTypeNext == ASSUME NEW p \in Process PROVE TriesInv' => VariantOK(p)'
BY VariantType, PTL

\* One of the four numbers is less, and none before it has changed.
Less(p) ==
  \/ Level(p)' < Level(p)
  \/ Level(p)' = Level(p) /\ Togo(p)' < Togo(p)
  \/ Level(p)' = Level(p) /\ Togo(p)' = Togo(p) /\ Entry(p)' < Entry(p)
  \/ Level(p)' = Level(p) /\ Togo(p)' = Togo(p) /\ Entry(p)' = Entry(p) /\ Attempts(p)' < Attempts(p)

LEMMA LessIsSmaller ==
  ASSUME TriesInv, TriesInv', NEW p \in Process, Less(p)
  PROVE  <<Variant(p)', Variant(p)>> \in Smaller
<1>1. Variant(p) \in [1 .. 4 -> Nat] /\ Variant(p)' \in [1 .. 4 -> Nat]
  BY VariantType, VariantTypeNext DEF VariantOK
<1>2. /\ Variant(p)[1] = Level(p) /\ Variant(p)[2] = Togo(p)
      /\ Variant(p)[3] = Entry(p) /\ Variant(p)[4] = Attempts(p)
      /\ Variant(p)'[1] = Level(p)' /\ Variant(p)'[2] = Togo(p)'
      /\ Variant(p)'[3] = Entry(p)' /\ Variant(p)'[4] = Attempts(p)'
  BY DEF Variant
<1>3. PICK j \in 1 .. 4 :
        /\ \A i \in 1 .. (j - 1) : Variant(p)'[i] = Variant(p)[i]
        /\ Variant(p)'[j] < Variant(p)[j]
  <2>1. CASE Level(p)' < Level(p)
    BY <1>2, <2>1
  <2>2. CASE Level(p)' = Level(p) /\ Togo(p)' < Togo(p)
    BY <1>2, <2>2
  <2>3. CASE Level(p)' = Level(p) /\ Togo(p)' = Togo(p) /\ Entry(p)' < Entry(p)
    BY <1>2, <2>3
  <2>4. CASE /\ Level(p)' = Level(p) /\ Togo(p)' = Togo(p) /\ Entry(p)' = Entry(p)
             /\ Attempts(p)' < Attempts(p)
    BY <1>2, <2>4
  <2>5. QED BY <2>1, <2>2, <2>3, <2>4 DEF Less
<1>4. QED BY <1>1, <1>3, SmallerIf

\* Each call of an uploader is of another kind than those before.
LEMMA UploaderDescends ==
  ASSUME TypeOK, NEW u \in Uploader, Start(u) \/ Step(u)
  PROVE  Level(u)' < Level(u)
<1>0. u \in Process /\ u \notin Reporter /\ pc[u] \in Ended \cup Uploading
  BY QcAssumption DEF Process, TypeOK
<1>1. \A to : Goto(u, to) => pc'[u] = to
  BY <1>0 DEF Goto, TypeOK
<1>2. CASE Start(u)
  <2>1. pc[u] = "idle" /\ pc'[u] = "find_test"
    BY <1>1, <1>2 DEF Start
  <2>2. QED BY <2>1 DEF Level
<1>3. CASE Uploads(u)
  <2>1. CASE GetTestCaseByTCID(u)
    <3>1. pc[u] = "find_test" /\ pc'[u] \in {"add_test", "update_test", "failed"}
      BY <1>1, <2>1 DEF GetTestCaseByTCID
    <3>2. QED BY <3>1 DEF Level
  <2>2. CASE AddTestCase(u) \/ UpdateTestCase(u)
    <3>1. pc[u] \in {"add_test", "update_test"} /\ pc'[u] \in {"find_coverage", "done"}
      BY <1>1, <2>2 DEF AddTestCase, UpdateTestCase, AfterTest
    <3>2. QED BY <3>1 DEF Level
  <2>3. CASE GetReqCoverage(u)
    <3>1. pc[u] = "find_coverage" /\ pc'[u] \in {"done", "add_coverage"}
      BY <1>1, <2>3 DEF GetReqCoverage
    <3>2. QED BY <3>1 DEF Level
  <2>4. CASE AddReqCoverage(u)
    <3>1. pc[u] = "add_coverage" /\ pc'[u] = "done"
      BY <1>1, <2>4 DEF AddReqCoverage
    <3>2. QED BY <3>1 DEF Level
  <2>5. QED BY <1>3, <2>1, <2>2, <2>3, <2>4 DEF Uploads
<1>4. CASE Fails(u)
  <2>1. pc[u] \in Uploading /\ pc'[u] = "failed"
    BY <1>0, <1>1, <1>4 DEF Fails, Active, Raised, Ended, Uploading
  <2>2. QED BY <2>1 DEF Level, Uploading
<1>5. QED BY <1>0, <1>2, <1>3, <1>4 DEF Step

\* The loop over results goes on with a call of one kind, or ends.
LEMMA ReportAtLevel ==
  ASSUME TypeOK, NEW r \in Reporter, NEW k, NEW results, ReportAt(r, k, results)
  PROVE  pc'[r] \in {"done", "add_instance", "add_run"}
<1>1. \A to : Goto(r, to) => pc'[r] = to
  BY DEF Goto, TypeOK, Process
<1>2. QED BY <1>1, ReportsAt

LEMMA NextCaseDescends ==
  ASSUME TypeOK, NEW r \in Reporter, NEW results, NextCase(r, results), pc[r] = "find_case"
  PROVE  Less(r)
<1>1. at \in [Reporter -> Nat] /\ Len(Results[r]) \in Nat
  BY QcAssumption DEF TypeOK
<1>2. CASE at[r] < Len(Results[r])
  <2>1. pc' = pc /\ at'[r] = at[r] + 1
    BY <1>1, <1>2 DEF NextCase
  <2>2. /\ Togo(r) = Len(Results[r]) + 1 - at[r]
        /\ Togo(r)' = Len(Results[r]) + 1 - (at[r] + 1)
    BY <2>1 DEF Togo
  <2>3. Level(r)' = Level(r)
    BY <2>1 DEF Level
  <2>4. QED BY <1>1, <2>2, <2>3 DEF Less
<1>3. CASE ~ (at[r] < Len(Results[r]))
  <2>1. ReportAt(r, 1, results)
    BY <1>3 DEF NextCase
  <2>2. pc'[r] \in {"done", "add_instance", "add_run"}
    BY <2>1, ReportAtLevel
  <2>3. Level(r)' < Level(r)
    BY <2>2 DEF Level
  <2>4. QED BY <2>3 DEF Less
<1>4. QED BY <1>2, <1>3

LEMMA ReporterDescends ==
  ASSUME TriesInv, NEW r \in Reporter, Start(r) \/ Step(r)
  PROVE  Less(r)
<1>0. /\ TypeOK /\ r \in Process /\ r \notin Uploader /\ pc[r] \in Ended \cup Reporting
      /\ at \in [Reporter -> Nat] /\ Len(found[r]) \in Nat
  BY Sized, QcAssumption DEF TriesInv, QcInv, Process, TypeOK, Sizes
<1>1. \A to : Goto(r, to) => pc'[r] = to
  BY <1>0 DEF Goto, TypeOK
<1>2. CASE Start(r)
  <2>1. pc[r] = "idle" /\ pc'[r] \in {"find_set", "get_instances"}
    BY <1>0, <1>1, <1>2 DEF Start
  <2>2. Level(r)' < Level(r)
    BY <2>1 DEF Level
  <2>3. QED BY <2>2 DEF Less
<1>3. CASE Reports(r)
  <2>1. CASE FindTestSet(r) \/ AddTestSet(r) \/ GetTestSetInstances(r)
    <3>1. \/ pc[r] = "find_set" /\ pc'[r] \in {"add_set", "get_instances"}
          \/ pc[r] = "add_set" /\ pc'[r] = "get_instances"
          \/ pc[r] = "get_instances" /\ pc'[r] \in {"failed", "done", "find_case"}
      BY <1>1, <2>1 DEF FindTestSet, AddTestSet, GetTestSetInstances
    <3>2. Level(r)' < Level(r)
      BY <3>1 DEF Level
    <3>3. QED BY <3>2 DEF Less
  <2>2. CASE FindTestCase(r)
    <3>1. pc[r] = "find_case"
      BY <2>2 DEF FindTestCase
    <3>2. CASE \E results : NextCase(r, results)
      BY <1>0, <3>1, <3>2, NextCaseDescends
    <3>3. CASE Goto(r, "failed")
      <4>1. pc'[r] = "failed"
        BY <1>0, <1>1, <3>3
      <4>2. Level(r)' < Level(r)
        BY <3>1, <4>1 DEF Level
      <4>3. QED BY <4>2 DEF Less
    <3>4. QED BY <2>2, <3>2, <3>3 DEF FindTestCase
  <2>3. CASE AddTestToTestSet(r)
    <3>1. pc[r] = "add_instance" /\ pc'[r] = "add_run" /\ UNCHANGED <<found, at>>
      BY <1>1, <2>3 DEF AddTestToTestSet
    <3>2. Level(r)' = Level(r)
      BY <3>1 DEF Level
    <3>3. Togo(r)' = Togo(r)
      BY <3>1 DEF Togo
    <3>4. Entry(r)' < Entry(r)
      BY <3>1 DEF Entry
    <3>5. QED BY <3>2, <3>3, <3>4 DEF Less
  <2>4. CASE AddRunToTestSet(r)
    <3>1. pc[r] = "add_run" /\ at'[r] = at[r] + 1 /\ found' = found
      BY <1>0, <2>4 DEF AddRunToTestSet
    <3>2. pc'[r] \in {"done", "add_instance", "add_run"}
      BY <1>0, <2>4, ReportAtLevel DEF AddRunToTestSet
    <3>3. CASE pc'[r] = "done"
      <4>1. Level(r)' < Level(r)
        BY <3>1, <3>3 DEF Level
      <4>2. QED BY <4>1 DEF Less
    <3>4. CASE pc'[r] \in {"add_instance", "add_run"}
      <4>1. Level(r)' = Level(r)
        BY <3>1, <3>4 DEF Level
      <4>2. /\ Togo(r) = Len(found[r]) + 1 - at[r]
            /\ Togo(r)' = Len(found[r]) + 1 - (at[r] + 1)
        BY <3>1, <3>4 DEF Togo
      <4>3. QED BY <1>0, <4>1, <4>2 DEF Less
    <3>5. QED BY <3>2, <3>3, <3>4
  <2>5. QED BY <1>3, <2>1, <2>2, <2>3, <2>4 DEF Reports
<1>4. CASE Fails(r)
  <2>1. Active(r) /\ (Again(r) \/ Raised(r))
    BY <1>4 DEF Fails
  <2>2. CASE Again(r)
    <3>1. /\ UNCHANGED <<pc, found, at>> /\ tries \in [Reporter -> Nat]
          /\ tries' = [tries EXCEPT ![r] = @ + 1] /\ MaxAttempt \in Nat
      BY <1>0, <2>2, QcAssumption DEF Again, TypeOK
    <3>2. Level(r)' = Level(r) /\ Entry(r)' = Entry(r)
      BY <3>1 DEF Level, Entry
    <3>3. Togo(r)' = Togo(r)
      BY <3>1 DEF Togo
    <3>4. Attempts(r) = MaxAttempt - tries[r] /\ Attempts(r)' = MaxAttempt - (tries[r] + 1)
      BY <3>1 DEF Attempts
    <3>5. Attempts(r)' < Attempts(r)
      BY <3>1, <3>4
    <3>6. QED BY <3>2, <3>3, <3>5 DEF Less
  <2>3. CASE pc[r] = "find_case" /\ NextCase(r, found[r])
    BY <1>0, <2>3, NextCaseDescends
  <2>4. CASE \/ pc[r] = "find_set" /\ Goto(r, "add_set")
             \/ Goto(r, "failed")
    <3>1. \/ pc[r] = "find_set" /\ pc'[r] = "add_set"
          \/ pc[r] \in Reporting /\ pc'[r] = "failed"
      BY <1>0, <1>1, <2>1, <2>4 DEF Active
    <3>2. Level(r)' < Level(r)
      BY <3>1 DEF Level, Reporting
    <3>3. QED BY <3>2 DEF Less
  <2>5. QED BY <2>1, <2>2, <2>3, <2>4 DEF Raised
<1>5. QED BY <1>0, <1>2, <1>3, <1>4 DEF Step

\* Nobody's call gives another process more to do.
LEMMA VariantKept ==
  ASSUME TriesInv, NEW p \in Process, Start(p) \/ Step(p), NEW q \in Process \ {p}
  PROVE  Variant(q)' = Variant(q)
<1>0. TypeOK /\ InRange
  BY Ranged DEF TriesInv, QcInv
<1>1. Others(p)
  BY <1>0, StepAdds
<1>2. pc'[q] = pc[q] /\ (q \in Reporter => found'[q] = found[q] /\ at'[q] = at[q])
  BY <1>1 DEF Others
<1>3. q \in Reporter => tries'[q] = tries[q]
  <2>1. tries \in [Reporter -> Nat]
    BY <1>0 DEF TypeOK
  <2>2. \/ tries' = tries \/ tries' = [tries EXCEPT ![p] = 0]
        \/ tries' = [tries EXCEPT ![p] = @ + 1]
    BY DEF Start, Step, Uploads, Reports, Fails, Again
  <2>3. QED BY <2>1, <2>2
<1>4. Level(q)' = Level(q) /\ Entry(q)' = Entry(q)
  BY <1>2 DEF Level, Entry
<1>5. Togo(q)' = Togo(q)
  <2>1. pc[q] \in {"find_case", "add_instance", "add_run"} => q \in Reporter
    BY <1>0 DEF Process, TypeOK, Ended, Uploading
  <2>2. CASE pc[q] \in {"find_case", "add_instance", "add_run"}
    BY <1>2, <2>1, <2>2 DEF Togo
  <2>3. CASE pc[q] \notin {"find_case", "add_instance", "add_run"}
    BY <1>2, <2>3 DEF Togo
  <2>4. QED BY <2>2, <2>3
<1>6. Attempts(q)' = Attempts(q)
  BY <1>3 DEF Attempts
<1>7. QED BY <1>4, <1>5, <1>6 DEF Variant

\* What a step of the system does to what is left to do.
LessToDo ==
  \A p \in Process : Start(p) \/ Step(p) =>
    /\ <<Variant(p)', Variant(p)>> \in Smaller
    /\ \A q \in Process \ {p} : Variant(q)' = Variant(q)

\* addtc.py:50-73, robot2qc.py:65-99, retry.py: every call, answered or not,
\* leaves its process less to do, in an order in which nothing descends for ever,
\* and no other process more, however many calls fail and whatever the server
\* holds: no upload and no report goes on for ever.
THEOREM Descent ==
  /\ IsWellFoundedOn(Smaller, [1 .. 4 -> Nat])
  /\ Spec => [][LessToDo]_vars
<1>1. TriesInv /\ TriesInv' => LessToDo
  <2> SUFFICES ASSUME TriesInv, TriesInv', NEW p \in Process, Start(p) \/ Step(p)
               PROVE  /\ <<Variant(p)', Variant(p)>> \in Smaller
                      /\ \A q \in Process \ {p} : Variant(q)' = Variant(q)
    BY DEF LessToDo
  <2>1. Less(p)
    <3>1. CASE p \in Uploader
      <4>1. Level(p)' < Level(p)
        BY <3>1, UploaderDescends DEF TriesInv, QcInv
      <4>2. QED BY <4>1 DEF Less
    <3>2. CASE p \in Reporter
      BY <3>2, ReporterDescends
    <3>3. QED BY <3>1, <3>2 DEF Process
  <2>2. QED BY <2>1, LessIsSmaller, VariantKept
<1>2. Spec => [][LessToDo]_vars
  BY <1>1, TriesInit, TriesStep, PTL DEF Spec
<1>3. QED BY <1>2, SmallerWellFounded
=============================================================================
