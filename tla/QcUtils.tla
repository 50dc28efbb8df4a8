------------------------------ MODULE QcUtils ------------------------------
(***************************************************************************)
(* src/qcutils/qcutils-0.1.0: uploads and reports to Quality Center.       *)
(*                                                                         *)
(* An uploader (addtc, REST) looks for a test case of its id in its folder *)
(* and adds or updates it, then links it to a requirement if it is not     *)
(* linked yet.  A reporter (robot2qc, SOAP) finds or adds a test set, asks *)
(* once which tests are in it, looks up the case of each result, and then  *)
(* adds what is missing and a run for each.  Nobody holds a lock.  A SOAP  *)
(* call without an answer is repeated, also when it has taken effect.      *)
(***************************************************************************)
EXTENDS Naturals, Sequences, FiniteSets

CONSTANTS Uploader, Reporter,  \* processes
          Tc, Path,            \* test case ids, folders
          Upload,     \* Upload[u]: id, folder, and whether a requirement is given
          Results,    \* Results[r]: the test case ids in output.xml, or NoId
          SetId,      \* SetId[r]: the --set-id, or 0 for --set
          Tests0, Sets0,   \* what Quality Center may hold at first
          MaxAttempt, \* attempts after the first (40)
          Teams,      \* the sets of processes that may meet
          Flaky,      \* the processes of which calls may fail
          MaxLost     \* bound: how many calls may fail

Process == Uploader \cup Reporter
Nobody == "nobody"
NoId == "blank"
TestCase == [tc : Tc, path : Path, by : Uploader \cup {Nobody}]

ASSUME QcAssumption ==
  /\ Uploader \cap Reporter = {} /\ Nobody \notin Process
  /\ Upload \in [Uploader -> [tc : Tc, path : Path, req : BOOLEAN]]
  /\ NoId \notin Tc /\ Results \in [Reporter -> Seq(Tc \cup {NoId})] /\ SetId \in [Reporter -> Nat]
  /\ Tests0 \subseteq Seq([tc : Tc, path : Path, by : {Nobody}]) /\ Sets0 \subseteq Seq({Nobody})
  /\ Teams \subseteq SUBSET Process
  /\ MaxAttempt \in Nat /\ Flaky \subseteq Process /\ MaxLost \in Nat

VARIABLES
  tests,      \* test cases; ids of everything are numbers in order of addition
  links,      \* requirement coverages: which test, by whom
  sets,       \* test sets of the path and name: by whom
  instances,  \* test instances: of which test in which set, by whom
  runs,       \* runs: in which instance and set, by whom, of which result
  pc,         \* the call a process is about to make
  tries,      \* attempt of RetryDelay
  target,     \* the test an uploader has found or added
  set,        \* testset_qcid
  known,      \* already_added_cases: of the first so many instances
  found,      \* results, with the test of each
  at,         \* which result a reporter has come to
  instance,   \* instance_qcid, where it was added
  lost,       \* history: the calls without an answer
  overlap     \* history: the pairs of processes that ran at the same time

server == <<tests, links, sets, instances, runs>>
local == <<target, set, known, found, at, instance>>
vars == <<server, pc, tries, local, lost, overlap>>

Ended == {"absent", "idle", "done", "failed"}
Active(p) == pc[p] \notin Ended

Init ==
  /\ tests \in Tests0 /\ sets \in Sets0
  /\ links = <<>> /\ instances = <<>> /\ runs = <<>>
  /\ \E team \in Teams :
       pc = [p \in Process |-> IF p \in team THEN "idle" ELSE "absent"]
  /\ tries = [r \in Reporter |-> 0]
  /\ target = [u \in Uploader |-> 0]
  /\ set = SetId
  /\ known = [r \in Reporter |-> 0]
  /\ found = [r \in Reporter |-> <<>>]
  /\ at = [r \in Reporter |-> 1]
  /\ instance = [r \in Reporter |-> 0]
  /\ lost = {} /\ overlap = {}

Goto(p, to) == pc' = [pc EXCEPT ![p] = to]

\* initialize_client and the reading of the arguments.
Start(p) ==
  /\ pc[p] = "idle"
  /\ Goto(p, IF p \in Uploader THEN "find_test"
             ELSE IF SetId[p] = 0 THEN "find_set" ELSE "get_instances")
  /\ overlap' = overlap \cup {{p, q} : q \in {x \in Process : Active(x)}}
  /\ UNCHANGED <<server, tries, local, lost>>

-----------------------------------------------------------------------------
(* Quality Center, as far as the clients use it: what a call changes *)

Serve(p) ==
  \/ /\ pc[p] = "add_test"
     /\ tests' = Append(tests, [tc |-> Upload[p].tc, path |-> Upload[p].path, by |-> p])
     /\ UNCHANGED <<links, sets, instances, runs>>
  \/ /\ pc[p] = "add_coverage"
     /\ links' = Append(links, [test |-> target[p], by |-> p])
     /\ UNCHANGED <<tests, sets, instances, runs>>
  \/ /\ pc[p] = "add_set"
     /\ sets' = Append(sets, p)
     /\ UNCHANGED <<tests, links, instances, runs>>
  \/ /\ pc[p] = "add_instance"
     /\ instances' = Append(instances,
                       [set |-> set[p], test |-> found[p][at[p]].test, by |-> p])
     /\ UNCHANGED <<tests, links, sets, runs>>
  \/ /\ pc[p] = "add_run"
     /\ runs' = Append(runs, [inst |-> instance[p], set |-> set[p], by |-> p,
                              result |-> found[p][at[p]].result])
     /\ UNCHANGED <<tests, links, sets, instances>>
  \/ /\ pc[p] \in {"find_test", "update_test", "find_coverage", "find_set",
                   "get_instances", "find_case"}
     /\ UNCHANGED server

-----------------------------------------------------------------------------
(* AddTestCase.run: what an uploader makes of the answers *)

AfterTest(u) == IF Upload[u].req THEN "find_coverage" ELSE "done"

MutSame(u) == {i \in DOMAIN tests : tests[i].tc = Upload[u].tc /\ tests[i].by = u}
Same(u) == {i \in DOMAIN tests :
              tests[i].tc = Upload[u].tc /\ tests[i].path = Upload[u].path}

\* getTestCaseByTCID raises if there is more than one.
GetTestCaseByTCID(u) ==
  /\ pc[u] = "find_test"
  /\ \/ Same(u) = {} /\ Goto(u, "add_test") /\ UNCHANGED target
     \/ \E i \in Same(u) : /\ Same(u) = {i}
                           /\ target' = [target EXCEPT ![u] = i]
                           /\ Goto(u, "update_test")
     \/ Cardinality(Same(u)) > 1 /\ Goto(u, "failed") /\ UNCHANGED target

AddTestCase(u) ==
  /\ pc[u] = "add_test"
  /\ target' = [target EXCEPT ![u] = Len(tests')]
  /\ Goto(u, AfterTest(u))

\* Name and priority, which nothing here depends on.
UpdateTestCase(u) ==
  /\ pc[u] = "update_test"
  /\ Goto(u, AfterTest(u))
  /\ UNCHANGED target

GetReqCoverage(u) ==
  /\ pc[u] = "find_coverage"
  /\ Goto(u, IF \E i \in DOMAIN links : links[i].test = target[u]
             THEN "done" ELSE "add_coverage")
  /\ UNCHANGED target

AddReqCoverage(u) ==
  /\ pc[u] = "add_coverage"
  /\ Goto(u, "done")
  /\ UNCHANGED target

Uploads(u) ==
  /\ Serve(u)
  /\ \/ GetTestCaseByTCID(u) \/ AddTestCase(u) \/ UpdateTestCase(u)
     \/ GetReqCoverage(u) \/ AddReqCoverage(u)
  /\ UNCHANGED <<tries, set, known, found, at, instance, lost, overlap>>

-----------------------------------------------------------------------------
(* RobotToQcReporter._report: what a reporter makes of the answers *)

\* already_added_cases, in which the last instance of a test counts.
MutAlready(r, test) == {i \in 1 .. known[r] : instances[i].test = test}
Already(r, test) ==
  {i \in 1 .. known[r] : instances[i].set = set[r] /\ instances[i].test = test}

MutReportAt(r, k, results) ==
  IF k >= Len(results)
  THEN Goto(r, "done") /\ UNCHANGED instance
  ELSE Goto(r, "add_instance") /\ UNCHANGED instance

\* The loop over results, from position k on.
ReportAt(r, k, results) ==
  IF k > Len(results)
  THEN Goto(r, "done") /\ UNCHANGED instance
  ELSE LET I == Already(r, results[k].test) IN
       IF I = {} THEN Goto(r, "add_instance") /\ UNCHANGED instance
       ELSE /\ Goto(r, "add_run")
            /\ \E i \in I : /\ \A x \in I : x <= i
                            /\ instance' = [instance EXCEPT ![r] = i]

MutNextCase(r, results) ==
  /\ found' = [found EXCEPT ![r] = results]
  /\ IF results = found[r]
     THEN UNCHANGED <<at, pc, instance>>
     ELSE IF at[r] < Len(Results[r])
     THEN at' = [at EXCEPT ![r] = @ + 1] /\ UNCHANGED <<pc, instance>>
     ELSE at' = [at EXCEPT ![r] = 1] /\ ReportAt(r, 1, results)

\* The loop over self.results: what becomes of the case that was looked up.
NextCase(r, results) ==
  /\ found' = [found EXCEPT ![r] = results]
  /\ IF at[r] < Len(Results[r])
     THEN /\ at' = [at EXCEPT ![r] = @ + 1]
          /\ UNCHANGED <<pc, instance>>
     ELSE /\ at' = [at EXCEPT ![r] = 1]
          /\ ReportAt(r, 1, results)

MutFindTestSet(r) ==
  /\ pc[r] = "find_set"
  /\ IF Len(sets) > 1
     THEN set' = [set EXCEPT ![r] = 1] /\ Goto(r, "get_instances")
     ELSE Goto(r, "add_set") /\ UNCHANGED set
  /\ UNCHANGED <<known, found, at, instance>>

\* None or several raise an exception, for which the answer is AddTestSet.
FindTestSet(r) ==
  /\ pc[r] = "find_set"
  /\ IF Len(sets) = 1
     THEN set' = [set EXCEPT ![r] = 1] /\ Goto(r, "get_instances")
     ELSE Goto(r, "add_set") /\ UNCHANGED set
  /\ UNCHANGED <<known, found, at, instance>>

AddTestSet(r) ==
  /\ pc[r] = "add_set"
  /\ set' = [set EXCEPT ![r] = Len(sets')]
  /\ Goto(r, "get_instances")
  /\ UNCHANGED <<known, found, at, instance>>

MutGetTestSetInstances(r) ==
  /\ pc[r] = "get_instances"
  /\ Goto(r, IF Results[r] = <<>> THEN "done" ELSE "find_case")
  /\ UNCHANGED <<set, known, found, at, instance>>

\* Quality Center refuses an id that it does not know.
GetTestSetInstances(r) ==
  /\ pc[r] = "get_instances"
  /\ IF set[r] \notin DOMAIN sets THEN Goto(r, "failed") /\ UNCHANGED known
     ELSE /\ known' = [known EXCEPT ![r] = Len(instances)]
          /\ Goto(r, IF Results[r] = <<>> THEN "done" ELSE "find_case")
  /\ UNCHANGED <<set, found, at, instance>>

\* In whatever folder.
Matching(r) == {i \in DOMAIN tests : tests[i].tc = Results[r][at[r]]}

\* The handler of the exception that a blank id raises names an id that the first
\* result has not given yet, and so raises another.
Unbound(r) == at[r] = 1 /\ Results[r][1] = NoId

\* A case that is not unique is left out, and so is any other result without an id.
FindTestCase(r) ==
  /\ pc[r] = "find_case"
  /\ \/ Unbound(r) /\ Goto(r, "failed") /\ UNCHANGED <<found, at, instance>>
     \/ /\ ~ Unbound(r)
        /\ \/ \E i \in Matching(r) :
                /\ Matching(r) = {i}
                /\ NextCase(r, Append(found[r], [result |-> at[r], test |-> i]))
           \/ Cardinality(Matching(r)) # 1 /\ NextCase(r, found[r])
  /\ UNCHANGED <<set, known>>

AddTestToTestSet(r) ==
  /\ pc[r] = "add_instance"
  /\ instance' = [instance EXCEPT ![r] = Len(instances')]
  /\ Goto(r, "add_run")
  /\ UNCHANGED <<set, known, found, at>>

\* already_added_cases is not brought up to date.
AddRunToTestSet(r) ==
  /\ pc[r] = "add_run"
  /\ at' = [at EXCEPT ![r] = @ + 1]
  /\ ReportAt(r, at'[r], found[r])
  /\ UNCHANGED <<set, known, found>>

Reports(r) ==
  /\ Serve(r)
  /\ \/ FindTestSet(r) \/ AddTestSet(r) \/ GetTestSetInstances(r)
     \/ FindTestCase(r) \/ AddTestToTestSet(r) \/ AddRunToTestSet(r)
  /\ tries' = [tries EXCEPT ![r] = 0]
  /\ UNCHANGED <<target, lost, overlap>>

-----------------------------------------------------------------------------
(* Calls that fail *)

\* What the exception ends: the look-up of the set, of one case, or all.
Raised(p) ==
  \/ pc[p] = "find_set" /\ Goto(p, "add_set") /\ UNCHANGED <<found, at, instance>>
  \/ pc[p] = "find_case" /\ NextCase(p, found[p])
  \/ /\ pc[p] \notin {"find_set", "find_case"}
     /\ Goto(p, "failed") /\ UNCHANGED <<found, at, instance>>

\* _QcXmlApiCall: wait, initialize and call again.
Again(r) ==
  /\ tries[r] < MaxAttempt
  /\ tries' = [tries EXCEPT ![r] = @ + 1]
  /\ UNCHANGED <<pc, found, at, instance>>

\* Refused, or without an answer: before or after it took effect.  Retries end
\* when there have been enough or when initialize fails; REST has none.  Nothing is
\* asked about a blank id.
Fails(p) ==
  /\ Active(p) /\ p \in Flaky
  /\ pc[p] = "find_case" => Results[p][at[p]] # NoId
  /\ Cardinality(lost \cup {<<p, pc[p]>>}) <= MaxLost
  /\ lost' = lost \cup {<<p, pc[p]>>}
  /\ Serve(p) \/ UNCHANGED server
  /\ \/ p \in Reporter /\ Again(p)
     \/ /\ Raised(p)
        /\ tries' = IF p \in Reporter THEN [tries EXCEPT ![p] = 0] ELSE tries
  /\ UNCHANGED <<target, set, known, overlap>>

-----------------------------------------------------------------------------
Step(p) == (p \in Uploader /\ Uploads(p)) \/ (p \in Reporter /\ Reports(p)) \/ Fails(p)

Rest == (\A p \in Process : ~ Active(p)) /\ UNCHANGED vars

Next == (\E p \in Process : Start(p) \/ Step(p)) \/ Rest

Spec == Init /\ [][Next]_vars

\* A call returns or fails at some time: suds and requests raise by themselves.
FairSpec == Spec /\ \A p \in Process : WF_vars(Step(p))

-----------------------------------------------------------------------------
(* Properties *)

Together(p, q) == {p, q} \in overlap
Lost(p, call) == <<p, call>> \in lost

\* addtc.py:56-73: a test case is added to a folder, or linked, a second time
\* only by uploaders that run at the same time; one that was there at first is
\* never added again.
UploadedOnce ==
  /\ \A i, k \in DOMAIN tests :
       i < k /\ tests[k].by # Nobody
         /\ tests[i].tc = tests[k].tc /\ tests[i].path = tests[k].path =>
           Together(tests[i].by, tests[k].by)
  /\ \A i, k \in DOMAIN links :
       i # k /\ links[i].test = links[k].test => Together(links[i].by, links[k].by)

\* robot2qc.py:69-73: a second test set comes from reporters that run at the
\* same time, or from one whose look-up or addition was not answered.  (Once
\* there are two, every further report adds another.)
OneSet ==
  Len(sets) > 1 /\ sets[2] # Nobody =>
    \/ Together(sets[1], sets[2])
    \/ Lost(sets[2], "find_set") \/ Lost(sets[2], "add_set")

\* robot2qc.py:74, 95-98: a test is in a set twice only if reporters of it ran
\* at the same time, an addition was not answered, or one report has it twice.
Twice(r) == \E n, k \in DOMAIN Results[r] : n # k /\ Results[r][n] = Results[r][k]

OneInstance ==
  \A i, k \in DOMAIN instances :
    i < k /\ instances[i].set = instances[k].set /\ instances[i].test = instances[k].test =>
      LET r == instances[k].by IN
        IF instances[i].by = r THEN Lost(r, "add_instance") \/ Twice(r)
        ELSE Together(instances[i].by, r)

\* robot2qc.py:92-99: every run is of the test of its result and in the set of
\* its reporter, and there is one for each result unless an answer was lost.
RunsBelong ==
  /\ \A i \in DOMAIN runs :
       LET r == runs[i].by  inst == instances[runs[i].inst] IN
         /\ runs[i].set = set[r] /\ inst.set = set[r]
         /\ tests[inst.test].tc = Results[r][runs[i].result]
  /\ \A i, k \in DOMAIN runs :
       i # k /\ runs[i].by = runs[k].by /\ runs[i].result = runs[k].result =>
         Lost(runs[i].by, "add_run")

\* robot2qc.py:78-90: a report that ends well has a run of each result, but for
\* those of which the look-up was not answered or whose test case is not unique
\* or just being uploaded.
Reported(r, n) == \E i \in DOMAIN runs : runs[i].by = r /\ runs[i].result = n

ReportedInFull ==
  [][\A r \in Reporter :
       pc[r] # "done" /\ pc'[r] = "done" =>
         \A n \in DOMAIN Results[r] :
           \/ Reported(r, n)'
           \/ Lost(r, "find_case")'
           \/ Cardinality({i \in DOMAIN tests : tests[i].tc = Results[r][n]}) # 1
           \/ \E u \in Uploader : Together(u, r) /\ Upload[u].tc = Results[r][n]]_vars

\* qcxmlclient.py:77-90: with its retries bounded, every upload and report ends.
Ends == \A p \in Process : Active(p) ~> ~ Active(p)
=============================================================================
