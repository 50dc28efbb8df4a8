# cciscript in TLA+

cciscript is the toolbox of a continuous-integration service: scripts that check
out the subsystems of a product, compile and test them, and promote the versions
that passed to the trunks.  This directory holds TLA+ modules of the parts with
a logic of their own, the TLC runs that check them and proofs of the theorems
that matter most.

Contents: [parts](#the-system-and-its-parts), [modules](#modules),
[runs](#runs), [what the runs refute](#disagreements-with-the-code),
[proofs](#proofs), [what is left out](#what-is-not-modelled-and-why),
[plan](#plan).

## The system and its parts

| part | state it keeps | operations | interacts with | status |
|---|---|---|---|---|
| Promotion: `promote/promote.sh`, `promote/PCIQueue.py` | a MySQL queue table; the trunk of each git repository; local clones | push (fetch, queue push, queue check, merge), forced push | other promotions through table and trunks; SCM pops rows | modelled |
| Choice of subsystems: `checkout/checkout.py` | the set to check out, the dependency graph, the externals | resolve, divide, locate | writes `external_files` for git_rcpco.sh | partly |
| Gerrit checkout: `checkout/git_rcpco.sh` | a fifo of tokens, `rcp_external`, a git repository per module | two pools of background jobs, test versions and their dependencies | run by checkout.py; git, gerrit | modelled |
| Compilation: `checkout/compile.sh` | a fifo of tokens, repositories, `dependency.txt`, `rev.txt` | checkout, dependencies, compile, ut, result | git, dashboard database, gerrit; its rev.txt is what promote.sh reads; calls make and svn helpers (not modelled) | modelled |
| SVN promotion: `promote/cci_promote.sh`, `common/gerrit.py` | a queue, svn trunks, gerrit changes | dependencies, push, popall, svn del and cp, review, submit | other runs through queue, trunks and gerrit | modelled (rebase, which nothing calls, is not) |
| SMT: `oam/smt.py`, mail: `oam/send_mail.py`, `common/mail.py` | a pool of workers; remote tasks | trigger, poll, mail, promote | task server, Jenkins, mail servers | modelled |
| QC utilities: `qcutils/qcutils-0.1.0` | test cases, sets, instances and runs in Quality Center | addtc: find, add or update, link; robot2qc: find, add, report, with retries | Quality Center, and through it each other | modelled |
| Functional tests: `ft/rcpft.sh` | the list of tasks | create, poll, collect | the task server, Jenkins | partly |
| OpenStack usage: `openstack-usage/nova_compute.py`, `history_handling.py`, `reports.py` | a worker process and a queue per address; a YAML file of records; a sqlite table | sample the projects of a host, record, insert; rebuild or complete the table; write two pages | OpenStack, ssh; other runs through file and table | modelled |
| Heat stacks: `old_script/heat_operator.py` | none | create, delete, wait | OpenStack | not modelled |
| docker, image, make rules, certificates, old helper scripts | none | commands | | not modelled |

What makes each of the modelled parts right:

- **Promotion.**  Nobody merges before the revisions it depends on have been
  promoted into the queue; success means that everything in rev.txt is on the
  trunks; trunks lose nothing unless forced; promotions that need each other, or
  that race for the same trunks, do not all fail.
- **SVN promotion.**  A trunk that was deleted comes back; a branch replaces a trunk and is not
  put into it; no row is forgotten; dependencies come along.
- **Choice of subsystems.**  The set is the closure of the requests, neither more nor
  less, in whatever order sets are iterated; everything needed comes from exactly
  one place or is warned of; but a gerrit subsystem without an external comes from
  nowhere, and no warning says so.
- **Gerrit checkout.**  Tokens are not lost; the second pool reads a complete
  `rcp_external`; a module ends on its branch, or on the version asked for last.
- **Compilation.**  What is compiled is what was asked for, whatever earlier builds left
  in the workspace; rev.txt, from which builds are promoted, names what was compiled.
- **Functional tests.**  Each task is on the list until its output is noted, once and when it is
  complete; a failure has a reason; the wait ends.
- **SMT and mail.**  A build is promoted only if everything passed, and then unless the run ends on
  an exception before the promotion (of the mail, for one); mails say what happened, and say it once.
- **QC utilities.**  A report that ends well is complete and its runs are where they belong;
  duplicates come from lost answers or from processes that run at the same time, and from
  nothing else.
- **OpenStack usage.**  A sample that was taken is not lost: the file keeps the newest
  entries, the table all rows, unless runs meet, are killed or the administrator
  rewrites the table; the pages add up to what the table holds,
  but for hours that their columns leave out; a run ends.

The hard behaviour is the interleaving of promotions that share a table and
trunks without a lock, with partial failure at every command; the iteration order
of Python sets over cyclic graphs; and background jobs with retries over
repositories whose FETCH_HEAD outlives a failed command; remote tasks whose
answers are lost or late; a file that several processes read, truncate and write.

## Modules

### Promote (promote.sh, PCIQueue.py) and TrunkPromise

A promotion `j` is a Jenkins build.  `Own[j]`, `Rev[j]` are its `$subsystem` and
its rev.txt; repositories are numbered in the order `sort` gives them, the order
of both loops.  `trunk[s]` is the set of commits reachable from the remote trunk,
`seen[j][s]` its local `origin/trunk`.  The queue table is `row`: a row is named by the
promotion that inserted it, and found by its key (`Subsystem`,
`PromoteVersion`).

| action | code |
|---|---|
| `Fetch` | one turn of promote.sh:76-93: `checkSubExist`, then the dependency test |
| `Select`, `Write` | `Actions.push`: SELECT, then UPDATE of the row found or INSERT |
| `List`, `OwnRow` | `Actions.check`: the two SELECTs and the comparison |
| `Skip`, `Push`, `Rejected`, `ForcePush` | one turn of promote.sh:124-129, `mergeToTrunk` |
| `Abort` | `_exit 1` of any command that fails, or the build being killed |
| `SqlError` | `MysqlOperator.execute` printing a failed statement and going on |
| `Pop` | SCM taking a row out of the queue (PCIQueue.py:136) |

Abstractions: `LIKE '%...%'` and the 7 or 8 characters of a revision match the same
subsystem and revision; the two SELECTs of `check` are separate steps, which
allows every state a database isolation level allows; `PushTime` has whole seconds,
so two rows may have the same; a merge commit is named by the promotion that made
it.  History variables: `pushed`, `cut` (trunks that lost commits), `disturbed` (a
fault has happened).

`TrunkPromise` is what a reader of the trunks is promised: a trunk grows by one
whole revision at a time, only a forced promotion replaces it, and "promoted"
means landed.  It is deliberately not all-or-nothing: a promotion that stops may leave some
of its repositories promoted, since promote.sh:128 pushes them one by one.
`Promote` implements it under the mapping `result[j]` = running, promoted or
stopped.

### CciPromote (cci_promote.sh, gerrit.py)

A run `j` is a Jenkins build; `Push[j]` is what it pushes, once or (for "common") twice, with
the other lines of rev.txt.  `deps` is the shell variable, which the second push does not
reset.  `missing` and `nested` are the trunks that are deleted, and that hold a copy of a
branch, which is what `svn cp` to an existing path makes.  The other sets are history.

| action | code |
|---|---|
| `Depend` | a turn of 88-101; without an answer of svn log, `test` is false |
| `PushRow`, `PushFails` | 103-118, where `exit $?` follows an echo |
| `PopAll`, `PopAllFails` | 133-142 |
| `Delete`, `Copy` | 148-151, whose status nobody looks at |
| `Mergeable`, `Unmergeable`, `Review`, `ReviewFails`, `Submit` | 49-67 and the methods of gerrit.py |
| `NextRow`, `Kill` | the loop at 140; the build being aborted |

The queue tool of this script is an older PCIQueue.py outside of the repository.  Of its
push it is assumed that it inserts or replaces the row of a subsystem and version, of
popall that no row comes out before the rows it depends on, in any order otherwise.
Revision numbers are kept as far as line 98 compares them: whatever is committed after the
builds is newer than all that was built.

### Checkout (checkout.py)

`Request`, `Kid` and `Return` are the recursion of `resolve_dependencies`, with an
explicit stack whose frames hold what each `for kid in ...` has still to visit; any
member may be next.  `chosen` is `subsystems_to_checkout`, which is
passed as `already_resolved`, so both are one set.  `Divide` is a turn of the loop at
449, `Locate` of the loop at 468.  The graph and the two dictionaries of externals are
chosen in `Init`, the parsing that produces them is not modelled.  A cycle in the graph
is possible: `fetch_dependency_graph` only rules out a subsystem that depends on
itself.

The base subsystems are in `already_resolved` from the start, so a base
subsystem that nobody requests does not bring its own dependencies along.
`Complete` says so, and with that `ResolvedExactly` is exact.

### Rcpco (git_rcpco.sh)

The script (`Main`) and one background job per module and pool.  `tokens` is the content
of the fifo, `job[p][m]` the program counter of a job, `tries` the `cur_try` of the
retry_cmd a process is in.  `external[m]` is what `grep -m 1` finds of a module in
rcp_external: a line of this run, a stale one or none.  `fetched` and `head` are
FETCH_HEAD and HEAD.

| action | code |
|---|---|
| `NoGitlab`, `Gitlabs` | `clglbsubs` and `rm -fr rcp_external` (54-71, 114) |
| `Start`, `Wait`, `PutBack` | the loops at 115 and 160 with `read -u6`, `echo >&6`, `wait` |
| `WriteExternal` | `clonesub` |
| `FetchMap`, `FetchBranch`, `CheckoutHead` | `checkoutsub` |
| `TestFetch`, `TestHead`, `DependencyLookup`, `DependencyFetch`, `DependencyHead`, `TestNext` | lines 171-195 |
| `Finish` | lines 196-200 |

Whether a failed fetch leaves FETCH_HEAD or empties it depends on the git version, and
both are possible.  Line 67 is unreachable, so it is no action.  `git checkout` of an
existing commit is taken to succeed.  gerrit may answer about a dependency or not
(`DependencyLookup`): without a `depfetch` the default head is fetched, and without a project
git works in no repository and fails.  The links from the workspace are not modelled.

### Compile (compile.sh)

`Script` is the main program, `Job(p, i)` the background job of line i of pool p.  `tokens`
is the fifo, which both pools share.  `head` and `fetched` are HEAD and FETCH_HEAD of each
module as earlier builds left them: no repository, or an old version.  `lines` is
dependency.txt, `todo` what a loop over it has still to visit, `rev` is rev.txt.  `failed` is
history: the fetches that failed, of which the script takes no notice.

| action | code |
|---|---|
| `CheckEnv`, `CheckEnvFails` | `checkenv`, and the cloudil branch of `get_fp_modules` |
| `Start`, `Wait`, `PutBack` | the loops at 134 and 169 with `read -u6`, `echo >&6`, `wait` |
| `Foreign`, `ConfigFetch`, `ConfigHead` | the bodies of those loops |
| `OwnFetch`, `OwnHead` | 195-202: the version under test, the copy of SS_ILProduct |
| `Group`, `Depend`, `Listed` | `get_dependency_list`: dashboard, then gerrit per dependency |
| `OwnRev`, `SwitchFetch`, `SwitchHead`, `SwitchNothing`, `Switched` | `switch_depenency_version` |
| `NoTemplate`, `Run`, `CheckResult` | `run`, `check_result` |

`SwitchNothing` is a line without a module, which an empty answer of gerrit writes: git
then works in no repository.  A failed fetch keeps FETCH_HEAD or empties it.  A
checkout of an existing FETCH_HEAD is taken to succeed.  What compiler and tests do is
one choice of log, report and exit code.

### FtWait (rcpft.sh)

`list` is TASK_LIST and `round` the words of the `for` that is running, which were fixed
when it began.  `ended`, `over`, `logged` belong to the task server and to Jenkins
(`FtTaskEnds`, `BuildOver`, external).  `unheard` and `given` are
history: the queries without an answer, and the ids that came to the list.
`within` says in which id another one occurs, since line 188 deletes a
finished id inside every word; what remains of such a word is the id of a task of
somebody else (`Other`).  What Smt too has a name for is written with `Ft` in this module
(`FtTask`, `ftPhase`, `FtNext`), so that one proof module can be about both.

| action | code |
|---|---|
| `Create`, `CreateUnanswered` | `create_ft_task`, and once more `do_wordaround_extra_task` |
| `NextRound`, `AskStatus`, `StillBuilding` | 156-170 |
| `Collect`, `EndedWithoutLog` | 171-188 |
| `Merge` | 193-197 |

### Smt (smt.py, send_mail.py, mail.py)

`waiting`, `polled` and `results` are the state of `pool.map`: a worker is only known by the
task it polls.  `at` is the mail server to try next, `delivered` the mails that servers
took.

| action | code |
|---|---|
| `Triggered`, `NotTriggered`, `TriggerFails` | `run_smt` and its exceptions |
| `Take`, `Polled`, `PollFails` | `get_smt_result` in a worker |
| `Mapped` | smt.py:124-130 |
| `Receiver`, `ReceiverFails` | `OamMailSender.send_mail` up to the sending |
| `Deliver`, `QuitFails`, `ServerFails`, `NoServer` | the loop of `MailServer.send_mail` |
| `Promotion`, `PromotionFails` | `call_smt_promotion` |

An exception in one worker ends the whole run.  A status that is neither "done" nor
"error" leaves a worker in its loop.

### QcUtils (qcutils)

`server` is Quality Center, as far as the clients use it: lists that only grow, whose
positions are ids.  `Serve(p)` is what the call that `p` is about to make changes there
(external).  A step of an uploader or reporter is one call together with what the
program does up to the next.  A result with a blank id (`NoId`) asks nothing: it is left out, but as
the first result it ends the report, since the handler names an id that is not bound yet
(`Unbound`, robot2qc.py:81-89).

| action | code |
|---|---|
| `GetTestCaseByTCID`, `AddTestCase`, `UpdateTestCase`, `GetReqCoverage`, `AddReqCoverage` | addtc.py:51-73 and the methods of qcrestclient.py |
| `FindTestSet`, `AddTestSet`, `GetTestSetInstances`, `FindTestCase`, `AddTestToTestSet`, `AddRunToTestSet` | robot2qc.py:62-101 and the methods of qcxmlclient.py |
| `Fails`, `Again`, `Raised` | `_QcXmlApiCall`, retry.py, and the two `except` of robot2qc.py |

`already_added_cases` is represented by the number of instances there were when it was
read (`known`).  `lost` and `overlap` are history: calls without an answer, and pairs of
processes that ran at the same time.

### Usage (nova_compute.py, history_handling.py) and Reports (reports.py)

A run `r` is one execution of nova_compute.py and stands for its host and its time stamp
`date[r]`, counted in half hours.  `result[r]` is what it found: whether a project has
instances, and whether anybody was logged in.  An entry of the file is the run that wrote it,
a row of the table the pair of project and run.  `overlapped`, `safe`, `dropped`, `called` are
history: updates of the file that met, the runs in the file since the last accident, rows
that loadfile2db dropped, the administrator's calls.

| action | code |
|---|---|
| `Start`, `ControllerDown`, `NextProject`, `NextAddress`, `Sampled` | `OpenstackStatistics.run` in both modes, with the loops over projects and addresses |
| `Login`, `Root`, `Flush` | `SshconnectionProcess.run`: two attempts, and the thread that feeds a `Queue` |
| `Timeout`, `Get` | `join(60)`, `terminate()`, and `return_result` |
| `Exists`, `Create`, `Read`, `Truncate`, `Write` | `report_yaml`, one step for each time the file is looked at |
| `CreateTable`, `Insert` | `report_db` |
| `LoadFile`, `DropTable`, `NewTable`, `SelectMax`, `LoadRows`, `AlterTable` | the three functions of history_handling.py |
| `Kill` | a run that is killed |
| `Query`, `QueryFails`, `WritePage` | one query of a page and what is made of them (Reports) |

Abstractions: counts are reduced to zero or more, which is all the rates ask; `yaml.dump` is
one write; sqlite's own locks are held for less than its five seconds, so no statement fails
for a lock; every row is active.  A worker that was terminated before it had sent its result leaves its run
in `queue.get()` (`Hangs`).  A file that two writers have mixed may be unreadable
(`broken`).  Reports extends Usage, and its pages are written while collectors and
administrator go on.

## Runs

| run | module | states | question |
|---|---|---|---|
| promote_group | MCPromote | 285,000 | three promotions in a circle of dependencies, which may be killed |
| promote_mixed | MCPromote | 3,920,000 | a dependent promotion, the owner of its dependency, a rerun that shares that one's row, a forced promotion, SQL faults, pops, a LIMIT of 2 |
| promote_shared | MCPromote | | refutes `GateForAll` |
| checkout | MCCheckout | 494,000 | all 4096 graphs over four names, three layouts of externals |
| rcpco | MCRcpco | 84,000 | three modules, two tokens, three tries, three tests |
| rcpco_tests | MCRcpco | | refutes `OwnDependenciesOnly` |
| cci | MCCciPromote | 3,880,000 | three runs, two of them for one trunk and one on two platforms, a dependency, a test case; failures of one or two kinds at a time |
| compile | MCCompile | 138,000 | three modules of which one is under test and one is SS_ILProduct, unreadable lists, failing fetches, dependencies on a listed module and on itself |
| qc | MCQcUtils | 500,000 | uploads and reports of one test case, three processes at a time, one kind of call failing, a result without an id |
| test_tasks | MCTestTasks | 30,000 | smt.py: up to four tasks for three workers, two mail servers, every exception; rcpft.sh: one or two tasks, answers lost at every query, an id inside the other |
| usage | MCUsage | 1,631,000 | two or three collectors on two hosts, with and without ssh; terminated workers, kills, an administrator, pages |
| usage_headings | MCUsage | | refutes `PagesAsHeaded` |

**promote_group.**  `NoMutualRefusal`: every member of a closed group writes its row
before it looks, so the last to look sees all (needs a queue that fits in the
LIMIT, and no fault).  `OvertakenBySurvivor`: the promotions take the trunks in
one order, so a rejected one was overtaken by one that is still merging or done.
`GroupPromoted`: hence one of the group is promoted, unless a fault
happens.  Three is the smallest circle in which the trunks of two
members overlap only partly, and the trunk may start with a foreign commit, so
that merges make merge commits.

**promote_mixed.**  `GateSound`: a promotion that shares its row with no other merges only after
each dependency it computed has been enqueued by an owner, through lost
statements, double rows, ties of PushTime, a LIMIT and pops.  `PromotedLanded`:
"done" means landed, except on trunks that a forced push cut.  `KeepsPromise`: the
refinement.

**cci.**  `TrunkSound`: a missing trunk has a svn cp ahead, or its run was killed or a
command failed; a copy inside a trunk has such a failure or two runs at one trunk as its cause.
`RowsAccounted`: each row pushed is in the queue, on or in a trunk, or held by a run that works
or was stopped.  `DependenciesCome`: a version on a trunk has what it was built with popped
too or older than the trunk, unless some run could not see that trunk.  Two runs at
one trunk and a third that promotes what one of them needs are enough for each of these to
have a cause of its own.  The kinds of failure are combined where they meet (a kill and a
failing review), and apart otherwise.

**checkout.**  `ResolvedExactly` when the last recursive call returns, `PlacedOrDropped` at the
end: who has just the place the externals give it, who is warned of, and who is dropped without a
word (checkout.py:458-465).  `Ends`.  Four names allow a cycle outside the base, a base subsystem
on a path, and an interface that is also a dependency.

**rcpco.**  `TokenBalance`, `ExternalComplete`, `OnOwnBranch`, `RequestKept`, `Ends`.  Three
modules for two tokens make a job wait; three tries are the script's own bound;
the three tests are a change with a dependency, a change without one that resets deps,
and a branch on the module that the first one depends on.

**compile.**  `BuildsWanted`: HEAD of each module is that of its last dependency line, else
the version under test, else the configured branch, unless a fetch of just that failed.
`RevTrue`: rev.txt has lines for the subsystem and its dependencies only, and ends on
what is compiled.  `ProductCurrent`, `Ends`.  Two tokens for three modules and a
foreign one make jobs wait; the change under test depends on a change of a module that
the dashboard lists too and on a change of its own module, so lines overwrite one another.

**test_tasks.**  Smt and FtWait share nothing, so the run has either of them run beside the other
after that has ended on its first exception.  Of smt.py: `PromotedIfPassed`, `MailsTrue`, `Ends`.
Three workers are the code's number and four tasks one more than that; two mail servers are
enough for a mail that is delivered twice.  Tasks end as passed, failed or error; smt.py waits for
ever for one that ends otherwise, and rcpft.sh:152 knows two other ends.  Of rcpft.sh:
`CollectedOnce`: each id that came to the list is on it until its output is noted, and noted once,
except that what is left of an id with a finished one in it may be noted instead of it;
`CollectedOver`, `FailedForAReason`, `FtEnds`.  Two tasks are all that the script ever creates.

**qc.**  `UploadedOnce`, `OneSet`, `OneInstance` say what duplicates may come from; `RunsBelong`
and `ReportedInFull` what a report has achieved; `Ends` that retries are bounded.  Three
processes (two uploads and a report, an upload and two reports, a report by
name and one by id) meet in every order; one call of one process fails, and as often as there are attempts
(two instead of 41: what matters is that a call may be made more than once, and that
retries end); Quality Center may hold the test case in another folder, or twice in the same, and
the set, or nothing; two more reports have a result without an id, first or last.  More failures at once only add duplicates of the same kinds.

**usage.**  `RecordKept`: the last `Keep` entries stay in the file in their order while nobody
writes.  `TableKeeps`: the samples of a run that ended well stay in the table unless they were
dropped.  `DbFailsFor`: an insertion fails for a namesake in the same second or for the
administrator, and for nothing else.  `PagesTrue`: a column has samples of its line's total of no
other hours than its heading names, and all of them past the first hour, so none is counted twice; no
rate exceeds 100%.  `RunsEnd`.  The file keeps 2 entries instead of 500, so
three runs push one out.  Two hosts have a project of the same name and runs in the same
second; hours are inside a column, between columns and midnight.  Each `Settings` pairs runs and dates with the
faults and calls that matter together: overlapping runs with kills, the administrator
with a namesake, pages with runs and with a drop.

Deadlock is checked in every run: the terminal states stutter explicitly.

**Fairness.**  A promotion takes its next step if it can (`WF(Step(j))`): each runs
on a machine of its own and no command waits for another promotion.
checkout.py is one process that nothing blocks.  In git_rcpco.sh the operating
system schedules the script and each job; a git or curl command is assumed to
return some time, which the script does not enforce by a timeout.  The same goes for
compile.sh.  rcpft.sh and smt.py have no timeout, and end only if the servers end
every task and build and at some time answer whoever keeps asking: `FtFairSpec` of FtWait and
`FairSpec` of Smt say so (`WF(TaskEnds(t))`, `WF(FtTaskEnds(t))`, `WF(BuildOver(t))`,
`WF(Take(t) \/ Polled(t))`). A call to Quality Center returns or raises (`WF(Step(p))` of
QcUtils), and no process has to be started. Of nova_compute.py only the parent is fair
(`WF(Parent(r))`), whose join has a timeout: no worker has to answer, nobody has to start a
run, an administrator or a page. A fault is never needed for progress: no fairness is asked of
faults or pops.

## Disagreements with the code

1. `promote_shared`: two builds of one revision share a row of the queue
   (PCIQueue.py:84).  The second one's UPDATE replaces the dependencies that the
   first is about to be checked against, and the first merges although a
   dependency it reports at promote.sh:114 is not in the queue.
2. `rcpco_tests`: git_rcpco.sh:181 assigns `deps` for gerrit changes only and
   never resets it, so a branch that follows a change may be replaced by what
   that change depends on.  `RequestKept` is the weaker statement that does hold.
3. `usage_headings`: the columns of the hourly page are headed "Morning9:00-14:00",
   "Afternoon14:00-18:00" and "Evening 18:00-21:00" (reports.py:183, 200, 214), those of the daily
   page with a date, and the hours are strictly between the bounds of the queries (reports.py:46).
   So the samples of 9, 14, 18 and 0 o'clock are in totals and in no column.  `PagesTrue` is
   the weaker statement that does hold.

More are in the models without a run of their own.  compile.sh:374 `... && (cat ... | grep ... &&
exit 1)` ends a subshell, so a unit test report with failures does not fail the build
(`CheckResult`).  git_rcpco.sh:66 `... || echo
"[FAIL]clone $i failed.";exit 1` exits after the first gitlab repository in every case
(`Gitlabs`).  `submit` of gerrit.py:88-96 asks the exit status of curl for a `status_code`, so
it always raises, and cci_promote.sh:63 ends with 100 after the first change it submits,
submitted or not, with its other rows out of the queue (`Submit`).  cci_promote.sh:117 and
136 end with the status of an echo, 0 (`PushFails`, `PopAllFails`).  A gerrit subsystem
that has no external is taken off the set before the lookup fails under a bare `except`
(checkout.py:458-465, `Divide`), so it is neither exported nor checked out nor warned of, unlike any
other subsystem (525).  A project host without a sample in one of
the three windows ends the hourly page with an AttributeError (reports.py:185, `Fails`).
loadfile2db makes the table without the column `floatingips` that report_db inserts into, so runs
fail until somebody calls the function that alters the table (`NewTable`, `AlterTable`).
statistics_main.sh calls nova_compute.py without the argument that line 273 reads.

## Proofs

All for every number of repositories, promotions, modules, tokens, tasks, runs and names.  The
assumptions are those named in the modules (`ConstantsAssumption`, `NamesAssumption`,
`RcpcoAssumption`, `CompileAssumption`, `SmtAssumption`, `FtWaitAssumption`, `UsageAssumption`, `ReportsAssumption`,
`CciAssumption`, `QcAssumption`): types of the constants, finitely many promotions, that a
revision belongs to its own history, that "none", "old" and the like are no revision, that nobody
is both uploader and reporter, that two runs on one host do not start at the same time.

| theorem | statement | argument |
|---|---|---|
| PromoteProofs!TypeCorrect | `Spec => []TypeOK` | inductive as it stands |
| PromoteProofs!Rendezvous | `Spec => []NoMutualRefusal` | while nothing disturbs, a promotion that has written its row leaves a matching row in the queue for ever; a refused one missed somebody's row, who had therefore not written yet; the set of writers only grows, so the last one to look is not refused |
| PromoteProofs!Gate | `Spec => []GateSound` | a key listed in `inqueue` was enqueued; the row a promotion finds under an unshared key holds its own dependencies, or none was found |
| PromoteProofs!Landing | `Spec => []PromotedLanded` | a trunk contains all that anyone has seen of it and all that left `todo`, unless it was cut |
| PromoteProofs!Implements | `Spec => KeepsPromise` | the same invariant; every action maps to `Grow`, `Replace`, `Finish`, `Stop` or a stutter |
| PromoteProofs!Race | `Spec => []OvertakenBySurvivor` | `RaceInv`: a promotion that has pushed goes on or is done, unless something disturbed; it pushes in the order of the trunks; a trunk it fetched is as it was then, or somebody pushed to it; so what a rejected promotion has pushed lies before a trunk that somebody took, and the promotion that pushed the last trunk of all was not rejected (a bounded set of numbers has a last one) |
| CheckoutProofs!Resolution | `Spec => []ResolvedExactly` | what a marked node outside the stack needs is marked, what a node on the stack needs is marked or still to visit; and every complete set contains all that is marked |
| CheckoutProofs!Division | `Spec => []PlacedOrDropped` | by `Resolution` the loop begins with a fixed set; when it has visited V of it, `chosen` and `exported` are functions of V alone, in whatever order; after it, svn, git and warnings are the parts of `chosen` that the externals assign, as far as they are located |
| RcpcoProofs!TokensKept | `Spec => []TokenBalance` | the cardinality of the set of holders changes by one with the tokens |
| RcpcoProofs!ExternalRead | `Spec => []ExternalComplete` | a job of the first pool that is past "append" has written; `wait` separates the pools |
| RcpcoProofs!BranchTaken | `Spec => []OnOwnBranch` | by where its job stands (`JobOwn`): the branch was read from a complete rcp_external, FETCH_HEAD is that branch before the checkout and HEAD after it, or that fetch is in `failed`, which only grows; nothing else touches the module until the first test version |
| RcpcoProofs!RequestsLast | `Spec => []RequestKept` | `RequestInv`: `deps` is empty before the first change and otherwise what the last change depends on, or that change was not fetched; a request that is past keeps its HEAD through every later one that is neither of its module nor of a change that names it.  That there is a last change at all is the well-founded order of the numbers (`SinceIs`) |
| CompileProofs!RevFile | `Spec => []RevTrue` | the modules on rev.txt and those still to visit are the subsystem and the modules of dependency.txt; each line written is the last of its module and has the HEAD set in the same step; no job changes a HEAD after `wait` |
| CompileProofs!ProductCopy | `Spec => []ProductCurrent` | the copy is made of the HEAD that only a visit to a line about that module changes |
| CompileProofs!VersionsWanted | `Spec => []BuildsWanted` | when the pools have ended, each configured module is on its branch; while dependencies are switched, `todo` is the rest of `lines`, and the modules not on it are on what is wanted of them: a line after which its module does not come again is its last |
| CompileProofs!TokensKept | `Spec => []TokenBalance` | as in RcpcoProofs, for the two pools: the jobs that hold a token are those a pool has started and not ended, and one token goes with each |
| SmtProofs!PromotesPassed | `Spec => []PromotedIfPassed` | a worker's answer is that of the server; the verdict is that of all answers; only a phase that the verdict opens promotes |
| SmtProofs!MailsTruth | `Spec => []MailsTrue` | there are fewer mails than servers tried, each says the verdict, which is never revised, and no server is tried after one that quit |
| SmtProofs!CollectsOnce, CollectsOver, FailsForAReason | `FtSpec => []CollectedOnce` and so on | `FtInv`: the answer that is acted on is of the task that is visited (`Visited`), an id that came to the list is on it or noted, and not both (`Placed`); `Deleted` takes just this id off the list, and leaves of an id that has it inside the id of somebody else |
| UsageProofs!RecordsKept | `Spec => []RecordKept` | two runs are inside an update only if both are in `overlapped`; a run that is not, and holds the entries, holds the newest of `safe`, also while the file is empty; appending and cutting commute with taking the newest |
| UsageProofs!SamplesStay | `Spec => []TableKeeps` | rows go only with the table, whose owners are then in `dropped`, and leave that set only when all their rows come back |
| UsageProofs!OnlyClashes | `Spec => []DbFailsFor` | until the administrator calls, the rows are those of runs that ended well, the table has its column and the rows of a run are not in it before its own insertion |
| UsageProofs!PagesRight | `Spec => []PagesTrue` | `SampleInv`: a sample has connections only if it has instances, for an address is asked only of a project that has some; `KnownInv`: rows are samples that were taken, and finitely many; `PageInv`: while nothing has moved, the answers so far are all of the table as it is, so a steady page is of one table.  The cells then follow from the bounds of the queries beside the headings of the columns, the rates from the cardinality of a subset |
| CciPromoteProofs!NoRowForgotten | `Spec => []RowsAccounted` | `AccountInv`: besides, the row of a run that is past its svn cp is dealt with: copied, put into a trunk or met by a failure; no step takes that back, rows move from the queue into the hands of one run, and only `NextRow` and an exit with 0 let go of one |
| CciPromoteProofs!TrunksComeBack | `Spec => []TrunkSound` | `SoundInv`: a run about to copy finds its trunk missing, or svn failed there, or two runs hold rows of it; that two hold rows of one trunk is recorded when the second one takes its own |
| CciPromoteProofs!NothingMissing | `Spec => []DependenciesCome` | `ComeInv` gives the same reason for every row along its way: while the loop of 88-101 prepares it, in the queue, in a run's hands and on its trunk; popall hands out a row only after all that it depends on, and trunks never go back |
| QcUtilsProofs!AddedOnce, SecondSet | `Spec => []UploadedOnce`, `[]OneSet` | `UploadInv`, `SetInv`: whatever a process that is about to add has not seen was added since by one it met (`Met`: two that are active have met), or the look-up was not answered |
| QcUtilsProofs!SecondInstance, RunsInPlace | `Spec => []OneInstance`, `[]RunsBelong` | `ReportInv` says for each reporter what its place in robot2qc.py implies: the set was looked up, the instances read are a beginning of those there are, later ones are its own or of reporters it met, an instance it is about to add is none of those it knows, and what it added, with every answer heard, is of results it has been at; `Placed` what every run there is was made of |
| QcUtilsProofs!NothingLeftOut | `Spec => ReportedInFull` | the last conjunct of `ReportInv`: each result the reporter is past has a run, or one of the excuses; the test cases counted in the property are those of the last step |
| RcpcoProofs!NeverStuck, CompileProofs!NeverStuck, SmtProofs!NeverStuck | `Spec => []NotStuck`: until the program has exited some step's guard holds | if no job of a pool can go, none holds a token; then by `TokenBalance` all `thread` > 0 tokens are in the fifo, and the loop can start the next job or go on.  Of Compile it is assumed that the dashboard gives some answer, be it none (`Groups # {}`), of Smt that tasks end with a status the loop expects (`Endings \subseteq Reported`): without it a worker polls for ever, as the code does |
| CheckoutProofs!Descent, RcpcoProofs!Descent, CompileProofs!Descent, SmtProofs!Descent | `Spec => [][Work => <<Variant', Variant>> \in Smaller]_vars`, and `Smaller` is well-founded | `Variant` is a tuple of numbers: the stage of the script, the steps its jobs have still to take, the length of what is left of its lists, the branch it is in, the tries left.  Each action makes one number less and none before it greater.  Checkout needs finitely many names |
| QcUtilsProofs!Descent, UsageProofs!Descent | the same for each process or run, and no step makes another one's `Variant` greater | so none is kept busy by the others, however they overlap, however many calls fail (QcUtils does not need its bound `MaxLost`), whatever the server, the file or the table holds.  Usage needs that OpenStack lists finitely many projects and addresses (`Listed`) |

`TypeCorrect` of CheckoutProofs, RcpcoProofs, CompileProofs, SmtProofs, CciPromoteProofs and
QcUtilsProofs are the type invariants of these modules; no run repeats them.  The strengthened
invariants (`WantedInv`, `OwnInv`, `SmtInv`, `FileInv`, `RowsInv`, `QcInv` and so on) are in the
proof modules, next to the lemmas for each action.

The provers cannot conclude liveness from fairness, so `Ends`, `FtEnds` and `RunsEnd` stay
properties that TLC checks. `Descent` and `NeverStuck` are what a proof of them rests on, for
every size: of git_rcpco.sh, compile.sh and smt.py both are proved; of checkout.py, QcUtils and
Usage only `Descent`, the other half being that a call or a visit always has some outcome. What
is left to TLC is the inference by fairness (with ENABLED), that the guards of `NotStuck`,
which are written out, are those of the actions, and two properties altogether: `FtEnds` of
FtWait, whose run covers all values its constants can take, and `GroupPromoted` of Promote.

FtWait has no proof module of its own: its theorems are in SmtProofs, next to those of smt.py, which
waits for the same kind of task.  Of its constants they assume that only the second id can have the
other in it (`FtWaitAssumption`).

## What is not modelled, and why

- The svn and git commands of checkout.py and the parsing of svn properties: linear, with no
  state but their result, which `Init` of Checkout chooses freely.
- The il/cloud loop of promote.sh:159 visits its first element only, since `$types` is an
  array: a "common" promotion promotes il and never cloud.  One turn is modelled.
- The methods of qcxmlclient.py that nothing calls (GetVersion, GetUserProjects, folders).
- The svn and make helpers of a build, the preparation of test parameters
  (rcpft.sh:20-109) and the composition of mails: no state that anything else reads.
- The copy of SS_ILProduct (git_rcpco.sh:151) and the links into the workspace.
- docker, image, make rules, credentials, old helper scripts: commands in a row,
  or build descriptions.
- heat_operator.py: one heat command and at most 180 looks at the list of all stacks.  It keeps
  no state, and nothing in the repository calls it.
- Of openstack-usage: the charts and templates, which lay out what the queries gave;
  `nova_usage` and `load_yaml_records`, which nothing calls.

## Plan

Order of what follows, most important first.

1. Promote, TrunkPromise; Checkout; Rcpco; Compile; FtWait; Smt; QcUtils; CciPromote; Usage and
   Reports, with the runs and theorems above (done).
2. Theorems for every safety and action property that the runs check (done).
3. The two halves of termination, `NeverStuck` and `Descent`, wherever a run checks `Ends` (done but
   for FtWait, which its run covers, and for `NeverStuck` of checkout.py, QcUtils and Usage).
