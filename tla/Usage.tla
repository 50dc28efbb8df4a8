------------------------------- MODULE Usage -------------------------------
(***************************************************************************)
(* src/openstack-usage/nova_compute.py and history_handling.py: samples of *)
(* how much the projects of several OpenStack hosts are used.              *)
(*                                                                         *)
(* A run visits the projects of its host, asks each of their machines, in  *)
(* a worker process, who is logged in, and writes what it found twice: to  *)
(* a file of YAML records, which it reads, truncates and writes again, and *)
(* to a table.  Runs may overlap, and an administrator may at any time     *)
(* make the table anew from the file, or load what it lacks.               *)
(*                                                                         *)
(* A run stands for its host and its time stamp: an entry of the file is   *)
(* the run that wrote it, a row of the table is <<project, run>>, and what *)
(* both say of it is result[run].                                          *)
(***************************************************************************)
EXTENDS Integers, SequencesExt

CONSTANTS
  Run,
  Host,        \* Host[r]: the controller in OS_AUTH_URL
  Ssh,         \* runs started with the argument SSH
  Project,     \* names of projects; two hosts may have one of the same name
  Projects,    \* Projects[h][p]: the addresses of machines of project p of host h
  Enabled,     \* projects that are enabled
  Internal,    \* admin, services
  ActiveIp,    \* addresses whose status is ACTIVE
  Keep,        \* entries that the file keeps, 500 in the code
  Settings     \* each a [date, tools]: the runs there are, and when, in half hours;
               \* what may happen, of "slow" (a run takes until the next one begins),
               \* "down", "nova", "ssh", "kill"; "drop", "missing", "alter"; "report"

ASSUME UsageAssumption ==
  /\ Ssh \subseteq Run
  /\ \A r \in Run : DOMAIN Projects[Host[r]] \subseteq Project
  /\ Enabled \subseteq Project /\ Internal \subseteq Project
  /\ Keep \in Nat \ {0}
  /\ \A s \in Settings :
       /\ DOMAIN s.date \subseteq Run
       /\ \A r \in DOMAIN s.date : s.date[r] \in Nat
       /\ \A q, r \in DOMAIN s.date : q # r /\ Host[q] = Host[r] => s.date[q] # s.date[r]

VARIABLES
  date, tools,        \* fixed by Init
  pc, status,         \* where run r is, and its exit status
  todo,               \* projects it has still to visit
  project, ips,       \* the project it visits, and the addresses still to ask
  sample,             \* whether that one has instances, and connections
  worker, queue,      \* the process that asks an address, and what it puts
  result,             \* result[r]: the samples of the projects visited
  file,               \* the records: "absent", "yaml" or "broken", and the entries
  held,               \* the entries a run has read
  mixed,              \* runs that have it open while others wrote to it
  db,                 \* the table: whether it exists, and has a column floatingips
  admin,              \* the function of history_handling.py that is going on, and
                      \* the entries it has read
  \* History: runs whose update of the file met another one's; runs in the file
  \* since the last accident; runs whose rows were dropped; functions called.
  overlapped, safe, dropped, called

script == <<todo, project, ips, sample, worker, queue, result>>
records == <<file, held, mixed, overlapped, safe>>
table == <<db, dropped>>
vars == <<date, tools, pc, status, script, records, table, admin, called>>

Live(r) == status[r] = "running"

Init ==
  /\ \E s \in Settings : date = s.date /\ tools = s.tools
  /\ pc = [r \in Run |-> "idle"]
  /\ status = [r \in Run |-> IF r \in DOMAIN date THEN "running" ELSE "none"]
  /\ todo = [r \in Run |-> {}]
  /\ project = [r \in Run |-> "none"]
  /\ ips = [r \in Run |-> {}]
  /\ sample = [r \in Run |-> [instance |-> FALSE, connection |-> FALSE]]
  /\ worker = [r \in Run |-> "none"]
  /\ queue = [r \in Run |-> "empty"]
  /\ result = [r \in Run |-> <<>>]
  /\ file = [kind |-> "absent", runs |-> <<>>]
  /\ held = [r \in Run |-> <<>>]
  /\ mixed = {}
  /\ db = [there |-> FALSE, column |-> FALSE, rows |-> {}]
  /\ admin = [at |-> "none", data |-> {}]
  /\ overlapped = {} /\ safe = <<>> /\ dropped = {} /\ called = {}

At(r, label) == Live(r) /\ pc[r] = label
GoTo(r, label) == pc' = [pc EXCEPT ![r] = label] /\ UNCHANGED <<date, tools, status>>
Exit(r, code) == status' = [status EXCEPT ![r] = code] /\ UNCHANGED <<date, tools, pc>>

-----------------------------------------------------------------------------
(* OpenstackStatistics.run: the projects and their addresses *)

Visited(r) ==
  {p \in DOMAIN Projects[Host[r]] \cap Enabled : r \in Ssh => p \notin Internal}

Hangs(r) == Live(r) /\ worker[r] = "terminated"
Past(q) == IF "slow" \in tools THEN ~ At(q, "idle") ELSE ~ Live(q) \/ Hangs(q)

\* The time stamp is taken first: runs start in the order of their dates.
Start(r) ==
  /\ At(r, "idle")
  /\ \A q \in DOMAIN date : date[q] < date[r] => Past(q)
  /\ todo' = [todo EXCEPT ![r] = Visited(r)]
  /\ GoTo(r, "project")
  /\ UNCHANGED <<project, ips, sample, worker, queue, result, records, table, admin, called>>

\* keystone, neutron or the controller do not answer: an exception.  Under SSH
\* the controller is asked about every project.
ControllerDown(r) ==
  /\ At(r, "idle") \/ (r \in Ssh /\ At(r, "project") /\ todo[r] # {})
  /\ "down" \in tools
  /\ Exit(r, "1")
  /\ UNCHANGED <<script, records, table, admin, called>>

Addresses(r, p) == IF r \in Ssh THEN Projects[Host[r]][p]
                                ELSE Projects[Host[r]][p] \cap ActiveIp

\* An address belongs to an instance.  When nova list fails, there is no line to count.
Servers(r, p) ==
  IF Projects[Host[r]][p] = {} \/ "nova" \in tools THEN BOOLEAN ELSE {TRUE}

NextProject(r) ==
  /\ At(r, "project")
  /\ \E p \in todo[r] : \E servers \in Servers(r, p) :
       /\ todo' = [todo EXCEPT ![r] = @ \ {p}]
       /\ project' = [project EXCEPT ![r] = p]
       /\ ips' = [ips EXCEPT ![r] = Addresses(r, p)]
       /\ sample' = [sample EXCEPT ![r] = [instance |-> servers, connection |-> FALSE]]
  /\ GoTo(r, "address")
  /\ UNCHANGED <<worker, queue, result, records, table, admin, called>>

Idle(r) == At(r, "address") /\ worker[r] = "none"

\* The next address: without an answer to ping it is left out.
NextAddress(r) ==
  /\ Idle(r)
  /\ \E ip \in ips[r] : ips' = [ips EXCEPT ![r] = @ \ {ip}]
  /\ \/ worker' = [worker EXCEPT ![r] = "login"]
     \/ "ssh" \in tools /\ UNCHANGED worker
  /\ UNCHANGED <<date, tools, pc, status, todo, project, sample, queue, result, records, table,
                 admin, called>>

Sampled(r) ==
  /\ Idle(r)
  /\ ips[r] = {}
  /\ result' = [result EXCEPT ![r] = [p \in DOMAIN @ \cup {project[r]} |->
                  IF p = project[r] THEN sample[r] ELSE result[r][p]]]
  /\ GoTo(r, "project")
  /\ UNCHANGED <<todo, project, ips, sample, worker, queue, records, table, admin, called>>

-----------------------------------------------------------------------------
(* SshconnectionProcess *)

Working(r, label) == At(r, "address") /\ worker[r] = label

Worker(r, label) ==
  /\ worker' = [worker EXCEPT ![r] = label]
  /\ UNCHANGED <<date, tools, pc, status, todo, project, ips, result, records, table, admin,
                 called>>

\* Whatever happens, something is put: an error counts as nobody.
Put(r) ==
  /\ queue' \in {[queue EXCEPT ![r] = who] :
                   who \in {"users"} \cup (IF "ssh" \in tools THEN {"nobody"} ELSE {})}
  /\ Worker(r, "put")
  /\ UNCHANGED sample

Login(r) ==
  /\ Working(r, "login")
  /\ \/ Put(r)
     \/ "ssh" \in tools /\ Worker(r, "root") /\ UNCHANGED <<queue, sample>>

\* A second attempt after an AuthenticationException.
Root(r) == Working(r, "root") /\ Put(r)

\* What is put goes through a thread of the worker before it is in the pipe.
Flush(r) ==
  /\ Working(r, "put")
  /\ Worker(r, "sent")
  /\ UNCHANGED <<queue, sample>>

MutTimeout(r) ==
  /\ Working(r, "put")
  /\ Worker(r, "terminated")
  /\ UNCHANGED <<queue, sample>>

\* join(60) is over, and terminate().
Timeout(r) ==
  /\ At(r, "address")
  /\ worker[r] \in {"login", "root", "put"}
  /\ Worker(r, "terminated")
  /\ UNCHANGED <<queue, sample>>

\* return_result, which waits for ever if the worker was terminated.
Get(r) ==
  /\ Working(r, "sent")
  /\ sample' = [sample EXCEPT ![r].connection = @ \/ queue[r] = "users"]
  /\ queue' = [queue EXCEPT ![r] = "empty"]
  /\ Worker(r, "none")

-----------------------------------------------------------------------------
(* report_yaml *)

Updating(r) == Live(r) /\ pc[r] \in {"create", "read", "truncate", "write"}

ReadFile(r) == held' = [held EXCEPT ![r] = file.runs] /\ GoTo(r, "truncate")

\* An update begins where the file is looked for.
Exists(r) ==
  /\ At(r, "project")
  /\ todo[r] = {}
  /\ LET others == {q \in Run : Updating(q)} IN
       overlapped' = overlapped \cup (IF others = {} THEN {} ELSE others \cup {r})
  /\ CASE file.kind = "absent" -> GoTo(r, "create") /\ UNCHANGED held
       [] file.kind = "broken" -> Exit(r, "1") /\ UNCHANGED held
       [] file.kind = "yaml"   -> ReadFile(r)
  /\ UNCHANGED <<script, file, mixed, safe, table, admin, called>>

Emptied ==
  /\ file' = [kind |-> "yaml", runs |-> <<>>]
  /\ mixed' = {}

Create(r) ==
  /\ At(r, "create")
  /\ Emptied
  /\ GoTo(r, "read")
  /\ UNCHANGED <<script, held, overlapped, safe, table, admin, called>>

Read(r) ==
  /\ At(r, "read")
  /\ IF file.kind = "broken" THEN Exit(r, "1") /\ UNCHANGED held ELSE ReadFile(r)
  /\ UNCHANGED <<script, file, mixed, overlapped, safe, table, admin, called>>

\* open(..., 'w'), while the entries are in memory only.
Truncate(r) ==
  /\ At(r, "truncate")
  /\ Emptied
  /\ GoTo(r, "write")
  /\ UNCHANGED <<script, held, overlapped, safe, table, admin, called>>

Newest(s) == IF Len(s) <= Keep THEN s ELSE SubSeq(s, Len(s) - Keep + 1, Len(s))

MutWrite(r) ==
  /\ At(r, "write")
  /\ LET s == Append(held[r], r) IN
       file' = [kind |-> "yaml", runs |-> IF Len(s) > Keep THEN SubSeq(s, 1, Keep) ELSE s]
  /\ mixed' = {q \in Run \ {r} : At(q, "write")}
  /\ safe' = IF r \in overlapped THEN <<>> ELSE Append(safe, r)
  /\ held' = [held EXCEPT ![r] = <<>>]
  /\ GoTo(r, "table")
  /\ UNCHANGED <<script, overlapped, table, admin, called>>

\* Written from the start of the file: if another run has written since it was
\* truncated, the end of a longer text may remain.
Write(r) ==
  /\ At(r, "write")
  /\ \/ file' = [kind |-> "yaml", runs |-> Newest(Append(held[r], r))]
     \/ r \in mixed /\ file' = [kind |-> "broken", runs |-> <<>>]
  /\ mixed' = {q \in Run \ {r} : At(q, "write")}
  /\ safe' = IF r \in overlapped THEN <<>> ELSE Append(safe, r)
  /\ held' = [held EXCEPT ![r] = <<>>]
  /\ GoTo(r, "table")
  /\ UNCHANGED <<script, overlapped, table, admin, called>>

-----------------------------------------------------------------------------
(* report_db *)

Rows(r) == {<<p, r>> : p \in DOMAIN result[r]}

\* primary key (name, date)
Clash(R, S) == \E x \in R, y \in S : x # y /\ x[1] = y[1] /\ date[x[2]] = date[y[2]]

\* Rows go into the table all together, or a statement fails and none is committed.
Fits(R) == db.there /\ R \cap db.rows = {} /\ ~ Clash(R, R \cup db.rows)

MutCreateTable(r) ==
  /\ At(r, "table")
  /\ db' = IF db.there THEN db ELSE [there |-> TRUE, column |-> FALSE, rows |-> {}]
  /\ GoTo(r, "insert")
  /\ UNCHANGED <<script, records, dropped, admin, called>>

CreateTable(r) ==
  /\ At(r, "table")
  /\ db' = IF db.there THEN db ELSE [there |-> TRUE, column |-> TRUE, rows |-> {}]
  /\ GoTo(r, "insert")
  /\ UNCHANGED <<script, records, dropped, admin, called>>

MutInsert(r) ==
  /\ At(r, "insert")
  /\ IF db.there /\ db.column
       THEN /\ db' = [db EXCEPT !.rows = {x \in @ : ~ Clash({x}, Rows(r))} \cup Rows(r)]
            /\ Exit(r, "0")
       ELSE Exit(r, "1") /\ UNCHANGED db
  /\ UNCHANGED <<script, records, dropped, admin, called>>

Insert(r) ==
  /\ At(r, "insert")
  /\ IF Rows(r) = {} \/ (Fits(Rows(r)) /\ db.column)
       THEN db' = [db EXCEPT !.rows = @ \cup Rows(r)] /\ Exit(r, "0")
       ELSE Exit(r, "1") /\ UNCHANGED db
  /\ UNCHANGED <<script, records, dropped, admin, called>>

-----------------------------------------------------------------------------
(* history_handling.py *)

Fixed == UNCHANGED <<date, tools, pc, status, script, records>>
Call(f) == f \in tools \ called /\ called' = called \cup {f}

\* loadfile2db ("drop") and loadmissingdata2db ("missing") read the file first.
LoadFile(f) ==
  /\ admin.at = "none"
  /\ Call(f)
  /\ admin' = IF file.kind = "yaml" THEN [at |-> f, data |-> ToSet(file.runs)] ELSE admin
  /\ Fixed /\ UNCHANGED table

Over == admin' = [at |-> "none", data |-> {}]

DropTable ==
  /\ admin.at = "drop"
  /\ IF db.there
       THEN /\ db' = [there |-> FALSE, column |-> FALSE, rows |-> {}]
            /\ dropped' = dropped \cup {x[2] : x \in db.rows}
            /\ admin' = [admin EXCEPT !.at = "create"]
       ELSE Over /\ UNCHANGED table
  /\ Fixed /\ UNCHANGED called

\* The new table has no column floatingips.
NewTable ==
  /\ admin.at = "create"
  /\ db' = [db EXCEPT !.there = TRUE]
  /\ admin' = [admin EXCEPT !.at = "load"]
  /\ Fixed /\ UNCHANGED <<dropped, called>>

\* What is later than all that is in the table.
SelectMax ==
  /\ admin.at = "missing"
  /\ IF db.there
       THEN admin' = [at |-> "load",
              data |-> {q \in admin.data : \A x \in db.rows : date[x[2]] < date[q]}]
       ELSE Over
  /\ Fixed /\ UNCHANGED <<table, called>>

LoadRows ==
  /\ admin.at = "load"
  /\ LET R == UNION {Rows(r) : r \in admin.data} IN
       IF Fits(R)
         THEN /\ db' = [db EXCEPT !.rows = @ \cup R]
              /\ dropped' = dropped \ admin.data
         ELSE UNCHANGED table
  /\ Over
  /\ Fixed /\ UNCHANGED called

AlterTable ==
  /\ Call("alter")
  /\ db' = [db EXCEPT !.column = db.there]
  /\ Fixed /\ UNCHANGED <<dropped, admin>>

-----------------------------------------------------------------------------
\* The run is killed, or its machine goes down.
Kill(r) ==
  /\ "kill" \in tools
  /\ Live(r)
  /\ Exit(r, "killed")
  /\ safe' = IF At(r, "write") THEN <<>> ELSE safe
  /\ UNCHANGED <<script, file, held, mixed, overlapped, table, admin, called>>

Parent(r) ==
  \/ NextProject(r) \/ NextAddress(r) \/ Sampled(r)
  \/ Timeout(r) \/ Get(r)
  \/ Exists(r) \/ Create(r) \/ Read(r) \/ Truncate(r) \/ Write(r)
  \/ CreateTable(r) \/ Insert(r)

Process(r) == Login(r) \/ Root(r) \/ Flush(r)

Admin ==
  \/ LoadFile("drop") \/ LoadFile("missing")
  \/ DropTable \/ NewTable \/ SelectMax \/ LoadRows \/ AlterTable

Collect ==
  \/ \E r \in Run :
       Start(r) \/ ControllerDown(r) \/ Parent(r) \/ Process(r) \/ Kill(r)
  \/ Admin

-----------------------------------------------------------------------------
(* Properties *)

\* nova_compute.py:16-61: every run that has started ends, unless the worker whose
\* result it waits for was terminated before it had sent it.
RunsEnd == <>[](\A r \in Run : pc[r] = "idle" \/ ~ Live(r) \/ Hangs(r))

\* nova_compute.py:170-180: the newest entries of the file stay in it, in their
\* order, as long as no update is under way; only updates that overlap and a run
\* killed between truncating and writing may lose entries or break the file.
RecordKept ==
  (\A r \in Run : ~ At(r, "write")) => IsSuffix(Newest(safe), file.runs)

\* nova_compute.py:201-207, history_handling.py:9-53: the samples of a run that
\* ended well stay in the table, unless loadfile2db has dropped them and did not
\* come to put them back: its file had no longer, or not yet, this entry, or no
\* row was loaded at all.
TableKeeps == \A r \in Run : status[r] = "0" => Rows(r) \subseteq db.rows \/ r \in dropped

\* nova_compute.py:196-207: a run whose entry is in the file fails to write to the
\* table only if another one of the same second had a project of the same name,
\* or if the administrator has touched the table.
DbFailsFor == \A r \in Run : At(r, "insert") \/ status[r] # "1" \/ pc[r] # "insert"
  \/ called \cap {"drop", "missing"} # {}
  \/ \E q \in DOMAIN date \ {r} :
       date[q] = date[r] /\ DOMAIN result[q] \cap DOMAIN result[r] # {}
=============================================================================
