-------------------------------- MODULE Smt --------------------------------
(***************************************************************************)
(* src/oam/smt.py with src/oam/send_mail.py and src/common/mail.py: smoke  *)
(* tests of a build, the mail about them and the promotion that follows.   *)
(*                                                                         *)
(* The tests are triggered as tasks of a server; the workers of a pool     *)
(* poll them, each its task until that is done or in error.  When all have *)
(* answered, the result is mailed through the first mail server that takes *)
(* it, and if everything passed the build is promoted.  An exception in    *)
(* any worker ends the run at once, and one in sending the mail too.       *)
(***************************************************************************)
EXTENDS Naturals, FiniteSets, Sequences

CONSTANTS NTask,     \* at most so many tasks are triggered
          NWorker,   \* workers of the pool
          NServer,   \* mail servers
          Endings,   \* how the server ends a task
          Faults     \* which of "trigger", "poll", "receiver", "server", "quit"
                     \* and "promotion" may fail

Task == 1 .. NTask
End == {"passed", "failed", "error", "ignore", "timeout"}
MutReported == {"passed", "failed"}
Reported == {"passed", "failed", "error"}     \* status done, done, error

ASSUME SmtAssumption ==
  /\ NTask \in Nat /\ NWorker \in Nat \ {0} /\ NServer \in Nat
  /\ Endings \subseteq End
  /\ Faults \subseteq {"trigger", "poll", "receiver", "server", "quit", "promotion"}

VARIABLES
  gerrit,     \* the run is for a gerrit change, which is not promoted
  server,     \* server[t]: "running" or how the task ended
  phase,      \* where the main process is
  waiting,    \* tasks no worker has taken yet
  polled,     \* tasks a worker is polling
  results,    \* results[t]: is_success of the finished ones
  verdict,    \* why the mail is sent: "passed", "failed", "unconfigured",
              \* "refused", or "none" before that
  at,         \* the mail server to try next
  delivered,  \* the mails that servers have taken, and if they said goodbye
  promoted,   \* the promotion took place
  status      \* exit status

work == <<waiting, polled, results>>
mail == <<at, delivered>>
vars == <<gerrit, server, phase, work, verdict, mail, promoted, status>>

Init ==
  /\ gerrit \in BOOLEAN
  /\ server = [t \in Task |-> "none"]
  /\ phase = "trigger"
  /\ waiting = {} /\ polled = {}
  /\ results = [t \in Task |-> "none"]
  /\ verdict = "none"
  /\ at = 1 /\ delivered = <<>>
  /\ promoted = FALSE
  /\ status = "running"

Exit(s) == phase' = "exited" /\ status' = s

-----------------------------------------------------------------------------
(* run_smt *)

Triggered ==
  /\ phase = "trigger"
  /\ \E n \in 0 .. NTask :
       /\ server' = [t \in Task |-> IF t <= n THEN "running" ELSE "none"]
       /\ waiting' = 1 .. n
  /\ phase' = "map"
  /\ UNCHANGED <<gerrit, polled, results, verdict, mail, promoted, status>>

\* SMTNotConfigException and SMTException, each with a mail of its own.
NotTriggered ==
  /\ phase = "trigger"
  /\ verdict' \in {"unconfigured", "refused"}
  /\ phase' = "receiver"
  /\ UNCHANGED <<gerrit, server, work, mail, promoted, status>>

TriggerFails ==
  /\ phase = "trigger"
  /\ "trigger" \in Faults
  /\ Exit("1")
  /\ UNCHANGED <<gerrit, server, work, verdict, mail, promoted>>

-----------------------------------------------------------------------------
(* The task server, external *)

TaskEnds(t) ==
  /\ server[t] = "running"
  /\ \E e \in Endings : server' = [server EXCEPT ![t] = e]
  /\ UNCHANGED <<gerrit, phase, work, verdict, mail, promoted, status>>

-----------------------------------------------------------------------------
(* pool.map(get_smt_result, taskid_list): one task at a time per worker *)

Take(t) ==
  /\ phase = "map"
  /\ t \in waiting
  /\ \A u \in waiting : t <= u
  /\ Cardinality(polled) < NWorker
  /\ waiting' = waiting \ {t}
  /\ polled' = polled \cup {t}
  /\ UNCHANGED <<gerrit, server, phase, results, verdict, mail, promoted, status>>

MutIsSuccess(e) == e # "error"
IsSuccess(e) == e = "passed"

Polled(t) ==
  /\ phase = "map"
  /\ t \in polled
  /\ server[t] \in Reported
  /\ polled' = polled \ {t}
  /\ results' = [results EXCEPT ![t] = IF IsSuccess(server[t]) THEN "yes" ELSE "no"]
  /\ UNCHANGED <<gerrit, server, phase, waiting, verdict, mail, promoted, status>>

\* A connection that cannot be made, or an answer without the fields: the
\* exception comes out of map while the other workers are still polling.
PollFails(t) ==
  /\ phase = "map"
  /\ "poll" \in Faults
  /\ t \in polled
  /\ Exit("1")
  /\ UNCHANGED <<gerrit, server, work, verdict, mail, promoted>>

\* No result at all is no failure.
Mapped ==
  /\ phase = "map"
  /\ waiting = {} /\ polled = {}
  /\ verdict' = IF \E t \in Task : results[t] = "no" THEN "failed" ELSE "passed"
  /\ phase' = "receiver"
  /\ UNCHANGED <<gerrit, server, work, mail, promoted, status>>

-----------------------------------------------------------------------------
(* OamMailSender.send_mail and MailServer.send_mail *)

Receiver ==
  /\ phase = "receiver"
  /\ phase' = "mail"
  /\ UNCHANGED <<gerrit, server, work, verdict, mail, promoted, status>>

\* get_receiver asks Jenkins, outside of any try.
ReceiverFails ==
  /\ phase = "receiver"
  /\ "receiver" \in Faults
  /\ Exit("1")
  /\ UNCHANGED <<gerrit, server, work, verdict, mail, promoted>>

\* What run does after its mail.
Success == verdict \in {"passed", "unconfigured"}

AfterMail ==
  IF Success /\ ~ gerrit THEN phase' = "promote" /\ UNCHANGED status
  ELSE Exit(IF verdict = "refused" THEN "1" ELSE "0")

Delivered(quit) == delivered' = Append(delivered, [says |-> verdict, quit |-> quit])

MutDeliver ==
  /\ phase = "mail"
  /\ at <= NServer
  /\ Delivered(TRUE)
  /\ at' = at + 1
  /\ UNCHANGED <<gerrit, server, phase, work, verdict, promoted, status>>

\* A server takes the mail: break.
Deliver ==
  /\ phase = "mail"
  /\ at <= NServer
  /\ Delivered(TRUE)
  /\ AfterMail
  /\ UNCHANGED <<gerrit, server, work, verdict, at, promoted>>

\* It takes the mail and then fails to say goodbye: an SMTPException like one
\* that was never taken, so the next server gets it too.
QuitFails ==
  /\ phase = "mail"
  /\ "quit" \in Faults
  /\ at <= NServer
  /\ Delivered(FALSE)
  /\ at' = at + 1
  /\ UNCHANGED <<gerrit, server, phase, work, verdict, promoted, status>>

ServerFails ==
  /\ phase = "mail"
  /\ "server" \in Faults
  /\ at <= NServer
  /\ at' = at + 1
  /\ UNCHANGED <<gerrit, server, phase, work, verdict, delivered, promoted, status>>

\* All have been tried: nothing is said of it.
NoServer ==
  /\ phase = "mail"
  /\ at > NServer
  /\ AfterMail
  /\ UNCHANGED <<gerrit, server, work, verdict, mail, promoted>>

-----------------------------------------------------------------------------
(* call_smt_promotion *)

Promotion ==
  /\ phase = "promote"
  /\ promoted' = TRUE
  /\ Exit("0")
  /\ UNCHANGED <<gerrit, server, work, verdict, mail>>

\* Refused, or the answer is lost after it took place.
PromotionFails ==
  /\ phase = "promote"
  /\ "promotion" \in Faults
  /\ promoted' \in BOOLEAN
  /\ Exit("1")
  /\ UNCHANGED <<gerrit, server, work, verdict, mail>>

-----------------------------------------------------------------------------
Main ==
  \/ Triggered \/ NotTriggered \/ TriggerFails \/ Mapped
  \/ Receiver \/ ReceiverFails
  \/ Deliver \/ QuitFails \/ ServerFails \/ NoServer
  \/ Promotion \/ PromotionFails

\* Workers are interchangeable: only the task they work for is kept.
Worker(t) == Take(t) \/ Polled(t) \/ PollFails(t)

\* An answer other than 200, or any other status, leaves a worker in its loop.
Polling == phase = "map" /\ polled # {} /\ UNCHANGED vars
Ended == phase = "exited" /\ UNCHANGED vars

Next ==
  \/ Main
  \/ \E t \in Task : Worker(t) \/ TaskEnds(t)
  \/ Polling \/ Ended

Spec == Init /\ [][Next]_vars

\* The server ends every task, and answers a worker that keeps on asking; no
\* exception has to come to its help.
FairSpec ==
  /\ Spec
  /\ WF_vars(Main)
  /\ \A t \in Task : WF_vars(Take(t) \/ Polled(t)) /\ WF_vars(TaskEnds(t))

-----------------------------------------------------------------------------
(* Properties *)

\* Every variable holds what the program and the server can put there.
TypeOK ==
  /\ gerrit \in BOOLEAN
  /\ server \in [Task -> End \cup {"none", "running"}]
  /\ phase \in {"trigger", "map", "receiver", "mail", "promote", "exited"}
  /\ waiting \subseteq Task /\ polled \subseteq Task
  /\ Cardinality(polled) <= NWorker
  /\ results \in [Task -> {"none", "yes", "no"}]
  /\ verdict \in {"none", "passed", "failed", "unconfigured", "refused"}
  /\ at \in 1 .. NServer + 1
  /\ delivered \in Seq([says : {"passed", "failed", "unconfigured", "refused"},
                        quit : BOOLEAN])
  /\ promoted \in BOOLEAN
  /\ status \in {"running", "0", "1"}

\* smt.py:119-137: a build is promoted only if every task that was triggered
\* has passed, or none is configured, and never for a gerrit change; when the
\* run ends well it is promoted in just that case.
AllPassed == \A t \in Task : server[t] \in {"none", "passed"}

PromotedIfPassed ==
  /\ promoted => ~ gerrit /\ (verdict = "unconfigured" \/ AllPassed)
  /\ status = "0" => (promoted <=> ~ gerrit /\ Success)

\* smt.py:124-141 and mail.py:58-71: all mails that are delivered say the same,
\* and the truth about the tests; the next server gets it only after one that
\* did not quit properly, so without such a failure there is at most one.
MailsTrue ==
  /\ \A i \in DOMAIN delivered :
       /\ delivered[i].says = verdict
       /\ delivered[i].quit => i = Len(delivered)
       /\ verdict = "passed" => AllPassed
       /\ verdict = "failed" => \E t \in Task : server[t] \in {"failed", "error"}
  /\ Len(delivered) <= NServer
  /\ phase \in {"promote", "exited"} /\ delivered = <<>> =>
       at = NServer + 1 \/ status = "1"

\* smt.py:22-47, 123-124: more tasks than workers, ended in any order, do not
\* keep the pool from finishing.
Ends == <>(phase = "exited")
=============================================================================
