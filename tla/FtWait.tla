------------------------------- MODULE FtWait -------------------------------
(***************************************************************************)
(* src/ft/rcpft.sh: functional tests as tasks of a remote task server.     *)
(*                                                                         *)
(* One task is created, for some subsystems a second one.  The script then *)
(* asks the server for the status of each task in turns; of one that ended *)
(* it asks Jenkins whether the build is over, notes the output and takes   *)
(* the task off its list.  An answer that does not come is an empty string,*)
(* which matches the list of end statuses and is no "true" of building.    *)
(* A task is taken off the list by deleting its digits wherever they occur.*)
(*                                                                         *)
(* What Smt too has a name for is written with "Ft" here: SmtProofs is     *)
(* about both.                                                             *)
(***************************************************************************)
EXTENDS Naturals, Sequences

CONSTANTS Extra,    \* whether the subsystem may be one with a second task
          Withins,  \* which ids may occur in which: sets of pairs of tasks
          FtFaults  \* which of "create", "status", "jenkins", "download" may
                    \* go unanswered

FtTask == {1, 2}             \* in the order of creation
Other == 3                   \* what is left of an id when another is deleted
                             \* in it: the id of a task of somebody else
Id == FtTask \cup {Other}
Answer == [ended : BOOLEAN, log : BOOLEAN]
NoAnswer == [ended |-> FALSE, log |-> FALSE]

ASSUME FtWaitAssumption ==
  /\ Extra \subseteq BOOLEAN
  /\ Withins \subseteq SUBSET {<<1, 2>>}
  /\ FtFaults \subseteq {"create", "status", "jenkins", "download"}

VARIABLES
  extra, within,  \* this run's
  ended,     \* the tasks that have ended, according to the server
  over,      \* the tasks whose Jenkins build is over
  logged,    \* the tasks that end with a log file
  ftPhase,   \* where the script is
  created,   \* how many tasks it has asked for
  list,      \* TASK_LIST, newest first
  round,     \* what the current "for" has still to visit
  answer,    \* the server's answer of the task visited
  outputs,   \* TASK_OUTPUT_XML, newest first
  files,     \* the outputs that were really downloaded
  given,     \* history: the tasks whose ids have come to the list
  unheard    \* history: what was not answered, of which task

ftServer == <<ended, over, logged>>
run == <<extra, within>>
ftVars == <<run, ftServer, ftPhase, created, list, round, answer, outputs, files, given, unheard>>

InList(t) == \E i \in DOMAIN list : list[i] = t

FtInit ==
  /\ extra \in Extra
  /\ within \in Withins
  /\ ended = {Other} /\ over = {Other}
  /\ \E L \in SUBSET FtTask : logged = L \cup {Other}
  /\ ftPhase = "create"
  /\ created = 0
  /\ list = <<>> /\ round = <<>>
  /\ answer = NoAnswer
  /\ outputs = <<>> /\ files = {}
  /\ given = {} /\ unheard = {}

-----------------------------------------------------------------------------
(* create_ft_task and do_wordaround_extra_task *)

AfterCreate == IF extra /\ created = 0 THEN "create" ELSE "wait"

\* An answer without a number in it (a refusal) adds nothing to the list.
Create ==
  /\ ftPhase = "create"
  /\ created' = created + 1
  /\ \/ UNCHANGED <<list, given>>
     \/ list' = <<created'>> \o list /\ given' = given \cup {created'}
  /\ ftPhase' = AfterCreate
  /\ UNCHANGED <<run, ftServer, round, answer, outputs, files, unheard>>

\* "[ERROR]create task failed, can not get respond from ctaas"
CreateUnanswered ==
  /\ ftPhase = "create"
  /\ "create" \in FtFaults
  /\ ftPhase' = "failed"
  /\ created' = created + 1
  /\ unheard' = unheard \cup {<<"create", created'>>}
  /\ UNCHANGED <<run, ftServer, list, round, answer, outputs, files, given>>

-----------------------------------------------------------------------------
(* The task server and Jenkins, external *)

FtTaskEnds(t) ==
  /\ t \notin ended
  /\ ended' = ended \cup {t}
  /\ UNCHANGED <<run, over, logged, ftPhase, created, list, round, answer, outputs, files, given,
                 unheard>>

BuildOver(t) ==
  /\ t \in ended \ over
  /\ over' = over \cup {t}
  /\ UNCHANGED <<run, ended, logged, ftPhase, created, list, round, answer, outputs, files, given,
                 unheard>>

-----------------------------------------------------------------------------
(* waiting_tasks_to_end *)

\* "while" and the "for" in it, whose words are fixed when it starts.
NextRound ==
  /\ ftPhase = "wait"
  /\ round = <<>>
  /\ list # <<>>
  /\ round' = list
  /\ UNCHANGED <<run, ftServer, ftPhase, created, list, answer, outputs, files, given, unheard>>

MutAsk(t, a) == a = [ended |-> TRUE, log |-> t \in ended \cap logged]
Ask(t, a) == a = [ended |-> t \in ended, log |-> t \in ended \cap logged]

\* A task that has not ended is passed over; no answer looks like an end.
AskStatus ==
  /\ ftPhase = "wait"
  /\ round # <<>>
  /\ LET t == Head(round) IN
       \/ /\ Ask(t, answer')
          /\ IF answer'.ended
             THEN ftPhase' = "ended" /\ UNCHANGED round
             ELSE round' = Tail(round) /\ UNCHANGED ftPhase
          /\ UNCHANGED unheard
       \/ /\ "status" \in FtFaults
          /\ answer' = NoAnswer
          /\ ftPhase' = "ended"
          /\ unheard' = unheard \cup {<<"status", t>>}
          /\ UNCHANGED round
  /\ UNCHANGED <<run, ftServer, created, list, outputs, files, given>>

\* isbuilding = "true": come back in the next round.
StillBuilding ==
  /\ ftPhase = "ended"
  /\ answer.ended
  /\ Head(round) \notin over
  /\ round' = Tail(round)
  /\ ftPhase' = "wait"
  /\ UNCHANGED <<run, ftServer, created, list, answer, outputs, files, given, unheard>>

\* Jenkins says that the build is over, or nothing (there is no build to ask
\* of when the status was not answered).
MutOverOrUnheard(t) == UNCHANGED unheard

OverOrUnheard(t) ==
  \/ t \in over /\ UNCHANGED unheard
  \/ ~ answer.ended /\ UNCHANGED unheard
  \/ "jenkins" \in FtFaults /\ unheard' = unheard \cup {<<"jenkins", t>>}

\* ${TASK_LIST[@]/${task_id}}, of the two words that the list has at most.
MutDeleted(t) == <<>>
Deleted(t) ==
  LET Word(i) ==
        IF i \notin DOMAIN list \/ list[i] = t THEN <<>>
        ELSE <<IF <<t, list[i]>> \in within THEN Other ELSE list[i]>>
  IN  Word(1) \o Word(2)

\* fetch_ctaas_log: the output is noted whether or not curl got it.
Collect ==
  /\ ftPhase = "ended"
  /\ answer.log
  /\ OverOrUnheard(Head(round))
  /\ outputs' = <<Head(round)>> \o outputs
  /\ files' \in {files \cup {Head(round)}}
                  \cup (IF "download" \in FtFaults THEN {files} ELSE {})
  /\ list' = Deleted(Head(round))
  /\ round' = Tail(round)
  /\ ftPhase' = "wait"
  /\ UNCHANGED <<run, ftServer, created, answer, given>>

MutEndedWithoutLog ==
  /\ ftPhase = "ended"
  /\ ~ answer.log
  /\ OverOrUnheard(Head(round))
  /\ round' = Tail(round)
  /\ ftPhase' = "wait"
  /\ UNCHANGED <<run, ftServer, created, list, answer, outputs, files, given>>

\* "ERROR: task ended as ${status}"
EndedWithoutLog ==
  /\ ftPhase = "ended"
  /\ ~ answer.log
  /\ OverOrUnheard(Head(round))
  /\ ftPhase' = "failed"
  /\ UNCHANGED <<run, ftServer, created, list, round, answer, outputs, files, given>>

\* rebot merges the outputs; whatever becomes of it, the exit status is 0.
Merge ==
  /\ ftPhase = "wait"
  /\ round = <<>>
  /\ list = <<>>
  /\ ftPhase' = "done"
  /\ UNCHANGED <<run, ftServer, created, list, round, answer, outputs, files, given, unheard>>

-----------------------------------------------------------------------------
Script ==
  \/ Create \/ CreateUnanswered
  \/ NextRound \/ AskStatus \/ StillBuilding \/ Collect \/ EndedWithoutLog
  \/ Merge

FtEnded == ftPhase \in {"done", "failed"} /\ UNCHANGED ftVars

FtNext ==
  \/ Script
  \/ \E t \in FtTask : FtTaskEnds(t) \/ BuildOver(t)
  \/ FtEnded

FtSpec == FtInit /\ [][FtNext]_ftVars

\* The script runs on; the server ends every task some time (it has a timeout
\* of its own) and so does Jenkins: the script has no timeout.
FtFairSpec ==
  /\ FtSpec
  /\ WF_ftVars(Script)
  /\ \A t \in FtTask : WF_ftVars(FtTaskEnds(t)) /\ WF_ftVars(BuildOver(t))

-----------------------------------------------------------------------------
(* Properties *)

\* rcpft.sh:156-196: no task is lost between the list and the noted outputs, and
\* none is noted twice: each task whose id came to the list is on it until its
\* output is noted.  The one exception is a task whose id has the id of a noted
\* one in it (line 188): what is left of it may be noted instead, as the task of
\* somebody else.  The script ends well only when nothing is left on the list.
Noted(t) == {i \in DOMAIN outputs : outputs[i] = t}
Kept(t) == InList(t) \/ Noted(t) # {}
Damaged(t) == \E u \in FtTask : <<u, t>> \in within /\ Noted(u) # {}

CollectedOnce ==
  /\ \A i, k \in DOMAIN outputs : outputs[i] = outputs[k] => i = k
  /\ \A t \in Id : ~ (InList(t) /\ Noted(t) # {})
  /\ \A t \in given : Kept(t) \/ (Damaged(t) /\ Kept(Other))
  /\ \A t \in Id : Kept(t) => t \in given \/ (t = Other /\ \E u \in given : Damaged(u))
  /\ ftPhase = "done" => list = <<>>

\* rcpft.sh:163-170: an output is fetched after the task has ended and, since
\* the logs are uploaded by then, after its build: unless Jenkins did not say.
CollectedOver ==
  \A i \in DOMAIN outputs :
    outputs[i] \in ended /\ (outputs[i] \in over \/ <<"jenkins", outputs[i]>> \in unheard)

\* rcpft.sh:143, 185: the script fails only if a task ended without a log or
\* the server did not answer; the lost answer of one status query is enough.
FailedForAReason ==
  ftPhase = "failed" =>
    \/ \E t \in FtTask : t \in ended \ logged
    \/ \E t \in Id : <<"create", t>> \in unheard \/ <<"status", t>> \in unheard

\* The loop ends, whatever the order in which tasks and builds end.
FtEnds == <>(ftPhase \in {"done", "failed"})
=============================================================================
