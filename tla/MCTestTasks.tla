---------------------------- MODULE MCTestTasks ----------------------------
(***************************************************************************)
(* The two programs that wait for tasks of a test server, Smt and FtWait.  *)
(* They share no state and never call one another, so what they do         *)
(* together is covered by each running alone, beside the other after that  *)
(* has ended on its first exception.                                       *)
(*                                                                         *)
(* Smt with up to four tasks for the three workers, and two mail servers;  *)
(* FtWait with ids of which none occurs in the other, or the first in the  *)
(* second.                                                                 *)
(***************************************************************************)
EXTENDS Smt, FtWait

AllFaults == {"trigger", "poll", "receiver", "server", "quit", "promotion"}
WithinsDef == {{}, {<<1, 2>>}}

\* After TriggerFails.
SmtOver ==
  /\ gerrit = FALSE
  /\ server = [t \in Task |-> "none"]
  /\ phase = "exited" /\ status = "1"
  /\ waiting = {} /\ polled = {}
  /\ results = [t \in Task |-> "none"]
  /\ verdict = "none"
  /\ at = 1 /\ delivered = <<>>
  /\ promoted = FALSE

\* After CreateUnanswered, and the end of every task.
FtOver ==
  /\ extra = FALSE /\ within = {}
  /\ ended = Id /\ over = Id /\ logged = Id
  /\ ftPhase = "failed"
  /\ created = 1
  /\ list = <<>> /\ round = <<>>
  /\ answer = NoAnswer
  /\ outputs = <<>> /\ files = {}
  /\ given = {} /\ unheard = {<<"create", 1>>}

EitherInit == (Init /\ FtOver) \/ (FtInit /\ SmtOver)

EitherNext == (Next /\ UNCHANGED ftVars) \/ (FtNext /\ UNCHANGED vars)

EitherSpec == EitherInit /\ [][EitherNext]_<<vars, ftVars>>

\* The fairness of FairSpec and of FtFairSpec.
EitherFairSpec ==
  /\ EitherSpec
  /\ WF_vars(Main)
  /\ \A t \in Task : WF_vars(Take(t) \/ Polled(t)) /\ WF_vars(TaskEnds(t))
  /\ WF_ftVars(Script)
  /\ \A t \in FtTask : WF_ftVars(FtTaskEnds(t)) /\ WF_ftVars(BuildOver(t))
=============================================================================
