----------------------------- MODULE SmtProofs -----------------------------
(***************************************************************************)
(* Theorems about Smt, for every number of tasks, workers and mail         *)
(* servers, and every set of faults; and about FtWait, the other program   *)
(* that waits for tasks of a test server.                                  *)
(***************************************************************************)
EXTENDS Smt, FtWait, FiniteSetTheorems, SequenceTheorems, WellFoundedInduction, TLAPS

LEMMA Numbers ==
  NTask \in Nat /\ NWorker \in Nat /\ NWorker > 0 /\ NServer \in Nat /\ Endings \subseteq End
BY SmtAssumption

Mail == [says : {"passed", "failed", "unconfigured", "refused"}, quit : BOOLEAN]

\* TypeOK, with at as a number between bounds.
Types ==
  /\ gerrit \in BOOLEAN /\ promoted \in BOOLEAN
  /\ server \in [Task -> End \cup {"none", "running"}]
  /\ phase \in {"trigger", "map", "receiver", "mail", "promote", "exited"}
  /\ waiting \subseteq Task /\ polled \subseteq Task /\ Cardinality(polled) <= NWorker
  /\ results \in [Task -> {"none", "yes", "no"}]
  /\ verdict \in {"none", "passed", "failed", "unconfigured", "refused"}
  /\ at \in Nat /\ 1 <= at /\ at <= NServer + 1
  /\ delivered \in Seq(Mail)
  /\ status \in {"running", "0", "1"}

LEMMA TypesEnough == Types <=> TypeOK
<1>1. at \in 1 .. NServer + 1 <=> at \in Nat /\ 1 <= at /\ at <= NServer + 1
  BY Numbers
<1>2. QED BY <1>1 DEF Types, TypeOK, Mail

\* A task is on its way to a worker, or at one, or its answer is there; and no
\* task has an answer that it did not give.
Asked ==
  /\ \A t \in Task : server[t] = "none" \/ t \in waiting \cup polled \/ results[t] # "none"
  /\ \A t \in Task : results[t] = "yes" => server[t] = "passed"
  /\ \A t \in Task : results[t] = "no" => server[t] \in {"failed", "error"}

\* What the mail is about is the truth, and stays it: the tasks have ended.
Judged ==
  /\ phase \in {"trigger", "map"} => verdict = "none"
  /\ phase \in {"receiver", "mail", "promote"} => verdict # "none"
  /\ verdict = "passed" => AllPassed
  /\ verdict = "failed" => \E t \in Task : server[t] \in {"failed", "error"}

Promoting ==
  /\ phase = "exited" <=> status # "running"
  /\ phase # "exited" => ~ promoted
  /\ phase = "promote" \/ promoted => ~ gerrit /\ Success

\* Before the last server is asked, each of those before has failed.
Mailing ==
  /\ phase \in {"trigger", "map", "receiver"} => at = 1 /\ delivered = <<>>
  /\ phase = "mail" => \A i \in DOMAIN delivered : ~ delivered[i].quit
  /\ phase = "mail" => Len(delivered) < at

Unasked == phase = "trigger" => polled = {} /\ \A t \in Task : results[t] = "none"

SmtInv == Types /\ Unasked /\ Asked /\ Judged /\ Promoting /\ PromotedIfPassed /\ Mailing /\ MailsTrue

-----------------------------------------------------------------------------
LEMMA PolledFinite ==
  ASSUME polled \subseteq Task
  PROVE  IsFiniteSet(polled) /\ Cardinality(polled) \in Nat
<1>1. IsFiniteSet(Task)
  BY Numbers, FS_Interval DEF Task
<1>2. QED BY <1>1, FS_Subset, FS_CardinalityType

LEMMA SmtInit == Init => SmtInv
<1> SUFFICES ASSUME Init PROVE SmtInv
  OBVIOUS
<1>1. Cardinality(polled) = 0
  BY FS_EmptySet DEF Init
<1>2. <<>> \in Seq(Mail)
  OBVIOUS
<1>3. Types
  <2>1. server \in [Task -> End \cup {"none", "running"}] /\ results \in [Task -> {"none", "yes", "no"}]
    BY DEF Init
  <2>2. polled \subseteq Task /\ waiting \subseteq Task /\ Cardinality(polled) <= NWorker
    BY <1>1, Numbers DEF Init
  <2>3. at \in Nat /\ 1 <= at /\ at <= NServer + 1
    BY Numbers DEF Init
  <2>4. QED BY <1>2, <2>1, <2>2, <2>3 DEF Init, Types
<1>4. Asked /\ Unasked /\ Judged /\ Promoting /\ Mailing
  BY DEF Init, Asked, Unasked, Judged, Promoting, Mailing
<1>5. PromotedIfPassed /\ MailsTrue
  BY Numbers DEF Init, PromotedIfPassed, MailsTrue
<1>6. QED BY <1>3, <1>4, <1>5 DEF SmtInv

\* An exception before a mail is sent.
LEMMA Exits ==
  ASSUME SmtInv, phase \in {"trigger", "map", "receiver"}, phase' = "exited", status' = "1",
         UNCHANGED <<gerrit, server, waiting, polled, results, verdict, at, delivered, promoted>>
  PROVE  SmtInv'
<1>1. Types' /\ Asked' /\ Unasked'
  BY DEF SmtInv, Types, Asked, Unasked
<1>2. Judged' /\ Promoting' /\ Mailing'
  BY DEF SmtInv, Judged, Promoting, Mailing, AllPassed, Success
<1>3. PromotedIfPassed' /\ MailsTrue'
  BY DEF SmtInv, PromotedIfPassed, MailsTrue, AllPassed, Success, Promoting
<1>4. QED BY <1>1, <1>2, <1>3 DEF SmtInv

-----------------------------------------------------------------------------
(* The workers and the server *)

LEMMA WorkerStep ==
  ASSUME SmtInv, NEW t \in Task, Worker(t) \/ TaskEnds(t)
  PROVE  SmtInv'
<1>1. CASE Take(t)
  <2>1. /\ phase = "map" /\ t \in waiting /\ Cardinality(polled) < NWorker
        /\ waiting' = waiting \ {t} /\ polled' = polled \cup {t}
        /\ UNCHANGED <<gerrit, server, phase, results, verdict, at, delivered, promoted, status>>
    BY <1>1 DEF Take, mail
  <2>2. Cardinality(polled') <= NWorker
    <3>1. IsFiniteSet(polled) /\ Cardinality(polled) \in Nat
      BY PolledFinite DEF SmtInv, Types
    <3>2. Cardinality(polled') \in {Cardinality(polled), Cardinality(polled) + 1}
      BY <2>1, <3>1, FS_AddElement
    <3>3. QED BY <2>1, <3>1, <3>2, Numbers
  <2>3. Types'
    BY <2>1, <2>2 DEF SmtInv, Types
  <2>4. Asked'
    BY <2>1 DEF SmtInv, Asked
  <2>5. Unasked' /\ Judged' /\ Promoting' /\ PromotedIfPassed' /\ Mailing' /\ MailsTrue'
    BY <2>1 DEF SmtInv, Unasked, Judged, Promoting, PromotedIfPassed, Mailing, MailsTrue, AllPassed,
              Success
  <2>6. QED BY <2>3, <2>4, <2>5 DEF SmtInv
<1>2. CASE Polled(t)
  <2>1. /\ phase = "map" /\ t \in polled /\ server[t] \in Reported
        /\ polled' = polled \ {t}
        /\ results' = [results EXCEPT ![t] = IF IsSuccess(server[t]) THEN "yes" ELSE "no"]
        /\ UNCHANGED <<gerrit, server, phase, waiting, verdict, at, delivered, promoted, status>>
    BY <1>2 DEF Polled, mail
  <2>2. Cardinality(polled') <= NWorker
    <3>1. IsFiniteSet(polled) /\ Cardinality(polled) \in Nat /\ Cardinality(polled) <= NWorker
      BY PolledFinite DEF SmtInv, Types
    <3>2. Cardinality(polled') = Cardinality(polled) - 1
      BY <2>1, <3>1, FS_RemoveElement
    <3>3. QED BY <3>1, <3>2, Numbers
  <2>3. Types'
    BY <2>1, <2>2 DEF SmtInv, Types
  <2>4. Asked'
    BY <2>1 DEF SmtInv, Types, Asked, IsSuccess, Reported
  <2>5. Unasked' /\ Judged' /\ Promoting' /\ PromotedIfPassed' /\ Mailing' /\ MailsTrue'
    BY <2>1 DEF SmtInv, Unasked, Judged, Promoting, PromotedIfPassed, Mailing, MailsTrue, AllPassed,
              Success
  <2>6. QED BY <2>3, <2>4, <2>5 DEF SmtInv
<1>3. CASE PollFails(t)
  <2>1. /\ phase = "map" /\ phase' = "exited" /\ status' = "1"
        /\ UNCHANGED <<gerrit, server, waiting, polled, results, verdict, at, delivered, promoted>>
    BY <1>3 DEF PollFails, Exit, work, mail
  <2>2. QED BY <2>1, Exits
<1>4. CASE TaskEnds(t)
  <2>1. PICK e \in Endings : server' = [server EXCEPT ![t] = e]
    BY <1>4 DEF TaskEnds
  <2>2. /\ server[t] = "running"
        /\ UNCHANGED <<gerrit, phase, waiting, polled, results, verdict, at, delivered, promoted,
                       status>>
    BY <1>4 DEF TaskEnds, work, mail
  <2>3. /\ server \in [Task -> End \cup {"none", "running"}]
        /\ e \in End /\ \A u \in Task \ {t} : server'[u] = server[u]
    BY <2>1, Numbers DEF SmtInv, Types
  <2>4. Types'
    BY <2>1, <2>2, <2>3 DEF SmtInv, Types
  <2>5. Asked'
    BY <2>2, <2>3 DEF SmtInv, Asked
  <2>6. ~ AllPassed
    BY <2>2 DEF AllPassed
  <2>7. (\E u \in Task : server[u] \in {"failed", "error"}) =>
          \E u \in Task : server'[u] \in {"failed", "error"}
    BY <2>2, <2>3
  <2>8. Unasked' /\ Judged' /\ Promoting' /\ Mailing'
    BY <2>2, <2>6, <2>7 DEF SmtInv, Unasked, Judged, Promoting, Mailing, Success
  <2>9. PromotedIfPassed' /\ MailsTrue'
    BY <2>2, <2>6, <2>7 DEF SmtInv, PromotedIfPassed, MailsTrue, Success
  <2>10. QED BY <2>4, <2>5, <2>8, <2>9 DEF SmtInv
<1>5. QED BY <1>1, <1>2, <1>3, <1>4 DEF Worker

-----------------------------------------------------------------------------
(* The main process *)

LEMMA RunSmt ==
  ASSUME SmtInv, Triggered \/ NotTriggered \/ TriggerFails \/ Mapped
  PROVE  SmtInv'
<1>1. CASE Triggered
  <2>1. PICK n \in 0 .. NTask :
          /\ server' = [t \in Task |-> IF t <= n THEN "running" ELSE "none"]
          /\ waiting' = 1 .. n
    BY <1>1 DEF Triggered
  <2>2. /\ phase = "trigger" /\ phase' = "map"
        /\ UNCHANGED <<gerrit, polled, results, verdict, at, delivered, promoted, status>>
    BY <1>1 DEF Triggered, mail
  <2>3. /\ 1 .. n \subseteq Task
        /\ \A t \in Task : server'[t] = "none" \/ t \in 1 .. n
    BY <2>1, Numbers DEF Task
  <2>4. verdict = "none" /\ verdict' = "none"
    BY <2>2 DEF SmtInv, Judged
  <2>5. Types'
    BY <2>1, <2>2, <2>3 DEF SmtInv, Types
  <2>6. Asked'
    <3>1. \A t \in Task : results[t] = "none"
      BY <2>2 DEF SmtInv, Unasked
    <3>2. QED BY <2>1, <2>2, <2>3, <3>1 DEF Asked
  <2>7. Judged' /\ Promoting' /\ Mailing' /\ Unasked'
    BY <2>2, <2>4 DEF SmtInv, Judged, Promoting, Mailing, Success, Unasked
  <2>8. PromotedIfPassed' /\ MailsTrue'
    BY <2>2, <2>4 DEF SmtInv, PromotedIfPassed, MailsTrue, Promoting, Success
  <2>9. QED BY <2>5, <2>6, <2>7, <2>8 DEF SmtInv
<1>2. CASE NotTriggered
  <2>1. /\ phase = "trigger" /\ phase' = "receiver"
        /\ verdict' \in {"unconfigured", "refused"}
        /\ UNCHANGED <<gerrit, server, waiting, polled, results, at, delivered, promoted, status>>
    BY <1>2 DEF NotTriggered, work, mail
  <2>2. delivered = <<>>
    BY <2>1 DEF SmtInv, Mailing
  <2>3. Types' /\ Asked'
    BY <2>1 DEF SmtInv, Types, Asked
  <2>4. Judged' /\ Promoting' /\ Mailing' /\ Unasked'
    BY <2>1 DEF SmtInv, Judged, Promoting, Mailing, Success, Unasked
  <2>5. PromotedIfPassed' /\ MailsTrue'
    BY <2>1, <2>2, Numbers DEF SmtInv, PromotedIfPassed, MailsTrue, Promoting, Success
  <2>6. QED BY <2>3, <2>4, <2>5 DEF SmtInv
<1>3. CASE TriggerFails
  <2>1. /\ phase = "trigger" /\ phase' = "exited" /\ status' = "1"
        /\ UNCHANGED <<gerrit, server, waiting, polled, results, verdict, at, delivered, promoted>>
    BY <1>3 DEF TriggerFails, Exit, work, mail
  <2>2. QED BY <2>1, Exits
<1>4. CASE Mapped
  <2>1. /\ phase = "map" /\ phase' = "receiver" /\ waiting = {} /\ polled = {}
        /\ verdict' = IF \E t \in Task : results[t] = "no" THEN "failed" ELSE "passed"
        /\ UNCHANGED <<gerrit, server, waiting, polled, results, at, delivered, promoted, status>>
    BY <1>4 DEF Mapped, work, mail
  <2>2. /\ verdict' \in {"failed", "passed"} /\ delivered = <<>>
        /\ verdict' = "passed" => \A t \in Task : results[t] # "no"
        /\ verdict' = "failed" => \E t \in Task : results[t] = "no"
    BY <2>1 DEF SmtInv, Mailing
  <2>3. Types' /\ Asked'
    BY <2>1, <2>2 DEF SmtInv, Types, Asked
  <2>4. verdict' = "passed" => AllPassed
    <3> SUFFICES ASSUME verdict' = "passed", NEW t \in Task
                 PROVE  server[t] \in {"none", "passed"}
      BY DEF AllPassed
    <3>1. results[t] \in {"none", "yes"}
      BY <2>2 DEF SmtInv, Types
    <3>2. QED BY <2>1, <3>1 DEF SmtInv, Asked
  <2>5. verdict' = "failed" => \E t \in Task : server[t] \in {"failed", "error"}
    BY <2>2 DEF SmtInv, Asked
  <2>6. Judged' /\ Promoting' /\ Mailing' /\ Unasked'
    BY <2>1, <2>2, <2>4, <2>5 DEF SmtInv, Judged, Promoting, Mailing, AllPassed, Unasked
  <2>7. PromotedIfPassed' /\ MailsTrue'
    BY <2>1, <2>2, Numbers DEF SmtInv, PromotedIfPassed, MailsTrue, Promoting, Success
  <2>8. QED BY <2>3, <2>6, <2>7 DEF SmtInv
<1>5. QED BY <1>1, <1>2, <1>3, <1>4

LEMMA Mails ==
  ASSUME SmtInv,
         Receiver \/ ReceiverFails \/ Deliver \/ QuitFails \/ ServerFails \/ NoServer
  PROVE  SmtInv'
<1>1. CASE Receiver
  <2>1. /\ phase = "receiver" /\ phase' = "mail"
        /\ UNCHANGED <<gerrit, server, waiting, polled, results, verdict, at, delivered, promoted,
                       status>>
    BY <1>1 DEF Receiver, work, mail
  <2>2. delivered = <<>> /\ at = 1
    BY <2>1 DEF SmtInv, Mailing
  <2>3. Types' /\ Asked'
    BY <2>1 DEF SmtInv, Types, Asked
  <2>4. Judged' /\ Promoting' /\ Mailing' /\ Unasked'
    BY <2>1, <2>2 DEF SmtInv, Judged, Promoting, Mailing, AllPassed, Success, Unasked
  <2>5. PromotedIfPassed' /\ MailsTrue'
    BY <2>1, <2>2 DEF SmtInv, PromotedIfPassed, MailsTrue, AllPassed, Success
  <2>6. QED BY <2>3, <2>4, <2>5 DEF SmtInv
<1>2. CASE ReceiverFails
  <2>1. /\ phase = "receiver" /\ phase' = "exited" /\ status' = "1"
        /\ UNCHANGED <<gerrit, server, waiting, polled, results, verdict, at, delivered, promoted>>
    BY <1>2 DEF ReceiverFails, Exit, work, mail
  <2>2. QED BY <2>1, Exits
<1>3. ASSUME phase = "mail", AfterMail, UNCHANGED <<gerrit, server, work, verdict, at, promoted>>,
             Types', MailsTrue'
      PROVE  SmtInv'
  <2>1. /\ UNCHANGED <<gerrit, server, waiting, polled, results, verdict, at, promoted>>
        /\ \/ phase' = "promote" /\ status' = status /\ Success /\ ~ gerrit
           \/ phase' = "exited" /\ status' \in {"0", "1"} /\ ~ (Success /\ ~ gerrit)
    BY <1>3 DEF AfterMail, Exit, work
  <2>2. Asked' /\ Judged'
    BY <1>3, <2>1 DEF SmtInv, Asked, Judged, AllPassed
  <2>3. Promoting' /\ PromotedIfPassed' /\ Mailing' /\ Unasked'
    BY <1>3, <2>1 DEF SmtInv, Promoting, PromotedIfPassed, Mailing, Success, Unasked
  <2>4. QED BY <1>3, <2>2, <2>3 DEF SmtInv
<1>4. CASE Deliver
  <2>1. /\ phase = "mail" /\ at <= NServer
        /\ delivered' = Append(delivered, [says |-> verdict, quit |-> TRUE])
        /\ AfterMail /\ UNCHANGED <<gerrit, server, work, verdict, at, promoted>>
    BY <1>4 DEF Deliver, Delivered
  <2>2. verdict \in {"passed", "failed", "unconfigured", "refused"} /\ delivered \in Seq(Mail)
    BY <2>1 DEF SmtInv, Types, Judged
  <2>3. [says |-> verdict, quit |-> TRUE] \in Mail
    BY <2>2 DEF Mail
  <2>4. /\ delivered' \in Seq(Mail) /\ Len(delivered') = Len(delivered) + 1
        /\ \A i \in 1 .. Len(delivered) : delivered'[i] = delivered[i]
        /\ delivered'[Len(delivered')] = [says |-> verdict, quit |-> TRUE]
    BY <2>1, <2>2, <2>3
  <2>5. Types'
    BY <2>1, <2>4 DEF SmtInv, Types, AfterMail, Exit, work
  <2>6. MailsTrue'
    <3>1. \A i \in DOMAIN delivered' : /\ delivered'[i].says = verdict
                                      /\ delivered'[i].quit => i = Len(delivered')
      BY <2>1, <2>2, <2>4 DEF SmtInv, Mailing, MailsTrue
    <3>2. Len(delivered') <= NServer /\ delivered' # <<>>
      BY <2>1, <2>2, <2>4, Numbers DEF SmtInv, Mailing, Types
    <3>3. QED BY <2>1, <3>1, <3>2 DEF SmtInv, Judged, MailsTrue, AllPassed
  <2>7. QED BY <1>3, <2>1, <2>5, <2>6
<1>5. CASE NoServer
  <2>1. /\ phase = "mail" /\ at > NServer /\ delivered' = delivered
        /\ AfterMail /\ UNCHANGED <<gerrit, server, work, verdict, at, promoted>>
    BY <1>5 DEF NoServer, mail
  <2>2. at = NServer + 1
    BY <2>1, Numbers DEF SmtInv, Types
  <2>3. Types'
    BY <2>1 DEF SmtInv, Types, AfterMail, Exit, work
  <2>4. MailsTrue'
    BY <2>1, <2>2 DEF SmtInv, MailsTrue, AllPassed
  <2>5. QED BY <1>3, <2>1, <2>3, <2>4
<1>6. CASE QuitFails
  <2>1. /\ phase = "mail" /\ at <= NServer /\ at' = at + 1
        /\ delivered' = Append(delivered, [says |-> verdict, quit |-> FALSE])
        /\ UNCHANGED <<gerrit, server, phase, waiting, polled, results, verdict, promoted, status>>
    BY <1>6 DEF QuitFails, Delivered, work
  <2>2. verdict \in {"passed", "failed", "unconfigured", "refused"} /\ delivered \in Seq(Mail)
    BY <2>1 DEF SmtInv, Types, Judged
  <2>3. [says |-> verdict, quit |-> FALSE] \in Mail
    BY <2>2 DEF Mail
  <2>4. /\ delivered' \in Seq(Mail) /\ Len(delivered') = Len(delivered) + 1
        /\ \A i \in 1 .. Len(delivered) : delivered'[i] = delivered[i]
        /\ delivered'[Len(delivered')] = [says |-> verdict, quit |-> FALSE]
    BY <2>1, <2>2, <2>3
  <2>5. at \in Nat /\ Len(delivered) < at
    BY <2>1, Numbers DEF SmtInv, Types, Mailing
  <2>6. Types' /\ Asked'
    BY <2>1, <2>4, Numbers DEF SmtInv, Types, Asked
  <2>7. \A i \in DOMAIN delivered' : delivered'[i].says = verdict /\ ~ delivered'[i].quit
    BY <2>1, <2>2, <2>4 DEF SmtInv, Mailing, MailsTrue
  <2>8. Unasked' /\ Judged' /\ Promoting' /\ PromotedIfPassed'
    BY <2>1 DEF SmtInv, Unasked, Judged, Promoting, PromotedIfPassed, AllPassed, Success
  <2>9. Mailing'
    BY <2>1, <2>2, <2>4, <2>5, <2>7 DEF Mailing
  <2>10. Len(delivered') <= NServer
    BY <2>1, <2>2, <2>4, <2>5, Numbers
  <2>11. MailsTrue'
    BY <2>1, <2>7, <2>10 DEF SmtInv, Judged, MailsTrue, AllPassed
  <2>12. QED BY <2>6, <2>8, <2>9, <2>11 DEF SmtInv
<1>7. CASE ServerFails
  <2>1. /\ phase = "mail" /\ at <= NServer /\ at' = at + 1
        /\ UNCHANGED <<gerrit, server, phase, waiting, polled, results, verdict, delivered, promoted,
                       status>>
    BY <1>7 DEF ServerFails, work
  <2>2. at \in Nat /\ Len(delivered) \in Nat
    BY Numbers DEF SmtInv, Types
  <2>3. Types' /\ Asked'
    BY <2>1, Numbers DEF SmtInv, Types, Asked
  <2>4. Unasked' /\ Judged' /\ Promoting' /\ PromotedIfPassed'
    BY <2>1 DEF SmtInv, Unasked, Judged, Promoting, PromotedIfPassed, AllPassed, Success
  <2>5. Mailing'
    BY <2>1, <2>2 DEF SmtInv, Mailing
  <2>6. MailsTrue'
    BY <2>1 DEF SmtInv, MailsTrue, AllPassed
  <2>7. QED BY <2>3, <2>4, <2>5, <2>6 DEF SmtInv
<1>8. QED BY <1>1, <1>2, <1>4, <1>5, <1>6, <1>7

\* call_smt_promotion
LEMMA Promotes == ASSUME SmtInv, Promotion \/ PromotionFails PROVE SmtInv'
<1>1. /\ phase = "promote" /\ phase' = "exited" /\ promoted' \in BOOLEAN
      /\ (status' = "0" /\ promoted' = TRUE) \/ status' = "1"
      /\ UNCHANGED <<gerrit, server, waiting, polled, results, verdict, at, delivered>>
  BY DEF Promotion, PromotionFails, Exit, work, mail
<1>2. ~ gerrit /\ Success
  BY <1>1 DEF SmtInv, Promoting
<1>3. Types' /\ Asked' /\ Unasked' /\ Judged'
  BY <1>1 DEF SmtInv, Types, Asked, Unasked, Judged, AllPassed
<1>4. Promoting' /\ PromotedIfPassed' /\ Mailing'
  BY <1>1, <1>2 DEF SmtInv, Promoting, PromotedIfPassed, Mailing, Judged, Success, AllPassed
<1>5. MailsTrue'
  <2>1. MailsTrue /\ (AllPassed' <=> AllPassed)
    BY <1>1 DEF SmtInv, AllPassed
  <2>2. phase = "promote" /\ UNCHANGED <<server, verdict, at, delivered>>
    BY <1>1
  <2>3. delivered = <<>> => at = NServer + 1 \/ status = "1"
    BY <2>1, <2>2 DEF MailsTrue
  <2>4. status = "running"
    BY <2>2 DEF SmtInv, Promoting
  <2>5. QED BY <2>1, <2>2, <2>3, <2>4 DEF MailsTrue
<1>6. QED BY <1>3, <1>4, <1>5 DEF SmtInv

LEMMA SmtStep == SmtInv /\ [Next]_vars => SmtInv'
<1> SUFFICES ASSUME SmtInv, [Next]_vars PROVE SmtInv'
  OBVIOUS
<1>1. CASE Main
  BY <1>1, RunSmt, Mails, Promotes DEF Main
<1>2. ASSUME NEW t \in Task, Worker(t) \/ TaskEnds(t) PROVE SmtInv'
  BY <1>2, WorkerStep
<1>3. CASE Polling \/ Ended \/ UNCHANGED vars
  BY <1>3 DEF Polling, Ended, vars, work, mail, SmtInv, Types, Unasked, Asked, Judged, Promoting,
              PromotedIfPassed, Mailing, MailsTrue, AllPassed, Success
<1>4. QED BY <1>1, <1>2, <1>3 DEF Next

\* smt.py:106-141, mail.py:58-71: every variable holds what the program and the
\* server can put there; in particular no more tasks are polled than there are
\* workers.
THEOREM TypeCorrect == Spec => []TypeOK
<1>1. SmtInv => TypeOK
  BY TypesEnough DEF SmtInv
<1>2. QED BY <1>1, SmtInit, SmtStep, PTL DEF Spec

\* smt.py:119-137: whatever fails, only a build whose tasks have all passed, or
\* that has none configured, is promoted, and every such build is if the run
\* ends well.
THEOREM PromotesPassed == Spec => []PromotedIfPassed
<1>1. SmtInv => PromotedIfPassed
  BY DEF SmtInv
<1>2. QED BY <1>1, SmtInit, SmtStep, PTL DEF Spec

\* smt.py:124-141, mail.py:58-71: the mails say the same, and the truth, however
\* many servers are tried.
THEOREM MailsTruth == Spec => []MailsTrue
<1>1. SmtInv => MailsTrue
  BY DEF SmtInv
<1>2. QED BY <1>1, SmtInit, SmtStep, PTL DEF Spec

-----------------------------------------------------------------------------
(* The pool of workers is never stuck, and the run comes to its end *)

\* A task that a worker has or will get was triggered, and ends as tasks do.
Sent ==
  /\ \A t \in Task : server[t] \in {"none", "running"} \cup Endings
  /\ \A t \in waiting \cup polled : server[t] # "none"
  /\ phase = "trigger" => waiting = {}

PoolInv == SmtInv /\ Sent

\* What the guards of the steps ask, besides the exceptions.
CanStep ==
  \/ phase \in {"trigger", "receiver", "mail", "promote"}
  \/ phase = "map" /\ waiting = {} /\ polled = {}
  \/ phase = "map" /\ Cardinality(polled) < NWorker /\ \E t \in waiting : \A u \in waiting : t <= u
  \/ phase = "map" /\ \E t \in polled : server[t] \in Reported
  \/ Endings # {} /\ \E t \in Task : server[t] = "running"

\* A worker that waits does so for a task that is to end, and a task without a
\* worker only while all the workers have one.
NotStuck == phase = "exited" \/ CanStep

LEMMA PoolInit == Init => PoolInv
BY SmtInit DEF PoolInv, Sent, Init

LEMMA PoolStep == PoolInv /\ [Next]_vars => PoolInv'
<1> SUFFICES ASSUME PoolInv, [Next]_vars PROVE PoolInv'
  OBVIOUS
<1>1. SmtInv /\ SmtInv' /\ Sent /\ server \in [Task -> End \cup {"none", "running"}]
      /\ waiting \subseteq Task /\ polled \subseteq Task
  BY SmtStep DEF PoolInv, SmtInv, Types
<1>2. CASE Triggered
  <2>1. PICK n \in 0 .. NTask :
          /\ server' = [t \in Task |-> IF t <= n THEN "running" ELSE "none"]
          /\ waiting' = 1 .. n
    BY <1>2 DEF Triggered
  <2>2. polled' = {} /\ phase' = "map"
    BY <1>1, <1>2 DEF Triggered, SmtInv, Unasked
  <2>3. \A t \in 1 .. n : t \in Task /\ t <= n
    BY Numbers DEF Task
  <2>4. Sent'
    BY <2>1, <2>2, <2>3 DEF Sent
  <2>5. QED BY <1>1, <2>4 DEF PoolInv
<1>3. ASSUME NEW t \in Task, TaskEnds(t) PROVE PoolInv'
  <2>1. PICK e \in Endings : server' = [server EXCEPT ![t] = e]
    BY <1>3 DEF TaskEnds
  <2>2. UNCHANGED <<waiting, polled, phase>> /\ e # "none"
    BY <1>3, Numbers DEF TaskEnds, work, End
  <2>3. Sent'
    BY <1>1, <2>1, <2>2 DEF Sent
  <2>4. QED BY <1>1, <2>3 DEF PoolInv
<1>4. ASSUME NEW t \in Task, Take(t) \/ Polled(t) PROVE PoolInv'
  <2>1. Sent'
    BY <1>1, <1>4 DEF Take, Polled, Sent
  <2>2. QED BY <1>1, <2>1 DEF PoolInv
<1>5. CASE UNCHANGED <<server, waiting, polled>> /\ phase' # "trigger"
  BY <1>1, <1>5 DEF PoolInv, Sent
<1>6. CASE UNCHANGED vars
  BY <1>1, <1>6 DEF PoolInv, Sent, vars, work
<1>7. ASSUME NEW t \in Task, PollFails(t) PROVE PoolInv'
  BY <1>5, <1>7 DEF PollFails, Exit, work
<1>8. CASE NotTriggered \/ TriggerFails \/ Mapped \/ Receiver \/ ReceiverFails
  BY <1>5, <1>8 DEF NotTriggered, TriggerFails, Mapped, Receiver, ReceiverFails, Exit, work
<1>9. CASE Deliver \/ QuitFails \/ ServerFails \/ NoServer \/ Promotion \/ PromotionFails
  BY <1>5, <1>9 DEF Deliver, QuitFails, ServerFails, NoServer, Promotion, PromotionFails,
     AfterMail, Exit, work
<1>10. QED
  BY <1>2, <1>3, <1>4, <1>6, <1>7, <1>8, <1>9 DEF Next, Main, Worker, Polling, Ended

LEMMA LeastWaiting ==
  ASSUME NEW S \in SUBSET Nat, S # {}
  PROVE  \E i \in S : \A k \in S : i <= k
<1>1. PICK i \in S : \A k \in S : ~ (<<k, i>> \in OpToRel(<, Nat))
  BY NatLessThanWellFounded, WFMin
<1>2. \A k \in S : ~ (k < i)
  BY <1>1 DEF OpToRel
<1>3. QED BY <1>2

LEMMA PoolNotStuck ==
  ASSUME Endings \subseteq Reported, Endings # {}
  PROVE  PoolInv => NotStuck
<1> SUFFICES ASSUME PoolInv, phase = "map" PROVE CanStep
  BY DEF PoolInv, SmtInv, Types, NotStuck, CanStep
<1>1. CASE polled = {}
  <2>1. Cardinality(polled) < NWorker
    BY <1>1, FS_EmptySet, Numbers
  <2>2. waiting \in SUBSET Nat
    BY Numbers DEF PoolInv, SmtInv, Types, Task
  <2>3. QED BY <1>1, <2>1, <2>2, LeastWaiting DEF CanStep
<1>2. CASE polled # {}
  <2>1. PICK t \in polled : t \in Task /\ server[t] \in {"running"} \cup Endings
    BY <1>2 DEF PoolInv, Sent, SmtInv, Types
  <2>2. QED BY <2>1 DEF CanStep
<1>3. QED BY <1>1, <1>2

\* smt.py:22-47, 123-124: with any number of tasks and workers, and tasks that
\* end as the loop expects, there is always a step to take until the run ends.
THEOREM NeverStuck ==
  ASSUME Endings \subseteq Reported, Endings # {}
  PROVE  Spec => []NotStuck
<1>1. Spec => []PoolInv
  BY PoolInit, PoolStep, PTL DEF Spec
<1>2. QED BY <1>1, PoolNotStuck, PTL

\* What is left to do, the most significant first: the stages of the run, the
\* tasks that have not ended, those without a worker and those with one, and
\* the mail servers.
Stage ==
  CASE phase = "trigger" -> 5 [] phase = "map" -> 4 [] phase = "receiver" -> 3
    [] phase = "mail" -> 2 [] phase = "promote" -> 1 [] phase = "exited" -> 0

Running == {t \in Task : server[t] = "running"}

Variant == <<Stage, Cardinality(Running), Cardinality(waiting), Cardinality(polled),
             NServer + 1 - at>>

\* The lexicographical order of five numbers, in which nothing descends for ever.
Smaller == LexProductOrdering(OpToRel(<, Nat), Nat, 5)

LEMMA SmallerWellFounded == IsWellFoundedOn(Smaller, [1 .. 5 -> Nat])
<1>1. 5 \in Nat
  OBVIOUS
<1>2. QED BY <1>1, NatLessThanWellFounded, WFLexProductOrdering DEF Smaller

LEMMA SmallerIf ==
  ASSUME NEW v \in [1 .. 5 -> Nat], NEW w \in [1 .. 5 -> Nat], NEW j \in 1 .. 5,
         \A i \in 1 .. (j - 1) : v[i] = w[i], v[j] < w[j]
  PROVE  <<v, w>> \in Smaller
<1>1. <<v[j], w[j]>> \in OpToRel(<, Nat)
  BY DEF OpToRel
<1>2. QED BY <1>1 DEF Smaller, LexProductOrdering

\* Tasks are finitely many: a set that loses one gets smaller.
LEMMA OneLess ==
  /\ \A S \in SUBSET Task : Cardinality(S) \in Nat
  /\ \A S \in SUBSET Task : \A t \in S : Cardinality(S \ {t}) < Cardinality(S)
<1>1. IsFiniteSet(Task)
  BY Numbers, FS_Interval DEF Task
<1>2. ASSUME NEW S \in SUBSET Task PROVE IsFiniteSet(S) /\ Cardinality(S) \in Nat
  BY <1>1, FS_Subset, FS_CardinalityType
<1>3. ASSUME NEW S \in SUBSET Task, NEW t \in S PROVE Cardinality(S \ {t}) < Cardinality(S)
  <2>1. Cardinality(S \ {t}) = Cardinality(S) - 1
    BY <1>2, FS_RemoveElement
  <2>2. QED BY <1>2, <2>1
<1>4. QED BY <1>2, <1>3

VariantOK == Stage \in Nat /\ NServer + 1 - at \in Nat /\ Variant \in [1 .. 5 -> Nat]

LEMMA VariantType == PoolInv => VariantOK
<1> SUFFICES ASSUME PoolInv PROVE VariantOK
  OBVIOUS
<1>1. Stage \in Nat
  BY DEF Stage, PoolInv, SmtInv, Types
<1>2. NServer + 1 - at \in Nat
  BY Numbers DEF PoolInv, SmtInv, Types
<1>3. /\ Cardinality(Running) \in Nat /\ Cardinality(waiting) \in Nat
      /\ Cardinality(polled) \in Nat
  BY OneLess DEF PoolInv, SmtInv, Types, Running
<1>4. QED BY <1>1, <1>2, <1>3 DEF VariantOK, Variant

LEMMA VariantTypeNext == PoolInv' => VariantOK'
BY VariantType, PTL

\* What the program and the server do, but for a worker that asks in vain.
Work == Main \/ \E t \in Task : Worker(t) \/ TaskEnds(t)

\* One of the five numbers is less, and none before it has changed.
LEMMA SomeLess ==
  ASSUME PoolInv, PoolInv'
  PROVE  /\ Stage' < Stage => <<Variant', Variant>> \in Smaller
         /\ /\ Stage' = Stage /\ Cardinality(Running') < Cardinality(Running)
            => <<Variant', Variant>> \in Smaller
         /\ /\ Stage' = Stage /\ server' = server /\ Cardinality(waiting') < Cardinality(waiting)
            => <<Variant', Variant>> \in Smaller
         /\ /\ Stage' = Stage /\ server' = server /\ waiting' = waiting
            /\ Cardinality(polled') < Cardinality(polled)
            => <<Variant', Variant>> \in Smaller
         /\ /\ Stage' = Stage /\ server' = server /\ waiting' = waiting /\ polled' = polled
            /\ at' = at + 1
            => <<Variant', Variant>> \in Smaller
<1>1. /\ Variant \in [1 .. 5 -> Nat] /\ Variant' \in [1 .. 5 -> Nat]
      /\ at \in Nat /\ NServer \in Nat
  BY VariantType, VariantTypeNext, Numbers DEF VariantOK, PoolInv, SmtInv, Types
<1> DEFINE Less(j) == (\A i \in 1 .. (j - 1) : Variant'[i] = Variant[i]) /\ Variant'[j] < Variant[j]
<1>2. \A j \in 1 .. 5 : Less(j) => <<Variant', Variant>> \in Smaller
  BY <1>1, SmallerIf
<1>3. /\ Variant[1] = Stage /\ Variant[2] = Cardinality(Running)
      /\ Variant[3] = Cardinality(waiting) /\ Variant[4] = Cardinality(polled)
      /\ Variant[5] = NServer + 1 - at
      /\ Variant'[1] = Stage' /\ Variant'[2] = Cardinality(Running')
      /\ Variant'[3] = Cardinality(waiting') /\ Variant'[4] = Cardinality(polled')
      /\ Variant'[5] = NServer + 1 - at'
  BY DEF Variant
<1>4. server' = server => Running' = Running
  BY DEF Running
<1>5. Stage' < Stage => Less(1)
  BY <1>3
<1>6. Stage' = Stage /\ Cardinality(Running') < Cardinality(Running) => Less(2)
  BY <1>3
<1>7. Stage' = Stage /\ server' = server /\ Cardinality(waiting') < Cardinality(waiting) => Less(3)
  BY <1>3, <1>4
<1>8. /\ Stage' = Stage /\ server' = server /\ waiting' = waiting
      /\ Cardinality(polled') < Cardinality(polled)
      => Less(4)
  BY <1>3, <1>4
<1>9. /\ Stage' = Stage /\ server' = server /\ waiting' = waiting /\ polled' = polled
      /\ at' = at + 1
      => Less(5)
  <2>1. \A k, l \in Nat : k + 1 - (l + 1) < k + 1 - l
    OBVIOUS
  <2>2. at' = at + 1 => NServer + 1 - at' < NServer + 1 - at
    BY <1>1, <2>1
  <2>3. QED BY <1>3, <1>4, <2>2
<1> HIDE DEF Less
<1>10. QED BY <1>2, <1>5, <1>6, <1>7, <1>8, <1>9

LEMMA WorkDescends ==
  ASSUME PoolInv, PoolInv', Work
  PROVE  <<Variant', Variant>> \in Smaller
<1>1. waiting \in SUBSET Task /\ polled \in SUBSET Task /\ Running \in SUBSET Task
      /\ server \in [Task -> End \cup {"none", "running"}]
  BY DEF PoolInv, SmtInv, Types, Running
<1>2. phase' = phase => Stage' = Stage
  BY DEF Stage
<1>3. CASE Triggered \/ NotTriggered \/ TriggerFails \/ Mapped \/ Receiver \/ ReceiverFails
           \/ Deliver \/ NoServer \/ Promotion \/ PromotionFails
  <2>1. CASE Triggered \/ NotTriggered \/ TriggerFails
    BY <2>1, SomeLess DEF Triggered, NotTriggered, TriggerFails, Exit, Stage
  <2>2. CASE Mapped \/ Receiver \/ ReceiverFails
    BY <2>2, SomeLess DEF Mapped, Receiver, ReceiverFails, Exit, Stage
  <2>3. CASE Deliver \/ NoServer
    <3>1. phase = "mail" /\ phase' \in {"promote", "exited"}
      BY <2>3 DEF Deliver, NoServer, AfterMail, Exit
    <3>2. Stage' < Stage
      BY <3>1 DEF Stage
    <3>3. QED BY <3>2, SomeLess
  <2>4. CASE Promotion \/ PromotionFails
    BY <2>4, SomeLess DEF Promotion, PromotionFails, Exit, Stage
  <2>5. QED BY <1>3, <2>1, <2>2, <2>3, <2>4
<1>4. CASE QuitFails \/ ServerFails
  <2>1. at' = at + 1 /\ UNCHANGED <<phase, server, waiting, polled>>
    BY <1>4 DEF QuitFails, ServerFails, work
  <2>2. QED BY <1>2, <2>1, SomeLess
<1>5. ASSUME NEW t \in Task, Worker(t) \/ TaskEnds(t)
      PROVE  <<Variant', Variant>> \in Smaller
  <2>1. CASE Take(t)
    <3>1. UNCHANGED <<phase, server>> /\ t \in waiting /\ waiting' = waiting \ {t}
      BY <2>1 DEF Take
    <3>2. Cardinality(waiting') < Cardinality(waiting)
      BY <1>1, <3>1, OneLess
    <3>3. QED BY <1>2, <3>1, <3>2, SomeLess
  <2>2. CASE Polled(t)
    <3>1. UNCHANGED <<phase, server, waiting>> /\ t \in polled /\ polled' = polled \ {t}
      BY <2>2 DEF Polled
    <3>2. Cardinality(polled') < Cardinality(polled)
      BY <1>1, <3>1, OneLess
    <3>3. QED BY <1>2, <3>1, <3>2, SomeLess
  <2>3. CASE PollFails(t)
    <3>1. Stage' < Stage
      BY <2>3 DEF PollFails, Exit, Stage
    <3>2. QED BY <3>1, SomeLess
  <2>4. CASE TaskEnds(t)
    <3>1. PICK e \in Endings : server' = [server EXCEPT ![t] = e]
      BY <2>4 DEF TaskEnds
    <3>2. phase' = phase /\ t \in Running /\ e # "running"
      BY <2>4, Numbers DEF TaskEnds, Running, End
    <3>3. Running' = Running \ {t}
      BY <1>1, <3>1, <3>2 DEF Running
    <3>4. Cardinality(Running') < Cardinality(Running)
      BY <1>1, <3>2, <3>3, OneLess
    <3>5. QED BY <1>2, <3>2, <3>4, SomeLess
  <2>5. QED BY <1>5, <2>1, <2>2, <2>3, <2>4 DEF Worker
<1>6. QED BY <1>3, <1>4, <1>5 DEF Work, Main

\* smt.py:22-47, 119-141: every step, of the main process, a worker or the
\* server and in whatever order, leaves less to do in an order in which nothing
\* descends for ever; with NeverStuck, only a task that never ends keeps the run.
THEOREM Descent ==
  /\ IsWellFoundedOn(Smaller, [1 .. 5 -> Nat])
  /\ Spec => [][Work => <<Variant', Variant>> \in Smaller]_vars
<1>1. PoolInv /\ PoolInv' /\ Work => <<Variant', Variant>> \in Smaller
  BY WorkDescends
<1>2. Spec => [][Work => <<Variant', Variant>> \in Smaller]_vars
  BY <1>1, PoolInit, PoolStep, PTL DEF Spec
<1>3. QED BY <1>2, SmallerWellFounded

-----------------------------------------------------------------------------
(* FtWait, with variables of its own.                                       *)

\* Of the list, newest first, and of what the round has still to visit of it.
Lists == {<<>>, <<1>>, <<2>>, <<2, 1>>, <<Other>>}
Rests == {<<>>, list} \cup (IF list = <<2, 1>> THEN {<<1>>} ELSE {})

\* Every variable holds what the script and the servers can put there; there
\* are two tasks at most, the second only for some subsystems.
FtTypes ==
  /\ within \subseteq {<<1, 2>>}
  /\ ended \subseteq Id /\ over \subseteq ended /\ logged \subseteq Id
  /\ Other \in over /\ Other \in logged
  /\ ftPhase \in {"create", "wait", "ended", "done", "failed"}
  /\ created \in Nat /\ created <= 2 /\ given \subseteq 1 .. created
  /\ ftPhase = "create" => created = 0 \/ (created = 1 /\ extra)
  /\ ftPhase = "create" => round = <<>> /\ outputs = <<>>
  /\ list \in Lists /\ round \in Rests
  /\ answer \in Answer /\ (answer.log => answer.ended)
  /\ outputs \in Seq(Id)

\* The answer that is acted upon is of the task visited, and was true when it
\* was given; ends and logs do not go away.
Visited ==
  ftPhase = "ended" =>
    /\ round # <<>>
    /\ answer.ended => Head(round) \in ended
    /\ answer.ended /\ ~ answer.log => Head(round) \notin logged
    /\ ~ answer.ended => <<"status", Head(round)>> \in unheard

Seen(t) == \E i \in DOMAIN outputs : outputs[i] = t

\* CollectedOnce, said of ids rather than of sets of places.
Placed ==
  /\ \A i, k \in DOMAIN outputs : outputs[i] = outputs[k] => i = k
  /\ \A t \in Id : ~ (InList(t) /\ Seen(t))
  /\ \A t \in given : \/ InList(t) \/ Seen(t)
                      \/ t = 2 /\ <<1, 2>> \in within /\ Seen(1) /\ (InList(Other) \/ Seen(Other))
  /\ \A t \in Id : InList(t) \/ Seen(t) =>
       \/ t \in given
       \/ t = Other /\ 2 \in given /\ <<1, 2>> \in within /\ Seen(1)
  /\ ftPhase = "done" => list = <<>>

\* The inductive invariant.
FtInv == FtTypes /\ Visited /\ Placed /\ CollectedOver /\ FailedForAReason

LEMMA Ids == Id = {1, 2, Other} /\ FtTask = {1, 2} /\ Other \notin {1, 2}
BY DEF Id, FtTask, Other

LEMMA Listed ==
  /\ list = <<>> => \A x : ~ InList(x)
  /\ \A y : list = <<y>> => \A x : InList(x) <=> x = y
  /\ list = <<2, 1>> => \A x : InList(x) <=> x = 1 \/ x = 2
BY DEF InList

\* What becomes of each word when one is deleted in all of them.
LEMMA Unlisted ==
  ASSUME FtTypes, NEW t, InList(t)
  PROVE  /\ t \in Id
         /\ Deleted(t) \in Lists
         /\ \/ list = <<t>> /\ Deleted(t) = <<>>
            \/ list = <<2, 1>> /\ t = 2 /\ Deleted(t) = <<1>>
            \/ list = <<2, 1>> /\ t = 1 /\ <<1, 2>> \notin within /\ Deleted(t) = <<2>>
            \/ list = <<2, 1>> /\ t = 1 /\ <<1, 2>> \in within /\ Deleted(t) = <<Other>>
<1>1. CASE list = <<>>
  BY <1>1 DEF InList
<1>2. ASSUME NEW x \in {1, 2, Other}, list = <<x>> PROVE list = <<t>> /\ Deleted(t) = <<>>
  <2>1. t = x
    BY <1>2 DEF InList
  <2>2. DOMAIN list = {1} /\ list[1] = t
    BY <1>2, <2>1
  <2>3. Deleted(t) = <<>> \o <<>>
    BY <2>2 DEF Deleted
  <2>4. QED BY <1>2, <2>1, <2>3
<1>3. CASE list = <<2, 1>>
  <2>1. DOMAIN list = {1, 2} /\ list[1] = 2 /\ list[2] = 1
    BY <1>3
  <2>2. CASE t = 2
    <3>1. <<2, 1>> \notin within
      BY DEF FtTypes
    <3>2. Deleted(t) = <<>> \o <<1>>
      BY <2>1, <2>2, <3>1 DEF Deleted
    <3>3. QED BY <1>3, <2>2, <3>2, Ids DEF Lists
  <2>3. CASE t = 1
    <3>1. CASE <<1, 2>> \in within
      <4>1. Deleted(t) = <<Other>> \o <<>>
        BY <2>1, <2>3, <3>1 DEF Deleted
      <4>2. QED BY <1>3, <2>3, <3>1, <4>1, Ids DEF Lists, Other
    <3>2. CASE <<1, 2>> \notin within
      <4>1. Deleted(t) = <<2>> \o <<>>
        BY <2>1, <2>3, <3>2 DEF Deleted
      <4>2. QED BY <1>3, <2>3, <3>2, <4>1, Ids DEF Lists
    <3>3. QED BY <3>1, <3>2
  <2>4. QED BY <1>3, <2>2, <2>3, Listed
<1>4. QED BY <1>1, <1>2, <1>3, Ids DEF FtTypes, Lists

-----------------------------------------------------------------------------
LEMMA FtStarts == FtInit => FtInv
<1> SUFFICES ASSUME FtInit PROVE FtInv
  OBVIOUS
<1>1. FtTypes
  <2>1. within \subseteq {<<1, 2>>}
    BY FtWaitAssumption DEF FtInit
  <2>2. list \in Lists /\ round \in Rests /\ outputs \in Seq(Id) /\ created = 0 /\ given = {}
    BY DEF FtInit, Lists, Rests
  <2>3. logged \subseteq Id /\ Other \in logged /\ ended = {Other} /\ over = {Other}
    BY Ids DEF FtInit
  <2>4. answer \in Answer /\ ~ answer.log
    BY DEF FtInit, Answer, NoAnswer
  <2>5. QED BY <2>1, <2>2, <2>3, <2>4, Ids DEF FtInit, FtTypes
<1>2. Visited /\ FailedForAReason
  BY DEF FtInit, Visited, FailedForAReason
<1>3. Placed /\ CollectedOver
  BY DEF FtInit, Placed, Seen, InList, CollectedOver
<1>4. QED BY <1>1, <1>2, <1>3 DEF FtInv

\* create_ft_task: the id given is new.
LEMMA Creates == ASSUME FtInv, Create PROVE FtInv'
<1>1. /\ ftPhase = "create" /\ created' = created + 1 /\ ftPhase' = AfterCreate
      /\ UNCHANGED <<extra, within, ended, over, logged, round, answer, outputs, files, unheard>>
      /\ \/ list' = list /\ given' = given
         \/ list' = <<created'>> \o list /\ given' = given \cup {created'}
  BY DEF Create, run, ftServer
<1>2. /\ created \in 0 .. 1 /\ given \subseteq 1 .. created
      /\ round = <<>> /\ outputs = <<>> /\ list \in Lists
  BY <1>1 DEF FtInv, FtTypes
<1>3. \A x \in Id : InList(x) => x \in given
  BY <1>2 DEF FtInv, Placed, Seen
<1>4. IF created = 0 THEN list = <<>> ELSE list \in {<<>>, <<1>>}
  <2>1. /\ created = 0 \/ created = 1
        /\ \A x \in 1 .. created : x = 1
        /\ created = 0 => given = {}
    BY <1>2
  <2>2. \A x \in Id : InList(x) => x = 1 /\ created = 1
    BY <1>2, <1>3, <2>1
  <2>3. list \in {<<>>, <<1>>}
    <3>1. list # <<2>> /\ list # <<2, 1>>
      BY <2>2, Ids, Listed
    <3>2. list # <<Other>>
      BY <2>2, Ids, Listed
    <3>3. QED BY <1>2, <3>1, <3>2 DEF Lists
  <2>4. list = <<1>> => created = 1
    BY <2>2, Ids, Listed
  <2>5. QED BY <2>1, <2>3, <2>4
<1>5. /\ \/ list' = list /\ given' = given
         \/ list' = <<1>> /\ list = <<>> /\ created' = 1 /\ given' = given \cup {1}
         \/ list' = <<2>> /\ list = <<>> /\ created' = 2 /\ given' = given \cup {2}
         \/ list' = <<2, 1>> /\ list = <<1>> /\ created' = 2 /\ given' = given \cup {2}
  <2>1. <<1>> \o <<>> = <<1>> /\ <<2>> \o <<>> = <<2>>
    <3>1. <<1>> \in Seq(Nat) /\ <<2>> \in Seq(Nat)
      OBVIOUS
    <3>2. QED BY <3>1, ConcatEmptySeq
  <2>2. <<2>> \o <<1>> = <<2, 1>>
    <3>1. <<2>> \in Seq(Nat) /\ <<1>> \in Seq(Nat) /\ Len(<<2>>) = 1 /\ Len(<<1>>) = 1
      OBVIOUS
    <3> DEFINE s == <<2>> \o <<1>>
    <3>2. s \in Seq(Nat) /\ Len(s) = 2 /\ s[1] = 2 /\ s[2] = 1
      BY <3>1, ConcatProperties
    <3>3. <<2, 1>> \in Seq(Nat) /\ Len(<<2, 1>>) = 2 /\ \A i \in 1 .. 2 : s[i] = <<2, 1>>[i]
      BY <3>2
    <3> HIDE DEF s
    <3>4. s = <<2, 1>>
      BY <3>2, <3>3, SeqEqual
    <3>5. QED BY <3>4 DEF s
  <2>3. CASE created = 0
    BY <1>1, <1>4, <2>1, <2>3
  <2>4. CASE created = 1
    <3>1. created' = 2 /\ list \in {<<>>, <<1>>}
      BY <1>1, <1>4, <2>4
    <3>2. QED BY <1>1, <2>1, <2>2, <3>1
  <2>5. created = 0 \/ created = 1
    BY <1>2
  <2>6. QED BY <2>3, <2>4, <2>5
<1>6. FtTypes'
  <2>1. list' \in Lists /\ given' \subseteq 1 .. created' /\ created' \in Nat /\ created' <= 2
    <3>1. list' \in Lists
      BY <1>2, <1>5 DEF Lists
    <3>2. created' \in Nat /\ created' <= 2 /\ 1 .. created \subseteq 1 .. created'
      BY <1>1, <1>2
    <3>3. \/ given' = given
          \/ created' = 1 /\ given' = given \cup {1}
          \/ created' = 2 /\ given' = given \cup {2}
      BY <1>5
    <3>4. created' = 1 \/ created' = 2 => created' \in 1 .. created'
      OBVIOUS
    <3>5. QED BY <1>2, <3>1, <3>2, <3>3, <3>4
  <2>2. round' \in Rests'
    BY <1>1, <1>2 DEF Rests
  <2>3. ftPhase' \in {"create", "wait"} /\ (ftPhase' = "create" => created' = 1 /\ extra')
    BY <1>1, <1>2 DEF AfterCreate
  <2>4. QED BY <1>1, <1>2, <2>1, <2>2, <2>3 DEF FtInv, FtTypes
<1>7. Visited' /\ FailedForAReason'
  BY <1>1 DEF AfterCreate, Visited, FailedForAReason
<1>8. CollectedOver'
  BY <1>1, <1>2 DEF CollectedOver
<1>9. Placed'
  <2>1. \A x : ~ Seen(x)' /\ ~ Seen(x)
    BY <1>1, <1>2 DEF Seen
  <2>2. \A x \in Id : InList(x)' <=> InList(x) \/ (x \in given' /\ x \notin given)
    <3>1. CASE list' = list /\ given' = given
      BY <3>1 DEF InList
    <3>2. CASE ~ (list' = list /\ given' = given)
      <4>1. /\ \A y : list' = <<y>> => \A x : InList(x)' <=> x = y
            /\ list' = <<2, 1>> => \A x : InList(x)' <=> x = 1 \/ x = 2
        BY DEF InList
      <4>2. created' \notin given /\ created' \in {1, 2}
        BY <1>1, <1>2
      <4>3. CASE list = <<>> /\ list' = <<created'>> /\ given' = given \cup {created'}
        BY <4>1, <4>2, <4>3, Listed
      <4>4. CASE list = <<1>> /\ list' = <<2, 1>> /\ created' = 2 /\ given' = given \cup {2}
        BY <4>1, <4>2, <4>4, Listed
      <4>5. QED BY <1>5, <3>2, <4>3, <4>4
    <3>3. QED BY <3>1, <3>2
  <2>3. ftPhase' # "done" /\ given \subseteq given' /\ DOMAIN outputs' = {}
    BY <1>1, <1>2 DEF AfterCreate
  <2>4. given' \subseteq Id
    <3>1. created' \in {1, 2} /\ given \subseteq {1, 2}
      BY <1>1, <1>2
    <3>2. QED BY <1>1, <3>1, Ids
  <2>5. QED BY <1>3, <2>1, <2>2, <2>3, <2>4 DEF FtInv, Placed
<1>10. QED BY <1>6, <1>7, <1>8, <1>9 DEF FtInv

LEMMA CreatesNot == ASSUME FtInv, CreateUnanswered PROVE FtInv'
<1>1. /\ ftPhase = "create" /\ created' = created + 1 /\ ftPhase' = "failed"
      /\ unheard' = unheard \cup {<<"create", created'>>}
      /\ UNCHANGED <<extra, within, ended, over, logged, list, round, answer, outputs, files, given>>
  BY DEF CreateUnanswered, run, ftServer
<1>2. created \in Nat /\ created' \in 1 .. 2 /\ given' \subseteq 1 .. created'
  BY <1>1 DEF FtInv, FtTypes
<1>3. round = <<>> /\ outputs = <<>>
  BY <1>1 DEF FtInv, FtTypes
<1>4. FtTypes'
  BY <1>1, <1>2 DEF FtInv, FtTypes, Rests
<1>5. Visited' /\ CollectedOver'
  BY <1>1, <1>3 DEF Visited, CollectedOver
<1>6. FailedForAReason'
  BY <1>1, <1>2 DEF FailedForAReason, Id, FtTask
<1>7. Placed'
  BY <1>1 DEF FtInv, Placed, Seen, InList
<1>8. QED BY <1>4, <1>5, <1>6, <1>7 DEF FtInv

\* Ends and ends of builds disturb nothing that was true before.
LEMMA ServerStep == ASSUME FtInv, NEW t \in FtTask, FtTaskEnds(t) \/ BuildOver(t) PROVE FtInv'
<1>1. /\ ended \subseteq ended' /\ over \subseteq over'
      /\ over' \subseteq ended' /\ ended' \subseteq Id
      /\ UNCHANGED <<extra, within, logged, ftPhase, created, list, round, answer,
                     outputs, files, given, unheard>>
  BY DEF FtInv, FtTypes, FtTaskEnds, BuildOver, run, Id
<1>2. FtTypes' /\ Visited'
  BY <1>1 DEF FtInv, FtTypes, Visited, Rests
<1>3. Placed' /\ CollectedOver' /\ FailedForAReason'
  BY <1>1 DEF FtInv, Placed, Seen, InList, CollectedOver, FailedForAReason
<1>4. QED BY <1>2, <1>3 DEF FtInv

\* What the round visits is on the list, and so is what it leaves.
LEMMA RoundTail ==
  ASSUME FtTypes, round # <<>>
  PROVE  InList(Head(round)) /\ Head(round) \in Id /\ Tail(round) \in Rests
<1>1. /\ \A x : Head(<<x>>) = x /\ Tail(<<x>>) = <<>>
      /\ Head(<<2, 1>>) = 2 /\ Tail(<<2, 1>>) = <<1>>
  OBVIOUS
<1>2. round = list \/ (list = <<2, 1>> /\ round = <<1>>)
  BY DEF FtTypes, Rests
<1>3. CASE list = <<2, 1>>
  BY <1>1, <1>2, <1>3, Listed, Ids DEF Rests
<1>4. ASSUME NEW x \in Id, list = <<x>>
      PROVE  InList(Head(round)) /\ Head(round) \in Id /\ Tail(round) \in Rests
  <2>1. round = <<x>>
    BY <1>2, <1>4
  <2>2. Head(round) = x /\ Tail(round) = <<>>
    BY <2>1
  <2>3. QED BY <1>4, <2>2, Listed DEF Rests
<1>5. CASE list = <<>>
  BY <1>2, <1>5
<1>6. QED BY <1>3, <1>4, <1>5, Ids DEF FtTypes, Lists

\* The rest of waiting_tasks_to_end that leaves the lists alone.
LEMMA Looks ==
  ASSUME FtInv, NextRound \/ AskStatus \/ StillBuilding
  PROVE  FtInv'
<1>1. UNCHANGED <<extra, within, ended, over, logged, created, list, outputs, files, given>>
  BY DEF NextRound, AskStatus, StillBuilding, run, ftServer
<1>2. /\ ftPhase \in {"wait", "ended"} /\ ftPhase' \in {"wait", "ended"}
      /\ unheard \subseteq unheard'
      /\ round' = list \/ round' = round \/ (round # <<>> /\ round' = Tail(round))
      /\ answer' \in Answer /\ (answer'.log => answer'.ended)
  <2>1. CASE NextRound
    BY <2>1 DEF NextRound, FtInv, FtTypes
  <2>2. CASE AskStatus
    <3>1. PICK t : t = Head(round)
      OBVIOUS
    <3>2. answer' \in Answer /\ (answer'.log => answer'.ended)
      <4>1. CASE Ask(t, answer')
        <5>1. answer' = [ended |-> t \in ended, log |-> t \in ended \cap logged]
          BY <4>1 DEF Ask
        <5>2. (t \in ended) \in BOOLEAN /\ (t \in ended \cap logged) \in BOOLEAN
          OBVIOUS
        <5>3. QED BY <5>1, <5>2 DEF Answer
      <4>2. CASE answer' = NoAnswer
        BY <4>2 DEF NoAnswer, Answer
      <4>3. QED BY <2>2, <3>1, <4>1, <4>2 DEF AskStatus
    <3>3. QED BY <2>2, <3>2 DEF AskStatus
  <2>3. CASE StillBuilding
    BY <2>3 DEF StillBuilding, FtInv, FtTypes, Visited
  <2>4. QED BY <2>1, <2>2, <2>3
<1>3. FtTypes'
  <2>1. round' \in Rests' /\ Rests' = Rests
    BY <1>1, <1>2, RoundTail DEF FtInv, FtTypes, Rests
  <2>2. QED BY <1>1, <1>2, <2>1 DEF FtInv, FtTypes
<1>4. Visited'
  <2>1. CASE NextRound \/ StillBuilding
    BY <2>1 DEF NextRound, StillBuilding, Visited
  <2>2. CASE AskStatus
    <3>1. SUFFICES ASSUME ftPhase' = "ended" PROVE Visited'
      BY DEF Visited
    <3>2. round # <<>> /\ round' = round
      BY <2>2, <3>1 DEF AskStatus
    <3>3. CASE Ask(Head(round), answer') /\ answer'.ended
      BY <1>1, <3>2, <3>3 DEF Ask, Visited
    <3>4. CASE answer' = NoAnswer /\ unheard' = unheard \cup {<<"status", Head(round)>>}
      BY <3>2, <3>4 DEF NoAnswer, Visited
    <3>5. QED BY <2>2, <3>1, <3>3, <3>4 DEF AskStatus
  <2>3. QED BY <2>1, <2>2
<1>5. CollectedOver' /\ FailedForAReason'
  BY <1>1, <1>2 DEF FtInv, CollectedOver, FailedForAReason
<1>6. Placed'
  BY <1>1, <1>2 DEF FtInv, Placed, Seen, InList
<1>7. QED BY <1>3, <1>4, <1>5, <1>6 DEF FtInv

\* fetch_ctaas_log, and the task off the list.
LEMMA Collects == ASSUME FtInv, Collect PROVE FtInv'
<1> DEFINE t == Head(round)
<1>1. /\ ftPhase = "ended" /\ ftPhase' = "wait" /\ answer.log /\ OverOrUnheard(t)
      /\ outputs' = <<t>> \o outputs /\ list' = Deleted(t) /\ round' = Tail(round)
      /\ UNCHANGED <<extra, within, ended, over, logged, created, answer, given>>
  BY DEF Collect, run, ftServer
<1>2. unheard \subseteq unheard'
  BY <1>1 DEF OverOrUnheard
<1>3. round # <<>> /\ answer.ended /\ t \in ended
  BY <1>1 DEF FtInv, FtTypes, Visited
<1>4. t \in over \/ <<"jenkins", t>> \in unheard'
  BY <1>1, <1>3 DEF OverOrUnheard
<1>5. t \in Id /\ InList(t)
  BY <1>3, RoundTail DEF FtInv
<1>6. /\ list' \in Lists
      /\ \/ list = <<t>> /\ list' = <<>>
         \/ list = <<2, 1>> /\ t = 2 /\ list' = <<1>>
         \/ list = <<2, 1>> /\ t = 1 /\ <<1, 2>> \notin within /\ list' = <<2>>
         \/ list = <<2, 1>> /\ t = 1 /\ <<1, 2>> \in within /\ list' = <<Other>>
  BY <1>1, <1>5, Unlisted DEF FtInv
<1>7. round' \in Rests'
  <2>1. round = list \/ (list = <<2, 1>> /\ round = <<1>>)
    BY <1>3 DEF FtInv, FtTypes, Rests
  <2>2. /\ \A x : Head(<<x>>) = x /\ Tail(<<x>>) = <<>>
        /\ Head(<<2, 1>>) = 2 /\ Tail(<<2, 1>>) = <<1>>
    OBVIOUS
  <2>3. CASE round = <<t>> /\ (list = <<t>> \/ (list = <<2, 1>> /\ t = 1))
    BY <1>1, <2>2, <2>3 DEF Rests
  <2>4. CASE round = <<2, 1>> /\ list = <<2, 1>>
    <3>1. t = 2 /\ Tail(round) = <<1>>
      BY <2>2, <2>4
    <3>2. list' = <<1>>
      BY <1>6, <2>4, <3>1
    <3>3. QED BY <1>1, <3>1, <3>2 DEF Rests
  <2>5. round = <<1>> => t = 1
    BY <2>2
  <2>6. QED BY <1>6, <2>1, <2>3, <2>4, <2>5
<1> HIDE DEF t
<1>8. /\ outputs \in Seq(Id) /\ outputs' \in Seq(Id)
      /\ outputs'[1] = t /\ 1 \in DOMAIN outputs'
      /\ \A i \in DOMAIN outputs : i + 1 \in DOMAIN outputs' /\ outputs'[i + 1] = outputs[i]
      /\ \A i \in DOMAIN outputs' : i = 1 \/ (i - 1 \in DOMAIN outputs /\ outputs'[i] = outputs[i - 1])
  BY <1>1, <1>5 DEF FtInv, FtTypes
<1>9. FtTypes'
  BY <1>1, <1>6, <1>7, <1>8 DEF FtInv, FtTypes
<1>10. Visited' /\ FailedForAReason'
  BY <1>1 DEF Visited, FailedForAReason
<1>11. CollectedOver'
  <2>1. \A i \in DOMAIN outputs :
          outputs[i] \in ended /\ (outputs[i] \in over \/ <<"jenkins", outputs[i]>> \in unheard')
    BY <1>2 DEF FtInv, CollectedOver
  <2>2. QED BY <1>1, <1>3, <1>4, <1>8, <2>1 DEF CollectedOver
<1>12. Placed'
  <2>1. \A x : Seen(x)' <=> Seen(x) \/ x = t
    BY <1>8 DEF Seen
  <2>2. ~ Seen(t)
    BY <1>5 DEF FtInv, Placed
  <2>3. \A i, k \in DOMAIN outputs' : outputs'[i] = outputs'[k] => i = k
    <3>1. ASSUME NEW i \in DOMAIN outputs', NEW k \in DOMAIN outputs', outputs'[i] = outputs'[k]
          PROVE  i = k
      <4>1. \A l \in DOMAIN outputs' : l = 1 \/ outputs'[l] # t
        BY <1>8, <2>2 DEF Seen
      <4>2. CASE i = 1 \/ k = 1
        BY <1>8, <3>1, <4>1, <4>2
      <4>3. CASE i # 1 /\ k # 1
        <5>1. i - 1 = k - 1
          BY <1>8, <3>1, <4>3 DEF FtInv, Placed
        <5>2. i \in Nat /\ k \in Nat
          BY <1>8
        <5>3. QED BY <5>1, <5>2
      <4>4. QED BY <4>2, <4>3
    <3>2. QED BY <3>1
  <2>4. \/ /\ list' = <<Other>> /\ t = 1 /\ <<1, 2>> \in within /\ InList(1) /\ InList(2)
           /\ \A x : InList(x)' <=> x = Other
           /\ \A x : InList(x) <=> x = 1 \/ x = 2
        \/ \A x : InList(x)' <=> InList(x) /\ x # t
    <3>1. /\ list' = <<>> => \A x : ~ InList(x)'
          /\ \A y : list' = <<y>> => \A x : InList(x)' <=> x = y
      BY DEF InList
    <3>2. CASE list = <<t>> /\ list' = <<>>
      BY <3>1, <3>2, Listed
    <3>3. CASE list = <<2, 1>> /\ t = 2 /\ list' = <<1>>
      BY <3>1, <3>3, Listed
    <3>4. CASE list = <<2, 1>> /\ t = 1 /\ list' = <<2>>
      BY <3>1, <3>4, Listed
    <3>5. CASE list = <<2, 1>> /\ t = 1 /\ <<1, 2>> \in within /\ list' = <<Other>>
      BY <3>1, <3>5, Listed
    <3>6. QED BY <1>6, <3>2, <3>3, <3>4, <3>5
  <2>5. ftPhase' # "done" /\ UNCHANGED <<within, given>> /\ given \subseteq FtTask
    BY <1>1, Ids DEF FtInv, FtTypes
  <2>6. CASE \A x : InList(x)' <=> InList(x) /\ x # t
    BY <1>5, <2>1, <2>2, <2>3, <2>5, <2>6, Ids DEF FtInv, Placed
  <2>7. CASE /\ t = 1 /\ <<1, 2>> \in within /\ InList(1) /\ InList(2)
             /\ \A x : InList(x)' <=> x = Other
             /\ \A x : InList(x) <=> x = 1 \/ x = 2
    <3>1. 1 \in given /\ 2 \in given /\ ~ Seen(2) /\ ~ Seen(Other)
      <4>1. 1 \in Id /\ 2 \in Id /\ Other \in Id /\ 1 # Other /\ 2 # Other /\ Other \notin given
        BY <2>5, Ids
      <4>2. ~ Seen(1) /\ ~ Seen(2)
        BY <2>2, <2>7, <4>1 DEF FtInv, Placed
      <4>3. 1 \in given /\ 2 \in given
        BY <2>7, <4>1 DEF FtInv, Placed
      <4>4. ~ Seen(Other)
        BY <4>1, <4>2 DEF FtInv, Placed
      <4>5. QED BY <4>2, <4>3, <4>4
    <3>2. QED BY <2>1, <2>3, <2>5, <2>7, <3>1, Ids DEF FtInv, Placed
  <2>8. QED BY <2>4, <2>6, <2>7
<1>13. QED BY <1>9, <1>10, <1>11, <1>12 DEF FtInv

\* "ERROR: task ended as ${status}"
LEMMA EndsWithoutLog == ASSUME FtInv, EndedWithoutLog PROVE FtInv'
<1>1. /\ ftPhase = "ended" /\ ftPhase' = "failed" /\ ~ answer.log /\ unheard \subseteq unheard'
      /\ UNCHANGED <<extra, within, ended, over, logged, created, list, round, answer, outputs, files,
                     given>>
  BY DEF EndedWithoutLog, OverOrUnheard, run, ftServer
<1>2. FtTypes' /\ Visited' /\ CollectedOver' /\ Placed'
  BY <1>1 DEF FtInv, FtTypes, Rests, Visited, CollectedOver, Placed, Seen, InList
<1>3. FailedForAReason'
  <2>1. Head(round) \in Id
    BY <1>1, RoundTail DEF FtInv, Visited
  <2>2. CASE answer.ended
    <3>1. Head(round) \in ended \ logged
      BY <1>1, <2>2 DEF FtInv, Visited
    <3>2. Head(round) \in FtTask
      BY <2>1, <3>1 DEF FtInv, FtTypes, Id
    <3>3. QED BY <1>1, <3>1, <3>2 DEF FailedForAReason
  <2>3. CASE ~ answer.ended
    BY <1>1, <2>1, <2>3 DEF FtInv, Visited, FailedForAReason
  <2>4. QED BY <2>2, <2>3
<1>4. QED BY <1>2, <1>3 DEF FtInv

LEMMA Merges == ASSUME FtInv, Merge PROVE FtInv'
<1>1. /\ ftPhase' = "done" /\ list = <<>>
      /\ UNCHANGED <<extra, within, ended, over, logged, created, list, round, answer,
                     outputs, files, given, unheard>>
  BY DEF Merge, run, ftServer
<1>2. FtTypes' /\ Visited' /\ CollectedOver' /\ FailedForAReason'
  BY <1>1 DEF FtInv, FtTypes, Rests, Visited, CollectedOver, FailedForAReason
<1>3. Placed'
  BY <1>1 DEF FtInv, Placed, Seen, InList
<1>4. QED BY <1>2, <1>3 DEF FtInv

LEMMA FtStep == FtInv /\ [FtNext]_ftVars => FtInv'
<1> SUFFICES ASSUME FtInv, [FtNext]_ftVars PROVE FtInv'
  OBVIOUS
<1>1. CASE Script
  BY <1>1, Creates, CreatesNot, Looks, Collects, EndsWithoutLog, Merges DEF Script
<1>2. ASSUME NEW t \in FtTask, FtTaskEnds(t) \/ BuildOver(t) PROVE FtInv'
  BY <1>2, ServerStep
<1>3. CASE FtEnded \/ UNCHANGED ftVars
  BY <1>3 DEF FtEnded, ftVars, run, ftServer, FtInv, FtTypes, Rests, Visited, Placed, Seen,
              InList, CollectedOver, FailedForAReason
<1>4. QED BY <1>1, <1>2, <1>3 DEF FtNext

\* rcpft.sh:156-196: every task whose id came to the list is on it or noted,
\* and noted once, unless its id had that of a noted one in it: then what is left
\* of its id is, in its place.
THEOREM CollectsOnce == FtSpec => []CollectedOnce
<1>1. FtInv => CollectedOnce
  <2> SUFFICES ASSUME FtInv PROVE CollectedOnce
    OBVIOUS
  <2>1. \A t : Noted(t) # {} <=> Seen(t)
    BY DEF Noted, Seen
  <2>2. given \subseteq FtTask
    BY Ids DEF FtInv, FtTypes
  <2>3. <<1, 2>> \in within /\ Seen(1) => Damaged(2)
    BY <2>1, Ids DEF Damaged
  <2>4. QED BY <2>1, <2>2, <2>3, Ids DEF FtInv, Placed, CollectedOnce, Kept
<1>2. QED BY <1>1, FtStarts, FtStep, PTL DEF FtSpec

\* rcpft.sh:163-170: outputs are fetched of tasks that have ended and whose
\* build is over, or of which Jenkins said nothing.
THEOREM CollectsOver == FtSpec => []CollectedOver
<1>1. FtInv => CollectedOver
  BY DEF FtInv
<1>2. QED BY <1>1, FtStarts, FtStep, PTL DEF FtSpec

\* rcpft.sh:143, 185: the script fails only for an end without a log or an
\* answer that did not come.
THEOREM FailsForAReason == FtSpec => []FailedForAReason
<1>1. FtInv => FailedForAReason
  BY DEF FtInv
<1>2. QED BY <1>1, FtStarts, FtStep, PTL DEF FtSpec
=============================================================================
