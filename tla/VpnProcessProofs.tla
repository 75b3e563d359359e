-------------------------- MODULE VpnProcessProofs --------------------------
(***************************************************************************)
(* What is proved about the whole VPN process: it implements the worker of *)
(* VpnWorker, so everything proved there holds in it; it never connects    *)
(* without the answers it asked for; its slots never look at a dead        *)
(* thread's stack; and, as long as the GUI does not close the socket after *)
(* an ACTION_STOP, it does not exit before the grace period with a pppd or *)
(* routes left behind.                                                     *)
(***************************************************************************)
EXTENDS VpnProcess, VpnWorkerProofs

\* A stop is recorded and the worker is where no pppd and no routes exist and
\* none are going to.
Harmless ==
  stopFlag /\ wpc \notin {"spawn", "reap"} \union BlindWindow \union InTunnel

\* How the main thread's view of the thread relates to where the worker is.
ThreadInv ==
  /\ startPc # "done" => thread = "none"
  /\ thread = "none" => wpc = "none" /\ ~workerAlive
  /\ thread = "finished" => wpc = "returned"
  /\ thread # "none" /\ ~workerAlive => wpc = "returned"
  /\ finishedPosted => wpc = "returned"
  /\ thread = "terminated" => quitCalled
  /\ mainPc = "deref" => thread # "none" /\ ~quitCalled

\* A shutdown that did not signal the worker had no need to, and neither a
\* join nor a quit is reached early without the worker being done.
ShutdownInv ==
  /\ shuttingDown => stopFlag
  /\ quitCalled \/ mainPc = "join" \/ watchdog # "off" => shuttingDown
  /\ shuttingDown /\ watchdog = "off" => Harmless
  /\ (quitCalled \/ mainPc = "join") /\ watchdog # "fired" => Harmless

\* The answers startVPN() has by the time it waits for the next one.
AnswersInv ==
  /\ startPc = "cred" => needs \ {"CRED"} \subseteq received
  /\ CredsBeforeConnect

\* An ACTION_STOP and a disconnect exclude each other, and each comes once.
SocketInv ==
  /\ ~apiOpen => "STOP" \notin guiSent
  /\ discPosted => ~apiOpen
  /\ \A i \in 1 .. Len(inbox) : inbox[i] = "STOP" => "STOP" \in guiSent
  /\ \A i, j \in 1 .. Len(inbox) :
       inbox[i] = "STOP" /\ inbox[j] = "STOP" => i = j

\* So nothing is on its way that would enter closeProcess() again while the
\* worker tears down.
NoSecondStop ==
  IF apiOpen
  THEN "STOP" \in guiSent /\ \A i \in 1 .. Len(inbox) : inbox[i] # "STOP"
  ELSE ~discPosted

TeardownInv == watchdog = "armed" /\ ~Harmless => NoSecondStop

ProcessInv ==
  /\ ProcessTypeOK
  /\ WorkerInv
  /\ ThreadInv
  /\ AnswersInv

GraceInv == ShutdownInv /\ SocketInv /\ TeardownInv /\ CleanExit

-----------------------------------------------------------------------------
(* The process implements the worker.                                      *)

LEMMA InitRefines == ProcessInit => WorkerInit
BY DEF ProcessInit

LEMMA CloseRefines == CloseProcess => [WorkerNext]_workerVars
BY DEF CloseProcess, BeginShutdown, EndShutdown, WorkerNext

LEMMA SpawnRefines == SpawnWorker => WorkerNext
BY DEF SpawnWorker, WorkerNext

LEMMA NextRefines == [Next]_vars => [WorkerNext]_workerVars
<1> SUFFICES ASSUME [Next]_vars
             PROVE  [WorkerNext]_workerVars
  OBVIOUS
<1>1. StartFails => [WorkerNext]_workerVars
  BY CloseRefines DEF StartFails
<1>2. AskCredOrSpawn => [WorkerNext]_workerVars
  BY SpawnRefines DEF AskCredOrSpawn, AwaitAnswer
<1>3. CASE StartVPN \/ PassWaitEnds \/ CredWaitEnds
  BY <1>1, <1>2, <1>3, SpawnRefines
  DEF StartVPN, PassWaitEnds, CredWaitEnds, AwaitAnswer
<1>4. CASE ServerReadyRead \/ ServerDisconnected \/ WorkerFinished
  BY <1>4, CloseRefines DEF ServerReadyRead, ServerDisconnected, WorkerFinished
<1>5. CASE ShutdownTimeout
  BY <1>5 DEF ShutdownTimeout, WorkerNext
<1>6. CASE JoinSucceeds \/ JoinTimesOut \/ ObserverChecks \/ ObserverReports
  BY <1>6 DEF JoinSucceeds, JoinTimesOut, ObserverChecks, ObserverReports
<1>7. CASE ObserverUsesFreedWorker
  BY <1>7 DEF ObserverUsesFreedWorker, ProcessExits, WorkerNext, workerVars,
              tunnelVars, splitVars, stopVars
<1>8. CASE MainReturns
  BY <1>8 DEF MainReturns, WorkerNext
<1>9. CASE ThreadWorks
  BY <1>9 DEF ThreadWorks, WorkerNext
<1>10. CASE InterfaceUp \/ ExternalSigterm
  BY <1>10 DEF InterfaceUp, ExternalSigterm, WorkerNext
<1>11. CASE DeleteWorker \/ ThreadFinishes \/ GuiCloses
  BY <1>11 DEF DeleteWorker, ThreadFinishes, GuiCloses
<1>12. ASSUME NEW cmd \in Commands, GuiSends(cmd)
       PROVE  [WorkerNext]_workerVars
  BY <1>12 DEF GuiSends
<1>13. CASE UNCHANGED vars
  BY <1>13 DEF vars
<1> QED
  BY <1>3, <1>4, <1>5, <1>6, <1>7, <1>8, <1>9, <1>10, <1>11, <1>12, <1>13
  DEF Next, MainStep

\* Whatever the main thread, the GUI and the system do, the worker only ever
\* takes steps of VpnWorker.
THEOREM ProcessImplementsWorker == Spec => ImplementsWorker
BY InitRefines, NextRefines, PTL DEF Spec, WorkerSpec, ImplementsWorker

\* So everything VpnWorkerProofs shows holds of the process.
LEMMA WorkerInvInProcess == Spec => []WorkerInv
BY ProcessImplementsWorker, WorkerInvHolds, PTL DEF ImplementsWorker

-----------------------------------------------------------------------------
(* ProcessInv: types, the thread, the answers.                             *)

\* What the main thread has to know about a step of process().
LEMMA WorkerStepFacts ==
  ASSUME WorkerTypeOK, WorkerStep \/ IoEnds
  PROVE  /\ wpc \notin {"none", "returned"}
         /\ wpc' # "none"
         /\ stopFlag' = stopFlag
         /\ life = "alive" /\ life' = life
<1> USE DEF WorkerTypeOK, Goto, stopVars
<1>1. CASE InstallStopHandler \/ SamlLogin \/ SamlTimeout \/ StartTunnel
  BY <1>1 DEF InstallStopHandler, SamlLogin, SamlTimeout, StartTunnel
<1>2. ASSUME NEW ok \in BOOLEAN, ConnectReturns(ok)
      PROVE  wpc \notin {"none", "returned"} /\ wpc' # "none"
             /\ stopFlag' = stopFlag /\ life = "alive" /\ life' = life
  BY <1>2 DEF ConnectReturns
<1>3. ASSUME NEW ok \in BOOLEAN, NEW n \in 0 .. MaxSplit, NegotiateReturns(ok, n)
      PROVE  wpc \notin {"none", "returned"} /\ wpc' # "none"
             /\ stopFlag' = stopFlag /\ life = "alive" /\ life' = life
  BY <1>3 DEF NegotiateReturns
<1>4. CASE PppdFails \/ PppdStarts
  BY <1>4 DEF PppdFails, PppdStarts, AfterPppd
<1>5. ASSUME NEW ok \in BOOLEAN, RequestReturns(ok)
      PROVE  wpc \notin {"none", "returned"} /\ wpc' # "none"
             /\ stopFlag' = stopFlag /\ life = "alive" /\ life' = life
  BY <1>5 DEF RequestReturns
<1>6. CASE IoEnter \/ IoSignalled \/ IoEnds \/ IfDown
  BY <1>6 DEF IoEnter, IoSignalled, IoEnds, LeaveIoLoop, IfDown
<1>7. CASE Reap \/ LogoutReturns \/ ClearTunnel
  BY <1>7 DEF Reap, LogoutReturns, ClearTunnel
<1> QED
  BY <1>1, <1>2, <1>3, <1>4, <1>5, <1>6, <1>7 DEF WorkerStep

\* closeProcess() moves neither the worker nor the thread.
LEMMA CloseFacts ==
  ASSUME CloseProcess, ControlTypeOK
  PROVE  /\ wpc' = wpc /\ ptrTunnel' = ptrTunnel
         /\ thread' = thread /\ workerAlive' = workerAlive
         /\ UNCHANGED reportVars
         /\ mainPc' \in {mainPc, "join"}
         /\ shuttingDown' = TRUE
         /\ quitCalled' \in BOOLEAN /\ (quitCalled => quitCalled')
         /\ watchdog' \in {"off", "armed", "fired"}
         /\ observing' \in BOOLEAN
         /\ threadQuit' \in BOOLEAN
<1> USE DEF ControlTypeOK, CloseProcess, FinishShutdown
<1>1. CASE EndShutdown
  BY <1>1 DEF EndShutdown, workerVars, tunnelVars
<1>2. CASE BeginShutdown /\ SignalsWorker
  BY <1>2 DEF BeginShutdown, StopBySignal, SigtermEffect, Grace, tunnelVars
<1>3. CASE BeginShutdown /\ ~SignalsWorker
  BY <1>3 DEF BeginShutdown, RequestStop, tunnelVars
<1> QED
  BY <1>1, <1>2, <1>3

LEMMA ProcessInvInit == ProcessInit => ProcessInv
<1> SUFFICES ASSUME ProcessInit
             PROVE  ProcessInv
  OBVIOUS
<1> USE DEF ProcessInit
<1>1. WorkerInv /\ WorkerTypeOK
  BY WorkerInitInv DEF WorkerInv
<1>2. SocketTypeOK
  <2>1. inbox \in Seq(Commands)
    OBVIOUS
  <2> QED
    BY <2>1 DEF SocketTypeOK
<1>3. StartTypeOK
  BY DEF StartTypeOK
<1>4. ControlTypeOK
  BY DEF ControlTypeOK
<1>5. ThreadInv /\ AnswersInv
  BY DEF ThreadInv, AnswersInv, CredsBeforeConnect, WorkerInit
<1> QED
  BY <1>1, <1>2, <1>3, <1>4, <1>5 DEF ProcessInv, ProcessTypeOK

\* Each part of ProcessTypeOK is kept by itself.
LEMMA SocketTypeNext == SocketTypeOK /\ [Next]_vars => SocketTypeOK'
<1> SUFFICES ASSUME SocketTypeOK, [Next]_vars
             PROVE  SocketTypeOK'
  OBVIOUS
<1> USE DEF SocketTypeOK
<1>1. ASSUME UNCHANGED socketVars
      PROVE  SocketTypeOK'
  BY <1>1 DEF socketVars
<1>2. CASE StartVPN \/ PassWaitEnds \/ CredWaitEnds
  BY <1>1, <1>2 DEF StartVPN, PassWaitEnds, CredWaitEnds, AskCredOrSpawn,
     AwaitAnswer, SpawnWorker, StartFails
<1>3. CASE ServerReadyRead
  <2>1. inbox # <<>> /\ inbox' = Tail(inbox)
    BY <1>3 DEF ServerReadyRead
  <2>2. inbox' \in Seq(Commands)
    BY <2>1
  <2> QED
    BY <1>3, <2>2 DEF ServerReadyRead
<1>4. CASE ServerDisconnected \/ GuiCloses
  BY <1>4 DEF ServerDisconnected, GuiCloses
<1>5. CASE WorkerFinished \/ ShutdownTimeout \/ JoinSucceeds \/ JoinTimesOut
  BY <1>1, <1>5 DEF WorkerFinished, ShutdownTimeout, JoinSucceeds, JoinTimesOut
<1>6. CASE ObserverChecks \/ ObserverReports \/ ObserverUsesFreedWorker \/ MainReturns
  BY <1>1, <1>6 DEF ObserverChecks, ObserverReports, ObserverUsesFreedWorker,
     MainReturns, mainVars
<1>7. CASE ThreadWorks \/ InterfaceUp \/ DeleteWorker \/ ThreadFinishes \/ ExternalSigterm
  BY <1>1, <1>7 DEF ThreadWorks, InterfaceUp, DeleteWorker, ThreadFinishes,
     ExternalSigterm, mainVars
<1>8. ASSUME NEW cmd \in Commands, GuiSends(cmd)
      PROVE  SocketTypeOK'
  BY <1>8 DEF GuiSends
<1>9. CASE UNCHANGED vars
  BY <1>1, <1>9 DEF vars, mainVars
<1> QED
  BY <1>2, <1>3, <1>4, <1>5, <1>6, <1>7, <1>8, <1>9 DEF Next, MainStep

LEMMA StartTypeNext ==
  StartTypeOK /\ SocketTypeOK /\ [Next]_vars => StartTypeOK'
<1> SUFFICES ASSUME StartTypeOK, SocketTypeOK, [Next]_vars
             PROVE  StartTypeOK'
  OBVIOUS
<1> USE DEF StartTypeOK
<1>1. ASSUME UNCHANGED startVars
      PROVE  StartTypeOK'
  BY <1>1 DEF startVars
<1>2. CASE StartVPN \/ PassWaitEnds \/ CredWaitEnds
  BY <1>2 DEF StartVPN, PassWaitEnds, CredWaitEnds, AskCredOrSpawn,
     AwaitAnswer, SpawnWorker, StartFails
<1>3. CASE ServerReadyRead
  <2>1. Head(inbox) \in Commands
    BY <1>3 DEF ServerReadyRead, SocketTypeOK
  <2> QED
    BY <1>3, <2>1 DEF ServerReadyRead, Commands
<1>4. CASE ServerDisconnected \/ GuiCloses
  BY <1>1, <1>4 DEF ServerDisconnected, GuiCloses
<1>5. CASE WorkerFinished \/ ShutdownTimeout \/ JoinSucceeds \/ JoinTimesOut
  BY <1>1, <1>5 DEF WorkerFinished, ShutdownTimeout, JoinSucceeds, JoinTimesOut
<1>6. CASE ObserverChecks \/ ObserverReports \/ ObserverUsesFreedWorker \/ MainReturns
  BY <1>1, <1>6 DEF ObserverChecks, ObserverReports, ObserverUsesFreedWorker,
     MainReturns, mainVars
<1>7. CASE ThreadWorks \/ InterfaceUp \/ DeleteWorker \/ ThreadFinishes \/ ExternalSigterm
  BY <1>1, <1>7 DEF ThreadWorks, InterfaceUp, DeleteWorker, ThreadFinishes,
     ExternalSigterm, mainVars
<1>8. ASSUME NEW cmd \in Commands, GuiSends(cmd)
      PROVE  StartTypeOK'
  BY <1>1, <1>8 DEF GuiSends
<1>9. CASE UNCHANGED vars
  BY <1>1, <1>9 DEF vars, mainVars
<1> QED
  BY <1>2, <1>3, <1>4, <1>5, <1>6, <1>7, <1>8, <1>9 DEF Next, MainStep

LEMMA ControlTypeNext ==
  WorkerTypeOK /\ ControlTypeOK /\ [Next]_vars => ControlTypeOK'
<1> SUFFICES ASSUME WorkerTypeOK, ControlTypeOK, [Next]_vars
             PROVE  ControlTypeOK'
  OBVIOUS
<1> USE DEF ControlTypeOK, closeVars, reportVars, threadVars
<1>1. ASSUME CloseProcess, finishedPosted' \in BOOLEAN
      PROVE  ControlTypeOK'
  BY <1>1, CloseFacts
<1>2. ASSUME SpawnWorker
      PROVE  ControlTypeOK'
  BY <1>2 DEF SpawnWorker
<1>3. ASSUME NEW pc \in {"pass", "cred"}, AwaitAnswer(pc)
       PROVE  ControlTypeOK'
  BY <1>3 DEF AwaitAnswer
<1>4. CASE StartVPN \/ PassWaitEnds \/ CredWaitEnds
  BY <1>1, <1>2, <1>3, <1>4 DEF StartVPN, PassWaitEnds, CredWaitEnds,
     AskCredOrSpawn, StartFails
<1>5. CASE ServerReadyRead
  BY <1>1, <1>5 DEF ServerReadyRead
<1>6. CASE ServerDisconnected \/ WorkerFinished
  BY <1>1, <1>6 DEF ServerDisconnected, WorkerFinished
<1>7. CASE ShutdownTimeout
  BY <1>7 DEF ShutdownTimeout, FinishShutdown
<1>8. CASE JoinSucceeds \/ JoinTimesOut \/ ObserverChecks
  BY <1>8 DEF JoinSucceeds, JoinTimesOut, ObserverChecks
<1>9. CASE ObserverReports
  BY <1>9 DEF ObserverReports, StatusOf, WorkerTypeOK
<1>10. CASE ObserverUsesFreedWorker
  BY <1>10 DEF ObserverUsesFreedWorker
<1>11. CASE ThreadWorks \/ DeleteWorker \/ ThreadFinishes
  BY <1>11 DEF ThreadWorks, DeleteWorker, ThreadFinishes
<1>12. CASE MainReturns \/ InterfaceUp \/ ExternalSigterm \/ UNCHANGED vars
  BY <1>12 DEF MainReturns, InterfaceUp, ExternalSigterm, vars, mainVars
<1>13. CASE GuiCloses \/ \E cmd \in Commands : GuiSends(cmd)
  BY <1>13 DEF GuiCloses, GuiSends
<1> QED
  BY <1>4, <1>5, <1>6, <1>7, <1>8, <1>9, <1>10, <1>11, <1>12, <1>13
  DEF Next, MainStep

LEMMA ThreadNext ==
  WorkerTypeOK /\ ControlTypeOK /\ ThreadInv /\ [Next]_vars => ThreadInv'
<1> SUFFICES ASSUME WorkerTypeOK, ControlTypeOK, ThreadInv, [Next]_vars
             PROVE  ThreadInv'
  OBVIOUS
<1> USE DEF ThreadInv, closeVars, threadVars
<1>1. ASSUME CloseProcess, mainPc = "loop", startPc' \in {startPc, "done"},
             finishedPosted' => finishedPosted
      PROVE  ThreadInv'
  <2>1. /\ wpc' = wpc /\ thread' = thread /\ workerAlive' = workerAlive
        /\ mainPc' \in {mainPc, "join"}
        /\ quitCalled => quitCalled'
    BY <1>1, CloseFacts
  <2> QED
    BY <1>1, <2>1
<1>2. ASSUME SpawnWorker, startPc # "done", mainPc = "loop"
      PROVE  ThreadInv'
  BY <1>2 DEF SpawnWorker, ThreadStarts, Goto
<1>3. ASSUME NEW pc \in {"pass", "cred"}, AwaitAnswer(pc), startPc # "done"
      PROVE  ThreadInv'
  BY <1>3 DEF AwaitAnswer, workerVars
<1>4. CASE StartVPN \/ PassWaitEnds \/ CredWaitEnds
  BY <1>1, <1>2, <1>3, <1>4 DEF StartVPN, PassWaitEnds, CredWaitEnds,
     AskCredOrSpawn, StartFails, InLoop
<1>5. CASE ServerReadyRead
  <2>1. CASE Head(inbox) = "STOP"
    BY <1>1, <1>5, <2>1 DEF ServerReadyRead, InLoop
  <2>2. CASE Head(inbox) # "STOP"
    BY <1>5, <2>2 DEF ServerReadyRead, workerVars
  <2> QED
    BY <2>1, <2>2
<1>6. CASE ServerDisconnected
  BY <1>1, <1>6 DEF ServerDisconnected, startVars, InLoop
<1>7. CASE WorkerFinished
  BY <1>1, <1>7 DEF WorkerFinished, startVars, InLoop
<1>8. CASE ShutdownTimeout
  <2>1. wpc' = wpc
    BY <1>8 DEF ShutdownTimeout, EndFromMain, workerVars
  <2> QED
    BY <1>8, <2>1 DEF ShutdownTimeout, FinishShutdown, startVars, TimersRun, InLoop
<1>9. CASE JoinSucceeds \/ JoinTimesOut \/ ObserverChecks \/ ObserverReports
  BY <1>9 DEF JoinSucceeds, JoinTimesOut, ObserverChecks, ObserverReports,
     TimersRun, startVars, workerVars
<1>10. CASE ObserverUsesFreedWorker
  BY <1>10 DEF ObserverUsesFreedWorker, startVars
<1>11. CASE MainReturns \/ InterfaceUp \/ ExternalSigterm
  BY <1>11 DEF MainReturns, ProcessExits, InterfaceUp, IfUp, StateUp, ExternalSigterm,
     Sigterm, SigtermEffect, mainVars, startVars
<1>12. CASE ThreadWorks
  BY <1>12, WorkerStepFacts DEF ThreadWorks, startVars
<1>13. CASE DeleteWorker \/ ThreadFinishes
  BY <1>13 DEF DeleteWorker, ThreadFinishes, startVars, workerVars
<1>14. CASE GuiCloses \/ \E cmd \in Commands : GuiSends(cmd)
  BY <1>14 DEF GuiCloses, GuiSends, startVars, workerVars
<1>15. CASE UNCHANGED vars
  BY <1>15 DEF vars, mainVars, startVars, workerVars
<1> QED
  BY <1>4, <1>5, <1>6, <1>7, <1>8, <1>9, <1>10, <1>11, <1>12, <1>13, <1>14, <1>15
  DEF Next, MainStep

\* Answers only ever arrive, and nothing waits for one once the thread runs.
LEMMA AnswersNext ==
  StartTypeOK /\ ThreadInv /\ AnswersInv /\ [Next]_vars => AnswersInv'
<1> SUFFICES ASSUME StartTypeOK, ThreadInv, AnswersInv, [Next]_vars
             PROVE  AnswersInv'
  OBVIOUS
<1> USE DEF AnswersInv, CredsBeforeConnect, startVars, threadVars
<1>1. ASSUME needs' = needs, startPc' \in {startPc, "done"},
             received \subseteq received', thread' = thread \/ thread # "none"
      PROVE  AnswersInv'
  BY <1>1
<1>2. ASSUME StartFails, startPc # "done"
      PROVE  AnswersInv'
  BY <1>2 DEF StartFails, CloseProcess, ThreadInv
<1>3. CASE StartVPN
  <2> USE <1>3 DEF StartVPN
  <2>1. thread = "none"
    BY DEF ThreadInv
  <2>2. CASE StartFails
    BY <1>2, <2>2
  <2>3. CASE received' = {} /\ "PASS" \in needs /\ AwaitAnswer("pass")
    BY <2>1, <2>3 DEF AwaitAnswer
  <2>4. CASE received' = {} /\ "PASS" \notin needs /\ AskCredOrSpawn
    <3>1. needs \subseteq {"CRED"} /\ needs' = needs
      BY <2>4 DEF AskCredOrSpawn, AwaitAnswer, SpawnWorker, StartTypeOK, Answers
    <3> QED
      BY <2>1, <2>4, <3>1 DEF AskCredOrSpawn, AwaitAnswer, SpawnWorker
  <2>5. \/ StartFails
        \/ received' = {} /\ "PASS" \in needs /\ AwaitAnswer("pass")
        \/ received' = {} /\ "PASS" \notin needs /\ AskCredOrSpawn
    OBVIOUS
  <2> QED
    BY <2>2, <2>3, <2>4, <2>5
<1>4. CASE PassWaitEnds
  <2> USE <1>4 DEF PassWaitEnds
  <2>1. thread = "none"
    BY DEF ThreadInv
  <2>2. CASE StartFails
    BY <1>2, <2>2
  <2>3. CASE "PASS" \in received /\ AskCredOrSpawn /\ UNCHANGED received
    <3>1. needs \ {"CRED"} \subseteq received /\ needs' = needs
      BY <2>3 DEF AskCredOrSpawn, AwaitAnswer, SpawnWorker, StartTypeOK, Answers
    <3> QED
      BY <2>1, <2>3, <3>1 DEF AskCredOrSpawn, AwaitAnswer, SpawnWorker
  <2> QED
    BY <2>2, <2>3
<1>5. CASE CredWaitEnds
  BY <1>2, <1>5 DEF CredWaitEnds, SpawnWorker
<1>6. CASE ServerReadyRead
  BY <1>1, <1>6 DEF ServerReadyRead, CloseProcess
<1>7. CASE ServerDisconnected \/ WorkerFinished \/ ShutdownTimeout
  BY <1>1, <1>7 DEF ServerDisconnected, WorkerFinished, ShutdownTimeout, CloseProcess
<1>8. CASE JoinSucceeds \/ JoinTimesOut \/ ObserverChecks \/ ObserverReports
  BY <1>1, <1>8 DEF JoinSucceeds, JoinTimesOut, ObserverChecks, ObserverReports
<1>9. CASE ObserverUsesFreedWorker \/ MainReturns \/ InterfaceUp \/ ExternalSigterm
  BY <1>1, <1>9 DEF ObserverUsesFreedWorker, MainReturns, InterfaceUp,
     ExternalSigterm, mainVars
<1>10. CASE ThreadWorks \/ DeleteWorker \/ ThreadFinishes
  BY <1>1, <1>10 DEF ThreadWorks, DeleteWorker, ThreadFinishes
<1>11. CASE GuiCloses \/ \E cmd \in Commands : GuiSends(cmd)
  BY <1>1, <1>11 DEF GuiCloses, GuiSends
<1>12. CASE UNCHANGED vars
  BY <1>1, <1>12 DEF vars, mainVars
<1> QED
  BY <1>3, <1>4, <1>5, <1>6, <1>7, <1>8, <1>9, <1>10, <1>11, <1>12
  DEF Next, MainStep

LEMMA ProcessInvNext == ProcessInv /\ [Next]_vars => ProcessInv'
<1> SUFFICES ASSUME ProcessInv, [Next]_vars
             PROVE  ProcessInv'
  OBVIOUS
<1> USE DEF ProcessInv
<1>1. WorkerInv' /\ WorkerTypeOK'
  BY NextRefines, WorkerNextInv DEF WorkerInv
<1>2. ProcessTypeOK'
  BY <1>1, SocketTypeNext, StartTypeNext, ControlTypeNext DEF ProcessTypeOK
<1>3. ThreadInv' /\ AnswersInv'
  BY ThreadNext, AnswersNext DEF ProcessTypeOK
<1> QED
  BY <1>1, <1>2, <1>3

LEMMA ProcessInvHolds == Spec => []ProcessInv
BY ProcessInvInit, ProcessInvNext, PTL DEF Spec

\* All state of a VPN process is well-typed.
THEOREM ProcessTyped == Spec => []ProcessTypeOK
<1>1. ProcessInv => ProcessTypeOK
  BY DEF ProcessInv
<1> QED
  BY <1>1, ProcessInvHolds, PTL

\* No tunnel is attempted before every answer startVPN() has to wait for is
\* there, however its nested event loops end.
THEOREM CredentialsFirst == Spec => []CredsBeforeConnect
<1>1. ProcessInv => CredsBeforeConnect
  BY DEF ProcessInv, AnswersInv
<1> QED
  BY <1>1, ProcessInvHolds, PTL

\* The tunnel onObserverUpdate() looks at lies on the stack of a thread that
\* still runs process().
THEOREM ObserverReadsLiveTunnel == Spec => []TunnelReadsLive
<1>1. ProcessInv => TunnelReadsLive
  BY DEF ProcessInv, ProcessTypeOK, ControlTypeOK, ThreadInv, WorkerInv,
     TunnelPtrLive, TunnelReadsLive, InProcess
<1> QED
  BY <1>1, ProcessInvHolds, PTL

-----------------------------------------------------------------------------
(* CleanExit, for a GUI that leaves the socket open after ACTION_STOP.     *)

\* With the stop recorded the worker never gets as far as a pppd again.
LEMMA HarmlessStays == WorkerInv /\ Harmless /\ [WorkerNext]_workerVars => Harmless'
<1> SUFFICES ASSUME WorkerInv, Harmless, [WorkerNext]_workerVars
             PROVE  Harmless'
  OBVIOUS
<1> USE DEF Harmless, BlindWindow, InTunnel, Goto, stopVars, StopRequested
<1>1. CASE ThreadStarts \/ InstallStopHandler \/ SamlLogin \/ SamlTimeout \/ StartTunnel
  BY <1>1 DEF ThreadStarts, InstallStopHandler, SamlLogin, SamlTimeout, StartTunnel
<1>2. ASSUME NEW ok \in BOOLEAN, ConnectReturns(ok)
      PROVE  Harmless'
  BY <1>2 DEF ConnectReturns
<1>3. ASSUME NEW ok \in BOOLEAN, NEW n \in 0 .. MaxSplit, NegotiateReturns(ok, n)
      PROVE  Harmless'
  BY <1>3 DEF NegotiateReturns
<1>4. CASE PppdFails \/ PppdStarts
  BY <1>4 DEF PppdFails, PppdStarts
<1>5. ASSUME NEW ok \in BOOLEAN, RequestReturns(ok)
      PROVE  Harmless'
  BY <1>5 DEF RequestReturns
<1>6. CASE IoEnter \/ IoSignalled \/ IoEnds \/ IfDown \/ Reap
  BY <1>6 DEF IoEnter, IoSignalled, IoEnds, LeaveIoLoop, IfDown, Reap
<1>7. CASE LogoutReturns \/ ClearTunnel
  BY <1>7 DEF LogoutReturns, ClearTunnel
<1>8. CASE \/ IfUp \/ StateUp \/ RequestStop \/ Sigterm \/ StopBySignal
           \/ EndFromMain \/ ProcessExits
  BY <1>8 DEF IfUp, StateUp, RequestStop, Sigterm, StopBySignal, SigtermEffect,
     EndFromMain, ProcessExits
<1>9. CASE UNCHANGED workerVars
  BY <1>9 DEF workerVars
<1> QED
  BY <1>1, <1>2, <1>3, <1>4, <1>5, <1>6, <1>7, <1>8, <1>9 DEF WorkerNext, WorkerStep

\* An unsignalled shutdown is one that finds the worker harmless.
LEMMA UnsignalledIsHarmless ==
  ASSUME WorkerInv, ThreadInv, ~SignalsWorker
  PROVE  wpc \notin {"spawn", "reap"} \union BlindWindow \union InTunnel
BY DEF WorkerInv, ThreadInv, SignalsWorker, HandlerInv, UnpublishedInv,
   BlindWindow, InTunnel

\* A signalled one finds it inside of process().
LEMMA SignalledIsRunning ==
  ASSUME WorkerInv, SignalsWorker
  PROVE  wpc \notin {"none", "returned"}
BY DEF WorkerInv, SignalsWorker, TunnelPtrLive, InProcess

\* What entering closeProcess() does to ShutdownInv: it may only be entered
\* again when the worker has nothing left to lose or the grace is over.
LEMMA CloseShutdown ==
  ASSUME ProcessInv, ShutdownInv, CloseProcess,
         shuttingDown /\ watchdog = "armed" => Harmless
  PROVE  ShutdownInv'
<1> USE DEF CloseProcess, ShutdownInv
<1>1. CASE EndShutdown
  <2>1. Harmless' = Harmless /\ stopFlag' = stopFlag
    BY <1>1 DEF EndShutdown, workerVars, stopVars, Harmless
  <2>2. watchdog \in {"off", "armed", "fired"}
    BY DEF ProcessInv, ProcessTypeOK, ControlTypeOK
  <2> QED
    BY <1>1, <2>1, <2>2 DEF EndShutdown
<1>2. CASE BeginShutdown /\ SignalsWorker
  <2>1. stopFlag' /\ watchdog' = "armed"
    BY <1>2 DEF BeginShutdown, StopBySignal, SigtermEffect, Grace
  <2>2. mainPc' = mainPc /\ quitCalled' = quitCalled /\ shuttingDown' /\ ~shuttingDown
    BY <1>2 DEF BeginShutdown
  <2> QED
    BY <2>1, <2>2
<1>3. CASE BeginShutdown /\ ~SignalsWorker
  <2>1. stopFlag' /\ wpc' = wpc /\ shuttingDown' /\ ~shuttingDown /\ watchdog' = watchdog
    BY <1>3 DEF BeginShutdown, RequestStop
  <2>2. wpc \notin {"spawn", "reap"} \union BlindWindow \union InTunnel
    BY <1>3, UnsignalledIsHarmless DEF ProcessInv
  <2>3. Harmless'
    BY <2>1, <2>2 DEF Harmless, BlindWindow, InTunnel
  <2> QED
    BY <2>1, <2>3
<1> QED
  BY <1>1, <1>2, <1>3

\* Where TeardownInv comes from: what may still call closeProcess() while the
\* worker tears down finds that the worker is done.
LEMMA CallersAreLate ==
  ASSUME ProcessInv, ShutdownInv, SocketInv, TeardownInv,
         shuttingDown, watchdog = "armed",
         \/ thread = "none"
         \/ finishedPosted
         \/ discPosted
         \/ inbox # <<>> /\ Head(inbox) = "STOP"
  PROVE  Harmless
<1>1. stopFlag
  BY DEF ShutdownInv
<1>2. CASE thread = "none" \/ finishedPosted
  BY <1>1, <1>2 DEF ProcessInv, ThreadInv, Harmless, BlindWindow, InTunnel
<1>3. CASE discPosted
  BY <1>3 DEF SocketInv, TeardownInv, NoSecondStop
<1>4. CASE inbox # <<>> /\ Head(inbox) = "STOP"
  <2>1. 1 \in 1 .. Len(inbox) /\ inbox[1] = "STOP"
    BY <1>4 DEF ProcessInv, ProcessTypeOK, SocketTypeOK
  <2> QED
    BY <2>1 DEF SocketInv, TeardownInv, NoSecondStop
<1> QED
  BY <1>2, <1>3, <1>4

LEMMA ShutdownNext ==
  ProcessInv /\ ShutdownInv /\ SocketInv /\ TeardownInv /\ [Next]_vars => ShutdownInv'
<1> SUFFICES ASSUME ProcessInv, ShutdownInv, SocketInv, TeardownInv, [Next]_vars
             PROVE  ShutdownInv'
  OBVIOUS
<1> USE DEF ShutdownInv, closeVars
<1>1. Harmless => Harmless'
  BY NextRefines, HarmlessStays DEF ProcessInv
<1>2. ASSUME mainPc' \in {mainPc, "loop", "deref"}, UNCHANGED closeVars,
             stopFlag => stopFlag'
      PROVE  ShutdownInv'
  BY <1>1, <1>2
<1>3. ASSUME StartFails, startPc # "done"
      PROVE  ShutdownInv'
  <2>1. thread = "none" /\ CloseProcess
    BY <1>3 DEF ProcessInv, ThreadInv, StartFails
  <2> QED
    BY <2>1, CallersAreLate, CloseShutdown
<1>4. ASSUME SpawnWorker
      PROVE  ShutdownInv'
  <2>1. stopFlag' = stopFlag /\ mainPc' = mainPc /\ shuttingDown' = shuttingDown
        /\ quitCalled' = quitCalled /\ watchdog' = watchdog
    BY <1>4 DEF SpawnWorker, ThreadStarts, stopVars
  <2> QED
    BY <1>1, <2>1
<1>5. ASSUME NEW pc \in {"pass", "cred"}, AwaitAnswer(pc)
      PROVE  ShutdownInv'
  BY <1>2, <1>5 DEF AwaitAnswer, workerVars, stopVars
<1>6. CASE StartVPN \/ PassWaitEnds \/ CredWaitEnds
  BY <1>3, <1>4, <1>5, <1>6 DEF StartVPN, PassWaitEnds, CredWaitEnds, AskCredOrSpawn
<1>7. CASE ServerReadyRead
  <2>1. CASE Head(inbox) = "STOP"
    BY <1>7, <2>1, CallersAreLate, CloseShutdown DEF ServerReadyRead
  <2>2. CASE Head(inbox) # "STOP"
    BY <1>2, <1>7, <2>2 DEF ServerReadyRead, workerVars, stopVars
  <2> QED
    BY <2>1, <2>2
<1>8. CASE ServerDisconnected \/ WorkerFinished
  BY <1>8, CallersAreLate, CloseShutdown DEF ServerDisconnected, WorkerFinished
<1>9. CASE ShutdownTimeout
  <2>1. shuttingDown /\ shuttingDown' = shuttingDown /\ watchdog' = "fired"
    BY <1>9 DEF ShutdownTimeout
  <2>2. stopFlag' = stopFlag
    BY <1>9 DEF ShutdownTimeout, EndFromMain, workerVars, stopVars
  <2> QED
    BY <2>1, <2>2
<1>10. CASE JoinSucceeds \/ JoinTimesOut
  BY <1>1, <1>10 DEF JoinSucceeds, JoinTimesOut, workerVars, stopVars
<1>11. CASE ObserverChecks \/ ObserverReports
  BY <1>2, <1>11 DEF ObserverChecks, ObserverReports, workerVars, stopVars
<1>12. CASE ObserverUsesFreedWorker
  BY <1>2, <1>12 DEF ObserverUsesFreedWorker, stopVars
<1>13. CASE MainReturns \/ InterfaceUp \/ ExternalSigterm
  BY <1>2, <1>13 DEF MainReturns, ProcessExits, InterfaceUp, IfUp, StateUp,
     ExternalSigterm, Sigterm, SigtermEffect, mainVars, stopVars
<1>14. CASE ThreadWorks
  BY <1>2, <1>14, WorkerStepFacts DEF ThreadWorks, ProcessInv, ProcessTypeOK
<1>15. CASE DeleteWorker \/ ThreadFinishes
  BY <1>2, <1>15 DEF DeleteWorker, ThreadFinishes, workerVars, stopVars
<1>16. CASE GuiCloses \/ \E cmd \in Commands : GuiSends(cmd)
  BY <1>2, <1>16 DEF GuiCloses, GuiSends, workerVars, stopVars
<1>17. CASE UNCHANGED vars
  BY <1>2, <1>17 DEF vars, mainVars, workerVars, stopVars
<1> QED
  BY <1>6, <1>7, <1>8, <1>9, <1>10, <1>11, <1>12, <1>13, <1>14, <1>15, <1>16, <1>17
  DEF Next, MainStep

LEMMA SocketNext ==
  ASSUME ~GuiQuits
  PROVE  SocketTypeOK /\ SocketInv /\ [Next]_vars => SocketInv'
<1> SUFFICES ASSUME SocketTypeOK, SocketInv, [Next]_vars
             PROVE  SocketInv'
  OBVIOUS
<1> USE DEF SocketInv, SocketTypeOK
<1>1. ASSUME UNCHANGED socketVars
      PROVE  SocketInv'
  BY <1>1 DEF socketVars
<1>2. CASE StartVPN \/ PassWaitEnds \/ CredWaitEnds
  BY <1>1, <1>2 DEF StartVPN, PassWaitEnds, CredWaitEnds, AskCredOrSpawn,
     AwaitAnswer, SpawnWorker, StartFails
<1>3. CASE ServerReadyRead
  <2>1. /\ Len(inbox') = Len(inbox) - 1
        /\ \A i \in 1 .. Len(inbox') : inbox'[i] = inbox[i + 1] /\ i + 1 \in 1 .. Len(inbox)
    BY <1>3 DEF ServerReadyRead
  <2>2. UNCHANGED <<apiOpen, discPosted, guiSent>>
    BY <1>3 DEF ServerReadyRead
  <2>3. ASSUME NEW i \in 1 .. Len(inbox'), NEW j \in 1 .. Len(inbox'),
               inbox'[i] = "STOP", inbox'[j] = "STOP"
        PROVE  i = j
    <3>1. inbox[i + 1] = "STOP" /\ inbox[j + 1] = "STOP"
          /\ i + 1 \in 1 .. Len(inbox) /\ j + 1 \in 1 .. Len(inbox)
      BY <2>1, <2>3
    <3>2. i + 1 = j + 1
      BY <3>1
    <3> QED
      BY <3>2
  <2>4. ASSUME NEW i \in 1 .. Len(inbox'), inbox'[i] = "STOP"
        PROVE  "STOP" \in guiSent'
    BY <2>1, <2>2, <2>4
  <2> QED
    BY <2>2, <2>3, <2>4
<1>4. CASE ServerDisconnected
  BY <1>4 DEF ServerDisconnected
<1>5. CASE GuiCloses
  BY <1>5 DEF GuiCloses
<1>6. CASE WorkerFinished \/ ShutdownTimeout \/ JoinSucceeds \/ JoinTimesOut
  BY <1>1, <1>6 DEF WorkerFinished, ShutdownTimeout, JoinSucceeds, JoinTimesOut
<1>7. CASE ObserverChecks \/ ObserverReports \/ ObserverUsesFreedWorker \/ MainReturns
  BY <1>1, <1>7 DEF ObserverChecks, ObserverReports, ObserverUsesFreedWorker,
     MainReturns, mainVars
<1>8. CASE ThreadWorks \/ InterfaceUp \/ DeleteWorker \/ ThreadFinishes \/ ExternalSigterm
  BY <1>1, <1>8 DEF ThreadWorks, InterfaceUp, DeleteWorker, ThreadFinishes,
     ExternalSigterm, mainVars
<1>9. ASSUME NEW cmd \in Commands, GuiSends(cmd)
      PROVE  SocketInv'
  <2>1. /\ Len(inbox') = Len(inbox) + 1
        /\ \A i \in 1 .. Len(inbox) : inbox'[i] = inbox[i]
        /\ inbox'[Len(inbox) + 1] = cmd
    BY <1>9 DEF GuiSends
  <2>2. /\ apiOpen /\ apiOpen' = apiOpen /\ discPosted' = discPosted
        /\ cmd \notin guiSent /\ guiSent' = guiSent \union {cmd}
    BY <1>9 DEF GuiSends
  <2>3. ASSUME NEW i \in 1 .. Len(inbox'), inbox'[i] = "STOP"
        PROVE  "STOP" \in guiSent'
    <3>1. CASE i \in 1 .. Len(inbox)
      BY <2>1, <2>2, <2>3, <3>1
    <3>2. CASE i = Len(inbox) + 1
      BY <2>1, <2>2, <2>3, <3>2
    <3> QED
      BY <2>1, <3>1, <3>2
  <2>4. ASSUME NEW i \in 1 .. Len(inbox'), NEW j \in 1 .. Len(inbox'),
               inbox'[i] = "STOP", inbox'[j] = "STOP"
        PROVE  i = j
    <3>1. CASE i \in 1 .. Len(inbox) /\ j \in 1 .. Len(inbox)
      BY <2>1, <2>4, <3>1
    <3>2. CASE cmd = "STOP"
      <4>1. \A k \in 1 .. Len(inbox) : inbox[k] # "STOP"
        BY <2>2, <3>2
      <4>2. i = Len(inbox) + 1 /\ j = Len(inbox) + 1
        BY <2>1, <2>4, <4>1
      <4> QED
        BY <4>2
    <3>3. CASE cmd # "STOP"
      <4>1. i \in 1 .. Len(inbox) /\ j \in 1 .. Len(inbox)
        BY <2>1, <2>4, <3>3
      <4> QED
        BY <3>1, <4>1
    <3> QED
      BY <3>2, <3>3
  <2> QED
    BY <2>2, <2>3, <2>4
<1>10. CASE UNCHANGED vars
  BY <1>1, <1>10 DEF vars, mainVars
<1> QED
  BY <1>2, <1>3, <1>4, <1>5, <1>6, <1>7, <1>8, <1>9, <1>10 DEF Next, MainStep

LEMMA TeardownNext ==
  ASSUME ~GuiQuits
  PROVE  ProcessInv /\ ShutdownInv /\ SocketInv /\ TeardownInv /\ [Next]_vars
           => TeardownInv'
<1> SUFFICES ASSUME ProcessInv, ShutdownInv, SocketInv, TeardownInv, [Next]_vars,
                    watchdog' = "armed", ~Harmless'
             PROVE  NoSecondStop'
  BY DEF TeardownInv
<1> USE DEF closeVars
<1>1. ~Harmless
  BY NextRefines, HarmlessStays DEF ProcessInv
<1>2. ASSUME UNCHANGED socketVars, watchdog' = watchdog
      PROVE  NoSecondStop'
  BY <1>1, <1>2 DEF TeardownInv, NoSecondStop, socketVars
<1>3. ASSUME CloseProcess, ~SignalsWorker, UNCHANGED socketVars
      PROVE  NoSecondStop'
  BY <1>2, <1>3 DEF CloseProcess, BeginShutdown, EndShutdown
<1>4. ASSUME StartFails, startPc # "done"
      PROVE  NoSecondStop'
  BY <1>3, <1>4 DEF StartFails, ProcessInv, ThreadInv, SignalsWorker
<1>5. CASE StartVPN \/ PassWaitEnds \/ CredWaitEnds
  BY <1>2, <1>4, <1>5 DEF StartVPN, PassWaitEnds, CredWaitEnds, AskCredOrSpawn,
     AwaitAnswer, SpawnWorker
<1>6. CASE ServerReadyRead
  <2>1. /\ Len(inbox') = Len(inbox) - 1
        /\ \A i \in 1 .. Len(inbox') : inbox'[i] = inbox[i + 1] /\ i + 1 \in 1 .. Len(inbox)
        /\ 1 \in 1 .. Len(inbox) /\ Head(inbox) = inbox[1]
    BY <1>6 DEF ServerReadyRead, ProcessInv, ProcessTypeOK, SocketTypeOK
  <2>2. Len(inbox) \in Nat
    BY DEF ProcessInv, ProcessTypeOK, SocketTypeOK
  <2>3. UNCHANGED <<apiOpen, discPosted, guiSent>>
    BY <1>6 DEF ServerReadyRead
  <2>4. CASE Head(inbox) = "STOP"
    <3>1. "STOP" \in guiSent /\ apiOpen
      BY <2>1, <2>4 DEF SocketInv, ProcessInv, ProcessTypeOK, SocketTypeOK
    <3>2. ASSUME NEW i \in 1 .. Len(inbox'), inbox'[i] = "STOP"
          PROVE  FALSE
      <4>1. i + 1 = 1
        BY <2>1, <2>4, <3>2 DEF SocketInv
      <4> QED
        BY <2>1, <2>2, <3>2, <4>1
    <3> QED
      BY <2>3, <3>1, <3>2 DEF NoSecondStop
  <2>5. CASE Head(inbox) # "STOP"
    <3>1. watchdog' = watchdog
      BY <1>6, <2>5 DEF ServerReadyRead
    <3>2. NoSecondStop
      BY <1>1, <3>1 DEF TeardownInv
    <3> QED
      BY <2>1, <2>3, <3>2 DEF NoSecondStop
  <2> QED
    BY <2>4, <2>5
<1>7. CASE ServerDisconnected
  BY <1>7 DEF ServerDisconnected, SocketInv, NoSecondStop
<1>8. CASE WorkerFinished
  <2>1. wpc = "returned"
    BY <1>8 DEF WorkerFinished, ProcessInv, ThreadInv
  <2>2. ~SignalsWorker
    BY <2>1, SignalledIsRunning DEF ProcessInv
  <2> QED
    BY <1>3, <1>8, <2>2 DEF WorkerFinished
<1>9. CASE ShutdownTimeout
  BY <1>9 DEF ShutdownTimeout
<1>10. CASE JoinSucceeds \/ JoinTimesOut \/ ObserverChecks \/ ObserverReports
  BY <1>2, <1>10 DEF JoinSucceeds, JoinTimesOut, ObserverChecks, ObserverReports
<1>11. CASE ObserverUsesFreedWorker \/ MainReturns \/ InterfaceUp \/ ExternalSigterm
  BY <1>2, <1>11 DEF ObserverUsesFreedWorker, MainReturns, InterfaceUp,
     ExternalSigterm, mainVars
<1>12. CASE ThreadWorks \/ DeleteWorker \/ ThreadFinishes
  BY <1>2, <1>12 DEF ThreadWorks, DeleteWorker, ThreadFinishes
<1>13. CASE GuiCloses
  BY <1>1, <1>13 DEF GuiCloses, TeardownInv, NoSecondStop
<1>14. ASSUME NEW cmd \in Commands, GuiSends(cmd)
       PROVE  NoSecondStop'
  <2>1. apiOpen /\ apiOpen' = apiOpen /\ cmd \notin guiSent
        /\ guiSent' = guiSent \union {cmd} /\ watchdog' = watchdog
    BY <1>14 DEF GuiSends
  <2>2. "STOP" \in guiSent /\ \A i \in 1 .. Len(inbox) : inbox[i] # "STOP"
    BY <1>1, <2>1 DEF TeardownInv, NoSecondStop
  <2>3. /\ Len(inbox') = Len(inbox) + 1
        /\ \A i \in 1 .. Len(inbox) : inbox'[i] = inbox[i]
        /\ inbox'[Len(inbox) + 1] = cmd
    BY <1>14 DEF GuiSends, ProcessInv, ProcessTypeOK, SocketTypeOK
  <2>4. \A i \in 1 .. Len(inbox') : i \in 1 .. Len(inbox) \/ i = Len(inbox) + 1
    BY <2>3 DEF ProcessInv, ProcessTypeOK, SocketTypeOK
  <2>5. \A i \in 1 .. Len(inbox') : inbox'[i] # "STOP"
    BY <2>1, <2>2, <2>3, <2>4
  <2> QED
    BY <2>1, <2>2, <2>5 DEF NoSecondStop
<1>15. CASE UNCHANGED vars
  BY <1>2, <1>15 DEF vars, mainVars
<1> QED
  BY <1>5, <1>6, <1>7, <1>8, <1>9, <1>10, <1>11, <1>12, <1>13, <1>14, <1>15
  DEF Next, MainStep

\* Every step is one of a process that lives, and only two can end it.
LEMMA ExitFacts ==
  ASSUME WorkerTypeOK, Next
  PROVE  /\ life = "alive"
         /\ MainReturns \/ ObserverUsesFreedWorker \/ life' \in {"alive", "killed"}
<1>1. ASSUME NEW pc \in {"pass", "cred"}, AwaitAnswer(pc)
      PROVE  life' = life
  BY <1>1 DEF AwaitAnswer, workerVars
<1>2. ASSUME CloseProcess, life = "alive"
      PROVE  life' \in {"alive", "killed"}
  BY <1>2 DEF CloseProcess, BeginShutdown, EndShutdown, RequestStop, StopBySignal,
     SigtermEffect, workerVars
<1>3. CASE StartVPN \/ PassWaitEnds \/ CredWaitEnds
  BY <1>1, <1>2, <1>3 DEF StartVPN, PassWaitEnds, CredWaitEnds, AskCredOrSpawn,
     StartFails, SpawnWorker, ThreadStarts, Goto, InLoop
<1>4. CASE ServerReadyRead \/ ServerDisconnected \/ WorkerFinished
  BY <1>2, <1>4 DEF ServerReadyRead, ServerDisconnected, WorkerFinished, InLoop,
     workerVars
<1>5. CASE ShutdownTimeout
  BY <1>5 DEF ShutdownTimeout, TimersRun, InLoop, EndFromMain, workerVars
<1>6. CASE JoinSucceeds \/ JoinTimesOut \/ ObserverChecks \/ ObserverReports
  BY <1>6 DEF JoinSucceeds, JoinTimesOut, ObserverChecks, ObserverReports,
     TimersRun, InLoop, workerVars
<1>7. CASE ObserverUsesFreedWorker \/ MainReturns
  BY <1>7 DEF ObserverUsesFreedWorker, MainReturns, InLoop
<1>8. CASE ThreadWorks
  BY <1>8, WorkerStepFacts DEF ThreadWorks
<1>9. CASE InterfaceUp \/ ExternalSigterm
  BY <1>9 DEF InterfaceUp, IfUp, StateUp, ExternalSigterm, Sigterm, SigtermEffect
<1>10. CASE DeleteWorker \/ ThreadFinishes \/ GuiCloses \/ \E cmd \in Commands : GuiSends(cmd)
  BY <1>10 DEF DeleteWorker, ThreadFinishes, GuiCloses, GuiSends, workerVars
<1> QED
  BY <1>3, <1>4, <1>5, <1>6, <1>7, <1>8, <1>9, <1>10 DEF Next, MainStep

\* A worker that is harmless or has returned owns neither a pppd nor routes; it
\* may have left some half-way.
LEMMA HarmlessIsClean ==
  ASSUME WorkerInv, Harmless \/ wpc = "returned"
  PROVE  pppd = "none" /\ (netUp => netLeft)
BY DEF WorkerInv, WorkerTypeOK, PppdOwned, NetOwned, Harmless, BlindWindow, InTunnel

LEMMA CleanNext ==
  ProcessInv /\ ShutdownInv /\ CleanExit /\ [Next]_vars => CleanExit'
<1> SUFFICES ASSUME ProcessInv, ShutdownInv, CleanExit, [Next]_vars
             PROVE  CleanExit'
  OBVIOUS
<1> USE DEF CleanExit
<1>1. WorkerTypeOK
  BY DEF ProcessInv, ProcessTypeOK
<1>2. CASE MainReturns
  <2>1. watchdog # "fired" => pppd = "none" /\ (netUp => netLeft)
    BY <1>2, HarmlessIsClean DEF MainReturns, ShutdownInv, ProcessInv
  <2> QED
    BY <1>2, <2>1 DEF MainReturns, ProcessExits, mainVars, closeVars, tunnelVars, netVars
<1>3. CASE ObserverUsesFreedWorker
  <2>1. pppd = "none" /\ (netUp => netLeft)
    BY <1>3, HarmlessIsClean DEF ObserverUsesFreedWorker, ProcessInv, ThreadInv
  <2> QED
    BY <1>3, <2>1 DEF ObserverUsesFreedWorker, tunnelVars, netVars
<1>4. CASE Next /\ ~MainReturns /\ ~ObserverUsesFreedWorker
  BY <1>1, <1>4, ExitFacts
<1>5. CASE UNCHANGED vars
  BY <1>5 DEF vars, workerVars, tunnelVars, netVars, mainVars, closeVars
<1> QED
  BY <1>2, <1>3, <1>4, <1>5

\* Unless the GUI closes the socket after its ACTION_STOP or the grace of
\* closeProcess() runs out, a VPN process leaves no pppd behind, and no routes
\* but those of an on_ppp_if_up() that was cancelled half-way.
THEOREM ExitsClean ==
  ASSUME ~GuiQuits
  PROVE  Spec => []CleanExit
<1>1. ProcessInit => ProcessInv /\ GraceInv
  <2> SUFFICES ASSUME ProcessInit
               PROVE  ProcessInv /\ GraceInv
    OBVIOUS
  <2>1. SocketInv
    BY DEF ProcessInit, SocketInv
  <2>2. ShutdownInv /\ TeardownInv /\ CleanExit
    BY DEF ProcessInit, ShutdownInv, TeardownInv, CleanExit, WorkerInit
  <2> QED
    BY <2>1, <2>2, ProcessInvInit DEF GraceInv
<1>2. ProcessInv /\ GraceInv /\ [Next]_vars => (ProcessInv /\ GraceInv)'
  <2> SUFFICES ASSUME ProcessInv, GraceInv, [Next]_vars
               PROVE  (ProcessInv /\ GraceInv)'
    OBVIOUS
  <2>1. SocketInv'
    BY SocketNext DEF ProcessInv, ProcessTypeOK, GraceInv
  <2> QED
    BY <2>1, ProcessInvNext, ShutdownNext, TeardownNext, CleanNext DEF GraceInv
<1>3. GraceInv => CleanExit
  BY DEF GraceInv
<1> QED
  BY <1>1, <1>2, <1>3, PTL DEF Spec
=============================================================================
