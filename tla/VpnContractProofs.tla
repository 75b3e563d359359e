-------------------------- MODULE VpnContractProofs --------------------------
(***************************************************************************)
(* The VPN process keeps the contract the GUI relies on: VpnProcess        *)
(* implements VpnChild, whatever the timing of the observer.               *)
(***************************************************************************)
EXTENDS VpnProcessProofs

\* The observer has seen the tunnel in a state other than the initial one.
Looked == lastState # "DOWN" \/ reported # "NONE"

\* A tunnel that is down after that is down for good, and a "Disconnected"
\* was said of such a tunnel only.
LastWordInv ==
  /\ Looked /\ tstate = "DOWN" => wpc \in {"clear", "returned"}
  /\ reported = "DISCONNECTED" => Looked /\ tstate = "DOWN"

ContractInv == ProcessInv /\ LastWordInv

-----------------------------------------------------------------------------
\* The state of the tunnel becomes "down" with the last logout only, and stays
\* so from then on.
LEMMA DownIsFinal ==
  ASSUME WorkerTypeOK, [WorkerNext]_workerVars
  PROVE  /\ tstate' = "DOWN" => tstate = "DOWN" \/ wpc' = "clear"
         /\ wpc \in {"clear", "returned"} =>
              tstate' = tstate /\ wpc' \in {"clear", "returned"}
<1> USE DEF WorkerTypeOK, Goto, tunnelVars
<1>1. CASE ThreadStarts \/ InstallStopHandler \/ SamlLogin \/ SamlTimeout \/ StartTunnel
  BY <1>1 DEF ThreadStarts, InstallStopHandler, SamlLogin, SamlTimeout, StartTunnel
<1>2. CASE \/ \E ok \in BOOLEAN : ConnectReturns(ok)
           \/ \E ok \in BOOLEAN, n \in 0 .. MaxSplit : NegotiateReturns(ok, n)
  BY <1>2 DEF ConnectReturns, NegotiateReturns
<1>3. CASE PppdFails \/ PppdStarts \/ \E ok \in BOOLEAN : RequestReturns(ok)
  BY <1>3 DEF PppdFails, PppdStarts, RequestReturns
<1>4. CASE IoEnter \/ IoSignalled \/ IoEnds \/ IfDown \/ IfUp \/ StateUp
  BY <1>4 DEF IoEnter, IoSignalled, IoEnds, LeaveIoLoop, IfDown, IfUp, StateUp
<1>5. CASE Reap
  BY <1>5 DEF Reap
<1>6. CASE LogoutReturns
  BY <1>6 DEF LogoutReturns, Reconnects
<1>7. CASE ClearTunnel
  BY <1>7 DEF ClearTunnel
<1>8. CASE RequestStop \/ StopBySignal \/ Sigterm \/ EndFromMain \/ ProcessExits
  BY <1>8 DEF RequestStop, StopBySignal, Sigterm, SigtermEffect, EndFromMain, ProcessExits
<1>9. CASE UNCHANGED workerVars
  BY <1>9 DEF workerVars
<1> QED
  BY <1>1, <1>2, <1>3, <1>4, <1>5, <1>6, <1>7, <1>8, <1>9 DEF WorkerNext, WorkerStep

\* Only ObserverReports reports.
LEMMA WhoReports ==
  ASSUME ControlTypeOK, [Next]_vars, ~ObserverReports
  PROVE  UNCHANGED reportVars
<1>1. CloseProcess => UNCHANGED reportVars
  BY DEF CloseProcess
<1>2. SpawnWorker => UNCHANGED reportVars
  BY DEF SpawnWorker
<1>3. ASSUME NEW pc \in {"pass", "cred"}, AwaitAnswer(pc)
      PROVE  UNCHANGED reportVars
  BY <1>3 DEF AwaitAnswer
<1>4. CASE StartVPN \/ PassWaitEnds \/ CredWaitEnds
  BY <1>1, <1>2, <1>3, <1>4
  DEF StartVPN, PassWaitEnds, CredWaitEnds, StartFails, AskCredOrSpawn
<1>5. CASE ServerReadyRead \/ ServerDisconnected \/ WorkerFinished \/ ShutdownTimeout
  BY <1>1, <1>5 DEF ServerReadyRead, ServerDisconnected, WorkerFinished, ShutdownTimeout
<1>6. CASE JoinSucceeds \/ JoinTimesOut \/ ObserverChecks \/ ObserverUsesFreedWorker
  BY <1>6 DEF JoinSucceeds, JoinTimesOut, ObserverChecks, ObserverUsesFreedWorker
<1>7. CASE MainReturns \/ InterfaceUp \/ ExternalSigterm
  BY <1>7 DEF MainReturns, InterfaceUp, ExternalSigterm, mainVars
<1>8. CASE ThreadWorks \/ DeleteWorker \/ ThreadFinishes
  BY <1>8 DEF ThreadWorks, DeleteWorker, ThreadFinishes
<1>9. CASE GuiCloses \/ \E cmd \in Commands : GuiSends(cmd)
  BY <1>9 DEF GuiCloses, GuiSends
<1>10. CASE UNCHANGED vars
  BY <1>10 DEF vars, mainVars
<1> QED
  BY <1>4, <1>5, <1>6, <1>7, <1>8, <1>9, <1>10 DEF Next, MainStep

LEMMA LastWordNext ==
  ASSUME ContractInv, [Next]_vars
  PROVE  LastWordInv'
<1>1. WorkerTypeOK /\ ControlTypeOK /\ [WorkerNext]_workerVars
  BY NextRefines DEF ContractInv, ProcessInv, ProcessTypeOK
<1>2. /\ tstate' = "DOWN" => tstate = "DOWN" \/ wpc' = "clear"
      /\ wpc \in {"clear", "returned"} =>
           tstate' = tstate /\ wpc' \in {"clear", "returned"}
  BY <1>1, DownIsFinal
<1>3. CASE ~ObserverReports
  BY <1>1, <1>2, <1>3, WhoReports DEF ContractInv, LastWordInv, Looked, reportVars
<1>4. CASE ObserverReports
  <2>1. tstate' = tstate /\ wpc' = wpc
    BY <1>4 DEF ObserverReports, workerVars, tunnelVars
  <2>2. CASE UNCHANGED reportVars
    BY <2>1, <2>2 DEF ContractInv, LastWordInv, Looked, reportVars
  <2>3. CASE /\ lastState # tstate
             /\ lastState' = tstate
             /\ reported' = IF Reports THEN StatusOf(tstate) ELSE reported
    <3>1. tstate = "DOWN" => Looked
      BY <2>3 DEF Looked
    <3>2. StatusOf(tstate) = "DISCONNECTED" <=> tstate = "DOWN"
      BY DEF StatusOf
    <3>3. Looked /\ tstate = "DOWN" => wpc \in {"clear", "returned"}
      BY DEF ContractInv, LastWordInv
    <3>4. tstate = "DOWN" => wpc' \in {"clear", "returned"}
      BY <2>1, <3>1, <3>3
    <3>5. reported' = "DISCONNECTED" => tstate = "DOWN" /\ Looked'
      BY <2>3, <3>1, <3>2 DEF ContractInv, LastWordInv, Looked
    <3> QED
      BY <2>1, <3>4, <3>5 DEF LastWordInv
  <2> QED
    BY <1>4, <2>2, <2>3 DEF ObserverReports
<1> QED
  BY <1>3, <1>4

LEMMA ContractInvHolds == Spec => []ContractInv
<1>1. ProcessInit => ContractInv
  BY ProcessInvInit DEF ContractInv, LastWordInv, Looked, ProcessInit
<1>2. ContractInv /\ [Next]_vars => ContractInv'
  BY ProcessInvNext, LastWordNext DEF ContractInv
<1> QED
  BY <1>1, <1>2, PTL DEF Spec

-----------------------------------------------------------------------------
(* The step simulation.                                                    *)

LEMMA ChildStepRefines ==
  ASSUME ContractInv, [Next]_vars
  PROVE  [Child!ChildNext]_(Child!childVars)
<1> USE DEF Child!ChildNext, Child!childVars, Child!Say, Child!End
<1>1. CASE UNCHANGED <<life, reported>>
  BY <1>1
<1>2. CASE ~UNCHANGED <<life, reported>> /\ ~ObserverReports
  <2>1. reported' = reported
    BY <1>2, WhoReports DEF reportVars, ContractInv, ProcessInv, ProcessTypeOK
  <2>2. Next
    BY <1>2 DEF vars, mainVars, reportVars, workerVars
  <2>3. life = "alive" /\ life' # "alive"
    BY <1>2, <2>1, <2>2, ExitFacts DEF ContractInv, ProcessInv, WorkerInv
  <2> QED
    BY <2>1, <2>3
<1>3. CASE ~UNCHANGED <<life, reported>> /\ ObserverReports
  <2>1. /\ life = "alive" /\ life' = "alive"
        /\ reported' = StatusOf(tstate) /\ reported' # reported
    BY <1>3 DEF ObserverReports, reportVars, workerVars
  <2>2. reported \in {"NONE", "DISCONNECTED", "CONNECTING", "CONNECTED"}
    BY DEF ContractInv, ProcessInv, ProcessTypeOK, ControlTypeOK
  <2>3. reported' \in {"DISCONNECTED", "CONNECTING", "CONNECTED"}
    BY <2>1 DEF StatusOf
  <2>4. reported = "DISCONNECTED" => reported' = "DISCONNECTED"
    BY <2>1 DEF ContractInv, LastWordInv, StatusOf
  <2>5. reported' \in
          Child!NextStatus(IF reported = "NONE" THEN "none" ELSE reported)
    <3>1. CASE reported = "NONE"
      BY <2>3, <3>1 DEF Child!NextStatus
    <3>2. CASE reported = "CONNECTING"
      BY <2>1, <2>3, <3>2 DEF Child!NextStatus
    <3>3. CASE reported = "CONNECTED"
      BY <2>1, <2>3, <3>3 DEF Child!NextStatus
    <3> QED
      BY <2>1, <2>2, <2>4, <3>1, <3>2, <3>3
  <2> QED
    BY <2>1, <2>3, <2>5
<1> QED
  BY <1>1, <1>2, <1>3

\* The process implements the contract of VpnChild: the GUI hears what it says
\* of the tunnel in an order in which "Disconnected" is the last word.
THEOREM ProcessKeepsContract == Spec => ImplementsChild
<1>1. ProcessInit => Child!ChildInit
  BY DEF ProcessInit, WorkerInit, Child!ChildInit
<1>2. ContractInv /\ [Next]_vars => [Child!ChildNext]_(Child!childVars)
  BY ChildStepRefines
<1> QED
  BY <1>1, <1>2, ContractInvHolds, PTL DEF Spec, ImplementsChild, Child!ChildSpec
=============================================================================
