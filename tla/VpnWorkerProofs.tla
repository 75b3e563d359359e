--------------------------- MODULE VpnWorkerProofs ---------------------------
(***************************************************************************)
(* What is proved about the worker thread for every number of SAML rounds  *)
(* and split routes: type correctness, the ownership invariants, that a    *)
(* killed process had nothing to lose, and that a stop is final.           *)
(***************************************************************************)
EXTENDS VpnWorker, TLAPS

(***************************************************************************)
(* The inductive invariant.  TunnelPtrLive, NetOwned, PppdOwned and        *)
(* SplitIndexFresh carry over from step to step by themselves.  The type   *)
(* of samlRound needs to know where the loop variable is at rest, and      *)
(* KillLeavesNothing how long the default disposition of SIGTERM lasts and *)
(* that nothing was left half-way before process() really began.           *)
(* NetOwned needs to know when on_ppp_if_up() is running: whatever is set  *)
(* by one that is not, is of a tunnel that is up.  UnpublishedInv is what  *)
(* closeProcess() can conclude from tunnelActive().                        *)
(***************************************************************************)
SamlRoundInv ==
  /\ wpc \in {"none", "init"} => samlRound = 0
  /\ wpc = "saml" => samlRound < SamlRounds

HandlerInv == handler = "default" => wpc \in {"none", "init"}

\* on_ppp_if_up() runs inside of io_loop() and before STATE_UP only.
IfConfigInv == ifConfig => wpc = "ioLoop" /\ tstate = "CONNECTING"

\* Something is left half-way only after an io_loop().
LeftInv == netLeft => wpc \notin {"none", "init"}

\* Where process() runs without a published tunnel.
UnpublishedInv == ~ptrTunnel => wpc \in {"none", "init", "start", "returned"}

WorkerInv ==
  /\ WorkerTypeOK
  /\ SamlRoundInv
  /\ HandlerInv
  /\ IfConfigInv
  /\ LeftInv
  /\ UnpublishedInv
  /\ TunnelPtrLive
  /\ NetOwned
  /\ PppdOwned
  /\ SplitIndexFresh
  /\ KillLeavesNothing

LEMMA WorkerInitInv == WorkerInit => WorkerInv
<1> SUFFICES ASSUME WorkerInit
             PROVE  WorkerInv
  OBVIOUS
<1>1. samlRound \in 0 .. SamlRounds
  BY WorkerAssumption DEF WorkerAssumption, WorkerInit
<1>2. WorkerTypeOK
  BY <1>1 DEF WorkerInit, WorkerTypeOK, ProgramPoints
<1>3. SamlRoundInv /\ HandlerInv /\ IfConfigInv /\ LeftInv /\ UnpublishedInv
      /\ SplitIndexFresh
  BY DEF WorkerInit, SamlRoundInv, HandlerInv, IfConfigInv, LeftInv, UnpublishedInv,
     SplitIndexFresh
<1>4. TunnelPtrLive /\ NetOwned /\ PppdOwned /\ KillLeavesNothing
  BY DEF WorkerInit, TunnelPtrLive, NetOwned, PppdOwned, KillLeavesNothing
<1> QED
  BY <1>2, <1>3, <1>4 DEF WorkerInv

\* The parts of WorkerInv that are about routes and nameservers, and the rest.
NetInv == IfConfigInv /\ LeftInv /\ NetOwned

ControlInv ==
  /\ WorkerTypeOK
  /\ SamlRoundInv
  /\ HandlerInv
  /\ UnpublishedInv
  /\ TunnelPtrLive
  /\ PppdOwned
  /\ SplitIndexFresh
  /\ KillLeavesNothing

LEMMA ControlNext == WorkerInv /\ [WorkerNext]_workerVars => ControlInv'
<1> SUFFICES ASSUME WorkerInv, [WorkerNext]_workerVars
             PROVE  ControlInv'
  OBVIOUS
<1> USE WorkerAssumption
    DEF WorkerAssumption, WorkerInv, ControlInv, WorkerTypeOK, SamlRoundInv,
        HandlerInv, LeftInv, UnpublishedInv, TunnelPtrLive, InProcess, NetOwned,
        PppdOwned, SplitIndexFresh, KillLeavesNothing, ProgramPoints, BlindWindow,
        InTunnel, workerVars, tunnelVars, netVars, splitVars, stopVars, Goto
<1>1. CASE ThreadStarts
  BY <1>1 DEF ThreadStarts
<1>2. CASE InstallStopHandler
  <2>1. profile.saml \in BOOLEAN
    BY DEF Profiles
  <2>2. CASE profile.saml
    BY <1>2, <2>2 DEF InstallStopHandler, EarlyHandler, StopRequested
  <2>3. CASE ~profile.saml
    BY <1>2, <2>1, <2>3 DEF InstallStopHandler, EarlyHandler, StopRequested
  <2> QED
    BY <2>2, <2>3
<1>3. CASE SamlLogin
  BY <1>3 DEF SamlLogin
<1>4. CASE SamlTimeout
  BY <1>4 DEF SamlTimeout, SamlAgain
<1>5. CASE StartTunnel
  BY <1>5 DEF StartTunnel
<1>6. ASSUME NEW ok \in BOOLEAN, ConnectReturns(ok)
      PROVE  ControlInv'
  BY <1>6 DEF ConnectReturns
<1>7. ASSUME NEW ok \in BOOLEAN, NEW n \in 0 .. MaxSplit, NegotiateReturns(ok, n)
      PROVE  ControlInv'
  BY <1>7 DEF NegotiateReturns
<1>8. CASE PppdFails
  BY <1>8 DEF PppdFails
<1>9. CASE PppdStarts
  BY <1>9 DEF PppdStarts, AfterPppd
<1>10. ASSUME NEW ok \in BOOLEAN, RequestReturns(ok)
       PROVE  ControlInv'
  BY <1>10 DEF RequestReturns
<1>11. CASE IoEnter
  BY <1>11 DEF IoEnter
<1>12. CASE IoSignalled
  BY <1>12 DEF IoSignalled, LeaveIoLoop
<1>13. CASE IfDown
  BY <1>13 DEF IfDown, IfDownLeaves
<1>14. CASE Reap
  BY <1>14 DEF Reap
<1>15. CASE LogoutReturns
  BY <1>15 DEF LogoutReturns, SplitRoutesAfterFree
<1>16. CASE ClearTunnel
  BY <1>16 DEF ClearTunnel
<1>17. CASE IfUp
  BY <1>17 DEF IfUp
<1>18. CASE IoEnds
  BY <1>18 DEF IoEnds, LeaveIoLoop
<1>19. CASE RequestStop
  BY <1>19 DEF RequestStop
<1>20. CASE StopBySignal
  BY <1>20 DEF StopBySignal, SigtermEffect
<1>21. CASE Sigterm
  BY <1>21 DEF Sigterm, SigtermEffect
<1>22. CASE EndFromMain
  <2>1. netUp' \in BOOLEAN /\ (netUp' => netUp)
    BY <1>22 DEF EndFromMain, IfDownLeaves
  <2> QED
    BY <1>22, <2>1 DEF EndFromMain
<1>23. CASE ProcessExits
  BY <1>23 DEF ProcessExits
<1>24. CASE StateUp
  BY <1>24 DEF StateUp
<1>25. CASE UNCHANGED workerVars
  BY <1>25
<1> QED
  BY <1>1, <1>2, <1>3, <1>4, <1>5, <1>6, <1>7, <1>8, <1>9, <1>10, <1>11, <1>12,
     <1>13, <1>14, <1>15, <1>16, <1>17, <1>18, <1>19, <1>20, <1>21, <1>22,
     <1>23, <1>24, <1>25
  DEF WorkerNext, WorkerStep

LEMMA NetNext == WorkerInv /\ [WorkerNext]_workerVars => NetInv'
<1> SUFFICES ASSUME WorkerInv, [WorkerNext]_workerVars
             PROVE  NetInv'
  OBVIOUS
<1> USE DEF NetInv, IfConfigInv, LeftInv, NetOwned, InTunnel, workerVars, tunnelVars,
            netVars, splitVars, stopVars, Goto
<1>1. WorkerTypeOK /\ NetInv /\ HandlerInv
  BY DEF WorkerInv
<1> USE <1>1 DEF WorkerTypeOK, HandlerInv
<1>2. CASE ThreadStarts \/ InstallStopHandler
  BY <1>2 DEF ThreadStarts, InstallStopHandler, EarlyHandler
<1>3. CASE SamlLogin \/ SamlTimeout \/ StartTunnel
  BY <1>3 DEF SamlLogin, SamlTimeout, StartTunnel
<1>4. CASE \/ \E ok \in BOOLEAN : ConnectReturns(ok)
           \/ \E ok \in BOOLEAN, n \in 0 .. MaxSplit : NegotiateReturns(ok, n)
  BY <1>4 DEF ConnectReturns, NegotiateReturns
<1>5. CASE PppdFails \/ PppdStarts \/ \E ok \in BOOLEAN : RequestReturns(ok)
  BY <1>5 DEF PppdFails, PppdStarts, AfterPppd, RequestReturns
<1>6. CASE IoEnter
  BY <1>6 DEF IoEnter
<1>7. CASE IfUp \/ StateUp
  BY <1>7 DEF IfUp, StateUp
<1>8. CASE IoSignalled \/ IoEnds
  <2>1. wpc' = "ioDone" /\ ~ifConfig' /\ tstate' = tstate /\ netUp' = netUp
    BY <1>8 DEF IoSignalled, IoEnds, LeaveIoLoop
  <2>2. netUp => netLeft' \/ tstate = "UP"
    BY <1>8 DEF IoSignalled, IoEnds, LeaveIoLoop
  <2> QED
    BY <2>1, <2>2
<1>9. CASE IfDown
  <2>1. wpc = "ioDone" /\ wpc' = "reap" /\ UNCHANGED <<netLeft, ifConfig>>
    BY <1>9 DEF IfDown
  <2>2. netUp' => netLeft
    BY <1>9, <2>1 DEF IfDown, IfDownLeaves
  <2> QED
    BY <2>1, <2>2
<1>10. CASE Reap \/ LogoutReturns \/ ClearTunnel
  BY <1>10 DEF Reap, LogoutReturns, ClearTunnel
<1>11. CASE RequestStop \/ StopBySignal \/ Sigterm
  BY <1>11 DEF RequestStop, StopBySignal, Sigterm, SigtermEffect
<1>12. CASE EndFromMain
  <2>1. netUp' => netUp
    BY <1>12 DEF EndFromMain, IfDownLeaves
  <2>2. UNCHANGED <<wpc, tstate, netLeft, ifConfig>>
    BY <1>12 DEF EndFromMain
  <2> QED
    BY <2>1, <2>2
<1>13. CASE ProcessExits \/ UNCHANGED workerVars
  BY <1>13 DEF ProcessExits
<1> QED
  BY <1>2, <1>3, <1>4, <1>5, <1>6, <1>7, <1>8, <1>9, <1>10, <1>11, <1>12, <1>13
  DEF WorkerNext, WorkerStep

LEMMA WorkerNextInv == WorkerInv /\ [WorkerNext]_workerVars => WorkerInv'
BY ControlNext, NetNext DEF WorkerInv, ControlInv, NetInv

LEMMA WorkerInvHolds == WorkerSpec => []WorkerInv
BY WorkerInitInv, WorkerNextInv, PTL DEF WorkerSpec

\* Every variable of the worker keeps its type; the round counter of the SAML
\* wait never passes its limit.
THEOREM WorkerTyped == WorkerSpec => []WorkerTypeOK
<1>1. WorkerInv => WorkerTypeOK
  BY DEF WorkerInv
<1> QED
  BY <1>1, WorkerInvHolds, PTL

\* ptr_tunnel never outlives the stack frame of process().
THEOREM TunnelPointer == WorkerSpec => []TunnelPtrLive
<1>1. WorkerInv => TunnelPtrLive
  BY DEF WorkerInv
<1> QED
  BY <1>1, WorkerInvHolds, PTL

\* Outside of the part of process() that owns them, so also when it reconnects
\* and when it returns, there are no routes and nameservers but those of an
\* io_loop() that ended inside of on_ppp_if_up().
THEOREM NetOwnership == WorkerSpec => []NetOwned
<1>1. WorkerInv => NetOwned
  BY DEF WorkerInv
<1> QED
  BY <1>1, WorkerInvHolds, PTL

\* No error label passes the end of pppd by: it only lives where process()
\* still comes to pppd_terminate().
THEOREM PppdOwnership == WorkerSpec => []PppdOwned
<1>1. WorkerInv => PppdOwned
  BY DEF WorkerInv
<1> QED
  BY <1>1, WorkerInvHolds, PTL

\* A SIGTERM that ends the process outright finds nothing to clean up.
THEOREM KilledClean == WorkerSpec => []KillLeavesNothing
<1>1. WorkerInv => KillLeavesNothing
  BY DEF WorkerInv
<1> QED
  BY <1>1, WorkerInvHolds, PTL

\* The index of the next split route fits the buffer after every reconnect.
THEOREM SplitIndex == WorkerSpec => []SplitIndexFresh
<1>1. WorkerInv => SplitIndexFresh
  BY DEF WorkerInv
<1> QED
  BY <1>1, WorkerInvHolds, PTL

-----------------------------------------------------------------------------
(***************************************************************************)
(* StopIsFinal.  Stopped is what its antecedent becomes: once a stop is    *)
(* recorded outside of the blind window and the tunnel, every check of     *)
(* process() sends the worker to the exit, past everything that could let  *)
(* the interface come up.                                                  *)
(***************************************************************************)
Stopped == StopRequested /\ wpc \notin BlindWindow \union InTunnel

LEMMA StoppedStays ==
  WorkerInv /\ Stopped /\ [WorkerNext]_workerVars => Stopped'
<1> SUFFICES ASSUME WorkerInv, Stopped, [WorkerNext]_workerVars
             PROVE  Stopped'
  OBVIOUS
<1> USE DEF Stopped, StopRequested, BlindWindow, InTunnel, WorkerInv,
            WorkerTypeOK, workerVars, tunnelVars, netVars, splitVars, stopVars, Goto
<1>1. CASE WorkerStep
  <2>1. CASE InstallStopHandler
    BY <2>1 DEF InstallStopHandler
  <2>2. CASE SamlLogin \/ SamlTimeout
    BY <2>2 DEF SamlLogin, SamlTimeout
  <2>3. CASE StartTunnel
    BY <2>3 DEF StartTunnel
  <2>4. ASSUME NEW ok \in BOOLEAN, ConnectReturns(ok)
        PROVE  Stopped'
    BY <2>4 DEF ConnectReturns
  <2>5. ASSUME NEW ok \in BOOLEAN, NEW n \in 0 .. MaxSplit, NegotiateReturns(ok, n)
        PROVE  Stopped'
    BY <2>5 DEF NegotiateReturns
  <2>6. CASE PppdFails \/ PppdStarts
    BY <2>6 DEF PppdFails, PppdStarts, AfterPppd
  <2>7. ASSUME NEW ok \in BOOLEAN, RequestReturns(ok)
        PROVE  Stopped'
    BY <2>7 DEF RequestReturns
  <2>8. CASE IoEnter \/ IoSignalled \/ IfDown
    BY <2>8 DEF IoEnter, IoSignalled, LeaveIoLoop, IfDown
  <2>9. CASE Reap \/ LogoutReturns \/ ClearTunnel
    BY <2>9 DEF Reap, LogoutReturns, ClearTunnel
  <2> QED
    BY <1>1, <2>1, <2>2, <2>3, <2>4, <2>5, <2>6, <2>7, <2>8, <2>9 DEF WorkerStep
<1>2. CASE ThreadStarts \/ IfUp \/ StateUp \/ IoEnds
  BY <1>2 DEF ThreadStarts, IfUp, StateUp, IoEnds, LeaveIoLoop
<1>3. CASE RequestStop \/ StopBySignal \/ Sigterm
  BY <1>3 DEF RequestStop, StopBySignal, Sigterm, SigtermEffect
<1>4. CASE EndFromMain \/ ProcessExits \/ UNCHANGED workerVars
  BY <1>4 DEF EndFromMain, ProcessExits
<1> QED
  BY <1>1, <1>2, <1>3, <1>4 DEF WorkerNext

\* A stop that arrives before pppd was asked for the tunnel, or after the
\* tunnel is gone, keeps the worker out of io_loop() for the rest of the
\* process, and the interface down but for what was left half-way before.
THEOREM StopFinal == WorkerSpec => StopIsFinal
<1>1. WorkerInv /\ Stopped => wpc \notin InTunnel /\ (netUp => netLeft)
  BY DEF WorkerInv, Stopped, NetOwned, InTunnel
<1>2. WorkerSpec => []WorkerInv /\ [][WorkerNext]_workerVars
  BY WorkerInvHolds, PTL DEF WorkerSpec
<1>3. []WorkerInv /\ [][WorkerNext]_workerVars
        => [](Stopped => [](wpc \notin InTunnel /\ (netUp => netLeft)))
  BY <1>1, StoppedStays, PTL
<1> QED
  BY <1>2, <1>3, PTL DEF StopIsFinal, Stopped
=============================================================================
