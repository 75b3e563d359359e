------------------------------ MODULE VpnWorker ------------------------------
(***************************************************************************)
(* The worker thread of an openfortigui VPN process (proc/vpnworker.cpp):  *)
(* vpnWorker::process() connects to the gateway, starts pppd, runs the     *)
(* tunnel and tears everything down again, in one function that is only    *)
(* ever asked to return.  The two ways of asking are the flag set by       *)
(* requestStop() and a SIGTERM, whose handler changes hands on the way:    *)
(* the default disposition, then worker_stop_handler, then the handler     *)
(* openfortivpn's io_loop() installs and leaves behind.                    *)
(*                                                                         *)
(* A blocking call of openfortivpn (TLS, HTTP, waitpid) is one program     *)
(* point; the action that leaves it is the call's return together with     *)
(* the checks process() makes before it blocks again.                      *)
(***************************************************************************)
EXTENDS Naturals, FiniteSets

CONSTANTS
  SamlRounds,   \* calls of wait_for_http_request() before process() gives up
  MaxSplit      \* bound: split routes one configuration of the gateway adds

ASSUME WorkerAssumption ==
  /\ SamlRounds \in Nat \ {0}
  /\ MaxSplit \in Nat

VARIABLES
  life,         \* of the process: "alive", "exited", or "killed" by a signal
  wpc,          \* where the worker thread is in process()
  profile,      \* the settings of the profile that change the control flow
  samlRound,    \* the loop variable `round' of the SAML wait
  ptrTunnel,    \* ptr_tunnel is set: the main thread sees the tunnel
  tstate,       \* tunnel.state
  pppd,         \* the child pppd_run() forked: "none" or "running"
  netUp,        \* routes or nameservers of on_ppp_if_up() are in place
  netLeft,      \* an io_loop() of this process ended inside of on_ppp_if_up()
                \* with some of them in place
  ifConfig,     \* the if_config thread of io_loop() is in on_ppp_if_up()
  splitRt,      \* entries written to the buffer tunnel.ipv4.split_rt, 0: NULL
  splitRoutes,  \* tunnel.ipv4.split_routes
  handler,      \* who handles SIGTERM: "default", "worker" or "io"
  stopFlag,     \* worker_stop_requested
  sigReceived,  \* get_sig_received() returns SIGTERM or SIGINT
  ioStop        \* sem_stop_io was posted since io_loop() initialised it

stopVars   == <<stopFlag, sigReceived, ioStop, handler>>
netVars    == <<netUp, netLeft, ifConfig>>
tunnelVars == <<ptrTunnel, tstate, pppd, netVars>>
splitVars  == <<splitRt, splitRoutes>>
workerVars == <<life, wpc, profile, samlRound, tunnelVars, splitVars, stopVars>>

Profiles == [persistent : BOOLEAN, saml : BOOLEAN]

(***************************************************************************)
(* Program points of process().  "none": the thread was not started;       *)
(* "returned": process() is over and the thread sits in its event loop.    *)
(***************************************************************************)
ProgramPoints ==
  {"none", "init", "saml", "start", "connect", "negotiate", "spawn",
   "request", "ioEntry", "ioLoop", "ioDone", "reap", "logout", "clear",
   "returned"}

\* The stack variable `tunnel' exists.
InProcess == wpc \notin {"none", "returned"}

WorkerTypeOK ==
  /\ life \in {"alive", "exited", "killed"}
  /\ wpc \in ProgramPoints
  /\ profile \in Profiles
  /\ samlRound \in 0 .. SamlRounds
  /\ ptrTunnel \in BOOLEAN
  /\ tstate \in {"DOWN", "CONNECTING", "UP", "DISCONNECTING"}
  /\ pppd \in {"none", "running"}
  /\ netUp \in BOOLEAN
  /\ netLeft \in BOOLEAN
  /\ ifConfig \in BOOLEAN
  /\ splitRt \in Nat
  /\ splitRoutes \in Nat
  /\ handler \in {"default", "worker", "io"}
  /\ stopFlag \in BOOLEAN
  /\ sigReceived \in BOOLEAN
  /\ ioStop \in BOOLEAN

WorkerInit ==
  /\ life = "alive"
  /\ wpc = "none"
  /\ profile \in Profiles
  /\ samlRound = 0
  /\ ptrTunnel = FALSE
  /\ tstate = "DOWN"
  /\ pppd = "none"
  /\ netUp = FALSE
  /\ netLeft = FALSE
  /\ ifConfig = FALSE
  /\ splitRt = 0
  /\ splitRoutes = 0
  /\ handler = "default"
  /\ stopFlag = FALSE
  /\ sigReceived = FALSE
  /\ ioStop = FALSE

\* vpnWorker::stopRequested().
StopRequested == stopFlag \/ sigReceived

-----------------------------------------------------------------------------
(* Stopping: what the main thread and the outside world do to the worker.  *)

\* vpnWorker::requestStop(), called by closeProcess() on the main thread.
RequestStop ==
  /\ life = "alive"
  /\ stopFlag' = TRUE
  /\ UNCHANGED <<life, wpc, profile, samlRound, tunnelVars, splitVars,
                 sigReceived, ioStop, handler>>

\* What a SIGTERM does to the worker, by the handler that is installed.  The
\* io handler posts the semaphore io_loop() waits on; outside of io_loop()
\* the post reaches nobody.  `flagged': worker_stop_requested is set already.
SigtermEffect(flagged) ==
  /\ life = "alive"
  /\ stopFlag' = (flagged \/ handler = "worker")
  /\ sigReceived' = (sigReceived \/ handler = "io")
  /\ ioStop' = (ioStop \/ (handler = "io" /\ wpc = "ioLoop"))
  /\ life' = IF handler = "default" THEN "killed" ELSE life
  /\ UNCHANGED <<wpc, profile, samlRound, tunnelVars, splitVars, handler>>

\* A SIGTERM from outside of the process.
Sigterm == SigtermEffect(stopFlag)

\* closeProcess() on the main thread: requestStop(), then, as the handler is
\* known to be installed, kill(getpid(), SIGTERM).
StopBySignal == handler # "default" /\ SigtermEffect(TRUE)

\* What a call of on_ppp_if_down() leaves of the routes and nameservers: nothing
\* of a complete on_ppp_if_up().  Whether it also finds what an earlier
\* io_loop() left half-way, or what another thread is setting at the same time
\* without a lock, is left open.
IfDownLeaves == {FALSE, netUp /\ (netLeft \/ ifConfig)}

\* vpnWorker::end(), called by the main thread under tunnel_mutex.  The lock
\* guards ptr_tunnel only: the worker and if_config go on meanwhile.
EndFromMain ==
  /\ life = "alive"
  /\ netUp' \in IF ptrTunnel THEN IfDownLeaves ELSE {netUp}
  /\ UNCHANGED <<life, wpc, profile, samlRound, ptrTunnel, tstate, pppd,
                 netLeft, ifConfig, splitVars, stopVars>>

-----------------------------------------------------------------------------
(* The steps of process().                                                 *)

Goto(from, to) ==
  /\ life = "alive"
  /\ wpc = from
  /\ wpc' = to
  /\ UNCHANGED <<life, profile>>

\* QThread::started() reaches process(); the configuration is copied.
ThreadStarts ==
  /\ Goto("none", "init")
  /\ UNCHANGED <<samlRound, tunnelVars, splitVars, stopVars>>

\* Mutant: process() leaves SIGTERM alone, io_loop() is the first to catch it.
NoEarlyHandler == "default"

EarlyHandler == "worker"

\* process() installs worker_stop_handler; with SAML it publishes the tunnel
\* before the browser login and enters the wait unless a stop was requested.
InstallStopHandler ==
  /\ Goto("init", IF ~profile.saml THEN "start"
                  ELSE IF StopRequested THEN "logout" ELSE "saml")
  /\ handler' = EarlyHandler
  /\ ptrTunnel' = profile.saml
  /\ tstate' = IF profile.saml THEN "CONNECTING" ELSE tstate
  /\ UNCHANGED <<samlRound, pppd, netVars, splitVars,
                 stopFlag, sigReceived, ioStop>>

\* wait_for_http_request() hands over a session id ...
SamlLogin ==
  /\ Goto("saml", "start")
  /\ UNCHANGED <<samlRound, tunnelVars, splitVars, stopVars>>

\* Mutant: the round that just ended is not counted.
SamlAgainLate == samlRound < SamlRounds /\ ~StopRequested

\* The condition of the loop after its increment.
SamlAgain == samlRound + 1 < SamlRounds /\ ~StopRequested

\* ... or times out: the next round, unless it was the last or a stop came.
SamlTimeout ==
  /\ Goto("saml", IF SamlAgain THEN "saml" ELSE "logout")
  /\ samlRound' = samlRound + 1
  /\ UNCHANGED <<tunnelVars, splitVars, stopVars>>

\* The label start_tunnel, first attempt and every reconnect.
StartTunnel ==
  /\ Goto("start", "connect")
  /\ tstate' = "CONNECTING"
  /\ ptrTunnel' = TRUE
  /\ UNCHANGED <<samlRound, pppd, netVars, splitVars, stopVars>>

\* Name resolution and the first ssl_connect(); the stop check after them.
ConnectReturns(ok) ==
  /\ Goto("connect", IF ok /\ ~StopRequested THEN "negotiate" ELSE "logout")
  /\ UNCHANGED <<samlRound, tunnelVars, splitVars, stopVars>>

\* Login, allocation, the second ssl_connect() and auth_get_config(), which
\* appends n split routes to the buffer at the index split_routes.
NegotiateReturns(ok, n) ==
  /\ Goto("negotiate", IF ok /\ ~StopRequested THEN "spawn" ELSE "logout")
  /\ splitRt' = splitRt + n
  /\ splitRoutes' = splitRoutes + n
  /\ UNCHANGED <<samlRound, tunnelVars, stopVars>>

\* pppd_run() could not fork.
PppdFails ==
  /\ Goto("spawn", "logout")
  /\ UNCHANGED <<samlRound, tunnelVars, splitVars, stopVars>>

\* Mutants: the stop is not looked at, or leaves by the wrong error label.
AfterPppdNoCheck == "request"
AfterPppdNoReap == IF StopRequested THEN "logout" ELSE "request"

\* pppd runs: an abort has to go through err_start_tunnel from here on.
AfterPppd == IF StopRequested THEN "reap" ELSE "request"

\* pppd_run() forked pppd.
PppdStarts ==
  /\ Goto("spawn", AfterPppd)
  /\ pppd' = "running"
  /\ UNCHANGED <<samlRound, ptrTunnel, tstate, netVars, splitVars, stopVars>>

\* http_send() of the tunnel request.
RequestReturns(ok) ==
  /\ Goto("request", IF ok THEN "ioEntry" ELSE "reap")
  /\ tstate' = IF ok THEN "CONNECTING" ELSE tstate
  /\ UNCHANGED <<samlRound, ptrTunnel, pppd, netVars, splitVars, stopVars>>

\* io_loop() initialises its semaphore and takes over the signal.  It does
\* not know worker_stop_requested; whether it would notice a signal its own
\* handler caught before this call is left open.
IoEnter ==
  /\ Goto("ioEntry", "ioLoop")
  /\ handler' = "io"
  /\ ioStop' \in {FALSE, sigReceived}
  /\ UNCHANGED <<samlRound, tunnelVars, splitVars, stopFlag, sigReceived>>

\* The if_config thread of io_loop() finds the interface up and calls
\* on_ppp_if_up(), which sets the routes and the nameservers ...
IfUp ==
  /\ life = "alive"
  /\ wpc = "ioLoop"
  /\ tstate = "CONNECTING"
  /\ ~ifConfig
  /\ netUp' = TRUE
  /\ ifConfig' = TRUE
  /\ UNCHANGED <<life, wpc, profile, samlRound, ptrTunnel, tstate, pppd, netLeft,
                 splitVars, stopVars>>

\* ... and enters STATE_UP when the call has returned.
StateUp ==
  /\ life = "alive"
  /\ wpc = "ioLoop"
  /\ ifConfig
  /\ ifConfig' = FALSE
  /\ tstate' = "UP"
  /\ UNCHANGED <<life, wpc, profile, samlRound, ptrTunnel, pppd, netUp, netLeft,
                 splitVars, stopVars>>

\* io_loop() cancels its threads before it returns; on_ppp_if_up() stays where
\* it was.
LeaveIoLoop ==
  /\ Goto("ioLoop", "ioDone")
  /\ ifConfig' = FALSE
  /\ netLeft' = (netLeft \/ (netUp /\ tstate # "UP"))
  /\ UNCHANGED <<samlRound, ptrTunnel, tstate, pppd, netUp, splitVars, stopVars>>

\* io_loop() returns because its semaphore was posted by the handler ...
IoSignalled == ioStop /\ LeaveIoLoop

\* ... or because pppd or the gateway ended the connection.
IoEnds == LeaveIoLoop

\* Mutant: the state is overwritten before it is looked at.
IfDownForgets ==
  /\ Goto("ioDone", "reap")
  /\ tstate' = "DISCONNECTING"
  /\ UNCHANGED <<samlRound, ptrTunnel, pppd, netVars, splitVars, stopVars>>

\* on_ppp_if_down() for a tunnel that was up, and for no other: an io_loop()
\* that ended before STATE_UP keeps the routes it had set.
IfDown ==
  /\ Goto("ioDone", "reap")
  /\ netUp' \in IF tstate = "UP" THEN IfDownLeaves ELSE {netUp}
  /\ tstate' = "DISCONNECTING"
  /\ UNCHANGED <<samlRound, ptrTunnel, pppd, netLeft, ifConfig, splitVars,
                 stopVars>>

\* pppd_terminate(): close the pty, wait for pppd.
Reap ==
  /\ Goto("reap", "logout")
  /\ pppd' = "none"
  /\ UNCHANGED <<samlRound, ptrTunnel, tstate, netVars, splitVars, stopVars>>

SplitRoutesAfterFree == 0

\* The condition of `goto start_tunnel'.
Reconnects ==
  profile.persistent /\ tstate = "DISCONNECTING" /\ ~StopRequested

\* Mutant: the tunnel counts as down before the worker looks whether it has
\* to come back.
LogoutReturnsDown ==
  /\ Goto("logout", IF Reconnects THEN "start" ELSE "clear")
  /\ splitRt' = 0
  /\ splitRoutes' = SplitRoutesAfterFree
  /\ tstate' = "DOWN"
  /\ UNCHANGED <<samlRound, ptrTunnel, pppd, netVars, stopVars>>

\* The logout at the gateway, with or without success; the split routes are
\* released and a persistent profile goes round again.
LogoutReturns ==
  /\ Goto("logout", IF Reconnects THEN "start" ELSE "clear")
  /\ splitRt' = 0
  /\ splitRoutes' = SplitRoutesAfterFree
  /\ tstate' = IF Reconnects THEN tstate ELSE "DOWN"
  /\ UNCHANGED <<samlRound, ptrTunnel, pppd, netVars, stopVars>>

\* Mutant: process() returns with its tunnel still published.
ClearTunnelNever ==
  /\ Goto("clear", "returned")
  /\ UNCHANGED <<samlRound, tunnelVars, splitVars, stopVars>>

\* The pointer goes first, then finished() is emitted and process() returns.
ClearTunnel ==
  /\ Goto("clear", "returned")
  /\ ptrTunnel' = FALSE
  /\ UNCHANGED <<samlRound, tstate, pppd, netVars, splitVars, stopVars>>

\* Every step the worker thread itself takes, blocking calls that return
\* included.  IoEnds, the tunnel failing, and IfUp and StateUp, the tunnel
\* coming up, are up to the gateway and pppd.
WorkerStep ==
  \/ InstallStopHandler
  \/ SamlLogin
  \/ SamlTimeout
  \/ StartTunnel
  \/ \E ok \in BOOLEAN : ConnectReturns(ok)
  \/ \E ok \in BOOLEAN, n \in 0 .. MaxSplit : NegotiateReturns(ok, n)
  \/ PppdFails
  \/ PppdStarts
  \/ \E ok \in BOOLEAN : RequestReturns(ok)
  \/ IoEnter
  \/ IoSignalled
  \/ IfDown
  \/ Reap
  \/ LogoutReturns
  \/ ClearTunnel

\* The process ends: main() returned, whatever the worker was doing.
ProcessExits ==
  /\ life = "alive"
  /\ life' = "exited"
  /\ UNCHANGED <<wpc, profile, samlRound, tunnelVars, splitVars, stopVars>>

WorkerNext ==
  \/ ThreadStarts
  \/ WorkerStep
  \/ IfUp
  \/ StateUp
  \/ IoEnds
  \/ RequestStop
  \/ StopBySignal
  \/ Sigterm
  \/ EndFromMain
  \/ ProcessExits

WorkerSpec == WorkerInit /\ [][WorkerNext]_workerVars

\* A headless process: nobody but a signal stops it.
HeadlessNext ==
  \/ ThreadStarts
  \/ WorkerStep
  \/ IfUp
  \/ StateUp
  \/ IoEnds
  \/ Sigterm
  \/ wpc = "returned" /\ ProcessExits

\* The blocking calls of process() return, and main() returns once process()
\* did; nothing makes the gateway or pppd act.
WorkerFairness ==
  /\ WF_workerVars(ThreadStarts)
  /\ WF_workerVars(WorkerStep)
  /\ WF_workerVars(wpc = "returned" /\ ProcessExits)

HeadlessSpec == WorkerInit /\ [][HeadlessNext]_workerVars /\ WorkerFairness

FairWorkerSpec == WorkerSpec /\ WorkerFairness

-----------------------------------------------------------------------------
(* Properties.                                                             *)

\* Between the last stop check of process() and the moment io_loop() listens.
BlindWindow == {"request", "ioEntry"}

\* io_loop() runs or has just returned.
InTunnel == {"ioLoop", "ioDone"}

\* The main thread can only see a tunnel while process() is running: a stack
\* variable that is gone is never published, in whatever way process() ended.
TunnelPtrLive == ptrTunnel => InProcess

\* Routes and nameservers exist only while io_loop() owns them: every path
\* out of a tunnel that was up, a reconnect too, has taken them back before
\* pppd is reaped.  Only an io_loop() that ended inside of on_ppp_if_up() leaves
\* something, and only that.
NetOwned ==
  netUp => \/ wpc = "ioLoop" /\ ifConfig
           \/ wpc \in InTunnel /\ tstate = "UP"
           \/ netLeft

\* No way through the error labels of process() passes pppd_terminate() by: a
\* pppd that runs is still going to be reaped.
PppdOwned == pppd = "running" => wpc \in BlindWindow \union InTunnel \union {"reap"}

\* A SIGTERM whose disposition ends the process at once finds neither a pppd
\* nor routes: the stop handler is there before there is anything to lose.
KillLeavesNothing == life = "killed" => pppd = "none" /\ ~netUp

\* The index at which the next split route is written is the number of
\* entries of the buffer, over reconnects and half-read configurations.
SplitIndexFresh == splitRoutes = splitRt

\* A stop, by flag or by signal, that arrives while the worker does not sit
\* between its last check and the end of io_loop() is the last word, persistent
\* profiles included: no io_loop() runs again, and the routes are down for good
\* but for what an io_loop() that ended half-way up had left before.
StopIsFinal ==
  [](StopRequested /\ wpc \notin BlindWindow \union InTunnel
       => [](wpc \notin InTunnel /\ (netUp => netLeft)))

\* Such a stop, and a signal io_loop() itself caught, ends the process.
StopEndsProcess ==
  \/ StopRequested /\ wpc \notin BlindWindow \union {"ioLoop"}
  \/ ioStop /\ wpc = "ioLoop"
  ~> life # "alive"

\* What the tests expect of SIGTERM: whenever it comes, the process ends.
SigtermEndsProcess == StopRequested ~> life # "alive"
=============================================================================
