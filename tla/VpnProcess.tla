----------------------------- MODULE VpnProcess -----------------------------
(***************************************************************************)
(* One openfortigui VPN process (main --start-vpn): the main thread with   *)
(* its vpnProcess object (proc/vpnprocess.cpp) beside the worker thread of *)
(* VpnWorker, and what the GUI at the other end of the api socket does to  *)
(* it.  A main thread action is one slot run to its next return to an      *)
(* event loop or to its next blocking wait; the worker, signals and the    *)
(* GUI interleave with it.                                                 *)
(***************************************************************************)
EXTENDS VpnWorker, Sequences

CONSTANT
  GuiQuits  \* the GUI may close the socket although it sent ACTION_STOP

ASSUME ProcessAssumption == GuiQuits \in BOOLEAN

VARIABLES
  needs,          \* which answers startVPN() waits for: "PASS", "CRED"
  mainPc,         \* "loop": an event loop; "join": thread_vpn->wait();
                  \* "deref": onObserverUpdate() past its null check
  startPc,        \* startVPN(): "boot" (timer pending), "pass", "cred" (in a
                  \* nested event loop), "done"
  received,       \* passstore_received and cred_received
  shuttingDown,   \* shutting_down
  quitCalled,     \* QCoreApplication::quit() was called
  watchdog,       \* the singleShot of closeProcess(): "off", "armed", "fired"
  observing,      \* observer and observerStats run
  lastState,      \* last_tunnel_state
  reported,       \* the last status written to the api socket
  thread,         \* thread_vpn: "none", "running", "finished", "terminated"
  threadQuit,     \* thread_vpn->quit() was called
  workerAlive,    \* the vpnWorker object exists
  finishedPosted, \* vpnWorker::finished() waits in the main thread's queue
  apiOpen,        \* apiServer is connected
  inbox,          \* commands of the GUI that were not read yet
  ready,          \* a readyRead() is due
  discPosted,     \* a disconnected() is due
  guiSent         \* what the GUI has sent so far

startVars  == <<needs, startPc, received>>
closeVars  == <<shuttingDown, quitCalled, watchdog, observing>>
reportVars == <<lastState, reported>>
threadVars == <<thread, threadQuit, workerAlive, finishedPosted>>
socketVars == <<apiOpen, inbox, ready, discPosted, guiSent>>
mainVars   == <<mainPc, startVars, closeVars, reportVars, threadVars, socketVars>>
vars       == <<workerVars, mainVars>>

Answers  == {"PASS", "CRED"}
Commands == Answers \union {"STOP"}

\* The types of the three parts of the main thread's state, and all types.
SocketTypeOK ==
  /\ apiOpen \in BOOLEAN
  /\ inbox \in Seq(Commands)
  /\ ready \in BOOLEAN
  /\ discPosted \in BOOLEAN
  /\ guiSent \in SUBSET Commands

StartTypeOK ==
  /\ needs \in SUBSET Answers
  /\ startPc \in {"boot", "pass", "cred", "done"}
  /\ received \in SUBSET Answers

ControlTypeOK ==
  /\ mainPc \in {"loop", "join", "deref"}
  /\ shuttingDown \in BOOLEAN
  /\ quitCalled \in BOOLEAN
  /\ watchdog \in {"off", "armed", "fired"}
  /\ observing \in BOOLEAN
  /\ lastState \in {"DOWN", "CONNECTING", "UP", "DISCONNECTING"}
  /\ reported \in {"NONE", "DISCONNECTED", "CONNECTING", "CONNECTED"}
  /\ thread \in {"none", "running", "finished", "terminated"}
  /\ threadQuit \in BOOLEAN
  /\ workerAlive \in BOOLEAN
  /\ finishedPosted \in BOOLEAN

ProcessTypeOK == WorkerTypeOK /\ StartTypeOK /\ ControlTypeOK /\ SocketTypeOK

\* setup() connected to the GUI or the process runs headless.  With SAML no
\* answer is asked for.
ProcessInit ==
  /\ WorkerInit
  /\ needs \in SUBSET Answers
  /\ profile.saml => needs = {}
  /\ mainPc = "loop"
  /\ startPc = "boot"
  /\ received = {}
  /\ shuttingDown = FALSE
  /\ quitCalled = FALSE
  /\ watchdog = "off"
  /\ observing = FALSE
  /\ lastState = "DOWN"
  /\ reported = "NONE"
  /\ thread = "none"
  /\ threadQuit = FALSE
  /\ workerAlive = FALSE
  /\ finishedPosted = FALSE
  /\ apiOpen \in BOOLEAN
  /\ inbox = <<>>
  /\ ready = FALSE
  /\ discPosted = FALSE
  /\ guiSent = {}

\* The main thread is in an event loop and may run a slot.
InLoop == life = "alive" /\ mainPc = "loop"

\* A timer that startVPN() or closeProcess() started can still fire: nothing
\* runs once quit() has ended the event loops.
TimersRun == InLoop /\ ~quitCalled

-----------------------------------------------------------------------------
(* closeProcess() and finishShutdown().                                    *)

\* thread_vpn is asked to quit and waited for, or the event loop is left.
FinishShutdown ==
  IF thread = "running"
  THEN /\ mainPc' = "join"
       /\ threadQuit' = TRUE
       /\ UNCHANGED quitCalled
  ELSE /\ quitCalled' = TRUE
       /\ UNCHANGED <<mainPc, threadQuit>>

\* Mutant: the tunnel is not torn down by the worker but by terminate().
NeverSignals == FALSE

\* The worker has a tunnel and a SIGTERM does not kill the process.
SignalsWorker == workerAlive /\ ptrTunnel /\ handler # "default"

\* Mutant: nobody watches the worker react to the stop.
NoGrace == "off"

\* The timer of VPN_SHUTDOWN_TIMEOUT_MS.
Grace == "armed"

\* closeProcess() entered for the first time.
BeginShutdown ==
  /\ ~shuttingDown
  /\ shuttingDown' = TRUE
  /\ observing' = FALSE
  /\ IF SignalsWorker
     THEN /\ StopBySignal
          /\ watchdog' = Grace
          /\ UNCHANGED <<mainPc, threadQuit, quitCalled>>
     ELSE /\ RequestStop
          /\ FinishShutdown
          /\ UNCHANGED watchdog

\* closeProcess() entered again.
EndShutdown ==
  /\ shuttingDown
  /\ FinishShutdown
  /\ UNCHANGED <<workerVars, shuttingDown, observing, watchdog>>

\* What a slot that calls closeProcess() leaves alone is the caller's affair:
\* startVars, finishedPosted and socketVars.
CloseProcess ==
  /\ BeginShutdown \/ EndShutdown
  /\ UNCHANGED <<reportVars, thread, workerAlive>>

-----------------------------------------------------------------------------
(* startVPN().                                                             *)

\* The end of startVPN(): the thread runs process(), the observers start.
SpawnWorker ==
  /\ startPc' = "done"
  /\ thread' = "running"
  /\ workerAlive' = TRUE
  /\ observing' = TRUE
  /\ ThreadStarts
  /\ UNCHANGED <<needs, mainPc, shuttingDown, quitCalled, watchdog, reportVars,
                 threadQuit, finishedPosted, socketVars>>

\* A nested event loop is entered to wait for an answer.
AwaitAnswer(pc) ==
  /\ startPc' = pc
  /\ UNCHANGED <<workerVars, needs, mainPc, closeVars, reportVars, threadVars,
                 socketVars>>

\* From the decision about the credentials to the end of startVPN().
AskCredOrSpawn ==
  IF "CRED" \in needs THEN AwaitAnswer("cred") ELSE SpawnWorker

\* A step of startVPN() gives up: a message to the GUI and closeProcess().
StartFails ==
  /\ startPc' = "done"
  /\ CloseProcess
  /\ UNCHANGED <<needs, received, finishedPosted, socketVars>>

\* The 100 ms timer fires.  It may do so in the round of the event loop in
\* which quit() was called.
StartVPN ==
  /\ InLoop
  /\ startPc = "boot"
  /\ \/ StartFails
     \/ /\ received' = {}
        /\ IF "PASS" \in needs THEN AwaitAnswer("pass") ELSE AskCredOrSpawn

\* The nested loop for the password store ended: by the answer, by its 30 s
\* timer, or because quit() ends every loop.
PassWaitEnds ==
  /\ InLoop
  /\ startPc = "pass"
  /\ IF "PASS" \in received
     THEN AskCredOrSpawn /\ UNCHANGED received
     ELSE StartFails

\* Mutant: the end of the nested loop is taken for the answer.
CredWaitTrusts ==
  InLoop /\ startPc = "cred" /\ SpawnWorker /\ UNCHANGED received

\* The nested loop for username, password and OTP ended likewise.
CredWaitEnds ==
  /\ InLoop
  /\ startPc = "cred"
  /\ IF "CRED" \in received
     THEN SpawnWorker /\ UNCHANGED received
     ELSE StartFails

-----------------------------------------------------------------------------
(* The slots of the running process.                                       *)

\* onServerReadyRead() takes one command off the socket, not more; what
\* arrived together with it waits for the next readyRead().
ServerReadyRead ==
  /\ InLoop
  /\ ready
  /\ inbox # <<>>
  /\ ready' = FALSE
  /\ inbox' = Tail(inbox)
  /\ IF Head(inbox) = "STOP"
     THEN CloseProcess /\ UNCHANGED received
     ELSE /\ received' = received \union {Head(inbox)}
          /\ UNCHANGED <<workerVars, mainPc, closeVars, reportVars, thread,
                         threadQuit, workerAlive>>
  /\ UNCHANGED <<needs, startPc, finishedPosted, apiOpen, discPosted, guiSent>>

\* onServerDisconnected(): the socket is drained before it reports its end.
ServerDisconnected ==
  /\ InLoop
  /\ discPosted
  /\ ~ready
  /\ discPosted' = FALSE
  /\ CloseProcess
  /\ UNCHANGED <<startVars, finishedPosted, apiOpen, inbox, ready, guiSent>>

\* finished() arrives on the main thread: thread_vpn->quit(), closeProcess().
WorkerFinished ==
  /\ InLoop
  /\ finishedPosted
  /\ finishedPosted' = FALSE
  /\ CloseProcess
  /\ UNCHANGED <<startVars, socketVars>>

\* Mutant: end() takes the tunnel away from the worker as well.
ShutdownTimeoutClears ==
  /\ TimersRun
  /\ watchdog = "armed"
  /\ watchdog' = "fired"
  /\ ptrTunnel' = FALSE
  /\ netUp' = FALSE
  /\ FinishShutdown
  /\ UNCHANGED <<life, wpc, profile, samlRound, tstate, pppd, netLeft, ifConfig,
                 splitVars, stopVars, startVars, shuttingDown, observing, reportVars, thread,
                 workerAlive, finishedPosted, socketVars>>

\* onShutdownTimeout(): end() under the mutex, then the hard way.
ShutdownTimeout ==
  /\ TimersRun
  /\ watchdog = "armed"
  /\ watchdog' = "fired"
  /\ IF workerAlive THEN EndFromMain ELSE UNCHANGED workerVars
  /\ FinishShutdown
  /\ UNCHANGED <<startVars, shuttingDown, observing, reportVars, thread,
                 workerAlive, finishedPosted, socketVars>>

\* thread_vpn->wait(2000) in time ...
JoinSucceeds ==
  /\ life = "alive"
  /\ mainPc = "join"
  /\ thread = "finished"
  /\ mainPc' = "loop"
  /\ quitCalled' = TRUE
  /\ UNCHANGED <<workerVars, startVars, shuttingDown, watchdog, observing,
                 reportVars, threadVars, socketVars>>

\* ... and too late: the thread is terminated wherever it is.
JoinTimesOut ==
  /\ life = "alive"
  /\ mainPc = "join"
  /\ thread = "running"
  /\ mainPc' = "loop"
  /\ thread' = "terminated"
  /\ quitCalled' = TRUE
  /\ UNCHANGED <<workerVars, startVars, shuttingDown, watchdog, observing,
                 reportVars, threadQuit, workerAlive, finishedPosted, socketVars>>

\* onObserverUpdate() finds thread_worker set.
ObserverChecks ==
  /\ TimersRun
  /\ observing
  /\ workerAlive
  /\ mainPc' = "deref"
  /\ UNCHANGED <<workerVars, startVars, closeVars, reportVars, threadVars,
                 socketVars>>

StatusOf(state) ==
  CASE state = "DOWN" -> "DISCONNECTED"
    [] state = "UP" -> "CONNECTED"
    [] OTHER -> "CONNECTING"

\* Mutant: the switch has no case for STATE_CONNECTING.
ReportsUpOnly == apiOpen /\ tstate \notin {"DISCONNECTING", "CONNECTING"}

\* sendCMD() drops what it cannot write; STATE_DISCONNECTING is not reported.
Reports == apiOpen /\ tstate # "DISCONNECTING"

\* The rest of onObserverUpdate(): read the state, report a change of it.
\* last_tunnel_state follows in any case.
ObserverReports ==
  /\ life = "alive"
  /\ mainPc = "deref"
  /\ workerAlive
  /\ mainPc' = "loop"
  /\ IF ptrTunnel /\ tstate # lastState
     THEN /\ lastState' = tstate
          /\ reported' = IF Reports THEN StatusOf(tstate) ELSE reported
     ELSE UNCHANGED reportVars
  /\ UNCHANGED <<workerVars, startVars, closeVars, threadVars, socketVars>>

\* The worker was deleted on its own thread after the null check: the call
\* goes to freed memory, which answers "no tunnel" or ends the process.
ObserverUsesFreedWorker ==
  /\ life = "alive"
  /\ mainPc = "deref"
  /\ ~workerAlive
  /\ mainPc' = "loop"
  /\ life' \in {"alive", "exited"}
  /\ UNCHANGED <<wpc, profile, samlRound, tunnelVars, splitVars, stopVars,
                 startVars, closeVars, reportVars, threadVars, socketVars>>

\* The event loop of main() returns.
MainReturns ==
  /\ InLoop
  /\ quitCalled
  /\ startPc \notin {"pass", "cred"}
  /\ ProcessExits
  /\ UNCHANGED mainVars

MainStep ==
  \/ StartVPN
  \/ PassWaitEnds
  \/ CredWaitEnds
  \/ ServerReadyRead
  \/ ServerDisconnected
  \/ WorkerFinished
  \/ ShutdownTimeout
  \/ JoinSucceeds
  \/ JoinTimesOut
  \/ ObserverChecks
  \/ ObserverReports
  \/ ObserverUsesFreedWorker
  \/ MainReturns

-----------------------------------------------------------------------------
(* The worker thread.                                                      *)

\* A step of process(); its last one posts finished() to the main thread.
ThreadWorks ==
  /\ thread = "running"
  /\ WorkerStep \/ IoEnds
  /\ finishedPosted' = (finishedPosted \/ wpc' = "returned")
  /\ UNCHANGED <<mainPc, startVars, closeVars, reportVars, thread, threadQuit,
                 workerAlive, socketVars>>

\* Any thread of the process may be the one that io_loop() left behind.
InterfaceUp == (IfUp \/ StateUp) /\ UNCHANGED mainVars

\* deleteLater() of the worker, in the event loop of its own thread.
DeleteWorker ==
  /\ life = "alive"
  /\ thread = "running"
  /\ wpc = "returned"
  /\ workerAlive
  /\ workerAlive' = FALSE
  /\ UNCHANGED <<workerVars, mainPc, startVars, closeVars, reportVars, thread,
                 threadQuit, finishedPosted, socketVars>>

\* The event loop of the thread ends; what is still to be deleted goes first.
ThreadFinishes ==
  /\ life = "alive"
  /\ thread = "running"
  /\ wpc = "returned"
  /\ threadQuit
  /\ thread' = "finished"
  /\ workerAlive' = FALSE
  /\ UNCHANGED <<workerVars, mainPc, startVars, closeVars, reportVars,
                 threadQuit, finishedPosted, socketVars>>

-----------------------------------------------------------------------------
(* The GUI and the system.                                                 *)

\* A command reaches the socket.  The GUI answers what it was asked for, and
\* cannot submit credentials for a connection it has stopped.
GuiSends(cmd) ==
  /\ life = "alive"
  /\ apiOpen
  /\ cmd \notin guiSent
  /\ CASE cmd = "PASS" -> startPc # "boot" /\ "PASS" \in needs
       [] cmd = "CRED" -> startPc \in {"cred", "done"} /\ "CRED" \in needs
                          /\ "STOP" \notin guiSent
       [] OTHER -> TRUE
  /\ guiSent' = guiSent \union {cmd}
  /\ inbox' = Append(inbox, cmd)
  /\ ready' = TRUE
  /\ UNCHANGED <<workerVars, mainPc, startVars, closeVars, reportVars,
                 threadVars, apiOpen, discPosted>>

\* The GUI goes away, by itself or with all its connections stopped.
GuiCloses ==
  /\ life = "alive"
  /\ apiOpen
  /\ GuiQuits \/ "STOP" \notin guiSent
  /\ apiOpen' = FALSE
  /\ discPosted' = TRUE
  /\ UNCHANGED <<workerVars, mainPc, startVars, closeVars, reportVars,
                 threadVars, inbox, ready, guiSent>>

\* kill, killall or a session manager.
ExternalSigterm == Sigterm /\ UNCHANGED mainVars

Next ==
  \/ MainStep
  \/ ThreadWorks
  \/ InterfaceUp
  \/ DeleteWorker
  \/ ThreadFinishes
  \/ \E cmd \in Commands : GuiSends(cmd)
  \/ GuiCloses
  \/ ExternalSigterm

Spec == ProcessInit /\ [][Next]_vars

\* The main thread keeps running its event loop and its timers fire.  Nothing
\* is assumed of the worker, which may sit in a blocking call for ever, nor of
\* the GUI.
FairSpec ==
  /\ Spec
  /\ WF_vars(StartVPN)
  /\ WF_vars(PassWaitEnds)
  /\ WF_vars(CredWaitEnds)
  /\ WF_vars(ServerReadyRead)
  /\ WF_vars(ServerDisconnected)
  /\ WF_vars(WorkerFinished)
  /\ WF_vars(ShutdownTimeout)
  /\ WF_vars(JoinSucceeds \/ JoinTimesOut)
  /\ WF_vars(ObserverChecks)
  /\ WF_vars(ObserverReports \/ ObserverUsesFreedWorker)
  /\ WF_vars(MainReturns)

-----------------------------------------------------------------------------
(* Properties.                                                             *)

\* The process only leaves a pppd or the routes of a tunnel that was up behind
\* when the 20 s grace of closeProcess() ran out.  The other ways to exit, a
\* natural end, a stop or a lost GUI at any moment of startVPN() and process(),
\* clean up first, except for an on_ppp_if_up() that was cancelled half-way.
CleanExit ==
  life = "exited" /\ watchdog # "fired"
    => pppd = "none" /\ (netUp => netLeft)

\* The worker never connects without the answers startVPN() has to wait for,
\* whatever ended the nested event loop: answer, timeout or quit().
CredsBeforeConnect == thread # "none" => needs \subseteq received

\* While onObserverUpdate() reads a published tunnel its thread still runs:
\* no slot looks at the stack of a thread that was terminated.
TunnelReadsLive == mainPc = "deref" /\ ptrTunnel => thread = "running" /\ InProcess

\* Once closeProcess() ran the process ends, even if no call of the worker
\* ever returns.
ShutdownCompletes == shuttingDown ~> life # "alive"

\* A tunnel that stays in a state is reported to a GUI that listens.
ReportsConverge ==
  \A state \in {"CONNECTING", "UP"} :
    ptrTunnel /\ tstate = state
      ~> \/ reported = StatusOf(state)
         \/ ~(ptrTunnel /\ tstate = state /\ observing /\ apiOpen)
         \/ life # "alive"

\* The process is the worker of VpnWorker: whatever the main thread does, the
\* worker only ever sees steps it was checked and proved against.
ImplementsWorker == WorkerSpec

\* What the process looks like from the GUI.
Child == INSTANCE VpnChild WITH
  presence <- IF life = "alive" THEN "running" ELSE "ended",
  said <- IF reported = "NONE" THEN "none" ELSE reported

\* The process keeps the contract that VpnManager relies on: whatever the
\* observer's timer samples of the tunnel, the GUI is told in an order in which
\* "Disconnected" is the last word.
ImplementsChild == Child!ChildSpec
=============================================================================
