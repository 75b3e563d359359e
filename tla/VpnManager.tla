----------------------------- MODULE VpnManager -----------------------------
(***************************************************************************)
(* The GUI's side of the FortiGate connections: vpnManager and its         *)
(* vpnClientConnection objects (vpnmanager.cpp), the VPN processes they    *)
(* start and what the main window shows of them.  An attempt is one call   *)
(* of startVPN(): a vpnClientConnection, a QProcess and its child share    *)
(* its number.  The maps of the code are keyed by the NAME of the VPN, and *)
(* so are they here: what an event of one attempt does to another attempt  *)
(* of the same name is the point of this module.  Every slot of the GUI's  *)
(* main thread is one action.                                              *)
(***************************************************************************)
EXTENDS Integers, Sequences

CONSTANTS
  Names,        \* the VPN profiles
  MaxAttempts,  \* bound: calls of startVPN() that start a process
  MaxOutbox,    \* bound: status messages of a child not read yet
  Overlap,      \* a name may be started before all events of its previous
                \* attempt were handled
  Prints        \* the attempts whose process may print an error that the
                \* logger recognises

ASSUME ManagerAssumption ==
  /\ MaxAttempts \in Nat \ {0}
  /\ MaxOutbox \in Nat \ {0}
  /\ Overlap \in BOOLEAN
  /\ Prints \subseteq Nat

VARIABLES
  started,      \* the names of the attempts, in the order they were started
  child,        \* the process: "none", "boot", "online" (said HELO), "ended"
  result,       \* how it ended: "none", "ok", "failed" (exit code),
                \* "crash" (a signal), "nostart" (FailedToStart)
  due,          \* the QProcess signal on its way: "none", "error",
                \* "finished"; "done" when there is none any more
  link,         \* the child's socket: "none", "pending" (not accepted yet),
                \* "open", "dropped" (accepted, given to nobody), "closed"
  outbox,       \* status messages in the socket
  readable,     \* sockets with a readyRead() due
  said,         \* the last status the child sent
  told,         \* children to which ACTION_STOP was written
  output,       \* what the logger recognised: "none", "printed", "shown"
  connections,  \* vpnManager::connections, 0 where there is no entry
  status,       \* vpnClientConnection::status
  ever,         \* the connections with ever_connected
  socketOf,     \* vpnClientConnection::socket: whose child's socket, or 0
  wired,        \* the connection whose slots a socket's signals call, or 0
  explained,    \* reported_errors
  reports,      \* the 2 s timers of reportProcessFailure(), by the attempt
                \* whose entry was removed
  row,          \* the status column of the main window
  tray,         \* trayIconConnected
  gui,          \* "up", or "crashed" after a use of freed memory
  stopped,      \* history: attempts whose entry stopVPN() removed
  specific,     \* history: attempts the logger explained in a dialog
  generic       \* history: attempts reported by reportProcessFailure()

childVars   == <<child, result, due, link, said>>
socketVars  == <<outbox, readable, socketOf, wired>>
dialogVars  == <<output, explained, specific, generic>>
windowVars  == <<row, tray>>
managerVars == <<started, connections, status, ever, reports, stopped, told, gui>>
vars == <<childVars, socketVars, dialogVars, windowVars, managerVars>>

Attempts == 1 .. MaxAttempts
Started  == DOMAIN started
Statuses == {"DISCONNECTED", "CONNECTING", "CONNECTED"}

ManagerTypeOK ==
  /\ started \in Seq(Names) /\ Len(started) <= MaxAttempts
  /\ child \in [Attempts -> {"none", "boot", "online", "ended"}]
  /\ result \in [Attempts -> {"none", "ok", "failed", "crash", "nostart"}]
  /\ due \in [Attempts -> {"none", "error", "finished", "done"}]
  /\ link \in [Attempts -> {"none", "pending", "open", "dropped", "closed"}]
  /\ outbox \in [Attempts -> Seq(Statuses)]
  /\ readable \subseteq Attempts
  /\ said \in [Attempts -> Statuses \union {"none"}]
  /\ told \subseteq Attempts
  /\ output \in [Attempts -> {"none", "printed", "shown"}]
  /\ connections \in [Names -> Attempts \union {0}]
  /\ status \in [Attempts -> Statuses]
  /\ ever \subseteq Attempts
  /\ socketOf \in [Attempts -> Attempts \union {0}]
  /\ wired \in [Attempts -> Attempts \union {0}]
  /\ explained \subseteq Names
  /\ reports \subseteq Attempts
  /\ row \in [Names -> Statuses]
  /\ tray \in BOOLEAN
  /\ gui \in {"up", "crashed"}
  /\ stopped \subseteq Attempts
  /\ specific \subseteq Attempts
  /\ generic \subseteq Attempts

ManagerInit ==
  /\ started = <<>>
  /\ child = [a \in Attempts |-> "none"]
  /\ result = [a \in Attempts |-> "none"]
  /\ due = [a \in Attempts |-> "none"]
  /\ link = [a \in Attempts |-> "none"]
  /\ outbox = [a \in Attempts |-> <<>>]
  /\ readable = {}
  /\ said = [a \in Attempts |-> "none"]
  /\ told = {}
  /\ output = [a \in Attempts |-> "none"]
  /\ connections = [n \in Names |-> 0]
  /\ status = [a \in Attempts |-> "DISCONNECTED"]
  /\ ever = {}
  /\ socketOf = [a \in Attempts |-> 0]
  /\ wired = [a \in Attempts |-> 0]
  /\ explained = {}
  /\ reports = {}
  /\ row = [n \in Names |-> "DISCONNECTED"]
  /\ tray = FALSE
  /\ gui = "up"
  /\ stopped = {}
  /\ specific = {}
  /\ generic = {}

Live(a) == child[a] \in {"boot", "online"}

\* All that attempt a will ever cause in the event loop has happened.
Settled(a) ==
  /\ child[a] = "ended"
  /\ due[a] = "done"
  /\ link[a] \notin {"pending", "open"}
  /\ output[a] # "printed"

-----------------------------------------------------------------------------
(* What the user asks for, in the window or over the api socket.           *)

\* startVPN() past its early returns.  Without sudo waitForStarted() fails.
StartVPN(n) ==
  LET a == Len(started) + 1 IN
  /\ gui = "up"
  /\ connections[n] = 0
  /\ a \in Attempts
  /\ Overlap \/ \A b \in Started : started[b] = n => Settled(b)
  /\ explained' = explained \ {n}
  /\ started' = Append(started, n)
  /\ connections' = [connections EXCEPT ![n] = a]
  /\ \/ child' = [child EXCEPT ![a] = "boot"] /\ UNCHANGED <<result, due>>
     \/ /\ child' = [child EXCEPT ![a] = "ended"]
        /\ result' = [result EXCEPT ![a] = "nostart"]
        /\ due' = [due EXCEPT ![a] = "error"]
  /\ UNCHANGED <<link, said, socketVars, output, specific, generic, windowVars,
                 status, ever, reports, stopped, told, gui>>

\* sendCMD() of connection a reaches the process at the other end, if the
\* connection has a socket and that is open.
Reached(a) == {c \in Attempts : socketOf[a] = c /\ link[c] = "open"}

\* Mutant: the entry stays until the process has ended.
StopVPNKeepsEntry(n) ==
  /\ gui = "up"
  /\ connections[n] # 0
  /\ result[connections[n]] # "nostart"
  /\ told' = told \union Reached(connections[n])
  /\ stopped' = stopped \union {connections[n]}
  /\ UNCHANGED <<childVars, socketVars, dialogVars, windowVars, started,
                 connections, status, ever, reports, gui>>

\* Mutant: the entry goes first, and sendCMD() looks it up.
StopVPNForgetsFirst(n) ==
  /\ gui = "up"
  /\ connections[n] # 0
  /\ result[connections[n]] # "nostart"
  /\ stopped' = stopped \union {connections[n]}
  /\ connections' = [connections EXCEPT ![n] = 0]
  /\ UNCHANGED <<childVars, socketVars, dialogVars, windowVars, started, status,
                 ever, reports, told, gui>>

\* stopVPN(): ACTION_STOP if there is a socket; the entry goes in any case.
\* FailedToStart was posted by startVPN() itself and comes before the user.
StopVPN(n) ==
  /\ gui = "up"
  /\ connections[n] # 0
  /\ result[connections[n]] # "nostart"
  /\ told' = told \union Reached(connections[n])
  /\ stopped' = stopped \union {connections[n]}
  /\ connections' = [connections EXCEPT ![n] = 0]
  /\ UNCHANGED <<childVars, socketVars, dialogVars, windowVars, started, status,
                 ever, reports, gui>>

-----------------------------------------------------------------------------
(* The VPN processes, see VpnProcess.                                      *)

\* setup() connects to the api socket and says HELO with the VPN's name.
ChildConnects(a) ==
  /\ child[a] = "boot"
  /\ child' = [child EXCEPT ![a] = "online"]
  /\ link' = [link EXCEPT ![a] = "pending"]
  /\ UNCHANGED <<result, due, said, socketVars, dialogVars, windowVars,
                 managerVars>>

\* What is relied on about the process of attempt a.
Child(a) == INSTANCE VpnChild WITH
  presence <- CASE child[a] = "online" -> "running"
                [] child[a] = "ended" -> "ended"
                [] OTHER -> "absent",
  said <- said[a]

\* onVPNStatusChanged() of the child.
ChildReports(a) ==
  /\ child[a] = "online"
  /\ link[a] \in {"pending", "open"}
  /\ Len(outbox[a]) < MaxOutbox
  /\ \E m \in Child(a)!NextStatus(said[a]) :
       /\ said' = [said EXCEPT ![a] = m]
       /\ outbox' = [outbox EXCEPT ![a] = Append(@, m)]
  /\ readable' = IF link[a] = "open" THEN readable \union {a} ELSE readable
  /\ UNCHANGED <<child, result, due, link, socketOf, wired, dialogVars,
                 windowVars, managerVars>>

\* The process prints an error that processOutput() recognises.
ChildPrints(a) ==
  /\ a \in Prints
  /\ Live(a)
  /\ output[a] = "none"
  /\ output' = [output EXCEPT ![a] = "printed"]
  /\ UNCHANGED <<childVars, socketVars, explained, specific, generic, windowVars,
                 managerVars>>

\* The process ends, and with it its end of the socket.  sudo refuses before
\* the program runs.
ChildEnds(a, r) ==
  /\ Live(a)
  /\ r = "failed" => child[a] = "boot"
  /\ child' = [child EXCEPT ![a] = "ended"]
  /\ result' = [result EXCEPT ![a] = r]
  /\ due' = [due EXCEPT ![a] = IF r = "crash" THEN "error" ELSE "finished"]
  /\ UNCHANGED <<link, said, socketVars, dialogVars, windowVars, managerVars>>

-----------------------------------------------------------------------------
(* The slots of the GUI's main thread.                                     *)

NameOf(a) == started[a]

SomeClientConnected ==
  \E n \in Names : connections[n] # 0 /\ status[connections[n]] = "CONNECTED"

\* onClientVPNStatusChanged() and updateTrayIcon() of the main window.
ShowStatus(n, m) ==
  /\ row' = [row EXCEPT ![n] = m]
  /\ tray' = SomeClientConnected'

\* Mutant: the window hears of it before entry and status have changed.
StatusChangedEmitsFirst(n, m) ==
  LET entry == connections[n] IN
  /\ ever' = IF m = "CONNECTED" /\ entry # 0 THEN ever \union {entry} ELSE ever
  /\ connections' = [connections EXCEPT ![n] = IF m = "DISCONNECTED" THEN 0 ELSE @]
  /\ reports' = IF m = "DISCONNECTED" /\ entry # 0 /\ entry \notin ever
                THEN reports \union {entry} ELSE reports
  /\ row' = [row EXCEPT ![n] = m]
  /\ tray' = SomeClientConnected

\* Mutant: every status but CONNECTED ends the connection.
StatusChangedEager(n, m) ==
  LET entry == connections[n] IN
  /\ ever' = IF m = "CONNECTED" /\ entry # 0 THEN ever \union {entry} ELSE ever
  /\ connections' = [connections EXCEPT ![n] = IF m # "CONNECTED" THEN 0 ELSE @]
  /\ reports' = IF m = "DISCONNECTED" /\ entry # 0 /\ entry \notin ever
                THEN reports \union {entry} ELSE reports
  /\ ShowStatus(n, m)

\* onClientVPNStatusChanged() of vpnManager, for whatever connection has the
\* name now; the main window hears of it last.
StatusChanged(n, m) ==
  LET entry == connections[n] IN
  /\ ever' = IF m = "CONNECTED" /\ entry # 0 THEN ever \union {entry} ELSE ever
  /\ connections' = [connections EXCEPT ![n] = IF m = "DISCONNECTED" THEN 0 ELSE @]
  /\ reports' = IF m = "DISCONNECTED" /\ entry # 0 /\ entry \notin ever
                THEN reports \union {entry} ELSE reports
  /\ ShowStatus(n, m)

\* onClientConnected() and setSocket(): HELO names the VPN, not the attempt.
\* Messages that came together with it wait for the next readyRead().
Accept(c) ==
  LET entry == connections[NameOf(c)] IN
  /\ gui = "up"
  /\ link[c] = "pending"
  /\ IF entry # 0
     THEN /\ socketOf' = [socketOf EXCEPT ![entry] = c]
          /\ wired' = [wired EXCEPT ![c] = entry]
          /\ link' = [link EXCEPT ![c] = "open"]
     ELSE /\ link' = [link EXCEPT ![c] = "dropped"]
          /\ UNCHANGED <<socketOf, wired>>
  /\ UNCHANGED <<child, result, due, said, outbox, readable, dialogVars,
                 windowVars, managerVars>>

\* onClientReadyRead(): one message, from the socket the connection has now.
\* That one may have been deleted by onClientDisconnected().
ReadyRead(c) ==
  LET a == wired[c]
      s == socketOf[a]
  IN
  /\ gui = "up"
  /\ link[c] = "open"
  /\ c \in readable
  /\ readable' = readable \ {c}
  /\ \/ /\ link[s] = "closed"
        /\ gui' \in {"up", "crashed"}
        /\ UNCHANGED <<outbox, status, ever, connections, reports, windowVars>>
     \/ /\ link[s] # "closed"
        /\ outbox[s] = <<>>
        /\ UNCHANGED <<outbox, status, ever, connections, reports, windowVars, gui>>
     \/ /\ link[s] # "closed"
        /\ outbox[s] # <<>>
        /\ outbox' = [outbox EXCEPT ![s] = Tail(@)]
        /\ status' = [status EXCEPT ![a] = Head(outbox[s])]
        /\ StatusChanged(NameOf(a), Head(outbox[s]))
        /\ UNCHANGED gui
  /\ UNCHANGED <<childVars, socketOf, wired, dialogVars, started, stopped, told>>

\* onClientDisconnected() of the connection, which deletes the socket it has
\* now, with what was not read.  readyRead() comes before it.
Disconnected(c) ==
  LET a == wired[c]
      s == socketOf[a]
  IN
  /\ gui = "up"
  /\ link[c] = "open"
  /\ child[c] = "ended"
  /\ c \notin readable
  /\ status' = [status EXCEPT ![a] = "DISCONNECTED"]
  /\ StatusChanged(NameOf(a), "DISCONNECTED")
  /\ gui' \in IF link[s] = "closed" THEN {"up", "crashed"} ELSE {"up"}
  /\ link' = [link EXCEPT ![c] = "closed", ![s] = "closed"]
  /\ outbox' = [outbox EXCEPT ![c] = <<>>]
  /\ UNCHANGED <<child, result, due, said, readable, socketOf, wired, dialogVars,
                 started, stopped, told>>

\* The handlers of QProcess signals find the entry by name and remove it.
ProcessHandler(a, reporting) ==
  LET n == NameOf(a)
      entry == connections[n]
  IN
  /\ gui = "up"
  /\ connections' = [connections EXCEPT ![n] = 0]
  /\ reports' = IF entry # 0 /\ reporting THEN reports \union {entry} ELSE reports
  /\ UNCHANGED <<child, result, link, said, socketVars, dialogVars, windowVars,
                 started, status, ever, stopped, told, gui>>

\* Mutant: exit code 0 is never reported.
ProcessFinishedZeroIsFine(a) ==
  /\ due[a] = "finished"
  /\ due' = [due EXCEPT ![a] = "done"]
  /\ ProcessHandler(a, result[a] = "failed")

\* onVPNProcessFinished(): an exit code, or an attempt that never connected.
ProcessFinished(a) ==
  /\ due[a] = "finished"
  /\ due' = [due EXCEPT ![a] = "done"]
  /\ ProcessHandler(a, \/ result[a] = "failed"
                       \/ result[a] = "ok" /\ connections[NameOf(a)] \notin ever)

\* Mutant: FailedToStart is left to finished(), which never comes.
ProcessErrorLeavesEntry(a) ==
  /\ due[a] = "error"
  /\ due' = [due EXCEPT ![a] = IF result[a] = "crash" THEN "finished" ELSE "done"]
  /\ \/ result[a] = "crash" /\ ProcessHandler(a, TRUE)
     \/ /\ result[a] # "crash"
        /\ UNCHANGED <<child, result, link, said, socketVars, dialogVars,
                       windowVars, managerVars>>

\* onVPNProcessErrorOccurred(); finished() follows a crash only.
ProcessError(a) ==
  /\ due[a] = "error"
  /\ due' = [due EXCEPT ![a] = IF result[a] = "crash" THEN "finished" ELSE "done"]
  /\ ProcessHandler(a, TRUE)

\* The timer of reportProcessFailure().  Two seconds are taken to be longer
\* than the logger needs to recognise what the process printed last.
ReportTimer(a) ==
  /\ gui = "up"
  /\ a \in reports
  /\ output[a] # "printed"
  /\ reports' = reports \ {a}
  /\ generic' = IF NameOf(a) \in explained \/ connections[NameOf(a)] # 0
                THEN generic ELSE generic \union {a}
  /\ UNCHANGED <<childVars, socketVars, output, explained, specific, windowVars,
                 started, connections, status, ever, stopped, told, gui>>

\* VPNMessage() of the logger arrives in onClientVPNMessage().
SpecificMessage(a) ==
  /\ gui = "up"
  /\ output[a] = "printed"
  /\ output' = [output EXCEPT ![a] = "shown"]
  /\ explained' = explained \union {NameOf(a)}
  /\ specific' = specific \union {a}
  /\ UNCHANGED <<childVars, socketVars, generic, windowVars, managerVars>>

\* refreshVpnProfileList(), whenever a directory has changed or the user
\* searches: the rows and the tray icon anew, from the entries.
RefreshList ==
  /\ gui = "up"
  /\ row' = [n \in Names |-> IF connections[n] = 0 THEN "DISCONNECTED"
                             ELSE status[connections[n]]]
  /\ tray' = SomeClientConnected
  /\ UNCHANGED <<childVars, socketVars, dialogVars, managerVars>>

ChildStep(a) ==
  \/ ChildConnects(a)
  \/ ChildReports(a)
  \/ ChildPrints(a)
  \/ \E r \in {"ok", "failed", "crash"} : ChildEnds(a, r)

GuiSlot(a) ==
  \/ Accept(a)
  \/ ReadyRead(a)
  \/ Disconnected(a)
  \/ ProcessFinished(a)
  \/ ProcessError(a)
  \/ SpecificMessage(a)

Next ==
  \/ \E n \in Names : StartVPN(n) \/ StopVPN(n)
  \/ RefreshList
  \/ \E a \in Attempts : ChildStep(a) \/ GuiSlot(a) \/ ReportTimer(a)

Spec == ManagerInit /\ [][Next]_vars

-----------------------------------------------------------------------------
(* Properties.                                                             *)

\* A failure report is never about an attempt the user stopped, nor about a
\* process that still works, nor about one that had connected and ended well:
\* reportProcessFailure() is only reached for an entry that failed.
NoFalseReport ==
  \A a \in reports \union generic :
    /\ a \notin stopped
    /\ child[a] = "ended" \/ said[a] = "DISCONNECTED"
    /\ a \in ever => result[a] \in {"failed", "crash"}

\* As long as a process runs that the user did not stop and that has not said
\* good-bye, the GUI can stop it: connections has its entry.
LiveIsManaged ==
  \A a \in Started :
    Live(a) /\ a \notin stopped /\ said[a] # "DISCONNECTED"
      => connections[NameOf(a)] = a

\* A stop reaches the process it is meant for and no other: whoever was told
\* to stop lost its entry to stopVPN(), and of those it is only a process that
\* had not said HELO yet that was not told.
StopReachesProcess ==
  /\ told \subseteq stopped
  /\ \A a \in stopped : link[a] = "open" => a \in told

\* With no process left and every event handled the window says so: all rows
\* are "Disconnected" and the tray icon shows no connection.
QuietWindow ==
  (\A a \in Started : Settled(a))
    => ~tray /\ \A n \in Names : row[n] = "DISCONNECTED"

\* A later attempt of the same name, which reports for itself.
StartedAgain(a) == \E b \in Started : b > a /\ NameOf(b) = NameOf(a)

\* Nothing about attempt a is under way any more, its report included.
Over(a) == Settled(a) /\ a \notin reports

\* An attempt that ends without ever being connected ends in a dialog, the
\* logger's or the generic one, unless the user stopped it or started the VPN
\* again.
NoSilentFailure ==
  \A a \in Started :
    Over(a) => \/ a \in ever \union specific \union generic
               \/ a \in stopped
               \/ StartedAgain(a)

\* The entry of a process that has ended does not stay in the map, where it
\* would block the next startVPN().
DeadLeavesMap ==
  \A a \in Started : Settled(a) => connections[NameOf(a)] # a
=============================================================================
