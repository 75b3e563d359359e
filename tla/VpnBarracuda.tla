----------------------------- MODULE VpnBarracuda -----------------------------
(***************************************************************************)
(* The Barracuda connections of the GUI (proc/vpnbarracuda.cpp and the     *)
(* Barracuda branches of vpnmanager.cpp).  There is no process of this     *)
(* program behind them: the GUI runs the vendor's barracudavpn with        *)
(* --start, --status and --stop, and what those talk to is ONE client of   *)
(* the machine, started with the ONE configuration file every start        *)
(* writes.  An attempt is one vpnBarracuda with its vpnClientConnection.   *)
(* The dialog that asks for a token runs a nested event loop, in which     *)
(* everything else goes on.                                                *)
(***************************************************************************)
EXTENDS Integers, Sequences, SequencesExt

CONSTANTS
  Names,        \* the Barracuda profiles, with user name and password
  OtpNames,     \* those with always_ask_otp
  MaxAttempts   \* bound: starts that get past the early returns

ASSUME BarracudaAssumption ==
  /\ OtpNames \subseteq Names
  /\ "" \notin Names          \* the editor refuses an empty name
  /\ MaxAttempts \in Nat \ {0}

VARIABLES
  asking,       \* startVPN() calls in a token dialog, the innermost last
  started,      \* the names of the attempts, in the order of vpn->start()
  connections,  \* vpnManager::connections, 0 where there is no entry
  status,       \* vpnClientConnection::status
  ever,         \* the connections with ever_connected
  starter,      \* barracudavpn --start: "none", "missing" (not installed),
                \* "running", "failed" or "ended" (finished() due), "done"
  polling,      \* attempts with a running statsupdater
  row,          \* the status column of the main window
  reported,     \* attempts with a report of reportProcessFailure()
  conf,         \* whose gateway is in barracudavpn.conf
  client,       \* the vendor's client: "down", "up", "away" (reconnecting)
  serves,       \* whose gateway the client is connected to
  gui,          \* "up" or "gone"
  wasUp,        \* history: attempts that were CONNECTED
  stopped,      \* history: attempts whose entry stopVPN() removed
  holes         \* history: what has happened that the code does not guard
                \* against, see Holes

managerVars == <<connections, ever, reported, row>>
attemptVars == <<started, status, starter, polling, wasUp>>
clientVars  == <<conf, client, serves>>
vars == <<asking, managerVars, attemptVars, clientVars, gui, stopped, holes>>

Attempts == 1 .. MaxAttempts
Started  == DOMAIN started
Statuses == {"DISCONNECTED", "CONNECTING", "CONNECTED"}
StarterStates == {"none", "missing", "running", "failed", "ended", "done"}

\* "raced": started while another attempt was CONNECTING; "late": another was
\* CONNECTED by the time the token was given; "twice": a name was started by
\* two calls, both past the check for its entry; "away": a poll came while the
\* client was reconnecting; "quit": the GUI ended while an attempt was
\* CONNECTING.
Holes == {"raced", "late", "twice", "away", "quit"}

BarracudaTypeOK ==
  /\ asking \in Seq(OtpNames)
  /\ started \in Seq(Names) /\ Len(started) + Len(asking) <= MaxAttempts
  /\ connections \in [Names -> 0 .. Len(started)]
  /\ status \in [Attempts -> Statuses]
  /\ ever \subseteq Started
  /\ starter \in [Attempts -> StarterStates]
  /\ polling \subseteq Started
  /\ \A a \in polling : starter[a] = "done"
  /\ row \in [Names -> Statuses]
  /\ reported \subseteq Started
  /\ conf \in Names \union {""}
  /\ client \in {"down", "up", "away"}
  /\ serves \in Names \union {""}
  /\ client = "down" <=> serves = ""
  /\ gui \in {"up", "gone"}
  /\ wasUp \subseteq Started
  /\ stopped \subseteq Started
  /\ holes \subseteq Holes

BarracudaInit ==
  /\ asking = <<>>
  /\ started = <<>>
  /\ connections = [n \in Names |-> 0]
  /\ status = [a \in Attempts |-> "DISCONNECTED"]
  /\ ever = {}
  /\ starter = [a \in Attempts |-> "none"]
  /\ polling = {}
  /\ row = [n \in Names |-> "DISCONNECTED"]
  /\ reported = {}
  /\ conf = ""
  /\ client = "down"
  /\ serves = ""
  /\ gui = "up"
  /\ wasUp = {}
  /\ stopped = {}
  /\ holes = {}

NameOf(a) == started[a]

-----------------------------------------------------------------------------
(* What vpnManager does when an attempt emits VPNStatusChanged().          *)

\* Mutant: ever_connected is not kept.
StatusChangedForgets(n, m) ==
  LET entry == connections[n] IN
  /\ ever' = ever
  /\ connections' = IF m = "DISCONNECTED" THEN [connections EXCEPT ![n] = 0]
                    ELSE connections
  /\ reported' = IF m = "DISCONNECTED" /\ entry # 0 /\ entry \notin ever
                 THEN reported \union {entry} ELSE reported
  /\ row' = [row EXCEPT ![n] = m]

\* onClientVPNStatusChanged(), directly connected; the entry is found by name.
StatusChanged(n, m) ==
  LET entry == connections[n] IN
  /\ ever' = IF m = "CONNECTED" /\ entry # 0 THEN ever \union {entry} ELSE ever
  /\ connections' = IF m = "DISCONNECTED" THEN [connections EXCEPT ![n] = 0]
                    ELSE connections
  /\ reported' = IF m = "DISCONNECTED" /\ entry # 0 /\ entry \notin ever
                 THEN reported \union {entry} ELSE reported
  /\ row' = [row EXCEPT ![n] = m]

-----------------------------------------------------------------------------
(* What the user asks for, in the window or over the api socket.           *)

\* Mutant: nobody asks whether another Barracuda VPN is connected.
MayStartBesides(n) ==
  /\ gui = "up"
  /\ connections[n] = 0
  /\ Len(started) + Len(asking) < MaxAttempts

\* isSomeBarracudaConnected()
SomeBarracudaConnected ==
  \E n \in Names : connections[n] # 0 /\ status[connections[n]] = "CONNECTED"

\* The early returns of startVPN(), which come before the token dialog.
MayStart(n) ==
  /\ gui = "up"
  /\ connections[n] = 0
  /\ ~SomeBarracudaConnected
  /\ Len(started) + Len(asking) < MaxAttempts

\* Mutant: the timer that polls is started together with --start.
LaunchPolls(n, hole) ==
  LET a == Len(started) + 1
      entry == connections[n]
  IN
  /\ started' = Append(started, n)
  /\ connections' = [connections EXCEPT ![n] = a]
  /\ holes' = holes \union hole
       \union (IF \E b \in Started : status[b] = "CONNECTING" THEN {"raced"} ELSE {})
       \union (IF entry # 0 \/ n \in ToSet(asking') THEN {"twice"} ELSE {})
  /\ polling' = polling \union {a}
  /\ \/ /\ conf' = n
        /\ row' = [row EXCEPT ![n] = "CONNECTING"]
        /\ status' = [status EXCEPT ![a] = "CONNECTING"]
        /\ \E s \in {"running", "missing"} : starter' = [starter EXCEPT ![a] = s]
     \/ UNCHANGED <<conf, row, status, starter>>
  /\ UNCHANGED <<ever, reported, client, serves, gui, wasUp, stopped>>

\* The rest of startVPN() and vpnBarracuda::start().  The window hears of it
\* before the entry is in the map.  Without a configuration file start()
\* returns, and the entry is made all the same.
Launch(n, hole) ==
  LET a == Len(started) + 1
      entry == connections[n]
  IN
  /\ started' = Append(started, n)
  /\ connections' = [connections EXCEPT ![n] = a]
  /\ holes' = holes \union hole
       \union (IF \E b \in Started : status[b] = "CONNECTING" THEN {"raced"} ELSE {})
       \union (IF entry # 0 \/ n \in ToSet(asking') THEN {"twice"} ELSE {})
  /\ \/ /\ conf' = n
        /\ row' = [row EXCEPT ![n] = "CONNECTING"]
        /\ status' = [status EXCEPT ![a] = "CONNECTING"]
        /\ \E s \in {"running", "missing"} : starter' = [starter EXCEPT ![a] = s]
     \/ UNCHANGED <<conf, row, status, starter>>
  /\ UNCHANGED <<ever, polling, reported, client, serves, gui, wasUp, stopped>>

StartVPN(n) ==
  /\ n \notin OtpNames
  /\ MayStart(n)
  /\ asking' = asking
  /\ Launch(n, {})

AskOtp(n) ==
  /\ n \in OtpNames
  /\ MayStart(n)
  /\ asking' = Append(asking, n)
  /\ UNCHANGED <<managerVars, attemptVars, clientVars, gui, stopped, holes>>

\* The innermost dialog is closed: with a token or not, startVPN() goes on,
\* and looks at nothing again.
AnswerOtp ==
  /\ gui = "up"
  /\ asking # <<>>
  /\ asking' = Front(asking)
  /\ Launch(Last(asking), IF SomeBarracudaConnected THEN {"late"} ELSE {})

\* stopVPN() with vpnClientConnection::stop() and vpnBarracuda::stop():
\* --stop, then DISCONNECTED, which finds the entry, then the entry goes.
Disconnect(n) ==
  LET a == connections[n] IN
  /\ client' = "down"
  /\ serves' = ""
  /\ polling' = polling \ {a}
  /\ StatusChanged(n, "DISCONNECTED")
  /\ status' = [status EXCEPT ![a] = "DISCONNECTED"]
  /\ stopped' = stopped \union {a}
  /\ UNCHANGED <<asking, started, starter, conf, gui, wasUp, holes>>

\* Mutant: a VPN may be stopped while it is connecting.
StopVPNAnyTime(n) ==
  /\ gui = "up"
  /\ connections[n] # 0
  /\ Disconnect(n)

StopVPN(n) ==
  /\ gui = "up"
  /\ connections[n] # 0
  /\ status[connections[n]] # "CONNECTING"
  /\ Disconnect(n)

\* ~vpnManager() stops what is not DISCONNECTED, if stopVPN() is willing to.
\* Nothing is left of the GUI; the client and a running --start are.
Quit ==
  LET entries == {connections[n] : n \in Names} \ {0} IN
  /\ gui = "up"
  /\ asking = <<>>
  /\ gui' = "gone"
  /\ IF \E a \in entries : status[a] = "CONNECTED"
     THEN client' = "down" /\ serves' = ""
     ELSE UNCHANGED <<client, serves>>
  /\ connections' = [n \in Names |-> 0]
  /\ polling' = {}
  /\ stopped' = stopped \union entries
  /\ holes' = IF \E a \in entries : status[a] = "CONNECTING"
              THEN holes \union {"quit"} ELSE holes
  /\ UNCHANGED <<asking, ever, reported, row, started, status, starter, wasUp, conf>>

-----------------------------------------------------------------------------
(* The vendor's client.                                                    *)

\* barracudavpn --start reads the configuration there is by now and ends when
\* the tunnel is up or it has given up.  A client that runs already is left
\* as it is.
StarterEnds(a) ==
  /\ starter[a] = "running"
  /\ \E s \in {"failed", "ended"} : starter' = [starter EXCEPT ![a] = s]
  /\ \/ /\ starter'[a] = "ended"
        /\ client = "down"
        /\ client' = "up"
        /\ serves' = conf
     \/ UNCHANGED <<client, serves>>
  /\ UNCHANGED <<asking, managerVars, started, status, polling, wasUp, conf, gui,
                 stopped, holes>>

\* The tunnel breaks; the client tries again for a while (MAXRECONNECT).
ClientBreaks ==
  /\ client = "up"
  /\ client' = "away"
  /\ UNCHANGED <<asking, managerVars, attemptVars, conf, serves, gui, stopped, holes>>

ClientReturns ==
  /\ client = "away"
  /\ client' = "up"
  /\ UNCHANGED <<asking, managerVars, attemptVars, conf, serves, gui, stopped, holes>>

ClientGivesUp ==
  /\ client = "away"
  /\ client' = "down"
  /\ serves' = ""
  /\ UNCHANGED <<asking, managerVars, attemptVars, conf, gui, stopped, holes>>

-----------------------------------------------------------------------------
(* The slots of vpnBarracuda.                                              *)

\* The lambda on finished(): "failed" in what the logger has left of the
\* output, or else the first poll decides.
StarterFinished(a) ==
  /\ gui = "up"
  /\ starter[a] \in {"failed", "ended"}
  /\ starter' = [starter EXCEPT ![a] = "done"]
  /\ \/ /\ starter[a] = "failed"
        /\ StatusChanged(NameOf(a), "DISCONNECTED")
        /\ status' = [status EXCEPT ![a] = "DISCONNECTED"]
        /\ UNCHANGED polling
     \/ /\ polling' = polling \union {a}
        /\ UNCHANGED <<managerVars, status>>
  /\ UNCHANGED <<asking, started, wasUp, clientVars, gui, stopped, holes>>

\* The branch of statusCheck() that finds the client connected.
PollUp(a) ==
  /\ client = "up"
  /\ IF status[a] = "CONNECTED" THEN UNCHANGED managerVars
     ELSE StatusChanged(NameOf(a), "CONNECTED")
  /\ status' = [status EXCEPT ![a] = "CONNECTED"]
  /\ wasUp' = wasUp \union {a}
  /\ UNCHANGED <<polling, holes>>

\* Mutant: a tunnel that is lost later is not noticed.
StatusCheckOnce(a) ==
  /\ gui = "up"
  /\ a \in polling
  /\ \/ PollUp(a)
     \/ /\ client # "up"
        /\ status[a] # "CONNECTED"
        /\ StatusChanged(NameOf(a), "DISCONNECTED")
        /\ status' = [status EXCEPT ![a] = "DISCONNECTED"]
        /\ polling' = polling \ {a}
        /\ holes' = IF client = "away" THEN holes \union {"away"} ELSE holes
        /\ UNCHANGED wasUp
  /\ UNCHANGED <<asking, started, starter, clientVars, gui, stopped>>

\* statusCheck(): anything but a connected client ends the attempt.
StatusCheck(a) ==
  /\ gui = "up"
  /\ a \in polling
  /\ \/ PollUp(a)
     \/ /\ client # "up"
        /\ StatusChanged(NameOf(a), "DISCONNECTED")
        /\ status' = [status EXCEPT ![a] = "DISCONNECTED"]
        /\ polling' = polling \ {a}
        /\ holes' = IF client = "away" THEN holes \union {"away"} ELSE holes
        /\ UNCHANGED wasUp
  /\ UNCHANGED <<asking, started, starter, clientVars, gui, stopped>>

\* refreshVpnProfileList() makes the rows anew, from the entries.
RefreshList ==
  /\ gui = "up"
  /\ row' = [n \in Names |-> IF connections[n] = 0 THEN "DISCONNECTED"
                             ELSE status[connections[n]]]
  /\ UNCHANGED <<asking, connections, ever, reported, attemptVars, clientVars, gui,
                 stopped, holes>>

ClientStep == ClientBreaks \/ ClientReturns \/ ClientGivesUp

Next ==
  \/ \E n \in Names : StartVPN(n) \/ AskOtp(n) \/ StopVPN(n)
  \/ AnswerOtp
  \/ Quit
  \/ RefreshList
  \/ ClientStep
  \/ \E a \in Started : StarterEnds(a) \/ StarterFinished(a) \/ StatusCheck(a)

Spec == BarracudaInit /\ [][Next]_vars

\* Timers and slots of the GUI get their turn; --start ends by itself.
FairSpec ==
  /\ Spec
  /\ \A a \in Attempts :
       /\ WF_vars(a \in Started /\ StarterEnds(a))
       /\ WF_vars(a \in Started /\ StarterFinished(a))
       /\ WF_vars(a \in Started /\ StatusCheck(a))

-----------------------------------------------------------------------------
(* Properties.                                                             *)

\* A client that the GUI has brought up can be taken down from the GUI: some
\* entry in the map watches it, or is about to.  stopVPN(), the refusal to stop
\* while CONNECTING and statusCheck() see to that.
TunnelIsManaged ==
  holes \intersect {"twice", "away", "quit"} = {} /\ client # "down"
    => \E n \in Names :
         /\ connections[n] # 0
         /\ connections[n] \in polling \/ starter[connections[n]] = "ended"

\* The row that says "Connected" names the gateway the client is connected to:
\* one start at a time writes barracudavpn.conf and has it read.
RowTellsGateway ==
  holes = {} /\ gui = "up" /\ client # "down"
    => \A n \in Names : row[n] = "CONNECTED" => serves = n

\* When an attempt that ran is over, it was connected, or the user stopped it,
\* or it was reported as failed; and never reported after it was connected.
EndIsExplained ==
  "twice" \notin holes =>
    \A a \in Started :
      starter[a] = "done" /\ a \notin polling /\ gui = "up"
        => (a \in reported <=> a \notin wasUp)

\* With the client down for good no row stays "Connected": each attempt that
\* was connected polls until it finds out.
WindowFollows ==
  client = "down"
    ~> \/ client # "down"
       \/ gui = "gone"
       \/ \A n \in Names : row[n] # "CONNECTED"
=============================================================================
