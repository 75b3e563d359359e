# openfortiGUI in TLA+

A model of openfortiGUI: the VPN connections (the GUI that starts, watches and
stops them, and the root process behind each of them), the logger that reads
what the processes print, the Barracuda backend, the profile store with its
key, and the lists of the main window. The modules are translated from the C++
sources under `src/`; `PROJECT.json` maps every definition to its lines.

## The system

| part | source | state | what it does, and with whom |
|---|---|---|---|
| VPN worker thread | `proc/vpnworker.cpp` | the tunnel (a stack variable of `process()`), `ptr_tunnel`, stop flag and signal handler, pppd, routes | connects, runs pppd and `io_loop()`, tears down; told to stop by a flag and a SIGTERM, read by the main thread through a pointer under a mutex |
| VPN process, main thread | `proc/vpnprocess.cpp`, `main.cpp` | `shutting_down`, the thread, timers, api socket, last reported state | asks the GUI for secrets in nested event loops, starts the worker, reports its state every 500 ms, shuts down on stop, lost socket or end of the worker |
| Connection manager | `vpnmanager.cpp` | `connections` by name, `reported_errors`, one socket, `QProcess` and status per connection | starts the process with sudo, accepts its socket, sends ACTION_STOP, removes and reports connections on socket and process events |
| Main window | `mainwindow.cpp` | rows, tray icon, profile lists, watcher, restart timer | shows the manager's signals, calls `startVPN()` and `stopVPN()`, follows the profile directories |
| Process logger | `vpnlogger.cpp` | per name: process, log file, buffered output, certificate and SAML state | runs in its own thread on queued calls, recognises errors and prompts in the output |
| Barracuda backend | `proc/vpnbarracuda.cpp` | status timer, shared configuration file | drives an external client that allows one connection |
| Profile store | `ticonfmain.cpp`, `vpnprofile.cpp`, `vpnsetting.cpp`, `vpnhelper.cpp`, `vpnprofileeditor.cpp` | profile and group files, AES key in the configuration or the keyring | saves, reads, copies and renames profiles with encrypted secrets |
| Dialogs, KRunner plugin, packaging | | none of their own | forms and clients of the above |

What is hard here is concurrency inside one process (two threads, signals,
nested event loops, a watchdog that terminates a thread), messages that
coalesce or arrive after their sender is gone, the same name standing for two
attempts, a keyring that locks while a form is open, and shutdown from any
state. For each part the properties that make it correct are:

* worker: whatever ends the tunnel, pppd and the routes go; a stop wins over
  every retry; nobody reads a tunnel that is gone;
* process: it ends once it is asked to; nothing is left behind; nothing starts
  without the secrets it asked for; the GUI learns the state, in an order that
  makes sense;
* manager: a running VPN can be stopped, a stop reaches its process and no
  other, a dead one leaves the map, a failure is reported truly, the
  window comes to rest;
* logger: what a process printed is matched for the right attempt, however it
  is cut into pieces, and goes with the process;
* Barracuda: the one client can be taken down again, and the window says whose
  gateway it talks to;
* profile store: a stored secret is not lost, nor encrypted with a lost key;
* lists: they follow the directories, and refreshing does not feed itself.

## Modules

| module | models |
|---|---|
| `VpnWorker` | the worker thread. A blocking call of openfortivpn is a program point of `wpc`; the action that leaves it is the return of the call with the checks made before the next one. Three dispositions of SIGTERM: default, `worker_stop_handler`, the handler `io_loop()` installs and leaves behind |
| `VpnProcess` | the process: `VpnWorker` beside the main thread's slots, the GUI at the other end of the socket, and the system. A main thread action is one slot, run to its return or to its next blocking wait; `mainPc` is where it blocks (`join`) or can be overtaken (`deref`) |
| `VpnChild` | the contract between process and GUI: a process appears, says in which state its tunnel is, and ends |
| `VpnManager` | the GUI's main thread for FortiGate connections: `vpnManager`, `vpnClientConnection`, the status column and tray icon, over the events of several processes. An attempt is one `startVPN()`; the maps are keyed by name as in the code |
| `VpnBarracuda` | the same part of the GUI for Barracuda connections, with `vpnBarracuda`, the vendor's client and its configuration file |
| `VpnLogger` | the logger thread, the queued calls of the main thread and the output of the processes |
| `ProfileStore` | profile files, `main.conf` in memory and on disk, the keyring, the editor, the settings and the certificate question |
| `ProfileWatcher` | directories, Qt's watcher, the 300 ms timer and the lists |
| `VpnWorkerProofs`, `VpnProcessProofs`, `VpnContractProofs`, `VpnManagerProofs`, `ProfileWatcherProofs`, `VpnBarracudaProofs`, `ProfileStoreProofs`, `VpnLoggerProofs` | what is proved |
| `MC...` | the bounds for TLC |

How they hang together:

* `VpnWorker` is also the abstract specification of the process: `VpnProcess`
  EXTENDS it, and `ImplementsWorker` says that whatever the main thread does
  (start it, stop it by flag or signal, call `end()`, exit) the worker only
  takes steps of `WorkerSpec`.
* `VpnChild` stands between `VpnProcess` and `VpnManager`. `ImplementsChild` is
  the refinement: the life of the process and the last status it wrote, seen
  through `presence` and `said`. The children of `VpnManager` use the same
  `NextStatus`, so what it assumes of a process is what the process keeps.
  That a child that was told to stop does end is `ShutdownCompletes`.
* `VpnManager` knows of the logger that an error it recognises arrives as a
  message; `VpnLogger` says for which attempt, and when not.
* `VpnBarracuda` shares `connections` and the slots on status changes with
  `VpnManager` in the code. No process and no socket is behind a Barracuda
  entry, so the two do not meet in the map but for a name, which is of one kind.

### Correspondence

* `wpc` names the calls of `process()`; `logout`, `reap` and `clear` are its error
  labels. `tstate`, `ptrTunnel`, `stopFlag`, `sigReceived`, `splitRoutes` are the
  variables of the same name; `netUp` stands for the routes and nameservers
  `on_ppp_if_up()` sets, `pppd` for the forked child. `io_loop()` calls
  `on_ppp_if_up()` in its `if_config` thread, sets STATE_UP afterwards, and cancels
  the thread when it returns: `IfUp` enters the call (`ifConfig`), `StateUp` returns
  from it, and `LeaveIoLoop` may come in between. The routes and the
  nameservers are one value: set at the entry, so that a call that was cancelled
  anywhere counts as having left them (`netLeft`).
* The mutex of `end()` guards the pointer and nothing else. `on_ppp_if_down()`
  beside a running or cancelled `on_ppp_if_up()` may find all that there is to take
  back or only a part of it: `IfDownLeaves` has both outcomes.
* `startPc` is where `startVPN()` of the process is (`boot` before its timer,
  `pass` and `cred` in the two nested event loops). `inbox` and `ready` keep
  what is in the socket apart from the signal that announces it, as one command
  is read per `readyRead()`. `thread`, `workerAlive` and `finishedPosted` follow
  the `QThread`, the worker object and its queued signal.
* In `VpnManager`, `due` is the next queued `QProcess` signal of an attempt, `link`
  its socket, `wired` and `socketOf` who is called by a socket and which socket
  a connection reads: `setSocket()` changes the second and not the first.
  `reports` are the pending 2 s timers. `stopped`, `told`, `specific` and
  `generic` record what the user did, what reached a process and what was shown.
* In `VpnLogger`, `calls` is the event queue of the logger's thread, `log` the
  five maps `loggers`, `logfiles`, `logCertFailedMode`, `logCertFailedBuffer` and
  `samlAuthRequested` of one name, `pending` and `timer` the collected output
  and `flushTimer`. `shown` keeps for every signal whose output it came from
  and which process it was sent for. `last` is where a process is in `process()` of
  the worker, as far as it shows in its output: `NextLines` are the lines that may
  come there and `After` where they lead, the errors of `io_loop()` and of the
  logout and the reconnect of a persistent tunnel included.
* In `VpnBarracuda`, `asking` is the stack of `startVPN()` calls that sit in the
  token dialog, `starter` the process of `--start`, `polling` the running
  `statsupdater` timers, `client` and `serves` the vendor's client. `holes`
  records which of the five things the code does not guard against has
  happened; each property names the ones it needs to exclude.
* In `ProfileStore`, `saving` is `saveVpnProfile()` under way (`keys`: in the nested
  event loop of the keyring; `write`: between the removal and the new file),
  `saves` the stack of `on_btnSave_clicked()` of the settings, each in one of its
  calls of the keyring. `want` is the password the user has stored, `excuse` why
  it may be gone, `moves` what went wrong while the key was moved.
* In `ProfileWatcher`, `watch` is the inode Qt watches under a path, `changed`
  and `deleted` what it has still to report, `reading` the directories the
  running refresh has not come to yet.

## Runs

| run | what it asks | result |
|---|---|---|
| `worker` | ownership of pppd and routes on every path; SIGTERM before the handler; a stop is final (`StopIsFinal`) and ends the process (`StopEndsProcess`) unless it falls into the blind window | holds |
| `sigterm_lost` | whether every SIGTERM ends a headless process, as the test lab expects | violated: between the last check of `process()` and `io_loop()` the handler records a signal nobody reads |
| `process` | clean exit, secrets before connecting, what slots may touch, refinement of the worker and of the child's contract; shutdown ends and the GUI learns the state | holds |
| `gui_quit_forces_exit` | clean exit when the GUI closes the socket right after ACTION_STOP | violated: the second entry of `closeProcess()` is taken for `finished()` |
| `manager` | true and complete failure reports, manageable VPNs, stops that reach their process, for two names and for a restart after the first attempt is settled | holds |
| `manager_overlap` | the map and the window come to rest when attempts of one name overlap in any way | holds |
| `stop_and_start_again` | true failure reports when the user starts a VPN whose old process still tears down | violated: late events hit the new entry |
| `logger` | signals for the right attempt, no state without a process, one browser per attempt, prompts and certificates that are cut by a flush | holds |
| `store` | stored passwords, the key and the names of the files under every interleaving of the windows, a locked keyring and crashes | holds, with the excuses the properties name |
| `locked_keyring_strips` | whether a locked keyring costs a stored password | violated: a form opened while it was locked is saved after it was unlocked |
| `barracuda` | the client can be taken down, rows name their gateway, ends are explained, the window notices a lost client | holds, with the holes the properties name |
| `watcher` | what is shown is right or about to be, in the end it is right, and the refreshing stops | holds |

Every property of a run that holds is accompanied by a mutant in `PROJECT.json`:
a small change of a definition, a dropped check or a forgotten reset, which
makes that property fail.

### What the properties except, and why

The runs that hold name in their properties what the code does not guard
against. These are limits of the code:

* a stop that arrives behind another command stays in the buffer of the
  process until something else is sent (`vpnprocess.cpp:446`);
* the observer may use a worker that was deleted between its check and its call
  (`vpnprocess.cpp:504-507`; the same in `closeProcess()`, `:121`);
* the crash of a process that had a socket is not reported: the socket closes
  first and takes the entry (`vpnmanager.cpp:635`; `NoSilentFailure` is about
  attempts that never connected);
* a stop before HELO is not sent to anybody (`vpnmanager.cpp:284`;
  `StopReachesProcess` says it is these and no others);
* a name started again while its old process still tears down shares one place
  in every map with it (`stop_and_start_again`, `overlapped` in `VpnLogger`);
* output that came before `addVPN()` is read with the next output only
  (`Unheard`), and a prompt whose first half falls into a running timer, or
  fills the megabyte, is cut (`cut`);
* an `io_loop()` that returns while `on_ppp_if_up()` is still running leaves the
  state at CONNECTING, and `process()` does not call `on_ppp_if_down()`
  (`vpnworker.cpp:913`): the routes that are set by then stay, and outlive the
  process unless a later connection takes them back. `NetOwned`, `StopIsFinal` and
  `CleanExit` except exactly these (`netLeft`). `TESTS.md:630-632` says that the
  gateway route only stayed behind when the process died first; it need not have;
* a late HELO of a stopped process gives the entry of its successor a second
  socket (`vpnmanager.cpp:684`): the end of one then deletes the other, and a read
  from that may crash the GUI (`gui`). `LiveIsManaged` and the properties beside it are
  checked without overlap; `manager_overlap` goes through it;
* what is collected of a refused certificate counts up to 10000 characters, and
  the end of any connection in the same piece ends it (`vpnlogger.cpp:346`): when
  the piece ends with a refusal, the failed login openfortivpn prints next is
  shown as one (`mixed`);
* an error in a piece of output returns from `processOutput()` before prompts and
  certificates are looked at (`vpnlogger.cpp:148-285`): a persistent tunnel that
  fails and connects again within the 150 ms of a flush waits at a prompt nobody
  sees, or has its refusal taken for a failed login (`swallowed`);
* two Barracuda VPNs may be CONNECTING at once (`vpnmanager.cpp:353`), a token
  dialog lets another start in (`:197`), a poll that finds the client
  reconnecting gives it up for good, and a GUI that quits while CONNECTING
  leaves the client running; an attempt whose client is not installed stays
  CONNECTING for ever, and one whose configuration file cannot be written
  keeps an entry of its own;
* a profile is lost if the program dies between `QFile::remove()` and the new
  file (`ticonfmain.cpp:434`), a profile copied onto itself loses its password,
  a save that is refused after the rename leaves a file under a new name with
  the old one in it, and a form opened with a locked keyring strips a profile;
* moving the key does not look at the keyring's answers, nor does it keep Save
  from being pressed again (`vpnsetting.cpp:116-130`): `KeyKept` excepts a
  keyring that locks, an end of the program and a second Save meanwhile;
* a directory that is not at its default path and has gone when the watcher
  looks is not watched again before the next event of another one
  (`LostPath`), and what changes between the first reading of the lists and the start
  of the watcher is not noticed (`missed`).

### Bounds

* `SamlRounds` is 6 in `MCVpnWorker` (the code's number) and 2 in `MCVpnProcess`,
  where only a first and a last round differ. `MaxSplit` (split routes of one
  configuration) is 2 and 1: a stale index differs from a fresh one.
* The GUI sends each of its three commands at most once per process (`guiSent`),
  so `inbox` holds at most three.
* `MaxAttempts` of the manager is 2: two VPNs, or one VPN twice, which is what
  one attempt can do to another. `MaxOutbox` bounds unread statuses: 2 lets
  statuses coalesce; with two names it is 1, where only the coalescing with
  HELO is left.
* `Overlap = FALSE` lets the user start a name again only after all events of
  its last attempt were handled; `manager_overlap` and `stop_and_start_again`
  lift that. `Prints` are the attempts whose process may print an error
  that the logger recognises: the first one in the `manager` run, so that the
  other attempt can be of another VPN or follow upon an explained failure; none
  where no property looks at them. `GuiQuits = FALSE` is a GUI that keeps the socket open after
  ACTION_STOP; `gui_quit_forces_exit` lifts that.
* Symmetry is used for the two names of the `manager` run, which checks
  invariants only.
* `MCVpnLogger`: one name started twice, as names share nothing but the timer;
  four lines of output (`MaxLines`), which are a refused certificate to its end,
  or an error, the end of that connection and the prompt or the refusal of the
  next. A second process takes two of them, which leaves a prompt or a refusal
  and what comes of it. More than one line (`CertLimit`) stands for 10000
  characters, three (`Full`) for the megabyte, so that both are reached, apart from
  each other.
* `MCVpnBarracuda`: two profiles, one with a token, three starts: one profile
  started twice inside of its dialog, and another one.
* `MCProfileStore`: two names, so that one can be renamed or copied onto the
  other, and one password, there or not. One second Save may be pressed inside
  of the first. The constraint `KeyNotLost` of the `store` run does not look at
  what follows once a move of the key has gone wrong: `KeyKept` and
  `SecretsKept` claim nothing there. `MCStoreLocked.cfg` has the lock as the only
  fault.
* `MCProfileWatcher`: one default directory, one elsewhere, one file and four
  changes by other programs, enough to remove and make anew both directories.

### Fairness

* `WorkerFairness`: the worker's blocking calls return and `main()` returns
  after `process()`. Nothing makes the gateway or pppd act. It is used for
  `StopEndsProcess` and `SigtermEndsProcess`.
* `FairSpec` of `VpnProcess`: weak fairness of each slot of the main thread, as
  Qt's event loop does not lose timers or socket events; the nested loops end by
  their 30 s timers, the join by its 2 s. NOTHING is assumed of the worker or of
  the GUI, so `ShutdownCompletes` covers a worker that hangs for ever.
* `FairSpec` of `VpnLogger`: each of the two event loops gets on, the logger's
  with its calls and its timer together, and a process that has begun a prompt
  writes the rest of it. Processes need not end, nor users answer.
* `FairSpec` of `VpnBarracuda`: the GUI's slots and timers run, and
  `barracudavpn --start` ends by itself.
* `FairSpec` of `ProfileWatcher`: reading goes on, and a report of the watcher
  and the timer come through in the end. They need strong fairness, as every refresh in
  between disables them while it reads; the event loop serves a posted event or
  an expired timer when it gets back, and the other programs' changes, which
  could restart the timer for ever, come to an end.
* `VpnManager` has no liveness property. `ReportTimer` assumes that the 2 s of
  `reportProcessFailure()` are longer than the logger's 150 ms flush, and
  `FlushPending` that the second half of a prompt, written at once, arrives within
  150 ms of the first: that is the timing the code relies on.

## Proofs

TLAPS checks the theorems for every value of the constants, from the named
assumptions of the modules only: a positive number of SAML rounds and any
number of split routes (`WorkerAssumption`, `ProcessAssumption`), any names and
numbers of attempts and messages (`ManagerAssumption`), any directories, default
directories among them, and any number of changes (`WatcherAssumption`), any
profiles with a name, of which any ask for a token (`BarracudaAssumption`), any
names, passwords and faults (`StoreAssumption`), and any number of names,
attempts and lines and any size of the megabyte above that of a certificate
(`LoggerAssumption`).

* `VpnWorkerProofs`: `WorkerInv` is inductive. To the type invariant it adds
  where the SAML counter is at rest (`SamlRoundInv`), that the default disposition
  of SIGTERM only lasts to the start of `process()` (`HandlerInv`, which
  `KillLeavesNothing` needs), and where `process()` runs without a published
  tunnel (`UnpublishedInv`, which the process needs to conclude anything from
  `tunnelActive()`). Ownership of pppd and routes (`PppdOwnership`,
  `NetOwnership`), the pointer and the index of the split routes
  (`TunnelPointer`, `SplitIndex`, which no run repeats) are parts of it.
  `NetOwnership` says why routes may be there: `on_ppp_if_up()` runs, the state is
  UP and the teardown still to come, or one was cancelled (`netLeft`, which is never
  reset). `StopFinal` proves that once a stop is seen outside of the blind window,
  the worker only moves towards the end, and of routes only the last kind is there.
* `VpnProcessProofs`: `ProcessImplementsWorker` shows step by step that every
  action of `Next` is a step of `WorkerNext` or leaves `workerVars` alone, so
  `WorkerInv` holds in the process. `ProcessInv` adds `ThreadInv` (what the state
  of the thread says about `wpc`, and when the main thread is inside the
  observer) and `AnswersInv` (which answers are there at each point of
  `startVPN()`); from it follow `ProcessTyped`, `CredentialsFirst` and
  `ObserverReadsLiveTunnel`. `ExitsClean` assumes `~GuiQuits` and needs
  `GraceInv`: a shutdown that has begun either signalled a worker whose
  teardown the watchdog waits for, or found a worker that is harmless and stays
  so (`HarmlessStays`), and `closeProcess()` is not entered again before the
  worker has returned (`SocketInv`, `TeardownInv`).
* `VpnContractProofs`: `ProcessKeepsContract` is the refinement of `VpnChild`. Its
  point is `LastWordInv`: the observer takes a tunnel for "down" only when
  `process()` is on its way out, because the state starts as "down" but is not
  reported as long as it equals `last_tunnel_state`. `DownIsFinal` says that of
  the worker.
* `VpnManagerProofs`: `ManagerInv` holds for any number of names and attempts,
  however the attempts of a name overlap. It relates map, sockets and processes
  (`BookInv`), what a process has still to signal (`DueInv`) and what
  window and connections say (`WindowInv`); `DeadLeaves` and `WindowComesToRest`
  follow. `AloneManagerInv`, under `~Overlap`, adds that all attempts of a name but the last are
  settled and that a socket reads for its own connection (`AloneInv`), what a
  child has said by how it ended (`ChildInv`), and what became of an attempt
  whose entry is gone (`FateInv`); from it follow `RunningIsManaged`,
  `ReportsAreTrue`, `FailuresAreReported` and `StopsAreTold`.
  `stop_and_start_again` shows that `ReportsAreTrue` does need `~Overlap`.
* `ProfileWatcherProofs`: `WatcherInv` adds to `StaleIsDue` that a watched path is
  watched at the inode that is there, or its end is still to be reported
  (`WatchIsTrue`), and what holds before the watcher is set up (`Constructing`).
  `ListsAreNotStale` and `DefaultWatchReturns` follow.

* `VpnBarracudaProofs`: `BarracudaInv` says who looks after an attempt. `BookInv`
  keeps map, start process and configuration file apart by name; `EntryInv` gives
  an attempt that is watched the entry of its name to itself, from which
  `TunnelIsManaged` follows; `MemoryInv` relates what the manager, the attempt and
  the reports remember of having been connected, for `EndIsExplained`; `OneInv`
  says that, with no hole, one attempt at a time is under way and the
  configuration and the client are its own, for `RowTellsGateway`. Each part
  names the holes it needs to exclude, and no more.
* `ProfileStoreProofs`: `StoreInv` adds to `NamesAgree` what forms and saves refer to
  (`FormInv`), where the key is while the settings move it (`KeyInv`: any copy of
  a half of it is the user's or none, and one save of the settings carries the
  whole of it), and that a password nothing excuses is in a good file, or in the
  hands of the save under way (`SecretInv`). `SecretsKept` follows as decrypting
  with the key in use gives back what was encrypted with it.
* `VpnLoggerProofs`: `LoggerInv` orders the queued calls of an attempt (`QueueInv`:
  `addVPN()` once, then data, then the end and nothing more) and gives every
  piece of output, queued, pending or in the certificate buffer, to an attempt
  the logger still expects (`LogInv`); two such attempts of one name have
  overlapped (`OverlapInv`). `Attribution`, `Listening`, `StateGoesWithProcess` and,
  with `BrowserInv`, `BrowserOnce` follow. `RefusedCertIsNotAuth` needs to follow a
  refused certificate through every cut: `CertInv` says of each attempt that may
  still be heard of and has no excuse (`Watched`) that what comes of a refusal is
  behind it, within its piece, or at the beginning of the next one while the
  piece before ends with the refusal (`EndsInCert`) or the log is in its mode. It
  does not depend on what a process prints otherwise, only on a failed login and
  the details of a refusal coming right behind it (`Order`). That the mode is on
  after such a piece (`ModeKept`) is where the limit, an end of another connection
  and an early return come in: they are the excuses. The three actions that
  process output are reduced to one fact (`Work`): a name is left alone, or one piece
  of its own is processed under it.

Only model-checked are the liveness properties (`StopEndsProcess`,
`ShutdownCompletes`, `ReportsConverge`, `PromptIsAsked`, `RefusedCertIsReported`,
`WindowFollows`, `FollowsDisk`, `Quiesces`), as liveness and ENABLED are out of
the prover's reach. Every safety property of the runs that hold is a theorem.

## Not modelled

* Options copied from the profile into openfortivpn's configuration, message
  wording, statistics, the encoding of the api messages.
* `pppd_run()` failing in the parent after its fork (`vpnworker.cpp:385`), which
  would leave pppd to nobody, and a child of the fork that runs out of memory.
* In the manager: credential requests and prompts (they pass through without
  touching its state), SAML port probing, and the destructor, whose effect on a
  process is `GuiCloses` with `GuiQuits`. A child whose `connect()` to the api
  socket fails runs headless, which `VpnProcess` covers from its initial state on.
* In the logger: the patterns themselves, which are classes of lines here; the
  `otp_prompt` of a profile, which is one more prompt; the log files' contents.
  A size is a number of lines. The two `connect()` of `addVPN()` are one step.
* In the Barracuda backend: `--stop` that fails, the missing user name or
  password, statistics, the tray icon, and a quit while a token dialog is open.
* In the store: groups, global profiles (which cannot be changed), all options
  but the secret, a key the user types in, a profile name that is refused. Fetching key and
  IV from the keyring is one step, there is one settings window, and a save of
  a profile that waits for the keyring is not overtaken by another one.
* In the lists: search, the global directory (one more directory that is not
  at a default path), and the contents of groups. `mkpath()` and `addPath()` of one
  directory are one step.
* Group start and stop (`mainwindow.cpp:675`), autostart, `restartVPNWhenClosed()`
  (a `StartVPN` with `Overlap`), single instance and command line.
* The KRunner plugin, a client that lists profiles and sends ACTION_VPN_START;
  packaging, test lab, translations.

## Plan

1. done: `VpnWorker`, `VpnProcess`, `VpnManager`, their contract `VpnChild`, and
   their proofs.
2. done: `VpnLogger`, `ProfileStore`, `VpnBarracuda`, `ProfileWatcher` with its proofs.
3. done: the proofs of the logger, the store and the Barracuda backend.
4. Proofs: the safety half of the liveness properties, that what has to happen
   next is always on its way (`StaleIsDue` of the watcher is one of that kind).
5. Groups and autostart over the manager, if their toggling proves to be
   interesting beside single VPNs.
