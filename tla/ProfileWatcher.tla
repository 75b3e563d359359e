---------------------------- MODULE ProfileWatcher ----------------------------
(***************************************************************************)
(* How the lists of the main window follow the profile and group           *)
(* directories (mainwindow.cpp), which other programs change as well: a    *)
(* restore or a synchronisation may even replace a whole directory.  The   *)
(* watcher is Qt's: it watches an inode under a path, forgets the path     *)
(* when it handles the end of the inode, and reports changes of a          *)
(* directory that it watches, any number of them at once.  A list is what  *)
(* was read of its directory.                                              *)
(***************************************************************************)
EXTENDS Integers, FiniteSets

CONSTANTS
  Dirs,        \* the directories of profiles and of groups
  DefaultDirs, \* those at their default path, which initMainConf() makes
  Files,       \* what may be in them
  MaxChanges   \* bound: changes by other programs

ASSUME WatcherAssumption ==
  /\ DefaultDirs \subseteq Dirs
  /\ MaxChanges \in Nat

VARIABLES
  inode,    \* the directory under a path, 0 if there is none
  files,    \* what is in it
  next,     \* the next inode of the file system
  watch,    \* the inode watched under a path, 0 if the path is not watched
  changed,  \* directories with a change to be reported
  deleted,  \* paths whose watched inode has gone, to be reported
  timer,    \* timerVpnProfilesRefresh is running
  phase,    \* of the constructor: "lists", "watcher", "running"
  reading,  \* directories that a refresh under way has still to read
  list,     \* what the window shows of a directory
  missed,   \* history: changed while nobody watched it yet
  changes   \* changes by other programs so far

diskVars == <<inode, files, next, changes>>
qtVars   == <<watch, changed, deleted>>
guiVars  == <<timer, phase, reading, list>>
vars == <<diskVars, qtVars, guiVars, missed>>

WatcherTypeOK ==
  /\ inode \in [Dirs -> Nat]
  /\ files \in [Dirs -> SUBSET Files]
  /\ next \in Nat \ {0}
  /\ watch \in [Dirs -> Nat]
  /\ changed \subseteq Dirs
  /\ deleted \subseteq Dirs
  /\ timer \in BOOLEAN
  /\ phase \in {"lists", "watcher", "running"}
  /\ reading \subseteq Dirs
  /\ list \in [Dirs -> SUBSET Files]
  /\ missed \subseteq Dirs
  /\ changes \in 0 .. MaxChanges
  /\ \A d \in changed \union deleted : watch[d] # 0
  /\ \A d \in Dirs : inode[d] < next /\ watch[d] < next

WatcherInit ==
  /\ inode \in [Dirs -> {0, 1}]
  /\ files \in [Dirs -> SUBSET Files]
  /\ \A d \in Dirs : (d \in DefaultDirs => inode[d] = 1) /\ (inode[d] = 0 => files[d] = {})
  /\ next = 2
  /\ watch = [d \in Dirs |-> 0]
  /\ changed = {}
  /\ deleted = {}
  /\ timer = FALSE
  /\ phase = "lists"
  /\ reading = Dirs
  /\ list = [d \in Dirs |-> {}]
  /\ missed = {}
  /\ changes = 0

-----------------------------------------------------------------------------
(* Other programs.                                                         *)

\* Before the watcher is set up nobody will report a change.
Unwatched(d) ==
  missed' = IF phase # "running" /\ d \notin reading THEN missed \union {d} ELSE missed

Change(d) ==
  /\ changes < MaxChanges
  /\ changes' = changes + 1
  /\ inode[d] # 0
  /\ \E f \in SUBSET Files : f # files[d] /\ files' = [files EXCEPT ![d] = f]
  /\ changed' = IF watch[d] = inode[d] THEN changed \union {d} ELSE changed
  /\ Unwatched(d)
  /\ UNCHANGED <<inode, next, watch, deleted, guiVars>>

\* The directory is deleted or moved away with what is in it.
RemoveDir(d) ==
  /\ changes < MaxChanges
  /\ changes' = changes + 1
  /\ inode[d] # 0
  /\ inode' = [inode EXCEPT ![d] = 0]
  /\ files' = [files EXCEPT ![d] = {}]
  /\ deleted' = IF watch[d] = inode[d] THEN deleted \union {d} ELSE deleted
  /\ Unwatched(d)
  /\ UNCHANGED <<next, watch, changed, guiVars>>

\* A directory is made under the path, or moved there.
CreateDir(d) ==
  /\ changes < MaxChanges
  /\ changes' = changes + 1
  /\ inode[d] = 0
  /\ inode' = [inode EXCEPT ![d] = next]
  /\ next' = next + 1
  /\ \E f \in SUBSET Files : files' = [files EXCEPT ![d] = f]
  /\ Unwatched(d)
  /\ UNCHANGED <<qtVars, guiVars>>

-----------------------------------------------------------------------------
(* The GUI.                                                                *)

\* Mutant: every use of the configuration sweeps the modes of all profiles,
\* which the watcher takes for changes.
initMainConfSweeps(made) ==
  /\ inode' = [d \in Dirs |-> IF d \in made THEN next ELSE inode[d]]
  /\ next' = IF made = {} THEN next ELSE next + 1
  /\ changed' = changed \union {d \in Dirs : watch[d] # 0 /\ watch[d] = inode[d]}

\* initMainConf(): mkpath() for the default directories.
initMainConf(made) ==
  /\ inode' = [d \in Dirs |-> IF d \in made THEN next ELSE inode[d]]
  /\ next' = IF made = {} THEN next ELSE next + 1
  /\ changed' = changed

\* A tiConfMain is made, which needs the default directories.
MakeDefaultDirs == initMainConf({d \in DefaultDirs : inode[d] = 0})

\* setupVpnProfileWatcher(): what is not watched is added if it exists.
setupVpnProfileWatcher ==
  /\ MakeDefaultDirs
  /\ watch' = [d \in Dirs |-> IF watch[d] = 0 THEN inode'[d] ELSE watch[d]]

\* refreshVpnProfileList() and refreshVpnGroupList() read one directory.
ReadDir(d) ==
  /\ d \in reading
  /\ reading' = reading \ {d}
  /\ list' = [list EXCEPT ![d] = files[d]]
  /\ missed' = missed \ {d}
  /\ phase' = IF phase = "lists" /\ reading' = {} THEN "watcher" ELSE phase
  /\ UNCHANGED <<diskVars, qtVars, timer>>

\* The constructor sets up the watcher after both lists were read.
StartWatcher ==
  /\ phase = "watcher"
  /\ phase' = "running"
  /\ setupVpnProfileWatcher
  /\ UNCHANGED <<files, changes, deleted, timer, reading, list, missed>>

\* Mutant: a directory that has gone is waited for.
DirectoryChangedWaits(d) ==
  /\ phase = "running"
  /\ reading = {}
  /\ d \in changed \union deleted
  /\ inode[d] # 0
  /\ changed' = changed \ {d}
  /\ deleted' = deleted \ {d}
  /\ watch' = IF d \in deleted THEN [watch EXCEPT ![d] = 0] ELSE watch
  /\ timer' = TRUE
  /\ UNCHANGED <<diskVars, phase, reading, list, missed>>

\* Qt reports what has happened to a directory, and forgets the path when the
\* directory has gone.  onWatcherVpnProfilesChanged() starts the timer.
DirectoryChanged(d) ==
  /\ phase = "running"
  /\ reading = {}
  /\ d \in changed \union deleted
  /\ changed' = changed \ {d}
  /\ deleted' = deleted \ {d}
  /\ watch' = IF d \in deleted THEN [watch EXCEPT ![d] = 0] ELSE watch
  /\ timer' = TRUE
  /\ UNCHANGED <<diskVars, phase, reading, list, missed>>

\* onVpnProfilesRefreshTimeout(): the watcher first, then both lists.
onVpnProfilesRefreshTimeout ==
  /\ phase = "running"
  /\ reading = {}
  /\ timer
  /\ timer' = FALSE
  /\ setupVpnProfileWatcher
  /\ reading' = Dirs
  /\ UNCHANGED <<files, changes, deleted, phase, list, missed>>

\* Mutant: a refresh by hand makes the one that is due needless.
RefreshStopsTimer ==
  /\ phase = "running"
  /\ reading = {}
  /\ timer' = FALSE
  /\ MakeDefaultDirs
  /\ reading' \in (SUBSET Dirs) \ {{}}
  /\ UNCHANGED <<files, changes, watch, deleted, phase, list, missed>>

\* The other refreshes: after the GUI's own changes, a search, a new status of
\* a VPN.  They make a tiConfMain, and leave the watcher alone.
Refresh ==
  /\ phase = "running"
  /\ reading = {}
  /\ MakeDefaultDirs
  /\ reading' \in (SUBSET Dirs) \ {{}}
  /\ UNCHANGED <<files, changes, watch, deleted, timer, phase, list, missed>>

OtherProgram(d) == Change(d) \/ RemoveDir(d) \/ CreateDir(d)

Next ==
  \/ \E d \in Dirs : OtherProgram(d) \/ ReadDir(d) \/ DirectoryChanged(d)
  \/ StartWatcher
  \/ onVpnProfilesRefreshTimeout
  \/ Refresh

Spec == WatcherInit /\ [][Next]_vars

\* The event loop goes round.  The timer is not put off for ever: other
\* programs come to an end some time, and it is the last change that counts.
FairSpec ==
  /\ Spec
  /\ \A d \in Dirs : WF_vars(ReadDir(d)) /\ SF_vars(DirectoryChanged(d))
  /\ WF_vars(StartWatcher)
  /\ SF_vars(onVpnProfilesRefreshTimeout)

-----------------------------------------------------------------------------
(* Properties.                                                             *)

\* A path at which there was no directory when the watcher looked; nothing
\* brings it back before the next event of another directory.
LostPath(d) == d \notin DefaultDirs /\ watch[d] = 0

\* What the window shows of a directory is what is in it, or a change is still
\* to be reported, a refresh is due or under way.
StaleIsDue ==
  phase = "running" =>
    \A d \in Dirs :
      \/ list[d] = files[d]
      \/ d \in changed \union deleted \union reading \union missed
      \/ timer
      \/ LostPath(d)

\* A default directory that was replaced is watched again in the end: as long
\* as it is not, the loss is still to be reported or the timer runs.
WatchIsDue ==
  phase = "running" =>
    \A d \in DefaultDirs :
      \/ watch[d] = inode[d] /\ inode[d] # 0
      \/ d \in deleted
      \/ timer

\* The window follows the directories: once the other programs are done it
\* shows what is there, except for what changed between the first reading and
\* the start of the watcher, and for paths the watcher has lost.
FollowsDisk ==
  \A d \in Dirs : <>[](list[d] = files[d] \/ d \in missed \/ LostPath(d))

\* Refreshing causes no refreshing: when the other programs are done the timer
\* stays quiet (the loop of issues #210 and #212).
Quiesces == <>[](~timer)
=============================================================================
