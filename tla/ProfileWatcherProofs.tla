------------------------- MODULE ProfileWatcherProofs -------------------------
(***************************************************************************)
(* Proofs about ProfileWatcher for any directories, files and number of    *)
(* changes: nothing the window shows wrong goes unnoticed (StaleIsDue),    *)
(* and a replaced default directory is watched again (WatchIsDue).         *)
(***************************************************************************)
EXTENDS ProfileWatcher, TLAPS

\* A path that Qt takes for watched is, or its end is still to be reported.
WatchIsTrue == \A d \in Dirs : watch[d] = 0 \/ watch[d] = inode[d] \/ d \in deleted

\* A default directory is only unwatched while the timer runs.
DefaultIsWatched ==
  phase = "running" => \A d \in DefaultDirs : watch[d] # 0 \/ timer

\* Before the watcher is set up nothing is watched, and what was read is right
\* unless it was changed since then.
Constructing ==
  /\ phase = "watcher" => reading = {}
  /\ phase # "running" =>
       /\ \A d \in Dirs : watch[d] = 0
       /\ \A d \in Dirs : list[d] = files[d] \/ d \in reading \/ d \in missed

WatcherInv ==
  /\ WatcherTypeOK
  /\ WatchIsTrue
  /\ DefaultIsWatched
  /\ Constructing
  /\ StaleIsDue

-----------------------------------------------------------------------------
\* setupVpnProfileWatcher() keeps files and watches alone that are in order: a
\* watch that is there is kept, every default directory exists afterwards and
\* is watched.
LEMMA Setup ==
  ASSUME WatcherInv, setupVpnProfileWatcher, deleted' = deleted
  PROVE  /\ inode' \in [Dirs -> Nat] /\ watch' \in [Dirs -> Nat]
         /\ next' \in Nat \ {0} /\ changed' = changed
         /\ \A d \in Dirs : inode'[d] < next' /\ watch'[d] < next'
         /\ \A d \in Dirs : watch[d] # 0 => watch'[d] # 0
         /\ \A d \in Dirs : watch'[d] = 0 \/ watch'[d] = inode'[d] \/ d \in deleted
         /\ \A d \in DefaultDirs : watch'[d] # 0
<1> DEFINE made == {d \in DefaultDirs : inode[d] = 0}
<1>1. /\ inode' = [d \in Dirs |-> IF d \in made THEN next ELSE inode[d]]
      /\ next' = IF made = {} THEN next ELSE next + 1
      /\ changed' = changed
      /\ watch' = [d \in Dirs |-> IF watch[d] = 0 THEN inode'[d] ELSE watch[d]]
  BY DEF setupVpnProfileWatcher, MakeDefaultDirs, initMainConf
<1>2. /\ inode \in [Dirs -> Nat] /\ watch \in [Dirs -> Nat] /\ next \in Nat \ {0}
      /\ \A d \in Dirs : inode[d] < next /\ watch[d] < next
      /\ DefaultDirs \subseteq Dirs
  BY WatcherAssumption DEF WatcherInv, WatcherTypeOK
<1>3. /\ inode' \in [Dirs -> Nat] /\ next' \in Nat \ {0}
      /\ \A d \in Dirs : inode'[d] < next'
  BY <1>1, <1>2
<1>4. /\ watch' \in [Dirs -> Nat]
      /\ \A d \in Dirs : watch'[d] < next'
  BY <1>1, <1>2, <1>3
<1>5. \A d \in DefaultDirs : inode'[d] # 0
  BY <1>1, <1>2
<1>6. \A d \in Dirs : watch'[d] = 0 \/ watch'[d] = inode'[d] \/ d \in deleted
  <2> SUFFICES ASSUME NEW d \in Dirs
               PROVE  watch'[d] = 0 \/ watch'[d] = inode'[d] \/ d \in deleted
    OBVIOUS
  <2>1. CASE watch[d] = 0
    BY <2>1, <1>1
  <2>2. CASE watch[d] # 0 /\ watch[d] = inode[d]
    <3>1. d \notin made
      BY <2>2
    <3> QED
      BY <2>2, <3>1, <1>1
  <2>3. CASE d \in deleted
    BY <2>3
  <2> QED
    BY <2>1, <2>2, <2>3 DEF WatcherInv, WatchIsTrue
<1> QED
  BY <1>1, <1>2, <1>3, <1>4, <1>5, <1>6

LEMMA WatcherInitInv == WatcherInit => WatcherInv
<1> SUFFICES ASSUME WatcherInit PROVE WatcherInv
  OBVIOUS
<1>1. /\ inode \in [Dirs -> Nat] /\ watch \in [Dirs -> Nat]
      /\ \A d \in Dirs : inode[d] < next /\ watch[d] < next
  <2>1. \A d \in Dirs : inode[d] \in {0, 1}
    BY DEF WatcherInit
  <2>2. inode \in [Dirs -> Nat]
    BY <2>1 DEF WatcherInit
  <2> QED
    BY <2>1, <2>2 DEF WatcherInit
<1>2. /\ files \in [Dirs -> SUBSET Files] /\ list \in [Dirs -> SUBSET Files]
      /\ changes \in 0 .. MaxChanges
  BY WatcherAssumption DEF WatcherInit
<1>3. /\ next \in Nat \ {0} /\ timer = FALSE /\ phase = "lists"
      /\ changed = {} /\ deleted = {} /\ missed = {} /\ reading = Dirs
  BY DEF WatcherInit
<1>4. WatcherTypeOK
  BY <1>1, <1>2, <1>3 DEF WatcherTypeOK
<1>5. \A d \in Dirs : watch[d] = 0
  BY DEF WatcherInit
<1> QED
  BY <1>3, <1>4, <1>5 DEF WatcherInv, WatchIsTrue, DefaultIsWatched, Constructing,
                    StaleIsDue

-----------------------------------------------------------------------------
(* One lemma per actor: the other programs, Qt with the slots.             *)

LEMMA OtherProgramInv ==
  ASSUME WatcherInv, NEW d \in Dirs, OtherProgram(d)
  PROVE  WatcherInv'
<1> USE DEF WatcherInv, WatcherTypeOK
<1>1. UNCHANGED <<watch, guiVars>>
  BY DEF OtherProgram, Change, RemoveDir, CreateDir, qtVars
<1>2. \A e \in Dirs \ {d} : inode'[e] = inode[e] /\ files'[e] = files[e]
  BY DEF OtherProgram, Change, RemoveDir, CreateDir
<1>3. /\ changed \subseteq changed' /\ changed' \subseteq changed \union {d}
      /\ deleted \subseteq deleted' /\ deleted' \subseteq deleted \union {d}
      /\ d \in changed' \/ d \in deleted' => watch[d] # 0
      /\ missed \subseteq missed' /\ missed' \subseteq Dirs
  BY DEF OtherProgram, Change, RemoveDir, CreateDir, Unwatched, qtVars
<1>4. watch[d] = 0 \/ d \in deleted \/ watch[d] = inode[d]
  BY DEF WatchIsTrue
<1>5. watch[d] # 0 /\ watch[d] = inode[d] => d \in changed' \union deleted'
  BY DEF OtherProgram, Change, RemoveDir, CreateDir
<1>6. WatcherTypeOK'
  <2>1. /\ inode' \in [Dirs -> Nat] /\ files' \in [Dirs -> SUBSET Files]
        /\ next' \in Nat \ {0} /\ changes' \in 0 .. MaxChanges
        /\ \A e \in Dirs : inode'[e] < next' /\ watch[e] < next'
    BY WatcherAssumption DEF OtherProgram, Change, RemoveDir, CreateDir
  <2> QED
    BY <2>1, <1>1, <1>3 DEF guiVars
<1>7. WatchIsTrue'
  <2>1. watch[d] = 0 \/ watch[d] = inode'[d] \/ d \in deleted'
    BY <1>3, <1>4 DEF OtherProgram, Change, RemoveDir, CreateDir
  <2> QED
    BY <2>1, <1>1, <1>2, <1>3 DEF WatchIsTrue
<1>8. DefaultIsWatched'
  BY <1>1 DEF DefaultIsWatched, guiVars
<1>9. Constructing'
  <2>1. phase # "running" => d \in reading \/ d \in missed'
    BY DEF OtherProgram, Change, RemoveDir, CreateDir, Unwatched
  <2> QED
    BY <2>1, <1>1, <1>2, <1>3 DEF Constructing, guiVars
<1>10. StaleIsDue'
  <2> SUFFICES ASSUME phase = "running", NEW e \in Dirs
               PROVE  \/ list[e] = files'[e]
                      \/ e \in changed' \union deleted' \union reading \union missed'
                      \/ timer
                      \/ LostPath(e)
    BY <1>1 DEF StaleIsDue, LostPath, guiVars
  <2>1. CASE e # d
    BY <2>1, <1>2, <1>3 DEF StaleIsDue
  <2>2. CASE e = d /\ watch[d] # 0
    BY <2>2, <1>3, <1>4, <1>5
  <2>3. CASE e = d /\ watch[d] = 0
    BY <2>3 DEF LostPath, DefaultIsWatched
  <2> QED
    BY <2>1, <2>2, <2>3
<1> QED
  BY <1>6, <1>7, <1>8, <1>9, <1>10

LEMMA ReadDirInv ==
  ASSUME WatcherInv, NEW d \in Dirs, ReadDir(d)
  PROVE  WatcherInv'
<1> USE DEF WatcherInv, WatcherTypeOK, ReadDir, diskVars, qtVars
<1>1. WatcherTypeOK'
  OBVIOUS
<1>2. WatchIsTrue' /\ DefaultIsWatched'
  BY DEF WatchIsTrue, DefaultIsWatched
<1>3. \A e \in Dirs : list'[e] = IF e = d THEN files[e] ELSE list[e]
  OBVIOUS
<1>4. Constructing'
  BY <1>3 DEF Constructing
<1>5. StaleIsDue'
  BY <1>3 DEF StaleIsDue, LostPath
<1> QED
  BY <1>1, <1>2, <1>4, <1>5

LEMMA StartWatcherInv ==
  ASSUME WatcherInv, StartWatcher
  PROVE  WatcherInv'
<1> USE DEF StartWatcher
<1>1. WatcherTypeOK'
  BY Setup DEF WatcherInv, WatcherTypeOK
<1>2. WatchIsTrue' /\ DefaultIsWatched'
  BY Setup DEF WatchIsTrue, DefaultIsWatched
<1>3. Constructing' /\ StaleIsDue'
  BY Setup DEF WatcherInv, Constructing, StaleIsDue
<1> QED
  BY <1>1, <1>2, <1>3 DEF WatcherInv

LEMMA DirectoryChangedInv ==
  ASSUME WatcherInv, NEW d \in Dirs, DirectoryChanged(d)
  PROVE  WatcherInv'
<1> USE DEF WatcherInv, DirectoryChanged, diskVars
<1>1. WatcherTypeOK'
  BY DEF WatcherTypeOK
<1>2. \A e \in Dirs : watch'[e] = IF e = d /\ d \in deleted THEN 0 ELSE watch[e]
  BY DEF WatcherTypeOK
<1>3. WatchIsTrue'
  BY <1>2 DEF WatchIsTrue
<1> QED
  BY <1>1, <1>3 DEF DefaultIsWatched, Constructing, StaleIsDue

LEMMA TimeoutInv ==
  ASSUME WatcherInv, onVpnProfilesRefreshTimeout
  PROVE  WatcherInv'
<1> USE DEF onVpnProfilesRefreshTimeout
<1>1. WatcherTypeOK'
  BY Setup DEF WatcherInv, WatcherTypeOK
<1>2. WatchIsTrue' /\ DefaultIsWatched'
  BY Setup DEF WatchIsTrue, DefaultIsWatched
<1> QED
  BY <1>1, <1>2 DEF WatcherInv, Constructing, StaleIsDue

LEMMA RefreshInv ==
  ASSUME WatcherInv, Refresh
  PROVE  WatcherInv'
<1> USE DEF WatcherInv, Refresh, MakeDefaultDirs, initMainConf
<1>1. WatcherTypeOK'
  <2>1. /\ inode' \in [Dirs -> Nat] /\ next' \in Nat \ {0}
        /\ \A d \in Dirs : inode'[d] < next' /\ watch[d] < next'
    BY DEF WatcherTypeOK
  <2> QED
    BY <2>1 DEF WatcherTypeOK
<1>2. WatchIsTrue'
  BY DEF WatchIsTrue, WatcherTypeOK
<1>3. DefaultIsWatched' /\ Constructing'
  BY DEF DefaultIsWatched, Constructing
<1>4. StaleIsDue'
  BY DEF StaleIsDue, LostPath
<1> QED
  BY <1>1, <1>2, <1>3, <1>4

-----------------------------------------------------------------------------
LEMMA WatcherNextInv == WatcherInv /\ [Next]_vars => WatcherInv'
<1> SUFFICES ASSUME WatcherInv, [Next]_vars PROVE WatcherInv'
  OBVIOUS
<1>1. CASE \E d \in Dirs : OtherProgram(d) \/ ReadDir(d) \/ DirectoryChanged(d)
  BY <1>1, OtherProgramInv, ReadDirInv, DirectoryChangedInv
<1>2. CASE StartWatcher \/ onVpnProfilesRefreshTimeout \/ Refresh
  BY <1>2, StartWatcherInv, TimeoutInv, RefreshInv
<1>3. CASE UNCHANGED vars
  BY <1>3 DEF vars, diskVars, qtVars, guiVars, WatcherInv, WatcherTypeOK,
              WatchIsTrue, DefaultIsWatched, Constructing, StaleIsDue, LostPath
<1> QED
  BY <1>1, <1>2, <1>3 DEF Next

\* The inductive invariant of the watcher.
THEOREM WatcherInvariant == Spec => []WatcherInv
<1> QED
  BY WatcherInitInv, WatcherNextInv, PTL DEF Spec

\* Type correctness, with every event coming from a path that is watched.
THEOREM WatcherTypeCorrect == Spec => []WatcherTypeOK
<1>1. WatcherInv => WatcherTypeOK
  BY DEF WatcherInv
<1> QED
  BY <1>1, WatcherInvariant, PTL

\* No change of a directory goes unnoticed by the lists of the main window,
\* but for the gap in the constructor and for paths the watcher has lost.
THEOREM ListsAreNotStale == Spec => []StaleIsDue
<1>1. WatcherInv => StaleIsDue
  BY DEF WatcherInv
<1> QED
  BY <1>1, WatcherInvariant, PTL

\* A default directory does not stay unwatched, whatever replaces it.
THEOREM DefaultWatchReturns == Spec => []WatchIsDue
<1>1. WatcherInv => WatchIsDue
  <2> SUFFICES ASSUME WatcherInv, phase = "running", NEW d \in DefaultDirs
               PROVE  \/ watch[d] = inode[d] /\ inode[d] # 0
                      \/ d \in deleted
                      \/ timer
    BY DEF WatchIsDue
  <2>1. d \in Dirs
    BY WatcherAssumption
  <2> QED
    BY <2>1 DEF WatcherInv, WatchIsTrue, DefaultIsWatched
<1> QED
  BY <1>1, WatcherInvariant, PTL
=============================================================================
