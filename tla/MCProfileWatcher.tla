--------------------------- MODULE MCProfileWatcher ---------------------------
(***************************************************************************)
(* A directory at its default path and one at a path of the user's own;    *)
(* four changes, which are enough for one to be removed, made again and   *)
(* then changed.                                                           *)
(***************************************************************************)
EXTENDS ProfileWatcher

CONSTANTS local, custom, f

MCDirs == {local, custom}
MCDefaultDirs == {local}
MCFiles == {f}
=============================================================================
