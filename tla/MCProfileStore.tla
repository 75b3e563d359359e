--------------------------- MODULE MCProfileStore ---------------------------
(***************************************************************************)
(* Bounds for ProfileStore: two profiles, so that one can be renamed, or   *)
(* copied, onto the other; one password, there or not.                     *)
(***************************************************************************)
EXTENDS ProfileStore

MCNames == {"p", "q"}
MCSecrets == {"s"}
AllFaults == {"lock", "crash", "again"}
LockOnly == {"lock"}

\* Nothing is claimed of what follows once a move of the key has gone wrong.
KeyNotLost == moves = {}
=============================================================================
