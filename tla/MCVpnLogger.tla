---------------------------- MODULE MCVpnLogger ----------------------------
(***************************************************************************)
(* Bounds for VpnLogger: one name started twice, as two names only share   *)
(* the timer.  Four lines are a refused certificate to its end, or an      *)
(* error, the end of that connection and the prompt or the refusal of the  *)
(* next; with a second process they are two for both.  Two lines about a   *)
(* refused certificate pass the limit of what is collected of it, and      *)
(* three are processed at once.                                            *)
(***************************************************************************)
EXTENDS VpnLogger

CONSTANT n1

OneName == {n1}
=============================================================================
