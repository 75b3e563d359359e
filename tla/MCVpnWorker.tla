----------------------------- MODULE MCVpnWorker -----------------------------
(***************************************************************************)
(* Bounds for VpnWorker: the six rounds of the SAML wait the code has, and *)
(* up to two split routes per configuration, so that a stale index after   *)
(* a reconnect differs from a fresh one in more than being non-zero.       *)
(***************************************************************************)
EXTENDS VpnWorker

MCSamlRounds == 6
MCMaxSplit == 2
=============================================================================
