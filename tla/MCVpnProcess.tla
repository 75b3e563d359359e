---------------------------- MODULE MCVpnProcess ----------------------------
(***************************************************************************)
(* Bounds for VpnProcess.  Two SAML rounds are a first and a last one, and *)
(* one split route tells a fresh index from a stale one; MCVpnWorker looks *)
(* at both with larger bounds.                                             *)
(***************************************************************************)
EXTENDS VpnProcess

MCSamlRounds == 2
MCMaxSplit == 1
=============================================================================
