---------------------------- MODULE MCVpnManager ----------------------------
(***************************************************************************)
(* Bounds for VpnManager.  Two attempts are two VPNs side by side or one   *)
(* VPN started again; two messages are what coalescing needs.              *)
(***************************************************************************)
EXTENDS VpnManager, TLC

CONSTANTS n1, n2

MCNames == {n1, n2}
OneName == {n1}
NameSymmetry == Permutations(MCNames)
=============================================================================
