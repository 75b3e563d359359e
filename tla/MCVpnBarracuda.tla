--------------------------- MODULE MCVpnBarracuda ---------------------------
(***************************************************************************)
(* Two Barracuda profiles, one of which asks for a token, and three        *)
(* starts: two of one profile inside each other, and one of the other.     *)
(***************************************************************************)
EXTENDS VpnBarracuda

CONSTANTS p, q

MCNames == {p, q}
MCOtpNames == {p}
=============================================================================
