------------------------------- MODULE VpnChild -------------------------------
(***************************************************************************)
(* What the GUI relies on about a VPN process: it appears at the api       *)
(* socket once, says in which state its tunnel is, in an order that makes  *)
(* sense, and ends.  VpnManager lets its children take these steps and no  *)
(* others; VpnProcess, which models the process itself, implements them.   *)
(***************************************************************************)

VARIABLES
  presence,  \* "absent" from the api socket, "running", "ended"
  said       \* the last status it sent, "none" before the first

childVars == <<presence, said>>

ChildInit == presence \in {"absent", "running"} /\ said = "none"

\* A tunnel is connecting before it is anything else, unless the process
\* looks at it too late to see that; once it is down for good, nothing follows.
NextStatus(s) ==
  CASE s = "none" -> {"CONNECTING", "CONNECTED", "DISCONNECTED"}
    [] s = "CONNECTING" -> {"CONNECTED", "DISCONNECTED"}
    [] s = "CONNECTED" -> {"CONNECTING", "DISCONNECTED"}
    [] s = "DISCONNECTED" -> {}

Appear ==
  /\ presence = "absent"
  /\ presence' = "running"
  /\ said' = said

Say ==
  /\ presence = "running"
  /\ said' \in NextStatus(said)
  /\ presence' = presence

End ==
  /\ presence # "ended"
  /\ presence' = "ended"
  /\ said' = said

ChildNext == Appear \/ Say \/ End

ChildSpec == ChildInit /\ [][ChildNext]_childVars
=============================================================================
