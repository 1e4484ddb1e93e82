------------------------- MODULE MC_AclClassicConnect -------------------------
(***************************************************************************)
(* Model-checking instance of AclClassicConnect: three peers, so that one  *)
(* page is in flight while a second request waits in the pending queue and *)
(* a third device connects in; as many handles as peers.                   *)
(***************************************************************************)
EXTENDS AclClassicConnect

CONSTANTS a1, a2, a3, h1, h2, h3

MC_Addrs == {a1, a2, a3}
MC_Handles == {h1, h2, h3}
\* Two peers and two handles, for the run with every kind of event.
MC_Addrs2 == {a1, a2}
MC_Handles2 == {h1, h2}
\* The peer the client also connects to over LE.
MC_LeAddrs == {a1, a2}
\* The peer whose LE connections the controller reports with the enhanced event.
MC_EnhancedPeers == {a2}
=============================================================================
