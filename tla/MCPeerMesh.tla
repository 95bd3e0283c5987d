----------------------------- MODULE MCPeerMesh -----------------------------
(* Two calls between two users; three screens, candidates or departures are enough for a screen to
   come up while offers cross, to stop before it is seen, and for a candidate to outlive its call. *)
EXTENDS PeerMesh
=============================================================================
