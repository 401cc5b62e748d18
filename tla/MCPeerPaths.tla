---------------------------- MODULE MCPeerPaths -----------------------------
(* Small instances of PeerPaths for TLC: one address dialed by each side. *)
EXTENDS PeerPaths

CONSTANTS a, c

DialerOf == [x \in Path |-> IF x = a THEN 0 ELSE 1]

=============================================================================
