--------------------------- MODULE MCRollbackGame ---------------------------
(* Small instances of RollbackGame for TLC. *)
EXTENDS RollbackGame, FiniteSets

CONSTANTS Blank, A,
          InFlightA, \* most COMMITs of peer 0 the network holds
          InFlightB, \* and of peer 1
          MaxAcks,   \* most ACKs it holds
          LastOfB    \* peer 1 asks for no frame past this one

MCPad == {Blank, A}
MCOnePad == {Blank}

\* A message in the network may be delivered any number of times, and is lost or
\* stays.
SmallNetwork ==
    /\ Cardinality({m \in commits : m.from = 0}) <= InFlightA
    /\ Cardinality({m \in commits : m.from = 1}) <= InFlightB
    /\ Cardinality(acks) <= MaxAcks
    /\ frame[1] <= LastOfB + 1

\* Peer 0 runs a second frame in the first game only, and that game goes no further.
InFirstGame == \A p \in Slot : game[p] = 1 /\ phase[p] # "Ended" /\ ~peerGone[p]
ShortGames  == SmallNetwork /\ (frame[0] <= 2 \/ InFirstGame)

=============================================================================
