-------------------------- MODULE MCSessionSeries ---------------------------
(* Small instances of SessionSeries for TLC. *)
EXTENDS SessionSeries, TLC

Names == Permutations(Setups) \cup Permutations(Pools)

TwoGames == [p \in Slot |-> 2]

=============================================================================
