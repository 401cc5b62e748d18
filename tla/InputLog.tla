------------------------------ MODULE InputLog ------------------------------
(***************************************************************************)
(* What a rollback session promises about inputs, with no network in it.   *)
(* Each peer appends to its own list of committed pads of each game, and   *)
(* each holds a transcript of the game: the pairs of pads, frame by frame, *)
(* as far as both have committed and no further.  A transcript grows, has  *)
(* no holes, and is the same on both sides as far as both reach.           *)
(***************************************************************************)
EXTENDS Integers, Sequences

CONSTANTS Pad, Span, MaxGame

VARIABLES
    committed,    \* by peer and game, the pads it has committed
    transcript    \* by peer and game, the pairs it holds, slot 0's pad first

Peers == 0 .. 1
Games == 1 .. MaxGame

Init ==
    /\ committed  = [p \in Peers |-> [g \in Games |-> <<>>]]
    /\ transcript = [p \in Peers |-> [g \in Games |-> <<>>]]

\* The lists of pads that continue s.
Continuations(s) ==
    {t \in UNION {[1 .. n -> Pad] : n \in Len(s) .. (Span - 1)} :
        \A f \in 1 .. Len(s) : t[f] = s[f]}

Commit(p, g) ==
    \E s \in Continuations(committed[p][g]) :
        committed' = [committed EXCEPT ![p][g] = s]

\* The first n pairs of a game.
Pairs(g, n) == [f \in 1 .. n |-> <<committed[0][g][f], committed[1][g][f]>>]

Extend(p, g) ==
    \E n \in Len(transcript[p][g]) .. (Span - 1) :
        /\ \A q \in Peers : n <= Len(committed[q][g])'
        /\ transcript' = [transcript EXCEPT ![p][g] = Pairs(g, n)']

\* A peer commits and extends its transcript; either may be by nothing.
Step(p, g) == Commit(p, g) /\ Extend(p, g)

Next == \E p \in Peers : \E g \in Games : Step(p, g)

Spec == Init /\ [][Next]_<<committed, transcript>>

=============================================================================
