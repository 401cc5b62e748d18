--------------------------- MODULE InputTransport ---------------------------
(***************************************************************************)
(* The input messages of a mu_net session: COMMIT and ACK.  Two peers      *)
(* (player slots 0 and 1) commit one pad per frame, repeat what the other  *)
(* has not acknowledged, and keep what the other committed.                *)
(*                                                                         *)
(* The module holds the state of class InputTransport for both peers, one  *)
(* operator per member function that changes it, and a specification of    *)
(* its own in which the caller is free: it commits, sends, raises the      *)
(* floor and begins further games in any order.  RollbackGame extends it   *)
(* with the caller the program has.                                        *)
(*                                                                         *)
(* The network is a set of messages: a message may be delivered late, out  *)
(* of order, twice, or never.                                              *)
(*                                                                         *)
(* A definition marked "a mutant" is wrong on purpose: a slip the code     *)
(* could have, which one of the properties must catch.  No action uses it. *)
(***************************************************************************)
EXTENDS Integers

CONSTANTS
    Pad,          \* pads (eight bytes each in the code)
    NoPad,        \* the all-zero pad
    MaxHistory,   \* kMaxCommitHistory, frames one COMMIT can carry
    PadRing,      \* kPadRing, frames of pads kept each way
    MaxLead,      \* kMaxRemoteLead, frames past our floor a peer may commit
    Span,         \* kGameFrameSpan, wire numbers of one game
    MaxGame,      \* kMaxSessionGames
    NewestOnly    \* bound: the network holds one COMMIT and one ACK of each sender

ASSUME PadAssumption  == NoPad \in Pad
ASSUME SizeAssumption == /\ MaxHistory \in Nat \ {0}
                         /\ PadRing \in Nat /\ MaxHistory <= PadRing
                         /\ MaxLead \in Nat
                         /\ Span \in Nat /\ Span > 1
                         /\ MaxGame \in Nat \ {0}
                         /\ NewestOnly \in BOOLEAN

Slot     == 0 .. 1
Other(p) == 1 - p
Game     == 1 .. MaxGame
Frame    == 1 .. (Span - 1)

\* What game g's numbers are raised by (and a session that would not raise them).
BaseNotRaised(g) == 0
Base(g)          == (g - 1) * Span

\* Counters of TransportStats that say something went wrong, as a set of those
\* that are not zero.
Fault == {"gap", "conflict", "tooFar", "malformed"}

VARIABLES
    game,           \* the game each peer's transport is reset for (base_)
    localLatest,    \* newest frame committed, by peer and game
    localPad,       \* the pads committed, by peer, game and frame
    remoteLatest,   \* every frame up to here has arrived, by peer and game
    remotePad,      \* the pads received, by peer, game and frame
    peerAck,        \* newest frame of ours the peer has acknowledged
    floor,          \* the finalized frame of the local game
    newestSeen,     \* newest frame any COMMIT of this game named
    checksumFrame,  \* the frame of the checksum that travels with a COMMIT
    remoteChecksumFrame, \* and that of the one received
    stats,          \* the faults counted
    commits,        \* COMMIT messages the network holds
    acks            \* ACK messages it holds

transportVars == <<game, localLatest, localPad, remoteLatest, remotePad, peerAck,
                   floor, newestSeen, checksumFrame, remoteChecksumFrame,
                   stats, commits, acks>>

\* The entries of game[p] are the members of the object; those of earlier games
\* are what it held before reset() and are read by properties only.
Local(p)  == localLatest[p][game[p]]
Remote(p) == remoteLatest[p][game[p]]

Larger(a, b)  == IF a >= b THEN a ELSE b
Smaller(a, b) == IF a <= b THEN a ELSE b

\* Slot f % kPadRing still holds frame f: the last PadRing frames stored do.
InSmallRing(f, latest) == f >= 1 /\ f <= latest /\ f > latest - 1   \* a mutant
InRing(f, latest) == f >= 1 /\ f <= latest /\ f > latest - PadRing

\* An input message for game g is numbered above every frame of earlier games.
InGame(wire, g)         == wire > Base(g) /\ wire - Base(g) < Span
AckInGame(wire, g)      == wire >= Base(g) /\ wire - Base(g) < Span

\* The network when p sends m to it.
Sending(network, p, m) == {n \in network : NewestOnly => n.from # p} \cup {m}

-----------------------------------------------------------------------------
(* Local side *)

\* commit(): the next frame only, never past the game's own wire numbers.
MayCommit(p, f) == f = Local(p) + 1 /\ f < Span

\* A mutant: a frame that was committed before is committed again.
StoreAgain(p, upto, pads) ==
    /\ localLatest' = [localLatest EXCEPT ![p][game[p]] = upto]
    /\ localPad' = [localPad EXCEPT ![p][game[p]] =
           [f \in Frame |-> IF f <= upto THEN pads[f] ELSE @[f]]]

\* Frames Local(p)+1 .. upto are committed with the pads given.
StoreLocal(p, upto, pads) ==
    /\ localLatest' = [localLatest EXCEPT ![p][game[p]] = upto]
    /\ localPad' = [localPad EXCEPT ![p][game[p]] =
           [f \in Frame |-> IF f > Local(p) /\ f <= upto THEN pads[f] ELSE @[f]]]

\* The oldest frame a COMMIT carries, from the newest committed and the newest
\* acknowledged: everything unacknowledged, the newest alone when there is
\* nothing of the kind, at most MaxHistory.
OldestSkipping(latest, acked) ==                               \* a mutant
    Larger(Smaller(acked + 2, latest), latest - MaxHistory + 1)
OldestCarried(latest, acked) ==
    Larger(Smaller(acked + 1, latest), latest - MaxHistory + 1)

\* The last count pads, newest first; a slot that was overwritten goes out as zero.
PadsOldestFirst(p, count) ==                                   \* a mutant
    [k \in 0 .. count - 1 |-> localPad[p][game[p]][Local(p) - count + 1 + k]]
CarriedPads(p, count) ==
    [k \in 0 .. count - 1 |-> IF InRing(Local(p) - k, Local(p))
                               THEN localPad[p][game[p]][Local(p) - k] ELSE NoPad]

\* build_commit()
CommitMessage(p) ==
    LET latest == Local(p)
        count  == latest - OldestCarried(latest, peerAck[p]) + 1
    IN  [from    |-> p,
         frame   |-> Base(game[p]) + latest,
         count   |-> count,
         ckFrame |-> IF checksumFrame[p] > 0 THEN Base(game[p]) + checksumFrame[p] ELSE 0,
         ack     |-> Base(game[p]) + Remote(p),
         pads    |-> CarriedPads(p, count)]

AckMessage(p) == [from |-> p, ack |-> Base(game[p]) + Remote(p)]

-----------------------------------------------------------------------------
(* Remote side: on_message() *)

LimitOfOneSide(p) == floor[p] + (MaxLead + 1) \div 2             \* a mutant
Limit(p) == floor[p] + MaxLead

CommitIsOurs(p, m) == InGame(m.frame, game[p]) /\ AckInGame(m.ack, game[p])

\* What on_commit() refuses before it takes anything.
AckAtNewest(p, m) ==                                           \* a mutant
    \/ m.frame - Base(game[p]) < m.count
    \/ m.ack - Base(game[p]) >= Local(p)
CommitMalformed(p, m) ==
    \/ m.frame - Base(game[p]) < m.count
    \/ m.ack - Base(game[p]) > Local(p)

CommitGap(p, m) == m.frame - Base(game[p]) - m.count + 1 > Remote(p) + 1

\* The newest frame held once m is taken.
TakenThrough(p, m) ==
    IF CommitGap(p, m) THEN Remote(p)
    ELSE Larger(Remote(p), Smaller(m.frame - Base(game[p]), Limit(p)))

CommitFaults(p, m) ==
    LET f == m.frame - Base(game[p])
        conflicting == \E k \in 0 .. m.count - 1 :
                          /\ InRing(f - k, Remote(p))
                          /\ remotePad[p][game[p]][f - k] # m.pads[k]
    IN  IF CommitGap(p, m) THEN {"gap"}
        ELSE (IF conflicting THEN {"conflict"} ELSE {})
             \cup (IF f > Larger(Remote(p), Limit(p)) THEN {"tooFar"} ELSE {})

\* The checksum pair is that of the newest COMMIT.
NewestCommit(p, m) ==
    LET f == m.frame - Base(game[p]) IN f >= newestSeen[p] /\ f <= Limit(p)

\* on_commit() past its checks.  The first commit of a frame stands,
\* and new frames are answered with ACK.
TakeCommit(p, m) ==
    LET g       == game[p]
        f       == m.frame - Base(g)
        through == TakenThrough(p, m)
        newest  == NewestCommit(p, m)
    IN  /\ UNCHANGED <<game, localLatest, localPad, floor, checksumFrame, commits>>
        /\ peerAck' = [peerAck EXCEPT ![p] = Larger(@, m.ack - Base(g))]
        /\ remoteLatest' = [remoteLatest EXCEPT ![p][g] = through]
        /\ remotePad' = [remotePad EXCEPT ![p][g] =
               [h \in Frame |-> IF h > Remote(p) /\ h <= through
                                THEN m.pads[f - h] ELSE @[h]]]
        /\ stats' = [stats EXCEPT ![p] = @ \cup CommitFaults(p, m)]
        /\ remoteChecksumFrame' = IF newest
               THEN [remoteChecksumFrame EXCEPT ![p] =
                       IF m.ckFrame > Base(g) THEN m.ckFrame - Base(g) ELSE 0]
               ELSE remoteChecksumFrame
        /\ newestSeen' = IF newest THEN [newestSeen EXCEPT ![p] = f] ELSE newestSeen
        /\ acks' = IF through > Remote(p) THEN Sending(acks, p, AckMessage(p)') ELSE acks

Refuse(p) ==
    /\ stats' = [stats EXCEPT ![p] = @ \cup {"malformed"}]
    /\ UNCHANGED <<game, localLatest, localPad, remoteLatest, remotePad, peerAck, floor,
                   newestSeen, checksumFrame, remoteChecksumFrame, commits, acks>>

\* A COMMIT of another game is dropped whole: no step of the model.
OnCommit(p, m) ==
    /\ m.from = Other(p)
    /\ CommitIsOurs(p, m)
    /\ IF CommitMalformed(p, m) THEN Refuse(p) ELSE TakeCommit(p, m)

OnAck(p, m) ==
    /\ m.from = Other(p)
    /\ AckInGame(m.ack, game[p])
    /\ IF m.ack - Base(game[p]) > Local(p)
       THEN Refuse(p)
       ELSE /\ peerAck' = [peerAck EXCEPT ![p] = Larger(@, m.ack - Base(game[p]))]
            /\ UNCHANGED <<game, localLatest, localPad, remoteLatest, remotePad, floor,
                           newestSeen, checksumFrame, remoteChecksumFrame, stats,
                           commits, acks>>

-----------------------------------------------------------------------------
(* reset() for the next game of the session: everything counted per game    *)
(* starts over, and the base moves up by one span.                          *)
Reset(p) ==
    /\ game[p] < MaxGame
    /\ game' = [game EXCEPT ![p] = @ + 1]
    /\ peerAck' = [peerAck EXCEPT ![p] = 0]
    /\ floor' = [floor EXCEPT ![p] = 0]
    /\ newestSeen' = [newestSeen EXCEPT ![p] = 0]
    /\ checksumFrame' = [checksumFrame EXCEPT ![p] = 0]
    /\ remoteChecksumFrame' = [remoteChecksumFrame EXCEPT ![p] = 0]
    /\ stats' = [stats EXCEPT ![p] = {}]
    /\ UNCHANGED <<localLatest, localPad, remoteLatest, remotePad, commits, acks>>

TransportInit ==
    /\ game = [p \in Slot |-> 1]
    /\ localLatest  = [p \in Slot |-> [g \in Game |-> 0]]
    /\ remoteLatest = [p \in Slot |-> [g \in Game |-> 0]]
    /\ localPad     = [p \in Slot |-> [g \in Game |-> [f \in Frame |-> NoPad]]]
    /\ remotePad    = [p \in Slot |-> [g \in Game |-> [f \in Frame |-> NoPad]]]
    /\ peerAck = [p \in Slot |-> 0]
    /\ floor   = [p \in Slot |-> 0]
    /\ newestSeen = [p \in Slot |-> 0]
    /\ checksumFrame = [p \in Slot |-> 0]
    /\ remoteChecksumFrame = [p \in Slot |-> 0]
    /\ stats = [p \in Slot |-> {}]
    /\ commits = {}
    /\ acks = {}

-----------------------------------------------------------------------------
(* The transport under a caller that is free to call anything in any order  *)

Commit(p) ==
    /\ MayCommit(p, Local(p) + 1)
    /\ \E pad \in Pad : StoreLocal(p, Local(p) + 1, [f \in Frame |-> pad])
    /\ UNCHANGED <<game, remoteLatest, remotePad, peerAck, floor, newestSeen,
                   checksumFrame, remoteChecksumFrame, stats, commits, acks>>

Send(p) ==
    /\ Local(p) >= 1
    /\ commits' = Sending(commits, p, CommitMessage(p))
    /\ UNCHANGED <<game, localLatest, localPad, remoteLatest, remotePad, peerAck, floor,
                   newestSeen, checksumFrame, remoteChecksumFrame, stats, acks>>

\* set_floor() only ever raises it.
SetFloor(p) ==
    /\ \E f \in Frame : f > floor[p] /\ floor' = [floor EXCEPT ![p] = f]
    /\ UNCHANGED <<game, localLatest, localPad, remoteLatest, remotePad, peerAck,
                   newestSeen, checksumFrame, remoteChecksumFrame, stats, commits, acks>>

SetChecksum(p) ==
    /\ \E f \in 0 .. floor[p] : checksumFrame' = [checksumFrame EXCEPT ![p] = f]
    /\ UNCHANGED <<game, localLatest, localPad, remoteLatest, remotePad, peerAck, floor,
                   newestSeen, remoteChecksumFrame, stats, commits, acks>>

\* The network loses a message for good.  (Where this action is not part of the
\* next-state relation, a lost message is one that is never received.)
Lose == /\ \/ \E m \in commits : commits' = commits \ {m} /\ acks' = acks
           \/ \E m \in acks : acks' = acks \ {m} /\ commits' = commits
        /\ UNCHANGED <<game, localLatest, localPad, remoteLatest, remotePad, peerAck, floor,
                       newestSeen, checksumFrame, remoteChecksumFrame, stats>>

Receive(p) == \/ \E m \in commits : OnCommit(p, m)
              \/ \E m \in acks : OnAck(p, m)

TransportNext == \E p \in Slot : \/ Commit(p)  \/ Send(p)  \/ SetFloor(p)
                                 \/ SetChecksum(p) \/ Receive(p) \/ Reset(p)

TransportSpec == TransportInit /\ [][TransportNext]_transportVars

-----------------------------------------------------------------------------
(* Properties *)

MessageOK(m) ==
    /\ m.from \in Slot
    /\ m.frame \in Nat /\ m.count \in 1 .. MaxHistory
    /\ m.ckFrame \in Nat /\ m.ack \in Nat
    /\ m.pads \in [0 .. m.count - 1 -> Pad]

StateTypeOK ==
    /\ game \in [Slot -> Game]
    /\ localLatest  \in [Slot -> [Game -> 0 .. Span - 1]]
    /\ remoteLatest \in [Slot -> [Game -> 0 .. Span - 1]]
    /\ localPad     \in [Slot -> [Game -> [Frame -> Pad]]]
    /\ remotePad    \in [Slot -> [Game -> [Frame -> Pad]]]
    /\ peerAck \in [Slot -> 0 .. Span - 1]
    /\ floor \in [Slot -> 0 .. Span - 1]
    /\ newestSeen \in [Slot -> 0 .. Span - 1]
    /\ checksumFrame \in [Slot -> 0 .. Span - 1]
    /\ remoteChecksumFrame \in [Slot -> 0 .. Span - 1]
    /\ stats \in [Slot -> SUBSET Fault]

\* The values each member and each message field can take; the only property
\* that is about types.
TransportTypeOK ==
    /\ StateTypeOK
    /\ \A m \in commits : MessageOK(m)
    /\ \A m \in acks : m.from \in Slot /\ m.ack \in Nat

\* Whatever is lost, repeated or reordered, and however far one peer is ahead
\* in the series, every pad a peer holds for a frame of a game is the pad the
\* other committed for that frame of that game (on_commit, lines 131-215).
PadAgreement ==
    \A p \in Slot : \A g \in Game :
        /\ remoteLatest[p][g] <= localLatest[Other(p)][g]
        /\ \A f \in Frame : f <= remoteLatest[p][g] =>
               remotePad[p][g][f] = localPad[Other(p)][g][f]

\* An acknowledgment never runs ahead of what the other side of the same game
\* holds, so a COMMIT may leave out what it leaves out (lines 71, 160, 237).
AckSound == \A p \in Slot : peerAck[p] <= remoteLatest[Other(p)][game[p]]

\* Two peers running this code never count a conflict or a malformed message
\* against each other (lines 155, 175, 236).
NoFalseFault == \A p \in Slot : stats[p] \cap {"conflict", "malformed"} = {}

\* What is committed and what is confirmed only ever grows.
Grows ==
    \A p \in Slot : \A g \in Game :
        /\ localLatest[p][g] <= localLatest'[p][g]
        /\ remoteLatest[p][g] <= remoteLatest'[p][g]
        /\ \A f \in Frame :
              /\ f <= localLatest[p][g] => localPad'[p][g][f] = localPad[p][g][f]
              /\ f <= remoteLatest[p][g] => remotePad'[p][g][f] = remotePad[p][g][f]

\* Nothing that was committed, and nothing that was taken as confirmed, is ever
\* changed or given up by a later call or message (lines 50-59, 171-184).
FirstCommitStands == [][Grows]_transportVars

=============================================================================
