---------------------------- MODULE RollbackGame ----------------------------
(***************************************************************************)
(* One rollback session while its games are played: what RollbackSession   *)
(* does around the transport for every call of the game (inputs()), for    *)
(* every packet the pump thread takes in (tick()), at the end of a game    *)
(* and at the start of the next.                                           *)
(*                                                                         *)
(* The game itself is outside the repository's src/port: it asks for       *)
(* inputs frame by frame, repeats a frame that was answered "skip", and    *)
(* counts a frame as confirmed once a reply showed it the peer's pad.      *)
(* Clocks are abstracted: a wait may or may not have passed its limit, and *)
(* the time-sync offset may or may not ask for frames to be shed.          *)
(*                                                                         *)
(* A definition marked "a mutant" is wrong on purpose: a slip the code     *)
(* could have, which one of the properties must catch.  No action uses it. *)
(***************************************************************************)
EXTENDS InputTransport

CONSTANTS
    Horizon,      \* kRollbackHorizon, frames the game can roll back
    MaxDelay,     \* kMaxInputDelay
    SyncInterval, \* kSyncInterval, frames between time-sync decisions
    MaxShed,      \* most frames one time-sync decision holds back
    MaxFrame,     \* bound: the game asks for frames 1 .. MaxFrame
    EndFrom,      \* bound: the game may report its end once it asks for this frame
    MayLeave,     \* whether a peer may leave or be lost, and a hold last too long
    Lossy         \* whether the network also forgets messages for good

ASSUME RollbackAssumption ==
    /\ Horizon \in Nat /\ Horizon >= 2
    /\ MaxDelay \in Nat \ {0}
    /\ SyncInterval \in Nat \ {0}
    /\ MaxShed \in Nat
    /\ MaxFrame \in Nat /\ MaxFrame + MaxDelay < Span
    /\ EndFrom \in Nat \ {0}
    /\ MayLeave \in BOOLEAN /\ Lossy \in BOOLEAN

\* The sizes are chosen so that a peer that plays by the stall rule never meets
\* the history limit or the lead limit (44 against 128, 200 and 256 in the code).
ASSUME SizesFit ==
    /\ 2 * (Horizon + MaxDelay) <= MaxHistory
    /\ 2 * (Horizon + MaxDelay) < MaxLead
    /\ MaxLead <= PadRing

VARIABLES
    phase,             \* SessionState from Ready on
    frame,             \* the frame the game asks for next
    confirmed,         \* newest frame the game was shown the peer's pad for
    delay,             \* run.delay
    waiting,           \* run.wait_frames > 0
    shedding,          \* run.shedding
    toShed,            \* run.frames_to_shed
    peerGone,          \* run.peer_gone
    transcriptFrames,  \* run.transcript_frames, by peer and game
    transcriptPad,     \* what went into the transcript for each of them
    transcriptOk       \* run.transcript_ok

runVars == <<phase, frame, confirmed, delay, waiting, shedding, toShed, peerGone>>
transcriptVars == <<transcriptFrames, transcriptPad, transcriptOk>>
vars == <<transportVars, runVars, transcriptVars>>

-----------------------------------------------------------------------------
(* The window of the peer's pads the game is shown *)

WindowFromNewest(held, fl) ==                                  \* a mutant
    IF held < 1 THEN 0 ELSE Larger(held - Horizon + 1, 1)
WindowBase(held, fl) == IF held < 1 THEN 0 ELSE Smaller(Larger(fl, 1), held)

WindowLatest(held, fl) ==
    IF held < 1 THEN 0 ELSE Smaller(held, WindowBase(held, fl) + Horizon - 1)

\* The stall rule.
WaitsLate(f, latest) == latest < f - Horizon - 1               \* a mutant
MustWait(f, latest) == latest < f - Horizon

-----------------------------------------------------------------------------
(* The input transcript *)

\* advance_transcript() from n frames, with l frames committed and r held: every
\* frame both pads are there for, or none when the next one was overwritten.
TranscriptStuck(n, l, r) ==
    n < Smaller(l, r) /\ ~(InRing(n + 1, l) /\ InRing(n + 1, r))

\* Slot 0's pad first on both sides.
PadPair(p, f) == IF p = 0 THEN <<localPad[p][game[p]][f], remotePad[p][game[p]][f]>>
                          ELSE <<remotePad[p][game[p]][f], localPad[p][game[p]][f]>>

\* The frame it comes to.
AllOfOurs(n, l, r)         == Larger(n, l)                     \* a mutant
TranscriptThrough(n, l, r) == Larger(n, Smaller(l, r))

WriteTranscript(p, n, ok) ==
    /\ transcriptFrames' = [transcriptFrames EXCEPT ![p][game[p]] = n]
    /\ transcriptOk' = [transcriptOk EXCEPT ![p] = ok]
    /\ transcriptPad' = [transcriptPad EXCEPT ![p][game[p]] =
           [f \in Frame |-> IF f > transcriptFrames[p][game[p]] /\ f <= n
                            THEN PadPair(p, f)' ELSE @[f]]]

\* advance_transcript() with l frames committed and r held.
AdvanceTranscript(p, l, r) ==
    LET n     == transcriptFrames[p][game[p]]
        stuck == TranscriptStuck(n, l, r)
    IN  IF phase[p]' = "Ready" \/ ~transcriptOk[p]
        THEN UNCHANGED transcriptVars
        ELSE WriteTranscript(p, IF stuck THEN n ELSE TranscriptThrough(n, l, r), ~stuck)

-----------------------------------------------------------------------------
(* inputs() *)

\* The game's delay, taken on the first call and clamped.
DelayUnclamped(p) == IF phase[p] = "Ready" THEN 0 .. MaxDelay + 1 ELSE {delay[p]}   \* a mutant
DelayTaken(p)     == IF phase[p] = "Ready" THEN 1 .. MaxDelay ELSE {delay[p]}

\* commit_local(): the pad of frame f is committed as f + delay; frames jumped
\* over repeat the last pad; a frame already committed stays as it is.
CommitThrough(p, upto, target, pad) ==
    LET last == IF Local(p) = 0 THEN NoPad ELSE localPad[p][game[p]][Local(p)]
    IN  StoreLocal(p, upto, [f \in Frame |-> IF f = target THEN pad ELSE last])

\* The COMMIT of the state the call leaves goes out whether the frame was held
\* or not.
SendUnlessHeld(p) ==                                           \* a mutant
    IF Local(p)' < 1 \/ waiting[p]' THEN UNCHANGED commits
    ELSE commits' = Sending(commits, p, CommitMessage(p)')
SendCommit(p) ==
    IF Local(p)' < 1 THEN UNCHANGED commits
    ELSE commits' = Sending(commits, p, CommitMessage(p)')

\* The first call of a match is begin_match(): the game's delay d is taken, and
\* its first d frames are committed with a neutral pad (held or not).

\* Held for the peer's inputs.  A hold that has lasted past its limit ends the
\* match as disconnected; the first tick of a hold cannot have.
HoldFrame(p, d) ==
    /\ waiting' = [waiting EXCEPT ![p] = TRUE]
    /\ \E expired \in {FALSE, MayLeave /\ waiting[p]} :
           peerGone' = [peerGone EXCEPT ![p] = expired]
    /\ CommitThrough(p, Larger(Local(p), d), 0, NoPad)
    /\ UNCHANGED <<checksumFrame, frame, confirmed, shedding, toShed>>

\* Not held, but time sync gives frames back: one decision every SyncInterval
\* frames, then as many held frames as it asked for.
ShedFrame(p, d) ==
    /\ waiting' = [waiting EXCEPT ![p] = FALSE]
    /\ \/ toShed[p] > 0 /\ toShed' = [toShed EXCEPT ![p] = @ - 1]
       \/ /\ frame[p] % SyncInterval = 0 /\ ~shedding[p]
          /\ \E n \in 1 .. MaxShed : toShed' = [toShed EXCEPT ![p] = n - 1]
    /\ shedding' = [shedding EXCEPT ![p] = TRUE]
    /\ CommitThrough(p, Larger(Local(p), d), 0, NoPad)
    /\ UNCHANGED <<checksumFrame, frame, confirmed, peerGone>>

\* The game runs the frame: its pad is committed, the checksum frame it gave
\* travels with it, and the reply shows it the window.
RunFrame(p, d, pad) ==
    LET target == frame[p] + d
        latest == WindowLatest(Remote(p), floor[p]')
    IN  /\ toShed[p] = 0
        /\ waiting' = [waiting EXCEPT ![p] = FALSE]
        /\ shedding' = [shedding EXCEPT ![p] = FALSE]
        /\ CommitThrough(p, Larger(Local(p), target), target, pad)
        /\ checksumFrame' = [checksumFrame EXCEPT ![p] = confirmed[p]]
        /\ frame' = [frame EXCEPT ![p] = @ + 1]
        /\ confirmed' = [confirmed EXCEPT ![p] = Larger(@, Smaller(latest, frame[p]))]
        /\ UNCHANGED <<toShed, peerGone>>

Inputs(p) ==
    /\ ~peerGone[p]
    /\ frame[p] <= MaxFrame
    /\ floor' = [floor EXCEPT ![p] = Larger(@, confirmed[p])]
    /\ phase' = [phase EXCEPT ![p] = IF @ = "Ready" THEN "Playing" ELSE @]
    /\ UNCHANGED <<game, remoteLatest, remotePad, peerAck, newestSeen,
                   remoteChecksumFrame, stats, acks>>
    /\ \E d \in DelayTaken(p), pad \in Pad :
          /\ delay' = [delay EXCEPT ![p] = d]
          /\ IF MustWait(frame[p], WindowLatest(Remote(p), floor[p]'))
             THEN HoldFrame(p, d)
             ELSE ShedFrame(p, d) \/ RunFrame(p, d, pad)
    /\ SendCommit(p)
    /\ AdvanceTranscript(p, Local(p)', Remote(p))

-----------------------------------------------------------------------------
(* Packets, the pump thread, and the ends of a game *)

\* A tick that takes in one packet.  A poll that takes several at once is several
\* of these steps; it writes the same transcript, since no frame it passes over
\* is overwritten (TranscriptComplete).
Packet(p) ==
    /\ Receive(p)
    /\ UNCHANGED runVars
    /\ AdvanceTranscript(p, Local(p)', Remote(p)')

\* BYE, or the connection is lost.
PeerLeaves(p) ==
    /\ MayLeave /\ phase[p] # "Ready"
    /\ peerGone' = [peerGone EXCEPT ![p] = TRUE]
    /\ UNCHANGED <<transportVars, transcriptVars, phase, frame, confirmed, delay,
                   waiting, shedding, toShed>>

\* on_game_end(): the game has reported its end; it may still ask for inputs.
GameEnd(p) ==
    /\ phase[p] = "Playing" /\ frame[p] >= EndFrom
    /\ phase' = [phase EXCEPT ![p] = "Ended"]
    /\ UNCHANGED <<transportVars, frame, confirmed, delay, waiting, shedding, toShed,
                   peerGone>>
    /\ AdvanceTranscript(p, Local(p), Remote(p))

\* Both have said NEXT for the game after game[p] (module SessionSeries), so the
\* other has reported its end, and may already have begun the next one.
NextAgreed(p) == \/ game[Other(p)] = game[p] /\ phase[Other(p)] = "Ended"
                 \/ game[Other(p)] > game[p]

BeginNext(p) ==
    /\ phase[p] = "Ended" /\ ~peerGone[p] /\ NextAgreed(p)
    /\ Reset(p)
    /\ phase' = [phase EXCEPT ![p] = "Ready"]
    /\ frame' = [frame EXCEPT ![p] = 1]
    /\ confirmed' = [confirmed EXCEPT ![p] = 0]
    /\ delay' = [delay EXCEPT ![p] = 0]
    /\ waiting' = [waiting EXCEPT ![p] = FALSE]
    /\ shedding' = [shedding EXCEPT ![p] = FALSE]
    /\ toShed' = [toShed EXCEPT ![p] = 0]
    /\ transcriptOk' = [transcriptOk EXCEPT ![p] = TRUE]
    /\ UNCHANGED <<peerGone, transcriptFrames, transcriptPad>>

Init ==
    /\ TransportInit
    /\ phase = [p \in Slot |-> "Ready"]
    /\ frame = [p \in Slot |-> 1]
    /\ confirmed = [p \in Slot |-> 0]
    /\ delay = [p \in Slot |-> 0]
    /\ waiting = [p \in Slot |-> FALSE]
    /\ shedding = [p \in Slot |-> FALSE]
    /\ toShed = [p \in Slot |-> 0]
    /\ peerGone = [p \in Slot |-> FALSE]
    /\ transcriptFrames = [p \in Slot |-> [g \in Game |-> 0]]
    /\ transcriptPad = [p \in Slot |-> [g \in Game |-> [f \in Frame |-> <<NoPad, NoPad>>]]]
    /\ transcriptOk = [p \in Slot |-> TRUE]

LosePacket == Lossy /\ Lose /\ UNCHANGED <<runVars, transcriptVars>>

Next == \/ LosePacket
        \/ \E p \in Slot : \/ Inputs(p) \/ Packet(p) \/ PeerLeaves(p)
                           \/ GameEnd(p) \/ BeginNext(p)

Spec == Init /\ [][Next]_vars

\* The game keeps calling, a held frame included; the pump polls every
\* millisecond and the network does not lose every packet of one direction.
Fairness == \A p \in Slot : WF_vars(Inputs(p)) /\ SF_vars(Packet(p))

FairSpec == Spec /\ Fairness

-----------------------------------------------------------------------------
(* Properties *)

Phase == {"Ready", "Playing", "Ended"}

TypeOK ==
    /\ TransportTypeOK
    /\ phase \in [Slot -> Phase]
    /\ frame \in [Slot -> 1 .. MaxFrame + 1]
    /\ confirmed \in [Slot -> 0 .. MaxFrame]
    /\ delay \in [Slot -> 0 .. MaxDelay]
    /\ waiting \in [Slot -> BOOLEAN]
    /\ shedding \in [Slot -> BOOLEAN]
    /\ toShed \in [Slot -> 0 .. MaxShed]
    /\ peerGone \in [Slot -> BOOLEAN]
    /\ transcriptFrames \in [Slot -> [Game -> 0 .. Span - 1]]
    /\ transcriptPad \in [Slot -> [Game -> [Frame -> Pad \X Pad]]]
    /\ transcriptOk \in [Slot -> BOOLEAN]

\* The history of every COMMIT reaches back to what its receiver holds, so no
\* input is ever missing for good: the limit of 128 frames is never what cuts
\* it (build_commit line 75, on_commit line 165).
NoGap == \A p \in Slot : "gap" \notin stats[p]

\* The peer of a game that plays by the stall rule never runs into the limit on
\* frames past the finalized one (on_commit line 178).
NeverTooFarAhead == \A p \in Slot : "tooFar" \notin stats[p]

\* When the peer's pad for the next unconfirmed frame is held, the window the
\* game is shown has it, within the Horizon entries the game can read, however
\* many frames arrived at once (window_base, lines 621-637).
WindowServesNext ==
    \A p \in Slot :
        LET fl     == Larger(floor[p], confirmed[p])
            base   == WindowBase(Remote(p), fl)
            latest == WindowLatest(Remote(p), fl)
            next   == confirmed[p] + 1
        IN  Remote(p) > confirmed[p] =>
                /\ base <= next /\ next <= latest
                /\ latest - next < Horizon
                /\ \A f \in base .. latest : InRing(f, Remote(p))

\* A game never runs a frame it could not roll back from: at most Horizon frames
\* past the newest confirmed one (should_skip, line 643).
WithinRollback == \A p \in Slot : frame[p] - 1 - confirmed[p] <= Horizon

\* The transcript never stops for a pad that was overwritten (line 747).
TranscriptComplete == \A p \in Slot : transcriptOk[p]

\* The session keeps the promise of InputLog: committed pads and transcripts as
\* lists, with the rings, the network and the waits left out.
Log == INSTANCE InputLog WITH
    committed  <- [p \in Slot |-> [g \in Game |->
                     [f \in 1 .. localLatest[p][g] |-> localPad[p][g][f]]]],
    transcript <- [p \in Slot |-> [g \in Game |->
                     [f \in 1 .. transcriptFrames[p][g] |-> transcriptPad[p][g][f]]]]

\* Every step of the session is a step of InputLog, or changes nothing it sees.
ImplementsInputLog == Log!Spec

\* Two games never hold each other for good: whatever is lost, waited for and
\* shed, one reaches its last frame, since a held frame still sends (line 876).
NoMutualStall == <>(\E p \in Slot : frame[p] > MaxFrame)

=============================================================================
