--------------------------- MODULE RollbackEngine ---------------------------
(***************************************************************************)
(* The rollback engine of the native game (sourceport/game/shim/           *)
(* mu_online.c), driven by the engine loop of the game and by the pad      *)
(* alarm.                                                                  *)
(*                                                                         *)
(* The alarm asks the host for one online frame: it gives the local pad    *)
(* and gets a window of the other player's pads, skips the frame, or       *)
(* queues a sample, the other player's pad guessed where it has not come.  *)
(* The loop takes a queued sample per engine body.  When a pad that comes  *)
(* was guessed wrong, the engine loads the state kept for that frame and   *)
(* runs every frame since again without drawing.                           *)
(*                                                                         *)
(* The state of the game is what it was computed from: the samples its     *)
(* bodies took, so that past has as many elements as the frame counter     *)
(* says.  The pad a player gives on a frame is named by the frame, 0 for   *)
(* the zero pad.  The host is the session of RollbackGame, seen from here  *)
(* as a reply of its inputs(); one remote player is modelled, as in it.    *)
(* A game whose other player is gone runs on, on guesses, until it has     *)
(* shown so and its match is over.                                         *)
(*                                                                         *)
(* A definition marked "a mutant" is wrong on purpose: a slip the code     *)
(* could have, which one of the properties must catch.  No action uses it. *)
(***************************************************************************)
EXTENDS Integers, Sequences, FiniteSets

CONSTANTS
    Pad,          \* the other player's pads
    NoPad,        \* the zero pad
    Horizon,      \* ROLLBACK_MAX, which is the host's kRollbackHorizon too
    Delay,        \* the input delay
    SyncFrame,    \* START_SYNC_FRAME, before which every pad sent is zero
    AdvanceEvery, \* the host asks for an extra frame on these frames only
    EndFrom,      \* the match ends once KillPad is pressed on this frame or later
    KillPad,
    EarlyAt,      \* bound: the frames the other player gives an early pad for
    EarlyRollback,\* MELEE_EARLY_ROLLBACK
    MaxBurst,     \* bound: pads that come between two calls
    MaxQueue,     \* bound: samples the alarm leaves waiting
    MaxFrame      \* bound: the last frame asked for

ASSUME EngineAssumption ==
    /\ NoPad \in Pad
    /\ Horizon \in Nat \ {0, 1} /\ Delay \in 1 .. SyncFrame - 1
    /\ SyncFrame \in Nat
    /\ AdvanceEvery \in Nat \ {0, 1}
    /\ EndFrom \in Nat /\ EndFrom >= SyncFrame /\ MaxFrame \in Nat
    /\ EarlyAt \subseteq Nat /\ EarlyRollback \in BOOLEAN
    /\ MaxBurst \in Nat /\ MaxQueue \in Nat \ {0}

LocalInputs == 2 * Horizon       \* LOCAL_INPUTS_COUNT
Predictions == 2 * Horizon       \* PREDICTED_INPUTS_COUNT
Checksums   == 3 * Horizon       \* DESYNC_ENTRIES
Slots       == Horizon           \* ROLLBACK_MAX_FRAMES, the states the host keeps


VARIABLES
    mu,     \* mu_online, which no savestate holds
    past,   \* the samples taken so far: the state of the game
    queue,  \* the raw pad queue
    saves,  \* the host's savestates: the state kept for a frame
    held,   \* the pads of the other player the host holds, from frame 1
    at,     \* where the engine loop is, and the bodies it still has to run
    cut,    \* the frame of the game's past whose body cut the match short, if one did
    outrun  \* history: a body ran a frame that had been found wrong before it began

vars == <<mu, past, queue, saves, held, at, cut, outrun>>

NoReply == [latest |-> 0, pads |-> <<>>, target |-> 0, early |-> NoPad]

Smaller(a, b) == IF a < b THEN a ELSE b
Larger(a, b)  == IF a < b THEN b ELSE a

-----------------------------------------------------------------------------
(* The reply of the host *)

\* A pad of the fixed part of the reply: zero outside the window.
Confirmed(rx, f) == IF f \in DOMAIN rx.pads THEN rx.pads[f] ELSE NoPad

\* RollbackGame!WindowBase and WindowLatest, of n pads held.
Base(n, floor) == IF n < 1 THEN 0 ELSE Smaller(Larger(floor, 1), n)
Newest(n, floor) == IF n < 1 THEN 0 ELSE Smaller(n, Base(n, floor) + Horizon - 1)

\* Every pad is zero until the other game, too, has come to SyncFrame.
PadOf(f) == IF f < SyncFrame THEN {NoPad} ELSE Pad

\* What may have come since the last call.
Arrivals(got) ==
    {more \in UNION {[1 .. n -> Pad] : n \in 0 .. MaxBurst} :
        /\ Len(got) + Len(more) <= MaxFrame
        /\ \A i \in 1 .. Len(more) : more[i] \in PadOf(Len(got) + i)}

\* The replies to frame f.  The host holds a frame back when it must, and when it sheds
\* one for time sync.  Once the other player is gone it says so at every call, and no early
\* pad is new.
Replies(f, got, floor, gone) ==
    LET newest == Newest(Len(got), floor)
        shown  == Smaller(newest, f)
        window == [k \in {j \in Base(Len(got), floor) .. shown : j >= 1} |-> got[k]]
        result == IF gone THEN {"disconnected"} ELSE
                  {"skip", "disconnected"} \cup (IF newest < f - Horizon THEN {} ELSE {"normal"})
                  \cup (IF newest < f - Horizon \/ f % AdvanceEvery # 0 THEN {} ELSE {"advance"})
        target == IF gone THEN {0} ELSE {0} \cup (EarlyAt \cap Larger(shown + 1, SyncFrame) .. f)
    IN  {reply \in [result : result, latest : {shown}, pads : {window},
                    target : target, early : Pad] : reply.target = 0 => reply.early = NoPad}

-----------------------------------------------------------------------------
(* The other player's pads: load_opponent_inputs() and check_predictions() *)

\* The newest early pad for a frame after `latest` and not after f.
HasEarly(rx, f) == rx.target > rx.latest /\ rx.target <= f

Guess(rx, f) == IF HasEarly(rx, f) THEN rx.early ELSE Confirmed(rx, rx.latest)

Guesses(m, f)     == f >= SyncFrame - Delay
TheirPad(m, f)    == IF m.rx.latest >= f THEN Confirmed(m.rx, f) ELSE Guess(m.rx, f)
IsGuess(m, f)     == m.rx.latest < f /\ Guesses(m, f)

\* A guess is kept to be compared; the first one opens the frames to be kept.
LoadOpponent(m, f) ==
    IF ~IsGuess(m, f) THEN [m EXCEPT !.finalized = f]
    ELSE IF m.predicting THEN [m EXCEPT !.guesses = Append(@, TheirPad(m, f))]
    ELSE [m EXCEPT !.predicting = TRUE, !.ss = f, !.guesses = <<TheirPad(m, f)>>]

\* How many of the guesses, oldest first, are passed: each that came as guessed, up to
\* the first that has not come, or came differently.
DiffersAt(m, i)  == /\ i < Len(m.guesses) /\ m.ss + i <= m.rx.latest
                    /\ m.ss + i > m.stableFinalized
                    /\ m.guesses[i + 1] # Confirmed(m.rx, m.ss + i)
StopsAt(m, i)    == \/ i = Len(m.guesses)
                    \/ m.rx.latest < m.ss + i
                    \/ m.ss + i <= m.stableFinalized /\ m.rx.latest = m.ss + i
                    \/ DiffersAt(m, i)
Passed(m) == CHOOSE i \in 0 .. Len(m.guesses) :
                 StopsAt(m, i) /\ \A j \in 0 .. i - 1 : ~StopsAt(m, j)

\* An early pad says otherwise than what a frame was run on.
EarlyContradicts(m) ==
    \E i \in 0 .. Len(m.guesses) - 1 :
        HasEarly(m.rx, m.ss + i) /\ m.rx.early # m.guesses[i + 1]

\* A mutant: a frame that is still a guess is taken as finalized.
PassAhead(m) ==
    LET i == Passed(m) IN
    [m EXCEPT !.ss = @ + i, !.guesses = SubSeq(@, i + 1, Len(@)), !.finalized = m.ss + i + 1]

\* The guesses passed are dropped, and the frame to go back to moves up with them.
PassGuesses(m) ==
    LET i == Passed(m) IN
    [m EXCEPT !.ss = @ + i,
              !.guesses = SubSeq(@, i + 1, Len(@)),
              !.finalized = Smaller(m.ss + i, m.rx.latest)]

TriggerRollback(m, f) ==
    [m EXCEPT !.active = TRUE, !.shouldLoad = TRUE, !.endFrame = f, !.frame = f + 1]

\* check_predictions(): what it may leave.  A frame asked for while a rollback waits to
\* be loaded becomes part of it.  A full ring of guesses looks like an empty one.
CheckPredictions(m, f) ==
    IF ~m.predicting THEN {m}
    ELSE LET passed == PassGuesses(m)
             wrong  == m.active \/ DiffersAt(m, Passed(m))
             kept   == IF Len(passed.guesses) \in {0, Predictions}
                       THEN [passed EXCEPT !.predicting = FALSE, !.guesses = <<>>]
                       ELSE passed
         IN  IF wrong THEN {TriggerRollback(passed, f)}
             ELSE {kept} \cup (IF EarlyRollback /\ EarlyContradicts(passed)
                               THEN {TriggerRollback(passed, f)} ELSE {})

-----------------------------------------------------------------------------
(* mu_online_pad_renew() *)

Sample(f, mine, theirs) == [frame |-> f, local |-> mine, remote |-> theirs]

\* The checksum that goes with the finalized frame: that of the frame, if it is kept.
ChecksumOf(m) ==
    LET entries == {i \in 0 .. Checksums - 1 : m.ring[i].frame = m.stableFinalized}
    IN  IF entries = {} THEN m.tx.checksum
        ELSE m.ring[CHOOSE i \in entries : \A j \in entries : i <= j].checksum

SentPad(f) == IF f < SyncFrame - Delay THEN 0 ELSE f

\* The local pad of frame f is the one given Delay frames before.  It is kept for a
\* rollback, and the pad given now takes its place.
DelayPad(m, f) ==
    LET mine == m.delayed[m.delayIdx] IN
    [m EXCEPT !.localInputs[m.localIdx] = mine,
              !.localIdx = (@ + 1) % LocalInputs,
              !.delayed[m.delayIdx] = SentPad(f),
              !.delayIdx = (@ + 1) % Delay]

\* One call to the host, and what it leaves: the bookkeeping and the samples queued.
Renew(m, q, reply) ==
    LET f    == m.frame
        rx   == [k \in DOMAIN NoReply |-> reply[k]]
        sent == [m EXCEPT !.tx = [frame |-> m.stableFinalized, checksum |-> ChecksumOf(m)],
                          !.rx = rx, !.disconnected = @ \/ reply.result = "disconnected"]
        mine == m.delayed[m.delayIdx]
    IN  IF reply.result = "skip" THEN {[mu |-> sent, queue |-> q]}
        ELSE {IF n.active THEN [mu |-> n, queue |-> q]
              ELSE [mu |-> [LoadOpponent(n, f) EXCEPT !.frame = f + 1],
                    queue |-> Append(q, Sample(f, mine, TheirPad(n, f)))] :
                 n \in CheckPredictions(DelayPad(sent, f), f)}

\* During a rollback the pads come from history.
LocalAgain(m, f) ==
    LET i == m.localIdx - (m.endFrame - f + 1)
    IN  m.localInputs[IF i < 0 THEN i + LocalInputs ELSE i]

RenewAgain(m, q) ==
    LET f == m.frame IN
    IF f > m.endFrame THEN [mu |-> m, queue |-> q]
    ELSE [mu |-> [LoadOpponent(m, f) EXCEPT !.frame = f + 1],
          queue |-> Append(q, Sample(f, LocalAgain(m, f), TheirPad(m, f)))]

-----------------------------------------------------------------------------
(* The pad alarm *)

\* What a call to the host may leave, and whether it is to be asked again.
Called(m, q, h) ==
    UNION {UNION {{[mu |-> n.mu, queue |-> n.queue, held |-> h \o more,
                    again |-> reply.result = "advance"] : n \in Renew(m, q, reply)} :
                  reply \in Replies(m.frame, h \o more, m.stableFinalized, m.disconnected)} :
           more \in IF m.disconnected THEN {<<>>} ELSE Arrivals(h)}

\* fn_800195FC(): an extra frame takes a second sample.
Fetched(m) == UNION {IF c.again THEN Called(c.mu, c.queue, c.held) ELSE {c} :
                        c \in Called(m, queue, held)}

Fetch(m) == \E c \in Fetched(m) : mu' = c.mu /\ queue' = c.queue /\ held' = c.held

MayAsk == mu.frame <= MaxFrame /\ Len(queue) < MaxQueue

\* What a game does after it reported its match as over is left out; so is what it does after
\* a body outran a rollback, from when on its frames are not those of the other game, and
\* after it has shown that the other player is gone, when it runs on until it is over.
Playing == ~mu.over /\ ~outrun /\ ~(mu.displayed /\ ~mu.active /\ at.where = "wait")

\* The alarm fires where the game polls the host: in the pad wait, between it and the first
\* body, and in a body that waits for the disc.  A rollback holds it up.  Body 0 takes a
\* sample from before the match, so that there is one before the first pad of the match is
\* asked for.
Alarm ==
    /\ Playing
    /\ \/ /\ mu.active
          /\ mu' = [mu EXCEPT !.force = TRUE]
          /\ UNCHANGED <<queue, held>>
       \/ /\ ~mu.started /\ queue = <<>>
          /\ queue' = <<Sample(0, 0, NoPad)>>
          /\ UNCHANGED <<mu, held>>
       \/ /\ ~mu.active /\ (mu.started \/ queue # <<>>)
          /\ MayAsk /\ Fetch(mu)
    /\ UNCHANGED <<past, saves, at, cut, outrun>>

-----------------------------------------------------------------------------
(* The engine loop *)

\* A mutant: the pad wait stays for a sample during a rollback too.
WaitsForSample == queue = <<>>

\* The pad wait: a rollback runs the engine without a sample, and a pad the alarm had to
\* leave is asked for once the rollback is done.
Waits == queue = <<>> /\ ~mu.active

AskLate ==
    /\ Playing /\ at.where = "wait" /\ Waits /\ mu.force
    /\ MayAsk /\ Fetch([mu EXCEPT !.force = FALSE])
    /\ UNCHANGED <<past, saves, at, cut, outrun>>

RunEngine ==
    /\ Playing /\ at.where = "wait" /\ ~Waits
    /\ at' = [where |-> "begin", left |-> Larger(Len(queue), 1)]
    /\ mu' = [mu EXCEPT !.stable = mu.active]
    /\ UNCHANGED <<past, queue, saves, held, cut, outrun>>

\* What a rollback does at the top of a body: the game goes back to the frame it is for,
\* unless it has not come to it yet, and the samples queued are dropped.
GoesBack == mu.stable /\ mu.shouldLoad /\ Len(past) >= mu.ss
Loads    == GoesBack /\ Len(past) > mu.ss
Restores == Loads /\ mu.ss \in DOMAIN saves
Loaded   == IF Restores THEN saves[mu.ss] ELSE past
Freed    == IF Restores THEN <<>> ELSE saves

\* The first body since the other player was gone shows it and cuts the match short, in
\* the state of the game as it is before a rollback loads another.
Displays == mu.disconnected /\ ~mu.displayed
Cut      == {f \in (IF Displays THEN cut \cup {Len(past)} ELSE cut) : Restores => f <= mu.ss}

\* A mutant: the samples queued outlive the rollback.
WentBackAlone ==
    IF ~GoesBack THEN [mu |-> mu, queue |-> queue]
    ELSE [mu |-> [mu EXCEPT !.frame = mu.ss, !.shouldLoad = FALSE,
                            !.predicting = FALSE, !.guesses = <<>>],
          queue |-> queue]

WentBack ==
    IF ~GoesBack THEN [mu |-> mu, queue |-> queue]
    ELSE [mu |-> [mu EXCEPT !.frame = mu.ss, !.shouldLoad = FALSE,
                            !.predicting = FALSE, !.guesses = <<>>],
          queue |-> <<>>]

RollbackPads ==
    IF mu.stable /\ (GoesBack \/ ~mu.shouldLoad)
    THEN RenewAgain(WentBack.mu, WentBack.queue) ELSE WentBack

\* The stable finalized frame never runs ahead of the frame being processed.
Settle(m, f) == [m EXCEPT !.stableFinalized = Larger(@, Smaller(f, m.finalized))]

\* The checksum of the state a frame begins with, over the one of an earlier run of it.
RingSlot(m, f) == (m.ringIdx + f - (m.ringLast + 1)) % Checksums
WriteChecksum(m, f, state) ==
    [m EXCEPT !.ring[RingSlot(m, f)] = [frame |-> f, checksum |-> state],
              !.ringIdx = IF f > m.ringLast THEN (@ + 1) % Checksums ELSE @,
              !.ringLast = Larger(@, f)]

\* A mutant: no state makes room for a new one.
CaptureMore(kept, f, state) ==
    [g \in DOMAIN kept \cup {f} |-> IF g = f THEN state ELSE kept[g]]

\* CMD_CAPTURE_SAVESTATE: a state kept for the same frame goes, or else the oldest one
\* when all are taken.
Capture(kept, f, state) ==
    LET oldest == {g \in DOMAIN kept : \A h \in DOMAIN kept : g <= h}
        stay   == IF f \in DOMAIN kept \/ Cardinality(DOMAIN kept) < Slots THEN DOMAIN kept
                  ELSE DOMAIN kept \ oldest
    IN  [g \in stay \cup {f} |-> IF g = f THEN state ELSE kept[g]]

\* A mutant: only the first guessed frame is kept.
CapturesFirst(m, f) == m.predicting /\ f = m.ss

Captures(m, f) == m.predicting /\ f > m.stableFinalized

\* The match is over once it has stayed over, or cut short, past the rollback window.
MatchEnded(state) ==
    \E i \in 1 .. Len(state) : state[i].frame >= EndFrom /\ state[i].remote = KillPad
SeeEndAtOnce(m, f, state) ==   \* A mutant: it is over as soon as it is seen over.
    IF ~MatchEnded(state) /\ Cut = {} THEN [m EXCEPT !.endSeen = 0]
    ELSE LET since == IF m.endSeen = 0 THEN f ELSE m.endSeen
         IN  [m EXCEPT !.endSeen = since, !.over = f >= since]
SeeEnd(m, f, state) ==
    IF ~MatchEnded(state) /\ Cut = {} THEN [m EXCEPT !.endSeen = 0]
    ELSE LET since == IF m.endSeen = 0 THEN f ELSE m.endSeen
         IN  [m EXCEPT !.endSeen = since, !.over = f - since > Horizon]

\* A body takes the oldest sample, or the pads it had again when there is none.
Taken(q, state) == IF q = <<>> THEN state[Len(state)] ELSE Head(q)
Rest(q)         == IF q = <<>> THEN q ELSE Tail(q)

\* A rollback was triggered behind the pad wait, and this body still runs the frame whose
\* pad has come since.  It settles the frame, so it does not keep it.
Outruns == mu.shouldLoad /\ ~mu.stable /\ Len(past) = mu.ss /\ mu.ss <= mu.rx.latest

FrameBegin ==
    /\ Playing /\ at.where = "begin"
    /\ LET renewed == RollbackPads
           f       == Len(Loaded)
           settled == Settle([renewed.mu EXCEPT !.started = TRUE,
                                                !.displayed = mu.disconnected], f)
           written == WriteChecksum(settled, f, Loaded)
       IN  /\ mu' = SeeEnd(written, f, Loaded)
           /\ saves' = IF Captures(written, f) THEN Capture(Freed, f, Loaded) ELSE Freed
           /\ past' = Append(Loaded, Taken(renewed.queue, Loaded))
           /\ queue' = Rest(renewed.queue)
    /\ at' = [at EXCEPT !.where = "end"]
    /\ cut' = Cut
    /\ outrun' = (outrun \/ Outruns)
    /\ UNCHANGED held

\* The next body of a rollback follows without a render, and the last one leaves.
FrameEnd ==
    /\ Playing /\ at.where = "end"
    /\ LET again == mu.stable /\ Len(past) - 1 < mu.endFrame
           done  == mu.stable /\ ~again
           left  == Larger(at.left - 1, 0)
       IN  /\ at' = IF again \/ (~done /\ left > 0)
                    THEN [where |-> "begin", left |-> left] ELSE [where |-> "wait", left |-> 0]
           /\ mu' = IF done THEN [mu EXCEPT !.active = FALSE, !.stable = FALSE] ELSE mu
    /\ UNCHANGED <<past, queue, saves, held, cut, outrun>>

-----------------------------------------------------------------------------

NewMu ==
    [started |-> FALSE, disconnected |-> FALSE, displayed |-> FALSE,
     over |-> FALSE, endSeen |-> 0, force |-> FALSE, frame |-> 1, rx |-> NoReply,
     delayed |-> [i \in 0 .. Delay - 1 |-> 0], delayIdx |-> 0,
     localInputs |-> [i \in 0 .. LocalInputs - 1 |-> 0], localIdx |-> 0,
     predicting |-> FALSE, ss |-> 0, guesses |-> <<>>,
     active |-> FALSE, shouldLoad |-> FALSE, endFrame |-> 0, stable |-> FALSE,
     finalized |-> 0, stableFinalized |-> 0,
     ring |-> [i \in 0 .. Checksums - 1 |-> [frame |-> 0, checksum |-> <<>>]],
     ringIdx |-> 0, ringLast |-> 0, tx |-> [frame |-> 0, checksum |-> <<>>]]

\* The engine loop has come to its pad wait, with a sample left by the menus or none.
Init ==
    /\ mu = NewMu
    /\ past = <<>> /\ saves = <<>> /\ held = <<>>
    /\ queue \in {<<>>, <<Sample(0, 0, NoPad)>>}
    /\ at = [where |-> "wait", left |-> 0]
    /\ cut = {} /\ outrun = FALSE

Next == Alarm \/ AskLate \/ RunEngine \/ FrameBegin \/ FrameEnd

\* The engine loop never stops, and the alarm keeps falling due; what comes, and when, is
\* up to the other player.
Spec == Init /\ [][Next]_vars /\ WF_vars(RunEngine) /\ WF_vars(FrameBegin) /\ WF_vars(FrameEnd)

-----------------------------------------------------------------------------
(* Properties *)

\* Types and capacities: the guesses fit the ring they are kept in (which holds one fewer
\* than its length), the states kept fit the slots of the host.
TypeOK ==
    /\ {mu.started, mu.disconnected, mu.displayed, mu.over, mu.force, mu.active,
        mu.shouldLoad, mu.stable, mu.predicting, outrun} \subseteq BOOLEAN
    /\ {mu.ss, mu.finalized, mu.stableFinalized, mu.endFrame, mu.endSeen, mu.ringLast}
           \subseteq 0 .. MaxFrame + 1
    /\ Len(past) <= MaxFrame + 2 /\ Len(queue) <= MaxQueue + 1 /\ Len(held) <= MaxFrame
    /\ at \in [where : {"wait", "begin", "end"}, left : 0 .. MaxQueue + 1]
    /\ Len(mu.guesses) < Predictions \/ mu.disconnected
    /\ Len(mu.guesses) <= Predictions /\ Cardinality(DOMAIN saves) <= Slots
    /\ cut \subseteq 0 .. MaxFrame + 1

\* The remote pads of a state are those the other player gave, on each of its frames.
IsReal(state) == \A i \in 2 .. Len(state) : i - 1 <= Len(held) => state[i].remote = held[i - 1]

\* What is stated of the pads and the states holds as long as the other player is there and
\* no body outran a rollback.
Undisturbed == ~outrun /\ ~mu.disconnected

\* Body N takes pad N: no sample is lost, taken twice or left behind a rollback, and the
\* local pad in it is the one given Delay frames before, however the frame was run.
Mine(f) == IF f - Delay < SyncFrame - Delay THEN 0 ELSE f - Delay
RightPads == Undisturbed =>
    /\ \A i \in 1 .. Len(past) : past[i].frame = i - 1 /\ past[i].local = Mine(i - 1)
    /\ ~mu.shouldLoad => \A i \in 1 .. Len(queue) : queue[i].frame = Len(past) + i - 1

\* The checksums of finalized frames, which are compared and sent, are those of states
\* made of nothing but the pads the other player gave.
ChecksumsReal == Undisturbed =>
    /\ \A i \in 0 .. Checksums - 1 : mu.ring[i].frame <= mu.stableFinalized
                                         => IsReal(mu.ring[i].checksum)
    /\ IsReal(mu.tx.checksum) /\ Len(mu.tx.checksum) = mu.tx.frame

\* The state a rollback loads is kept, is that of its frame on this timeline, and holds
\* no guess that turned out wrong.
LoadFindsState ==
    Undisturbed /\ at.where = "begin" /\ Loads =>
        /\ mu.ss \in DOMAIN saves
        /\ saves[mu.ss] = SubSeq(past, 1, mu.ss)
        /\ IsReal(saves[mu.ss])

\* A match is reported as over only when every pad that ended it has come: no guess of
\* what the other player pressed ends a match.
EndIsReal ==
    Undisturbed /\ mu.over =>
        Len(held) >= mu.endSeen - 1 /\ IsReal(SubSeq(past, 1, mu.endSeen))

\* A rollback comes to its end, though it holds the alarm up and no sample is left to run.
RollbackEnds == mu.active ~> ~mu.active \/ mu.over \/ outrun

-----------------------------------------------------------------------------
(* What the code does not keep, README section 7 *)

\* A frame that was run on a wrong guess is kept when its body has run: not where the pad
\* came behind the pad wait (Outruns).
GuessesKept ==
    at.where = "end" => \A f \in {Len(past) - 1} \cap DOMAIN held :
                            past[f + 1].remote # held[f] => f \in DOMAIN saves

\* A match that was shown to be disconnected stays cut short: not where the body that shows
\* it loads the state of a rollback.
CutStays == mu.displayed /\ at.where = "end" => cut # {}

=============================================================================
