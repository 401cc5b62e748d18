--------------------------- MODULE SlippiNetplay ----------------------------
(***************************************************************************)
(* Netplay that speaks Slippi's protocol (runtime/hle/slippi_net.cpp,      *)
(* slippi_netplay_receive.h, and the online frame of slippi_online.cpp):   *)
(* every player sends its pads straight to every other, in packets that    *)
(* repeat what has not been acknowledged.  The frames of each game count   *)
(* from 1, and the messages do not name the game: what separates two games *)
(* is the character selection each player sends in between, reliably and   *)
(* in order, while pads and acknowledgments may be lost or reordered.      *)
(*                                                                         *)
(* What a pad holds is the game it was given in, which only the properties *)
(* read: a receiver sees the frame number.  A player's own queue is an     *)
(* interval of frames.                                                     *)
(*                                                                         *)
(* A definition marked "a mutant" is wrong on purpose: a slip the code     *)
(* could have, which one of the properties must catch.  No action uses it. *)
(***************************************************************************)
EXTENDS Integers, Sequences, FiniteSets

CONSTANTS
    Player,        \* the players of the match
    Horizon,       \* ROLLBACK_MAX_FRAMES
    Delay,         \* the input delay
    MaxCopied,     \* most pads taken from one packet, and most frames kept unacknowledged (128)
    SyncInterval,  \* ONLINE_LOCKSTEP_INTERVAL
    MaxShed,       \* most frames one time sync decision holds
    MaxFrame,      \* bound: the last frame of a game
    MaxGame,       \* bound: games
    InFlight,      \* bound: packets a player has under way to another
    Drops          \* bound: the players whose wait may last seven seconds

\* A game outlasts the frames that can be sent before the other side has begun it.  With a
\* window of one frame two games could wait on each other: the code's is of seven.
ASSUME SlippiAssumption ==
    /\ IsFiniteSet(Player) /\ Cardinality(Player) >= 2
    /\ Horizon \in Nat \ {0, 1} /\ Delay \in Nat \ {0} /\ SyncInterval \in Nat \ {0}
    /\ MaxCopied \in Nat /\ MaxCopied >= 2 * (Horizon + Delay)
    /\ MaxShed \in Nat /\ MaxGame \in Nat /\ InFlight \in Nat \ {0}
    /\ MaxFrame \in Nat /\ MaxFrame - Horizon > 1 + Delay
    /\ Drops \subseteq Player

VARIABLES
    scene,    \* "menu" or "game"
    game,     \* the game played, or played last
    frame,    \* the frame it asks for next
    final,    \* the newest frame it has everyone's pads of
    ready,    \* its own character is selected
    picked,   \* by player, the others whose selection it has
    active,   \* those it has not dropped
    skipping, \* a time sync decision is being carried out,
    toShed,   \* with so many frames still to hold
    mine,     \* local_pad_queue_, oldest and newest frame
    acked,    \* last_frame_acked_, by player and other player
    theirs,   \* remote_pad_queue_: by frame, the game of the pad
    started,  \* remote_game_started_
    pads,     \* the packets under way
    acks,     \* the newest acknowledgment under way, by its sender and receiver; 0 for none
    picks     \* the selections under way, by sender and receiver

gameVars  == <<scene, game, frame, final, ready, active, skipping, toShed>>
queueVars == <<mine, acked, theirs, started>>
netVars   == <<pads, acks, picks>>
vars == <<gameVars, picked, queueVars, netVars>>

Others(p) == Player \ {p}

Smaller(a, b) == IF a < b THEN a ELSE b
Larger(a, b)  == IF a < b THEN b ELSE a
Least(S) == CHOOSE n \in S : \A m \in S : n <= m
Newest(S) == CHOOSE n \in S : \A m \in S : m <= n

None == [f \in {} |-> 0]

Head0(queue) == IF queue = None THEN 0 ELSE Newest(DOMAIN queue)
Oldest(queue) == Least(DOMAIN queue)

-----------------------------------------------------------------------------
(* The menus *)

\* set_match_selections(): a player selects its character, once for each game, and tells
\* everyone.  It takes seconds to do so: nobody is still playing by then, and no packet of the
\* game before is still under way.
LockIn(p) ==
    /\ scene[p] = "menu" /\ ~ready[p] /\ game[p] < MaxGame /\ active[p] = Others(p)
    /\ \A q \in Others(p) : scene[q] = "menu" \/ frame[q] > MaxFrame
    /\ ready' = [ready EXCEPT ![p] = TRUE]
    /\ picks' = [picks EXCEPT ![p] = [q \in Others(p) |-> Append(@[q], TRUE)]]
    /\ pads' = {}
    /\ acks' = [q \in Player |-> [o \in Others(q) |-> 0]]
    /\ UNCHANGED <<scene, game, frame, final, active, skipping, toShed, picked, queueVars>>

\* What a selection makes of the pads held of its sender: those of a game we were in go.
AlwaysCleared(p, q) == None                                    \* a mutant
NeverCleared(p, q)  == theirs[p][q]                            \* a mutant
Cleared(p, q) == IF started[p][q] THEN None ELSE theirs[p][q]

\* A selection of q reaches p, which may be after the first pads of the game it is for.
OnSelections(p, q) ==
    /\ picks[q][p] # <<>>
    /\ picks' = [picks EXCEPT ![q][p] = Tail(@)]
    /\ IF Head(picks[q][p]) THEN picked' = [picked EXCEPT ![p] = @ \cup {q}]
       ELSE UNCHANGED picked
    /\ theirs' = [theirs EXCEPT ![p][q] = Cleared(p, q)]
    /\ started' = [started EXCEPT ![p][q] = FALSE]
    /\ UNCHANGED <<gameVars, mine, acked, pads, acks>>

\* prepare_online_match_state() has found everyone ready.
Begin(p) ==
    /\ scene[p] = "menu" /\ ready[p] /\ picked[p] = Others(p)
    /\ scene' = [scene EXCEPT ![p] = "game"]
    /\ game' = [game EXCEPT ![p] = @ + 1]
    /\ frame' = [frame EXCEPT ![p] = 1]
    /\ final' = [final EXCEPT ![p] = 0]
    /\ UNCHANGED <<ready, active, skipping, toShed, picked, queueVars, netVars>>

GameEnd(p) ==
    /\ scene[p] = "game" /\ frame[p] > MaxFrame
    /\ scene' = [scene EXCEPT ![p] = "menu"]
    /\ UNCHANGED <<game, frame, final, ready, active, skipping, toShed, picked, queueVars, netVars>>

-----------------------------------------------------------------------------
(* handle_online_inputs() *)

\* DropOldRemoteInputs(): the newest pad is kept whatever it is.
Shortened(queue, floor) ==
    [f \in {g \in DOMAIN queue : g >= floor \/ g = Head0(queue)} |-> queue[f]]

\* GetSlippiRemotePad(): the newest frame of the window, which starts at the oldest pad.
Latest(queue) == IF queue = None THEN 0 ELSE Smaller(Head0(queue), Oldest(queue) + Horizon - 1)

LatestOf(p, q) == Latest(Shortened(theirs[p][q], final[p]))

\* should_skip_online_frame()
HoldFirst(p, latest) == latest >= frame[p] - Horizon /\ (frame[p] = 1 => latest >= 1)  \* a mutant
Enough(p, latest) == latest >= frame[p] - Horizon /\ (frame[p] = 2 => latest >= 1)
Behind(p) == {q \in active[p] : ~Enough(p, LatestOf(p, q))}

\* StartSlippiGame(), on the first frame.
AcksAtStart(p) == IF frame[p] = 1 THEN [q \in Others(p) |-> 0] ELSE acked[p]
QueueAtStart(p) == IF frame[p] = 1 THEN [lo |-> 1, hi |-> 0] ELSE mine[p]
StartGame(p) ==
    /\ acked' = [acked EXCEPT ![p] = AcksAtStart(p)]
    /\ ready' = [ready EXCEPT ![p] = @ /\ frame[p] # 1]
    /\ picked' = [picked EXCEPT ![p] = IF frame[p] = 1 THEN {} ELSE @]

\* What of the queue a call sends: all that one of the players left has not acknowledged, the
\* newest frame acknowledged included.
Unacknowledged(p, hi, remaining) ==
    LET acked0 == Least({AcksAtStart(p)[q] : q \in remaining})
    IN  [lo |-> Larger(QueueAtStart(p).lo, Larger(acked0, hi - MaxCopied)), hi |-> hi]

\* The packets under way when p sends to everyone: older ones beyond InFlight are lost.
Sending(p, queue) ==
    LET sent(q) == [from |-> p, to |-> q, game |-> game[p], lo |-> queue.lo, hi |-> queue.hi]
        under(q) == {m \in pads : m.from = p /\ m.to = q} \cup {sent(q)}
    IN  {m \in pads : m.from # p} \cup
        UNION {{m \in under(q) :
                   Cardinality({n \in under(q) : n.hi > m.hi \/ (n.hi = m.hi /\ n.lo > m.lo)}) < InFlight} :
               q \in Others(p)}

\* SendSlippiPad(), whose newest pad is that of frame hi.
SendPad(p, hi, remaining) ==
    LET queue == Unacknowledged(p, hi, remaining)
    IN  /\ mine' = [mine EXCEPT ![p] = queue]
        /\ IF queue.lo > queue.hi THEN UNCHANGED <<pads, started>>
           ELSE /\ pads' = Sending(p, queue)
                /\ started' = [started EXCEPT ![p] = [q \in Others(p) |-> TRUE]]

\* A held frame sends again what is not acknowledged.
SendAgain(p, remaining) == SendPad(p, QueueAtStart(p).hi, remaining)

\* Held for pads.  A wait that has lasted its seven seconds drops the player waited for; with
\* nobody left, nothing is sent.
Hold(p) ==
    /\ Behind(p) # {}
    /\ \E late \in SUBSET {q \in Behind(p) : p \in Drops} :
          /\ active' = [active EXCEPT ![p] = @ \ late]
          /\ IF late = active[p] THEN UNCHANGED <<mine, pads, started>>
             ELSE SendAgain(p, active[p] \ late)
    /\ UNCHANGED <<frame, final, skipping, toShed>>

\* Held for time sync: one decision every SyncInterval frames.
Shed(p) ==
    /\ Behind(p) = {}
    /\ \/ toShed[p] > 0 /\ toShed' = [toShed EXCEPT ![p] = @ - 1]
       \/ /\ frame[p] % SyncInterval = 0 /\ ~skipping[p]
          /\ \E n \in 1 .. MaxShed : toShed' = [toShed EXCEPT ![p] = n - 1]
    /\ skipping' = [skipping EXCEPT ![p] = TRUE]
    /\ SendAgain(p, active[p])
    /\ UNCHANGED <<active, frame, final>>

\* prepare_opponent_inputs(): the newest frame up to this one that everyone's pads are there of.
EveryonesLatest(p) == Smaller(frame[p], Least({LatestOf(p, q) : q \in active[p]}))

\* The frame runs.  Before the first frame's own pad go the zero pads of the delay, in packets
\* of their own which the last one repeats.
Run(p) ==
    /\ Behind(p) = {} /\ toShed[p] = 0
    /\ skipping' = [skipping EXCEPT ![p] = FALSE]
    /\ SendPad(p, frame[p] + Delay, active[p])
    /\ frame' = [frame EXCEPT ![p] = @ + 1]
    /\ final' = [final EXCEPT ![p] = Larger(@, EveryonesLatest(p))]
    /\ UNCHANGED <<active, toShed>>

Inputs(p) ==
    /\ scene[p] = "game" /\ active[p] # {} /\ frame[p] <= MaxFrame
    /\ StartGame(p)
    /\ theirs' = [theirs EXCEPT ![p] = [q \in Others(p) |-> Shortened(@[q], final[p])]]
    /\ Hold(p) \/ Shed(p) \/ Run(p)
    /\ UNCHANGED <<scene, game, acks, picks>>

-----------------------------------------------------------------------------
(* OnData() *)

\* A queue extended to frame hi of game g.
With(queue, hi, g) == [f \in DOMAIN queue \cup (Head0(queue) + 1 .. hi) |->
                          IF f \in DOMAIN queue THEN queue[f] ELSE g]

\* PadInputs(): as many pads as frames are missing; a packet that has fewer is refused.
Missing(p, m) == m.hi - Head0(theirs[p][m.from])
Taken(p, m)   == Missing(p, m) \in 1 .. Smaller(m.hi - m.lo + 1, MaxCopied)

OnPad(p, m) ==
    /\ m.to = p
    /\ pads' = pads \ {m}
    /\ IF Taken(p, m)
       THEN /\ theirs' = [theirs EXCEPT ![p][m.from] = With(@, m.hi, m.game)]
            /\ acks' = [acks EXCEPT ![p][m.from] = Larger(@, m.hi)]
       ELSE UNCHANGED <<theirs, acks>>
    /\ UNCHANGED <<gameVars, picked, mine, acked, started, picks>>

OnAck(p, q) ==
    /\ acks[q][p] > 0
    /\ acks' = [acks EXCEPT ![q][p] = 0]
    /\ acked' = [acked EXCEPT ![p][q] = Larger(@, acks[q][p])]
    /\ UNCHANGED <<gameVars, picked, mine, theirs, started, pads, picks>>

\* A player that was dropped finds its connection closed.
Disconnected(p, q) ==
    /\ q \in active[p] /\ p \notin active[q]
    /\ active' = [active EXCEPT ![p] = @ \ {q}]
    /\ UNCHANGED <<scene, game, frame, final, ready, skipping, toShed, picked, queueVars, netVars>>

\* A packet is lost.  An acknowledgment that never arrives needs no action.
Lose == /\ \E m \in pads : pads' = pads \ {m}
        /\ UNCHANGED <<gameVars, picked, queueVars, acks, picks>>

-----------------------------------------------------------------------------

\* Just connected: everyone has sent its selections as they stood, nothing selected.
Init ==
    /\ scene = [p \in Player |-> "menu"]
    /\ game = [p \in Player |-> 0]
    /\ frame = [p \in Player |-> 1]
    /\ final = [p \in Player |-> 0]
    /\ ready = [p \in Player |-> FALSE]
    /\ picked = [p \in Player |-> {}]
    /\ active = [p \in Player |-> Others(p)]
    /\ skipping = [p \in Player |-> FALSE]
    /\ toShed = [p \in Player |-> 0]
    /\ mine = [p \in Player |-> [lo |-> 1, hi |-> 0]]
    /\ acked = [p \in Player |-> [q \in Others(p) |-> 0]]
    /\ theirs = [p \in Player |-> [q \in Others(p) |-> None]]
    /\ started = [p \in Player |-> [q \in Others(p) |-> FALSE]]
    /\ pads = {}
    /\ acks = [p \in Player |-> [q \in Others(p) |-> 0]]
    /\ picks = [p \in Player |-> [q \in Others(p) |-> <<FALSE>>]]

Next == \/ Lose
        \/ \E p \in Player :
              \/ LockIn(p) \/ Begin(p) \/ Inputs(p) \/ GameEnd(p)
              \/ \E q \in Others(p) : OnSelections(p, q) \/ OnAck(p, q) \/ Disconnected(p, q)
              \/ \E m \in pads : OnPad(p, m)

Spec == Init /\ [][Next]_vars

-----------------------------------------------------------------------------
(* Properties *)

\* A player in a game, as long as it asks for pads, is only ever given pads of that game, from
\* the frame it has everyone's pads of onward: nothing is left of the game before, and nothing
\* is missing in between.  Of a player that was dropped nothing more is needed.
PadsOfThisGame ==
    \A p \in Player : scene[p] = "game" /\ frame[p] <= MaxFrame =>
        \A q \in Others(p) :
            LET queue == theirs[p][q] IN
            /\ \A f \in DOMAIN queue : queue[f] = game[p]
            /\ q \in active[p] /\ final[p] > 0 => final[p] \in DOMAIN queue
            /\ queue # None => DOMAIN queue = Oldest(queue) .. Head0(queue)

\* The pads q will have of p's game, as far as they have come: none while those of the game
\* before are still to be cleared.
HeadOf(q, p) == IF started[q][p] /\ game[q] < game[p] THEN 0 ELSE Head0(theirs[q][p])

\* What was acknowledged is never wanted again, so no packet is refused for ever: a sender
\* keeps every frame the receiver has not got, however late the selections are ("confirmed
\* pads can arrive and be ACKed before our first frame, even before this selection",
\* slippi_netplay_receive.h, lines 9-10), as long as neither has dropped the other.
Joined(p, q) == q \in active[p] /\ p \in active[q]
NothingWantedIsGone ==
    \A p \in Player : \A q \in Others(p) :
        scene[p] = "game" /\ frame[p] \in 2 .. MaxFrame /\ Joined(p, q) =>
            game[q] <= game[p] /\ mine[p].lo <= HeadOf(q, p) + 1

\* "Neither waits on the other forever" (slippi_online.cpp, lines 492-494): when two players of
\* one game are both held for the other's pads, the packet that one of them sends again is
\* taken by the other and frees it.
Again(p, q) ==
    LET queue == Unacknowledged(p, mine[p].hi, active[p])
    IN  [from |-> p, to |-> q, game |-> game[p], lo |-> queue.lo, hi |-> queue.hi]
Frees(p, q) ==
    /\ Taken(q, Again(p, q))
    /\ Enough(q, Latest(Shortened(With(theirs[q][p], mine[p].hi, game[p]), final[q])))
NeitherWaitsForever ==
    \A p \in Player : \A q \in Others(p) :
        /\ scene[p] = "game" /\ scene[q] = "game" /\ game[p] = game[q]
        /\ frame[p] <= MaxFrame /\ frame[q] <= MaxFrame
        /\ q \in Behind(p) /\ p \in Behind(q)
        => Frees(p, q) \/ Frees(q, p)

=============================================================================
