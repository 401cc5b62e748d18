------------------------ MODULE SlippiNetplayProofs -------------------------
(***************************************************************************)
(* Proofs about SlippiNetplay, for any number of players, frames and       *)
(* games: the pads a player is given are those of its game, what is still  *)
(* wanted is never gone, and no two players wait on each other for ever.   *)
(*                                                                         *)
(* The argument.  Nothing in a packet names its game, so the invariant says*)
(* which game each player has selected its character for (Selected) and how*)
(* far it has come in it (Stage): no two are more than a game apart, and   *)
(* one that is behind has sent all of its game (Lockstep).  A selection on *)
(* its way, or arrived and not used, is the step from one game to the next,*)
(* and until it comes the pads of the last game are there to be cleared    *)
(* (Picking).  Packets under way are of the game that their sender is in,  *)
(* and that everyone is in or waits for (PadsInPlay); what is held is then *)
(* of the receiver's game or, before its first frame, of the next (Holds). *)
(* That bounds what was acknowledged by what will still be there when the  *)
(* receiver needs it (Acknowledged).  The last two properties also need the*)
(* numbers of the window: who runs frame n holds the others' up to n less  *)
(* the horizon, so nobody lacks more than MaxCopied frames (Lag).          *)
(***************************************************************************)
EXTENDS SlippiNetplay, FiniteSetTheorems, SequenceTheorems, WellFoundedInduction, TLAPS

\* A queue of pads: the frames from its oldest to its newest, none missing.
IsQueue(queue) ==
    /\ queue = [f \in DOMAIN queue |-> queue[f]]
    /\ queue # None =>
          /\ Oldest(queue) \in Nat \ {0} /\ Head0(queue) \in Nat
          /\ Oldest(queue) <= Head0(queue)
          /\ DOMAIN queue = Oldest(queue) .. Head0(queue)

\* The frame counter of a player whose game is over.
Finished == MaxFrame + 1

\* The game a player has selected its character for, or else the one it is in or was in last.
Selected(p) == IF scene[p] = "menu" /\ ready[p] THEN game[p] + 1 ELSE game[p]

\* It sends no more of its game, and has not selected for the next.
Done(p) == IF scene[p] = "menu" THEN ~ready[p] ELSE frame[p] > MaxFrame

\* In a game of which it has run no frame.
AtFirst(p) == scene[p] = "game" /\ frame[p] = 1

Packet == [from : Player, to : Player, game : Nat, lo : Nat \ {0}, hi : Nat]

NetplayTypeOK ==
    /\ scene \in [Player -> {"menu", "game"}]
    /\ game \in [Player -> Nat]
    /\ frame \in [Player -> 1 .. Finished]
    /\ final \in [Player -> Nat]
    /\ ready \in [Player -> BOOLEAN]
    /\ picked \in [Player -> SUBSET Player] /\ \A p \in Player : picked[p] \subseteq Others(p)
    /\ active \in [Player -> SUBSET Player] /\ \A p \in Player : active[p] \subseteq Others(p)
    /\ skipping \in [Player -> BOOLEAN]
    /\ toShed \in [Player -> Nat]
    /\ mine \in [Player -> [lo : Nat \ {0}, hi : Nat]]
    /\ DOMAIN acked = Player /\ \A p \in Player : acked[p] \in [Others(p) -> Nat]
    /\ DOMAIN theirs = Player
    /\ \A p \in Player : /\ DOMAIN theirs[p] = Others(p)
                         /\ \A q \in Others(p) : IsQueue(theirs[p][q])
    /\ DOMAIN started = Player /\ \A p \in Player : started[p] \in [Others(p) -> BOOLEAN]
    /\ pads \subseteq Packet /\ \A m \in pads : m.to # m.from /\ m.lo <= m.hi
    /\ DOMAIN acks = Player /\ \A p \in Player : acks[p] \in [Others(p) -> Nat]
    /\ DOMAIN picks = Player
    /\ \A p \in Player : /\ DOMAIN picks[p] = Others(p)
                         /\ \A q \in Others(p) :
                               picks[p][q] \in {<<>>, <<FALSE>>, <<TRUE>>, <<FALSE, TRUE>>}

\* Where a player stands: what it has selected, sent and been given of its game.
Stage(p) ==
    /\ ready[p] => scene[p] = "menu" \/ frame[p] = 1
    /\ scene[p] = "game" => game[p] > 0
    /\ game[p] = 0 => frame[p] = 1
    /\ scene[p] = "menu" /\ game[p] > 0 => frame[p] = Finished
    /\ AtFirst(p) => final[p] = 0
    /\ frame[p] > 1 => mine[p].hi = frame[p] - 1 + Delay
    /\ final[p] >= frame[p] - 1 - Horizon
Stages == \A p \in Player : Stage(p)

\* Nobody is in a game that another has not selected its character for; whoever's selection is a
\* game behind is done with the last.
Lockstep ==
    \A p \in Player, q \in Player :
        /\ game[p] <= Selected(q)
        /\ Selected(p) > Selected(q) => Done(q)

\* A selection of q for the next game is on its way to p.
Pending(p, q) == picks[q][p] \in {<<TRUE>>, <<FALSE, TRUE>>}

\* What p has of q's selection tells it where q stands: nothing on its way and nothing arrived is
\* the same game, a selection in either place the next.
Picking(p, q) ==
    /\ picks[q][p] \in {<<FALSE>>, <<FALSE, TRUE>>} => game[p] = 0 /\ q \notin picked[p]
    /\ Pending(p, q) => /\ Selected(q) = game[p] + 1 /\ q \notin picked[p]
                        /\ scene[p] = "menu" \/ frame[p] > MaxFrame
    /\ ~Pending(p, q) =>
          Selected(q) = IF q \in picked[p] /\ ~AtFirst(p) THEN game[p] + 1 ELSE game[p]
    /\ started[p][q] <=> frame[p] > 1 /\ q \notin picked[p]
Pickings == \A p \in Player : \A q \in Others(p) : Picking(p, q)

\* p has sent its game's pads up to frame hi.
Sent(p, hi) == frame[p] > 1 /\ hi <= frame[p] - 1 + Delay

\* A game that p has begun and that everyone is in or waits for.
InPlay(p) == frame[p] > 1 /\ \A r \in Player : Selected(r) = game[p]

\* Packets under way are of such a game, and hold what their sender has made.
PadsInPlay == \A m \in pads : /\ InPlay(m.from) /\ m.game = game[m.from]
                              /\ m.hi <= frame[m.from] - 1 + Delay

\* What p holds of q: pads that q has made, all of one game once p is in it, from the frame that
\* p has everyone's pads of to no less than the window behind its own.
Holds(p, q) ==
    LET queue == theirs[p][q] IN
    /\ \A f \in DOMAIN queue :
          /\ queue[f] \in Nat /\ queue[f] <= game[q]
          /\ queue[f] = game[q] => Sent(q, f)
          /\ IF started[p][q] THEN queue[f] >= game[p] /\ queue[f] <= Selected(p)
             ELSE queue[f] = IF AtFirst(p) THEN game[p] ELSE game[p] + 1
    /\ queue # None => /\ ~started[p][q] => Oldest(queue) = 1
                       /\ scene[p] = "game" => Oldest(queue) <= Larger(1, final[p])
    /\ scene[p] = "game" /\ frame[p] <= MaxFrame /\ q \in active[p] => final[p] <= Head0(queue)
    /\ q \in active[p] /\ started[p][q] =>
          /\ Head0(queue) >= frame[p] - 1 - Horizon
          /\ frame[p] > 2 => Head0(queue) > 0
    /\ started[p][q] /\ Selected(p) > game[p] => Head0(queue) >= MaxFrame - Horizon
Queues == \A p \in Player : \A q \in Others(p) : Holds(p, q)

\* What q has acknowledged to p, under way or arrived, q still has when its game begins; and p has
\* kept everything after it.
Acknowledged(p, q) ==
    /\ acks[q][p] > 0 => /\ InPlay(p)
                         /\ Joined(p, q) => acks[q][p] <= HeadOf(q, p)
    /\ scene[p] = "game" /\ frame[p] \in 2 .. MaxFrame /\ Joined(p, q) =>
          /\ acked[p][q] <= HeadOf(q, p)
          /\ mine[p].lo <= HeadOf(q, p) + 1
Acknowledgments == \A p \in Player : \A q \in Others(p) : Acknowledged(p, q)

\* The inductive invariant.
NetplayInv ==
    /\ NetplayTypeOK /\ Stages /\ Lockstep /\ Pickings /\ PadsInPlay /\ Queues /\ Acknowledgments

\* The sizes, without what is said of the players.
LEMMA Sizes ==
    /\ Horizon \in Nat \ {0, 1} /\ Delay \in Nat \ {0} /\ SyncInterval \in Nat \ {0}
    /\ MaxCopied \in Nat /\ MaxCopied >= 2 * (Horizon + Delay)
    /\ MaxShed \in Nat /\ MaxFrame \in Nat /\ MaxFrame - Horizon > 1 + Delay
  BY SlippiAssumption

USE Sizes

-----------------------------------------------------------------------------
(* Least and newest numbers *)

LEMMA LeastOf ==
    ASSUME NEW S \in SUBSET Nat, S # {}
    PROVE  Least(S) \in S /\ \A s \in S : Least(S) <= s
  <1>1. PICK F : F = {0 .. s : s \in S}
    OBVIOUS
  <1>2. F \subseteq FiniteSubsetsOf(Nat)
    <2>1. \A s \in S : IsFiniteSet(0 .. s) /\ 0 .. s \subseteq Nat
      BY FS_Interval
    <2> QED
      BY <1>1, <2>1 DEF FiniteSubsetsOf
  <1>3. F # {}
    BY <1>1
  <1>4. PICK x \in F : \A y \in F : ~ (<<y, x>> \in StrictSubsetOrdering(Nat))
    BY <1>2, <1>3, FS_StrictSubsetOrderingWellFounded, WFMin
  <1>5. PICK t \in S : x = 0 .. t
    BY <1>1
  <1>6. ASSUME NEW s \in S, s < t
        PROVE  FALSE
    <2>1. 0 .. s \in F
      BY <1>1
    <2>2. 0 .. s \subseteq 0 .. t /\ 0 .. s # 0 .. t
      <3>1. t \in 0 .. t /\ t \notin 0 .. s
        BY <1>6
      <3>2. \A i \in 0 .. s : i \in 0 .. t
        BY <1>6
      <3> QED
        BY <3>1, <3>2
    <2>3. <<0 .. s, x>> \in StrictSubsetOrdering(Nat)
      BY <1>2, <1>5, <2>1, <2>2 DEF StrictSubsetOrdering
    <2> QED
      BY <1>4, <2>1, <2>3
  <1>7. \A s \in S : t <= s
    BY <1>6
  <1> QED
    BY <1>5, <1>7 DEF Least

LEMMA EndsOfInterval ==
    ASSUME NEW lo \in Int, NEW hi \in Int, lo <= hi
    PROVE  Least(lo .. hi) = lo /\ Newest(lo .. hi) = hi
  <1>1. lo \in lo .. hi /\ \A m \in lo .. hi : lo <= m
    OBVIOUS
  <1>2. hi \in lo .. hi /\ \A m \in lo .. hi : m <= hi
    OBVIOUS
  <1>3. \A n \in lo .. hi : (\A m \in lo .. hi : n <= m) => n = lo
    BY <1>1
  <1>4. \A n \in lo .. hi : (\A m \in lo .. hi : m <= n) => n = hi
    BY <1>2
  <1> QED
    BY <1>1, <1>2, <1>3, <1>4 DEF Least, Newest

-----------------------------------------------------------------------------
(* Queues *)

LEMMA EmptyQueue ==
    IsQueue(None) /\ DOMAIN None = {} /\ Head0(None) = 0 /\ Latest(None) = 0
  <1>1. DOMAIN None = {} /\ None = [f \in DOMAIN None |-> None[f]]
    BY DEF None
  <1> QED
    BY <1>1 DEF IsQueue, Head0, Latest

LEMMA IntervalQueue ==
    ASSUME NEW lo \in Nat \ {0}, NEW hi \in Nat, lo <= hi, NEW queue,
           queue = [f \in lo .. hi |-> queue[f]]
    PROVE  IsQueue(queue) /\ queue # None /\ Oldest(queue) = lo /\ Head0(queue) = hi
           /\ DOMAIN queue = lo .. hi
  <1>1. DOMAIN queue = lo .. hi
    OBVIOUS
  <1>2. lo \in DOMAIN queue
    BY <1>1
  <1>3. queue # None
    BY <1>2, EmptyQueue
  <1>4. Oldest(queue) = lo /\ Head0(queue) = hi
    BY <1>1, <1>3, EndsOfInterval DEF Oldest, Head0
  <1>5. queue = [f \in DOMAIN queue |-> queue[f]]
    BY <1>1
  <1> QED
    BY <1>1, <1>3, <1>4, <1>5 DEF IsQueue

LEMMA QueueFacts ==
    ASSUME NEW queue, IsQueue(queue)
    PROVE  /\ Head0(queue) \in Nat /\ Latest(queue) \in Nat /\ Latest(queue) <= Head0(queue)
           /\ queue = None <=> Head0(queue) = 0
           /\ queue # None => /\ Oldest(queue) \in Nat \ {0} /\ Oldest(queue) <= Head0(queue)
                              /\ DOMAIN queue = Oldest(queue) .. Head0(queue)
                              /\ Head0(queue) \in DOMAIN queue
  <1>1. CASE queue = None
    BY <1>1, EmptyQueue
  <1>2. CASE queue # None
    BY <1>2 DEF IsQueue, Latest, Smaller
  <1> QED
    BY <1>1, <1>2

LEMMA ShortenedFacts ==
    ASSUME NEW queue, IsQueue(queue), NEW floor \in Nat
    PROVE  LET short == Shortened(queue, floor) IN
           /\ IsQueue(short) /\ Head0(short) = Head0(queue)
           /\ short = None <=> queue = None
           /\ \A f \in DOMAIN short : f \in DOMAIN queue /\ short[f] = queue[f]
           /\ queue # None =>
                 Oldest(short) = Larger(Oldest(queue), Smaller(floor, Head0(queue)))
  <1> DEFINE short == Shortened(queue, floor)
  <1>1. CASE queue = None
    <2>1. DOMAIN short = {}
      BY <1>1, EmptyQueue DEF Shortened
    <2>2. short = None
      BY <1>1, EmptyQueue DEF Shortened, None
    <2> QED
      BY <1>1, <2>2, EmptyQueue
  <1>2. CASE queue # None
    <2> DEFINE lo == Oldest(queue)
               hi == Head0(queue)
               low == Larger(lo, Smaller(floor, hi))
    <2>1. lo \in Nat \ {0} /\ hi \in Nat /\ lo <= hi /\ DOMAIN queue = lo .. hi
      BY <1>2, QueueFacts
    <2> HIDE DEF lo, hi
    <2>2. low \in Nat \ {0} /\ low <= hi
      BY <2>1 DEF Larger, Smaller
    <2>3. {g \in DOMAIN queue : g >= floor \/ g = hi} = low .. hi
      BY <2>1 DEF Larger, Smaller
    <2>4. short = [f \in low .. hi |-> queue[f]]
      BY <2>3 DEF Shortened, hi
    <2>5. IsQueue(short) /\ short # None /\ Oldest(short) = low /\ Head0(short) = hi
      <3> HIDE DEF short, low
      <3>1. short = [f \in low .. hi |-> short[f]]
        BY <2>4
      <3> QED
        BY <2>1, <2>2, <3>1, IntervalQueue
    <2>6. \A f \in DOMAIN short : f \in DOMAIN queue /\ short[f] = queue[f]
      BY DEF Shortened
    <2> QED
      BY <1>2, <2>5, <2>6 DEF lo, hi
  <1> QED
    BY <1>1, <1>2

LEMMA WithFacts ==
    ASSUME NEW queue, IsQueue(queue), NEW hi \in Nat, hi > Head0(queue), NEW g
    PROVE  LET more == With(queue, hi, g) IN
           /\ IsQueue(more) /\ more # None /\ Head0(more) = hi
           /\ Oldest(more) = IF queue = None THEN 1 ELSE Oldest(queue)
           /\ \A f \in DOMAIN more : \/ f \in DOMAIN queue /\ more[f] = queue[f]
                                     \/ f \in Nat /\ f <= hi /\ more[f] = g
  <1> DEFINE more == With(queue, hi, g)
             lo == IF queue = None THEN 1 ELSE Oldest(queue)
  <1>1. lo \in Nat \ {0} /\ lo <= hi /\ DOMAIN queue \cup (Head0(queue) + 1 .. hi) = lo .. hi
    <2>1. CASE queue = None
      BY <2>1, EmptyQueue
    <2>2. CASE queue # None
      BY <2>2, QueueFacts
    <2> QED
      BY <2>1, <2>2
  <1>2. more = [f \in lo .. hi |-> more[f]]
    BY <1>1 DEF With
  <1>3. \A f \in DOMAIN more : \/ f \in DOMAIN queue /\ more[f] = queue[f]
                               \/ f \in Nat /\ f <= hi /\ more[f] = g
    BY QueueFacts DEF With
  <1> HIDE DEF more, lo
  <1>4. IsQueue(more) /\ more # None /\ Oldest(more) = lo /\ Head0(more) = hi
    BY <1>1, <1>2, IntervalQueue
  <1> QED
    BY <1>3, <1>4 DEF more, lo

LEMMA LatestFacts ==
    ASSUME NEW queue, IsQueue(queue), queue # None
    PROVE  Latest(queue) = Smaller(Head0(queue), Oldest(queue) + Horizon - 1)
  BY DEF Latest
-----------------------------------------------------------------------------
(* Consequences *)

\* What may be under way of a player's selections.
LEMMA PickFacts ==
    /\ Append(<<>>, TRUE) = <<TRUE>> /\ Append(<<FALSE>>, TRUE) = <<FALSE, TRUE>>
    /\ Head(<<TRUE>>) = TRUE /\ Tail(<<TRUE>>) = <<>>
    /\ Head(<<FALSE>>) = FALSE /\ Tail(<<FALSE>>) = <<>>
    /\ Head(<<FALSE, TRUE>>) = FALSE /\ Tail(<<FALSE, TRUE>>) = <<TRUE>>
    /\ <<TRUE>> # <<>> /\ <<FALSE>> # <<>> /\ <<FALSE, TRUE>> # <<>>
    /\ <<FALSE>> # <<TRUE>> /\ <<FALSE, TRUE>> # <<TRUE>> /\ <<FALSE, TRUE>> # <<FALSE>>
  <1>1. Append(<<FALSE>>, TRUE) = <<FALSE, TRUE>>
    <2> DEFINE s == Append(<<FALSE>>, TRUE)
               t == <<FALSE, TRUE>>
    <2>1. s \in Seq(BOOLEAN) /\ Len(s) = 2 /\ s[1] = FALSE /\ s[2] = TRUE
      OBVIOUS
    <2>2. t \in Seq(BOOLEAN) /\ Len(t) = 2 /\ t[1] = FALSE /\ t[2] = TRUE
      OBVIOUS
    <2> HIDE DEF s, t
    <2>3. \A i \in 1 .. Len(s) : s[i] = t[i]
      <3> TAKE i \in 1 .. Len(s)
      <3>1. i = 1 \/ i = 2
        BY <2>1
      <3> QED
        BY <2>1, <2>2, <3>1
    <2>4. s = t
      BY <2>1, <2>2, <2>3, SeqEqual
    <2> QED
      BY <2>4 DEF s, t
  <1>2. Append(<<>>, TRUE) = <<TRUE>> /\ <<FALSE>>[1] # <<TRUE>>[1]
    OBVIOUS
  <1>3. \A a, b : /\ Head(<<a>>) = a /\ Tail(<<a>>) = <<>>
                  /\ Head(<<a, b>>) = a /\ Tail(<<a, b>>) = <<b>>
    OBVIOUS
  <1>4. /\ Head(<<TRUE>>) = TRUE /\ Tail(<<TRUE>>) = <<>>
        /\ Head(<<FALSE>>) = FALSE /\ Tail(<<FALSE>>) = <<>>
        /\ Head(<<FALSE, TRUE>>) = FALSE /\ Tail(<<FALSE, TRUE>>) = <<TRUE>>
    BY <1>3, Zenon
  <1>5. Len(<<>>) = 0 /\ Len(<<TRUE>>) = 1 /\ Len(<<FALSE>>) = 1 /\ Len(<<FALSE, TRUE>>) = 2
    OBVIOUS
  <1> QED
    BY <1>1, <1>2, <1>3, <1>4, <1>5

LEMMA OthersFacts == ASSUME NEW p \in Player, NEW q \in Others(p)
                     PROVE  q \in Player /\ q # p /\ p \in Others(q)
  BY DEF Others

LEMMA TypesOf ==
    ASSUME NetplayTypeOK, NEW p \in Player
    PROVE  /\ scene[p] \in {"menu", "game"} /\ ready[p] \in BOOLEAN /\ game[p] \in Nat
           /\ frame[p] \in Nat /\ frame[p] >= 1 /\ frame[p] <= MaxFrame + 1 /\ final[p] \in Nat
           /\ picked[p] \subseteq Others(p) /\ active[p] \subseteq Others(p)
           /\ mine[p] \in [lo : Nat \ {0}, hi : Nat] /\ mine[p].lo \in Nat /\ mine[p].lo >= 1
           /\ mine[p].hi \in Nat
           /\ \A q \in Others(p) : acked[p][q] \in Nat /\ acks[p][q] \in Nat
  BY DEF NetplayTypeOK, Finished

LEMMA SelectedFacts ==
    ASSUME NetplayTypeOK, NEW p \in Player
    PROVE  /\ Selected(p) \in Nat /\ Selected(p) \in {game[p], game[p] + 1}
           /\ Selected(p) > game[p] <=> scene[p] = "menu" /\ ready[p]
           /\ scene[p] = "game" => Selected(p) = game[p]
  BY DEF NetplayTypeOK, Selected

LEMMA HeadFacts ==
    ASSUME NetplayTypeOK, NEW p \in Player, NEW q \in Others(p)
    PROVE  /\ IsQueue(theirs[p][q]) /\ Head0(theirs[p][q]) \in Nat
           /\ HeadOf(p, q) \in Nat /\ HeadOf(p, q) <= Head0(theirs[p][q])
  <1>1. IsQueue(theirs[p][q])
    BY DEF NetplayTypeOK
  <1> QED
    BY <1>1, QueueFacts DEF HeadOf

\* Of what queues hold: the newest pad, if there is one.
LEMMA NewestPad ==
    ASSUME NetplayTypeOK, NEW p \in Player, NEW q \in Others(p), Holds(p, q),
           Head0(theirs[p][q]) > 0
    PROVE  LET f == Head0(theirs[p][q]) IN
           /\ f \in DOMAIN theirs[p][q]
           /\ theirs[p][q][f] \in Nat /\ theirs[p][q][f] >= game[p] /\ theirs[p][q][f] <= game[q]
           /\ theirs[p][q][f] = game[q] => Sent(q, f)
  <1>1. Head0(theirs[p][q]) \in DOMAIN theirs[p][q]
    BY HeadFacts, QueueFacts
  <1>2. game[p] \in Nat /\ game[q] \in Nat
    BY OthersFacts DEF NetplayTypeOK
  <1> QED
    BY <1>1, <1>2 DEF Holds

\* Who plays sees everyone in its game, or waiting for it.
LEMMA Playing ==
    ASSUME NetplayInv, NEW p \in Player, scene[p] = "game", frame[p] <= MaxFrame
    PROVE  \A r \in Player : Selected(r) = game[p] /\ game[r] <= game[p]
  <1>1. NetplayTypeOK /\ Lockstep
    BY DEF NetplayInv
  <1>2. ~Done(p) /\ Selected(p) = game[p]
    BY <1>1, SelectedFacts, TypesOf DEF Done
  <1> TAKE r \in Player
  <1>3. game[p] <= Selected(r) /\ ~(Selected(r) > Selected(p)) /\ game[r] <= Selected(p)
    BY <1>1, <1>2 DEF Lockstep
  <1>4. Selected(r) \in Nat /\ game[p] \in Nat
    BY <1>1, SelectedFacts DEF NetplayTypeOK
  <1> QED
    BY <1>2, <1>3, <1>4

\* In play, the selections for the game are behind.
LEMMA InPlayFacts ==
    ASSUME NetplayInv, NEW p \in Player, InPlay(p), NEW q \in Others(p)
    PROVE  q \notin picked[p] /\ started[p][q] /\ Selected(p) = game[p] /\ Selected(q) = game[p]
  <1>1. Selected(q) = game[p] /\ Selected(p) = game[p] /\ frame[p] > 1 /\ game[p] \in Nat
    BY OthersFacts DEF InPlay, NetplayInv, NetplayTypeOK
  <1>2. Picking(p, q)
    BY DEF NetplayInv, Pickings
  <1>3. ~AtFirst(p)
    BY <1>1 DEF AtFirst
  <1> QED
    BY <1>1, <1>2, <1>3 DEF Picking

-----------------------------------------------------------------------------
(* What a step leaves as it is *)

LEMMA HoldsKept ==
    ASSUME NEW p \in Player, NEW q \in Others(p), Holds(p, q),
           theirs'[p][q] = theirs[p][q], started'[p][q] = started[p][q],
           game'[p] = game[p], game'[q] = game[q], frame'[p] = frame[p], frame'[q] = frame[q],
           scene'[p] = scene[p], ready'[p] = ready[p], final'[p] = final[p],
           active'[p] \subseteq active[p]
    PROVE  Holds(p, q)'
  BY DEF Holds, Sent, Selected, AtFirst

LEMMA PickingKept ==
    ASSUME NEW p \in Player, NEW q \in Others(p), Picking(p, q),
           picks'[q][p] = picks[q][p], picked'[p] = picked[p], started'[p][q] = started[p][q],
           game'[p] = game[p], frame'[p] = frame[p], scene'[p] = scene[p],
           Selected(q)' = Selected(q)
    PROVE  Picking(p, q)'
  BY DEF Picking, Pending, AtFirst

LEMMA InPlayKept ==
    ASSUME NEW p \in Player, InPlay(p), frame'[p] = frame[p], game'[p] = game[p],
           \A r \in Player : Selected(r)' = Selected(r)
    PROVE  InPlay(p)'
  BY DEF InPlay

LEMMA AcknowledgedKept ==
    ASSUME NEW p \in Player, NEW q \in Others(p), Acknowledged(p, q),
           acks'[q][p] = acks[q][p], acked'[p][q] = acked[p][q], mine'[p] = mine[p],
           frame'[p] = frame[p], game'[p] = game[p], scene'[p] = scene[p],
           \A r \in Player : Selected(r)' = Selected(r),
           active'[p] \subseteq active[p], active'[q] \subseteq active[q],
           HeadOf(q, p)' = HeadOf(q, p)
    PROVE  Acknowledged(p, q)'
  <1>1. Joined(p, q)' => Joined(p, q)
    BY DEF Joined
  <1>2. InPlay(p) => InPlay(p)'
    BY InPlayKept
  <1> QED
    BY <1>1, <1>2 DEF Acknowledged

LEMMA PadsKept ==
    ASSUME PadsInPlay, pads' \subseteq pads, NetplayTypeOK, game' = game, frame' = frame,
           \A r \in Player : Selected(r)' = Selected(r)
    PROVE  PadsInPlay'
  <1>1. \A m \in pads : m.from \in Player
    BY DEF NetplayTypeOK, Packet
  <1> QED
    BY <1>1, InPlayKept DEF PadsInPlay

LEMMA LockstepKept ==
    ASSUME Lockstep, game' = game, \A r \in Player : Selected(r)' = Selected(r),
           \A r \in Player : Done(r) => Done(r)'
    PROVE  Lockstep'
  BY DEF Lockstep

LEMMA HeadOfKept ==
    ASSUME NEW q \in Player, NEW p \in Others(q), theirs'[q][p] = theirs[q][p],
           started'[q][p] = started[q][p], game'[q] = game[q], game'[p] = game[p]
    PROVE  HeadOf(q, p)' = HeadOf(q, p)
  BY DEF HeadOf

-----------------------------------------------------------------------------
LEMMA NetplayStarts == Init => NetplayInv
  <1> SUFFICES ASSUME Init PROVE NetplayInv
    OBVIOUS
  <1>1. NetplayTypeOK
    BY EmptyQueue DEF Init, NetplayTypeOK, Finished, Others
  <1>2. Stages
    BY DEF Init, Stages, Stage, AtFirst
  <1>3. \A p \in Player : Selected(p) = 0 /\ Done(p)
    BY DEF Init, Selected, Done
  <1>4. Lockstep
    BY <1>3 DEF Init, Lockstep
  <1>5. Pickings
    <2> SUFFICES ASSUME NEW p \in Player, NEW q \in Others(p) PROVE Picking(p, q)
      BY DEF Pickings
    <2>1. picks[q][p] = <<FALSE>> /\ picked[p] = {} /\ ~started[p][q] /\ game[p] = 0
          /\ frame[p] = 1 /\ scene[p] = "menu"
      BY OthersFacts DEF Init
    <2>2. <<FALSE>> # <<TRUE>> /\ <<FALSE>> # <<FALSE, TRUE>>
      BY PickFacts
    <2>3. Selected(q) = 0
      BY <1>3, OthersFacts
    <2> QED
      BY <2>1, <2>2, <2>3 DEF Picking, Pending, AtFirst
  <1>6. PadsInPlay
    BY DEF Init, PadsInPlay
  <1>7. Queues
    <2> SUFFICES ASSUME NEW p \in Player, NEW q \in Others(p) PROVE Holds(p, q)
      BY DEF Queues
    <2>1. theirs[p][q] = None /\ ~started[p][q] /\ final[p] = 0
      BY DEF Init
    <2> QED
      BY <2>1, EmptyQueue DEF Holds
  <1>8. Acknowledgments
    <2> SUFFICES ASSUME NEW p \in Player, NEW q \in Others(p) PROVE Acknowledged(p, q)
      BY DEF Acknowledgments
    <2>1. acks[q][p] = 0 /\ scene[p] = "menu"
      BY OthersFacts DEF Init
    <2> QED
      BY <2>1 DEF Acknowledged
  <1> QED
    BY <1>1, <1>2, <1>4, <1>5, <1>6, <1>7, <1>8 DEF NetplayInv

-----------------------------------------------------------------------------
(* The menus *)

\* Who may select its character for the next game has had everyone's pads of the last: nobody
\* is a game behind it, or ahead.
LEMMA CaughtUp ==
    ASSUME NetplayInv, NEW p \in Player, LockIn(p), NEW q \in Others(p)
    PROVE  game[q] = game[p]
  <1>1. NetplayTypeOK /\ Stage(p) /\ Picking(p, q) /\ Holds(p, q) /\ Lockstep
    BY DEF NetplayInv, Stages, Pickings, Queues
  <1>2. scene[p] = "menu" /\ ~ready[p] /\ q \in active[p]
    BY DEF LockIn
  <1>3. q \in Player /\ game[p] \in Nat /\ game[q] \in Nat /\ frame[p] \in Nat
    BY <1>1, OthersFacts, TypesOf
  <1>4. Selected(p) = game[p] /\ ~AtFirst(p) /\ game[q] <= Selected(q) /\ Selected(q) <= game[q] + 1
    BY <1>1, <1>2, <1>3, SelectedFacts DEF AtFirst, Selected
  <1>5. game[q] <= game[p]
    BY <1>1, <1>3, <1>4 DEF Lockstep
  <1>6. game[p] <= game[q]
    <2>1. CASE game[p] = 0
      BY <2>1, <1>3
    <2>2. CASE game[p] > 0 /\ q \in picked[p]
      <3>1. Selected(q) = game[p] + 1
        BY <1>1, <1>4, <2>2 DEF Picking
      <3> QED
        BY <1>3, <1>4, <3>1
    <2>3. CASE game[p] > 0 /\ q \notin picked[p]
      <3>1. frame[p] = MaxFrame + 1
        BY <1>1, <1>2, <2>3 DEF Stage, Finished
      <3>2. started[p][q]
        BY <1>1, <2>3, <3>1 DEF Picking
      <3>3. Head0(theirs[p][q]) > 0
        BY <1>1, <1>2, <3>1, <3>2 DEF Holds
      <3> QED
        BY <1>1, <1>3, <3>3, NewestPad
    <2> QED
      BY <1>3, <2>1, <2>2, <2>3
  <1> QED
    BY <1>3, <1>5, <1>6

LEMMA LockInKeeps ==
    ASSUME NetplayInv, NEW p \in Player, LockIn(p)
    PROVE  NetplayInv'
  <1>1. NetplayTypeOK /\ Stages /\ Lockstep /\ Pickings /\ Queues /\ Acknowledgments
    BY DEF NetplayInv
  <1>2. /\ scene[p] = "menu" /\ ~ready[p] /\ active[p] = Others(p)
        /\ \A q \in Others(p) : scene[q] = "menu" \/ frame[q] > MaxFrame
        /\ ready' = [ready EXCEPT ![p] = TRUE]
        /\ picks' = [picks EXCEPT ![p] = [q \in Others(p) |-> Append(@[q], TRUE)]]
        /\ pads' = {}
        /\ acks' = [q \in Player |-> [o \in Others(q) |-> 0]]
        /\ scene' = scene /\ game' = game /\ frame' = frame /\ final' = final
        /\ active' = active /\ skipping' = skipping /\ toShed' = toShed /\ picked' = picked
        /\ mine' = mine /\ acked' = acked /\ theirs' = theirs /\ started' = started
    BY DEF LockIn, queueVars
  <1>3. /\ Selected(p) = game[p] /\ Selected(p)' = game[p] + 1 /\ Done(p)
        /\ \A r \in Others(p) : Selected(r)' = Selected(r) /\ Done(r)' = Done(r)
    BY <1>1, <1>2 DEF NetplayTypeOK, Others, Selected, Done
  <1>4. \A q \in Others(p) : game[q] = game[p]
    BY CaughtUp
  <1>5. \A q \in Others(p) : ~Pending(q, p) /\ p \notin picked[q] /\ ~AtFirst(q)
    <2> TAKE q \in Others(p)
    <2>1. Picking(q, p) /\ frame[q] \in Nat /\ game[q] \in Nat
      BY <1>1, OthersFacts, TypesOf DEF Pickings
    <2>2. ~AtFirst(q)
      BY <1>2, <2>1 DEF AtFirst
    <2>3. Selected(p) = game[q]
      BY <1>3, <1>4
    <2> QED
      BY <2>1, <2>2, <2>3 DEF Picking
  <1>6. \A q \in Others(p) : picks'[p][q] = Append(picks[p][q], TRUE)
    BY <1>1, <1>2 DEF NetplayTypeOK
  <1>7. \A q \in Others(p) : picks'[p][q] \in {<<TRUE>>, <<FALSE, TRUE>>}
        /\ (picks'[p][q] = <<FALSE, TRUE>> => picks[p][q] = <<FALSE>>)
    <2> TAKE q \in Others(p)
    <2>1. picks[p][q] \in {<<>>, <<FALSE>>}
      BY <1>1, <1>5 DEF NetplayTypeOK, Pending
    <2>4. CASE picks[p][q] = <<>>
      BY <1>6, <2>4, PickFacts
    <2>5. CASE picks[p][q] = <<FALSE>>
      BY <1>6, <2>5, PickFacts
    <2> QED
      BY <2>1, <2>4, <2>5
  <1>8. \A r \in Others(p) : picks'[r] = picks[r]
    BY <1>1, <1>2 DEF NetplayTypeOK, Others
  <1>9. NetplayTypeOK'
    <2>1. \A r \in Player : /\ DOMAIN picks'[r] = Others(r)
                            /\ \A q \in Others(r) :
                                  picks'[r][q] \in {<<>>, <<FALSE>>, <<TRUE>>, <<FALSE, TRUE>>}
      <3> TAKE r \in Player
      <3>1. CASE r = p
        BY <1>1, <1>2, <1>7, <3>1 DEF NetplayTypeOK
      <3>2. CASE r # p
        BY <1>1, <1>8, <3>2 DEF NetplayTypeOK, Others
      <3> QED
        BY <3>1, <3>2
    <2>2. ready' \in [Player -> BOOLEAN] /\ DOMAIN picks' = Player
      BY <1>1, <1>2 DEF NetplayTypeOK
    <2>3. DOMAIN acks' = Player /\ \A r \in Player : acks'[r] \in [Others(r) -> Nat]
      BY <1>2
    <2> QED
      BY <1>1, <1>2, <2>1, <2>2, <2>3 DEF NetplayTypeOK
  <1>10. Stages'
    <2> SUFFICES ASSUME NEW r \in Player PROVE Stage(r)'
      BY DEF Stages
    <2>1. Stage(r)
      BY <1>1 DEF Stages
    <2>2. ready'[r] => ready[r] \/ scene[r] = "menu"
      BY <1>1, <1>2 DEF NetplayTypeOK
    <2> QED
      BY <1>2, <2>1, <2>2 DEF Stage, AtFirst
  <1>11. Lockstep'
    <2> SUFFICES ASSUME NEW a \in Player, NEW b \in Player
                 PROVE  (game[a] <= Selected(b) /\ (Selected(a) > Selected(b) => Done(b)))'
      BY DEF Lockstep
    <2>1. game[a] <= Selected(b) /\ (Selected(a) > Selected(b) => Done(b))
      BY <1>1 DEF Lockstep
    <2>2. /\ game[a] \in Nat /\ game[b] \in Nat /\ Selected(a) \in Nat /\ Selected(b) \in Nat
          /\ Selected(a) <= game[a] + 1 /\ game[p] \in Nat
      BY <1>1, SelectedFacts, TypesOf
    <2>3. CASE a = p /\ b = p
      BY <1>2, <1>3, <2>2, <2>3
    <2>4. CASE a # p /\ b = p
      <3>1. a \in Others(p)
        BY <2>4 DEF Others
      <3>2. game'[a] = game[p] /\ Selected(b)' = game[p] + 1 /\ Selected(a)' = Selected(a)
            /\ game[a] = game[p]
        BY <1>2, <1>3, <1>4, <2>4, <3>1
      <3> QED
        BY <2>2, <3>2
    <2>5. CASE a = p /\ b # p
      <3>1. b \in Others(p)
        BY <2>5 DEF Others
      <3>2. Selected(b)' = Selected(b) /\ Done(b)' = Done(b) /\ game[b] = game[p]
        BY <1>3, <1>4, <3>1
      <3>3. Selected(a)' > Selected(b) => Selected(b) = game[b]
        BY <1>1, <1>3, <2>2, <2>5, <3>2, SelectedFacts
      <3>4. Selected(b) = game[b] => Done(b)
        <4>1. scene[b] = "menu" \/ frame[b] > MaxFrame
          BY <1>2, <3>1
        <4>2. scene[b] = "menu" /\ ready[b] => Selected(b) = game[b] + 1
          BY DEF Selected
        <4> QED
          BY <2>2, <4>1, <4>2 DEF Done
      <3> QED
        BY <1>2, <2>1, <3>2, <3>3, <3>4
    <2>6. CASE a # p /\ b # p
      <3>1. a \in Others(p) /\ b \in Others(p)
        BY <2>6 DEF Others
      <3> QED
        BY <1>2, <1>3, <2>1, <3>1
    <2> QED
      BY <2>3, <2>4, <2>5, <2>6
  <1>12. Pickings'
    <2> SUFFICES ASSUME NEW a \in Player, NEW b \in Others(a) PROVE Picking(a, b)'
      BY DEF Pickings
    <2>1. Picking(a, b) /\ b \in Player /\ b # a
      BY <1>1, OthersFacts DEF Pickings
    <2>2. CASE b = p
      <3>1. a \in Others(p)
        BY <2>1, <2>2 DEF Others
      <3>2. Selected(b)' = game[a] + 1 /\ b \notin picked[a]
            /\ (scene[a] = "menu" \/ frame[a] > MaxFrame)
        BY <1>2, <1>3, <1>4, <1>5, <2>2, <3>1
      <3>3. picks'[b][a] \in {<<TRUE>>, <<FALSE, TRUE>>}
            /\ (picks'[b][a] \in {<<FALSE>>, <<FALSE, TRUE>>} => game[a] = 0)
        <4>1. picks'[b][a] \in {<<TRUE>>, <<FALSE, TRUE>>}
              /\ (picks'[b][a] = <<FALSE, TRUE>> => picks[b][a] = <<FALSE>>)
          BY <1>7, <2>2, <3>1
        <4> QED
          BY <2>1, <4>1, PickFacts DEF Picking
      <3> QED
        BY <1>2, <2>1, <3>2, <3>3 DEF Picking, Pending
    <2>3. CASE b # p
      <3>1. picks'[b][a] = picks[b][a] /\ Selected(b)' = Selected(b)
        BY <1>3, <1>8, <2>1, <2>3 DEF Others
      <3> QED
        BY <1>2, <2>1, <3>1, PickingKept
    <2> QED
      BY <2>2, <2>3
  <1>13. PadsInPlay'
    BY <1>2 DEF PadsInPlay
  <1>14. Queues'
    <2> SUFFICES ASSUME NEW a \in Player, NEW b \in Others(a) PROVE Holds(a, b)'
      BY DEF Queues
    <2>1. Holds(a, b)
      BY <1>1 DEF Queues
    <2>2. CASE a # p
      <3>1. ready'[a] = ready[a]
        BY <1>2, <2>2
      <3> QED
        BY <1>2, <2>1, <3>1, HoldsKept
    <2>3. CASE a = p
      <3>1. game[a] \in Nat /\ frame[a] \in Nat /\ Selected(a) = game[a] /\ Selected(a)' = game[a] + 1
        BY <1>1, <1>3, <2>3, TypesOf
      <3>2. started[a][b] => Head0(theirs[a][b]) >= MaxFrame - Horizon
        <4>1. started[a][b] => frame[a] = MaxFrame + 1
          <5>1. Picking(a, b) /\ Stage(a) /\ scene[a] = "menu"
            BY <1>1, <1>2, <2>3 DEF Pickings, Stages
          <5> QED
            BY <3>1, <5>1 DEF Picking, Stage, Finished
        <4>2. b \in active[a]
          BY <1>2, <2>3
        <4> QED
          BY <2>1, <4>1, <4>2 DEF Holds
      <3>3. \A f \in DOMAIN theirs[a][b] : theirs[a][b][f] <= Selected(a)
                                           => theirs[a][b][f] <= Selected(a)'
        BY <2>1, <3>1 DEF Holds
      <3> QED
        BY <1>2, <2>1, <2>3, <3>1, <3>2, <3>3 DEF Holds, Sent, AtFirst
    <2> QED
      BY <2>2, <2>3
  <1>15. Acknowledgments'
    <2> SUFFICES ASSUME NEW a \in Player, NEW b \in Others(a) PROVE Acknowledged(a, b)'
      BY DEF Acknowledgments
    <2>1. acks'[b][a] = 0
      BY <1>2, OthersFacts
    <2>2. ~(scene[a] = "game" /\ frame[a] \in 2 .. MaxFrame)
      BY <1>2 DEF Others
    <2> QED
      BY <1>2, <2>1, <2>2 DEF Acknowledged
  <1> QED
    BY <1>9, <1>10, <1>11, <1>12, <1>13, <1>14, <1>15 DEF NetplayInv

LEMMA BeginKeeps ==
    ASSUME NetplayInv, NEW p \in Player, Begin(p)
    PROVE  NetplayInv'
  <1>1. NetplayTypeOK /\ Stages /\ Lockstep /\ Pickings /\ PadsInPlay /\ Queues /\ Acknowledgments
    BY DEF NetplayInv
  <1>2. /\ scene[p] = "menu" /\ ready[p] /\ picked[p] = Others(p)
        /\ scene' = [scene EXCEPT ![p] = "game"] /\ game' = [game EXCEPT ![p] = @ + 1]
        /\ frame' = [frame EXCEPT ![p] = 1] /\ final' = [final EXCEPT ![p] = 0]
        /\ ready' = ready /\ active' = active /\ skipping' = skipping /\ toShed' = toShed
        /\ picked' = picked /\ mine' = mine /\ acked' = acked /\ theirs' = theirs
        /\ started' = started /\ pads' = pads /\ acks' = acks /\ picks' = picks
    BY DEF Begin, queueVars, netVars
  <1>3. /\ scene'[p] = "game" /\ game'[p] = game[p] + 1 /\ frame'[p] = 1 /\ final'[p] = 0
        /\ \A r \in Player : r # p => /\ scene'[r] = scene[r] /\ game'[r] = game[r]
                                      /\ frame'[r] = frame[r] /\ final'[r] = final[r]
    BY <1>1, <1>2 DEF NetplayTypeOK
  <1>4. game[p] \in Nat /\ Selected(p) = game[p] + 1 /\ ~AtFirst(p) /\ AtFirst(p)' /\ ~Done(p)'
    BY <1>1, <1>2, <1>3, TypesOf, SlippiAssumption DEF Selected, AtFirst, Done
  <1>5. \A r \in Player : Selected(r)' = Selected(r) /\ (r # p => Done(r)' = Done(r))
    BY <1>2, <1>3, <1>4 DEF Selected, Done
  <1>6. \A q \in Others(p) : /\ Picking(p, q) /\ ~Pending(p, q) /\ q \in picked[p]
                             /\ Selected(q) = game[p] + 1 /\ ~started[p][q]
                             /\ picks[q][p] \notin {<<FALSE>>, <<FALSE, TRUE>>}
    <2> TAKE q \in Others(p)
    <2>1. Picking(p, q) /\ q \in picked[p]
      BY <1>1, <1>2 DEF Pickings
    <2> QED
      BY <1>4, <2>1 DEF Picking
  <1>7. \A r \in Player : Selected(r) = game[p] + 1
    BY <1>4, <1>6 DEF Others
  <1>8. ~InPlay(p)
    BY <1>4 DEF InPlay
  <1>9. NetplayTypeOK'
    <2>1. /\ scene' \in [Player -> {"menu", "game"}] /\ game' \in [Player -> Nat]
          /\ frame' \in [Player -> 1 .. Finished] /\ final' \in [Player -> Nat]
      BY <1>1, <1>2 DEF NetplayTypeOK, Finished
    <2> QED
      BY <1>1, <1>2, <2>1 DEF NetplayTypeOK
  <1>10. Stages'
    <2> SUFFICES ASSUME NEW r \in Player PROVE Stage(r)'
      BY DEF Stages
    <2>1. CASE r = p
      BY <1>2, <1>3, <1>4, <2>1 DEF Stage, AtFirst
    <2>2. CASE r # p
      <3>1. Stage(r)
        BY <1>1 DEF Stages
      <3> QED
        BY <1>2, <1>3, <2>2, <3>1 DEF Stage, AtFirst
    <2> QED
      BY <2>1, <2>2
  <1>11. Lockstep'
    <2> SUFFICES ASSUME NEW a \in Player, NEW b \in Player
                 PROVE  (game[a] <= Selected(b) /\ (Selected(a) > Selected(b) => Done(b)))'
      BY DEF Lockstep
    <2>1. Selected(a)' = game[p] + 1 /\ Selected(b)' = game[p] + 1
      BY <1>5, <1>7
    <2>2. game'[a] <= game[p] + 1
      BY <1>1, <1>3, <1>4, <1>7 DEF Lockstep
    <2> QED
      BY <1>4, <2>1, <2>2
  <1>12. Pickings'
    <2> SUFFICES ASSUME NEW a \in Player, NEW b \in Others(a) PROVE Picking(a, b)'
      BY DEF Pickings
    <2>1. Picking(a, b) /\ b \in Player
      BY <1>1, OthersFacts DEF Pickings
    <2>2. CASE a = p
      <3>1. /\ ~Pending(a, b) /\ picks[b][a] \notin {<<FALSE>>, <<FALSE, TRUE>>}
            /\ Selected(b) = game[a] + 1 /\ ~started[a][b]
        BY <1>6, <2>2
      <3>2. ~Pending(a, b)' /\ picks'[b][a] \notin {<<FALSE>>, <<FALSE, TRUE>>}
        BY <1>2, <3>1 DEF Pending
      <3>3. Selected(b)' = game'[a] /\ ~started'[a][b] /\ AtFirst(a)' /\ frame'[a] = 1
        BY <1>2, <1>3, <1>4, <1>5, <2>1, <2>2, <3>1
      <3>4. (Selected(b) = IF b \in picked[a] /\ ~AtFirst(a) THEN game[a] + 1 ELSE game[a])'
        BY <3>3
      <3>5. (started[a][b] <=> frame[a] > 1 /\ b \notin picked[a])'
        BY <3>3
      <3> QED
        BY <3>2, <3>4, <3>5 DEF Picking
    <2>3. CASE a # p
      BY <1>2, <1>3, <1>5, <2>1, <2>3, PickingKept
    <2> QED
      BY <2>2, <2>3
  <1>13. PadsInPlay'
    <2> SUFFICES ASSUME NEW m \in pads
                 PROVE  /\ InPlay(m.from)' /\ m.game = game'[m.from]
                        /\ m.hi <= frame'[m.from] - 1 + Delay
      BY <1>2 DEF PadsInPlay
    <2>1. m.from \in Player /\ InPlay(m.from) /\ m.game = game[m.from]
          /\ m.hi <= frame[m.from] - 1 + Delay
      BY <1>1 DEF PadsInPlay, NetplayTypeOK, Packet
    <2>2. m.from # p
      BY <1>8, <2>1
    <2> QED
      BY <1>3, <1>5, <2>1, <2>2, InPlayKept
  <1>14. Queues'
    <2> SUFFICES ASSUME NEW a \in Player, NEW b \in Others(a) PROVE Holds(a, b)'
      BY DEF Queues
    <2>1. Holds(a, b) /\ b \in Player /\ b # a /\ IsQueue(theirs[a][b])
      BY <1>1, OthersFacts DEF Queues, NetplayTypeOK
    <2>2. CASE a = p
      <3>1. ~started[a][b] /\ ~started'[a][b] /\ theirs'[a][b] = theirs[a][b]
        BY <1>2, <1>6, <2>2
      <3>2. \A f \in DOMAIN theirs[a][b] : /\ theirs[a][b][f] = game'[p]
                                           /\ theirs[a][b][f] \in Nat
                                           /\ theirs[a][b][f] <= game[b]
                                           /\ theirs[a][b][f] = game[b] => Sent(b, f)
        BY <1>3, <1>4, <2>1, <2>2, <3>1 DEF Holds
      <3>3. theirs[a][b] # None => Oldest(theirs[a][b]) = 1
        BY <2>1, <3>1 DEF Holds
      <3>4. Head0(theirs[a][b]) \in Nat /\ Larger(1, 0) = 1
        BY <2>1, QueueFacts DEF Larger
      <3>5. game'[b] = game[b] /\ frame'[b] = frame[b] /\ AtFirst(a)' /\ final'[a] = 0
        BY <1>3, <1>4, <2>1, <2>2
      <3> QED
        BY <3>1, <3>2, <3>3, <3>4, <3>5, <2>2 DEF Holds, Sent
    <2>3. CASE b = p
      <3>1. \A f \in DOMAIN theirs[a][b] : theirs[a][b][f] \in Nat /\ theirs[a][b][f] <= game[p]
        BY <2>1, <2>3 DEF Holds
      <3>2. \A f \in DOMAIN theirs[a][b] : /\ theirs[a][b][f] <= game'[p]
                                           /\ theirs[a][b][f] # game'[p]
        BY <1>3, <1>4, <3>1
      <3> QED
        BY <1>2, <1>3, <2>1, <2>3, <3>1, <3>2 DEF Holds, Selected, AtFirst
    <2>4. CASE a # p /\ b # p
      BY <1>2, <1>3, <2>1, <2>4, HoldsKept
    <2> QED
      BY <2>2, <2>3, <2>4
  <1>15. Acknowledgments'
    <2> SUFFICES ASSUME NEW a \in Player, NEW b \in Others(a) PROVE Acknowledged(a, b)'
      BY DEF Acknowledgments
    <2>1. Acknowledged(a, b) /\ b \in Player /\ b # a /\ acks[b][a] \in Nat /\ a \in Others(b)
      BY <1>1, OthersFacts, TypesOf DEF Acknowledgments
    <2>2. CASE a = p
      <3>1. ~(acks[b][a] > 0)
        BY <1>8, <2>1, <2>2 DEF Acknowledged
      <3> QED
        BY <1>2, <1>3, <2>2, <3>1 DEF Acknowledged
    <2>3. CASE a # p
      <3>1. HeadOf(b, a)' = HeadOf(b, a)
        <4>1. CASE b = p
          BY <1>2, <1>6, <2>1, <4>1 DEF HeadOf
        <4>2. CASE b # p
          BY <1>2, <1>3, <2>1, <2>3, <4>2, HeadOfKept
        <4> QED
          BY <4>1, <4>2
      <3> QED
        BY <1>2, <1>3, <1>5, <2>1, <2>3, <3>1, AcknowledgedKept
    <2> QED
      BY <2>2, <2>3
  <1> QED
    BY <1>9, <1>10, <1>11, <1>12, <1>13, <1>14, <1>15 DEF NetplayInv

LEMMA GameEndKeeps ==
    ASSUME NetplayInv, NEW p \in Player, GameEnd(p)
    PROVE  NetplayInv'
  <1>1. NetplayTypeOK /\ Stages /\ Lockstep /\ Pickings /\ PadsInPlay /\ Queues /\ Acknowledgments
    BY DEF NetplayInv
  <1>2. /\ scene[p] = "game" /\ frame[p] > MaxFrame
        /\ scene' = [scene EXCEPT ![p] = "menu"]
        /\ game' = game /\ frame' = frame /\ final' = final /\ ready' = ready /\ active' = active
        /\ skipping' = skipping /\ toShed' = toShed /\ picked' = picked /\ mine' = mine
        /\ acked' = acked /\ theirs' = theirs /\ started' = started /\ pads' = pads
        /\ acks' = acks /\ picks' = picks
    BY DEF GameEnd, queueVars, netVars
  <1>3. scene'[p] = "menu" /\ \A r \in Player : r # p => scene'[r] = scene[r]
    BY <1>1, <1>2 DEF NetplayTypeOK
  <1>4. ~ready[p] /\ frame[p] = MaxFrame + 1 /\ ~AtFirst(p) /\ ~AtFirst(p)'
    BY <1>1, <1>2, <1>3, TypesOf DEF Stages, Stage, AtFirst
  <1>5. \A r \in Player : /\ Selected(r)' = Selected(r) /\ (Done(r) => Done(r)')
                          /\ AtFirst(r)' = AtFirst(r)
    BY <1>2, <1>3, <1>4 DEF Selected, Done, AtFirst
  <1>6. NetplayTypeOK'
    <2>1. scene' \in [Player -> {"menu", "game"}]
      BY <1>1, <1>2 DEF NetplayTypeOK
    <2> QED
      BY <1>1, <1>2, <2>1 DEF NetplayTypeOK
  <1>7. Stages'
    <2> SUFFICES ASSUME NEW r \in Player PROVE Stage(r)'
      BY DEF Stages
    <2>1. Stage(r)
      BY <1>1 DEF Stages
    <2>2. CASE r = p
      BY <1>2, <1>3, <1>4, <2>1, <2>2 DEF Stage, Finished
    <2>3. CASE r # p
      BY <1>2, <1>3, <2>1, <2>3 DEF Stage, AtFirst
    <2> QED
      BY <2>2, <2>3
  <1>8. Lockstep'
    BY <1>1, <1>2, <1>5, LockstepKept
  <1>9. Pickings'
    <2> SUFFICES ASSUME NEW a \in Player, NEW b \in Others(a) PROVE Picking(a, b)'
      BY DEF Pickings
    <2>1. Picking(a, b) /\ b \in Player
      BY <1>1, OthersFacts DEF Pickings
    <2>2. scene[a] = "menu" => scene'[a] = "menu"
      BY <1>3
    <2>3. Selected(b)' = Selected(b) /\ AtFirst(a)' = AtFirst(a)
      BY <1>5, <2>1
    <2> QED
      BY <1>2, <2>1, <2>2, <2>3 DEF Picking, Pending
  <1>10. PadsInPlay'
    BY <1>1, <1>2, <1>5, PadsKept
  <1>11. Queues'
    <2> SUFFICES ASSUME NEW a \in Player, NEW b \in Others(a) PROVE Holds(a, b)'
      BY DEF Queues
    <2>1. Holds(a, b) /\ Selected(a)' = Selected(a) /\ AtFirst(a)' = AtFirst(a)
      BY <1>1, <1>5 DEF Queues
    <2>2. scene'[a] = "game" => scene[a] = "game"
      BY <1>3
    <2> QED
      BY <1>2, <2>1, <2>2 DEF Holds, Sent
  <1>12. Acknowledgments'
    <2> SUFFICES ASSUME NEW a \in Player, NEW b \in Others(a) PROVE Acknowledged(a, b)'
      BY DEF Acknowledgments
    <2>2. HeadOf(b, a)' = HeadOf(b, a) /\ Joined(a, b)' = Joined(a, b)
      BY <1>2 DEF HeadOf, Joined
    <2>3. InPlay(a) => InPlay(a)'
      BY <1>2, <1>5, InPlayKept
    <2>4. Acknowledged(a, b)
      BY <1>1 DEF Acknowledgments
    <2> QED
      BY <1>2, <1>3, <2>2, <2>3, <2>4 DEF Acknowledged
  <1> QED
    BY <1>6, <1>7, <1>8, <1>9, <1>10, <1>11, <1>12 DEF NetplayInv

\* The selections a player has under way to another, as they come one by one.
LEMMA PickArrives ==
    ASSUME NetplayInv, NEW p \in Player, NEW q \in Others(p), picks[q][p] # <<>>
    PROVE  LET s == picks[q][p] IN
           /\ Head(s) \in BOOLEAN /\ Tail(s) \in {<<>>, <<TRUE>>}
           /\ Head(s) => s = <<TRUE>> /\ Tail(s) = <<>> /\ Pending(p, q)
           /\ ~Head(s) => /\ s \in {<<FALSE>>, <<FALSE, TRUE>>} /\ game[p] = 0 /\ ~started[p][q]
                          /\ Tail(s) = <<TRUE>> <=> Pending(p, q)
  <1>1. Picking(p, q) /\ Stage(p) /\ q \in Player
    BY OthersFacts DEF NetplayInv, Pickings, Stages
  <1>2. picks[q][p] \in {<<FALSE>>, <<TRUE>>, <<FALSE, TRUE>>}
    BY OthersFacts DEF NetplayInv, NetplayTypeOK
  <1>3. picks[q][p] \in {<<FALSE>>, <<FALSE, TRUE>>} => game[p] = 0 /\ ~started[p][q]
    <2>1. picks[q][p] \in {<<FALSE>>, <<FALSE, TRUE>>} => game[p] = 0
      BY <1>1 DEF Picking
    <2>2. game[p] = 0 => frame[p] = 1
      BY <1>1 DEF Stage
    <2>3. started[p][q] => frame[p] > 1
      BY <1>1 DEF Picking
    <2>4. game[p] = 0 => ~started[p][q]
      BY <2>2, <2>3
    <2> QED
      BY <2>1, <2>4
  <1>4. CASE picks[q][p] = <<TRUE>>
    BY <1>4, PickFacts DEF Pending
  <1>5. CASE picks[q][p] = <<FALSE>>
    BY <1>3, <1>5, PickFacts DEF Pending
  <1>6. CASE picks[q][p] = <<FALSE, TRUE>>
    BY <1>3, <1>6, PickFacts DEF Pending
  <1> QED
    BY <1>2, <1>4, <1>5, <1>6

LEMMA OnSelectionsKeeps ==
    ASSUME NetplayInv, NEW p \in Player, NEW q \in Others(p), OnSelections(p, q)
    PROVE  NetplayInv'
  <1>1. NetplayTypeOK /\ Stages /\ Lockstep /\ Pickings /\ PadsInPlay /\ Queues /\ Acknowledgments
    BY DEF NetplayInv
  <1>2. /\ picks[q][p] # <<>> /\ picks' = [picks EXCEPT ![q][p] = Tail(@)]
        /\ theirs' = [theirs EXCEPT ![p][q] = Cleared(p, q)]
        /\ started' = [started EXCEPT ![p][q] = FALSE]
        /\ scene' = scene /\ game' = game /\ frame' = frame /\ final' = final /\ ready' = ready
        /\ active' = active /\ skipping' = skipping /\ toShed' = toShed
        /\ mine' = mine /\ acked' = acked /\ pads' = pads /\ acks' = acks
    BY DEF OnSelections, gameVars
  <1>3. q \in Player /\ q # p /\ p \in Others(q)
    BY OthersFacts
  <1>4. /\ picked' = [picked EXCEPT ![p] = IF Head(picks[q][p]) THEN @ \cup {q} ELSE @]
    <2>1. CASE Head(picks[q][p])
      BY <2>1 DEF OnSelections
    <2>2. CASE ~Head(picks[q][p])
      BY <1>1, <2>2 DEF OnSelections, NetplayTypeOK
    <2> QED
      BY <2>1, <2>2
  <1>5. /\ picked'[p] = IF Head(picks[q][p]) THEN picked[p] \cup {q} ELSE picked[p]
        /\ \A r \in Player : r # p => picked'[r] = picked[r]
    BY <1>1, <1>4 DEF NetplayTypeOK
  <1>6. /\ picks'[q][p] = Tail(picks[q][p]) /\ theirs'[p][q] = Cleared(p, q) /\ ~started'[p][q]
        /\ \A a \in Player : \A b \in Others(a) : a # p \/ b # q =>
              /\ picks'[b][a] = picks[b][a] /\ theirs'[a][b] = theirs[a][b]
              /\ started'[a][b] = started[a][b]
    <2>1. picks'[q][p] = Tail(picks[q][p]) /\ theirs'[p][q] = Cleared(p, q) /\ ~started'[p][q]
      BY <1>1, <1>2, <1>3 DEF NetplayTypeOK
    <2> SUFFICES ASSUME NEW a \in Player, NEW b \in Others(a), a # p \/ b # q
                 PROVE  /\ picks'[b][a] = picks[b][a] /\ theirs'[a][b] = theirs[a][b]
                        /\ started'[a][b] = started[a][b]
      BY <2>1
    <2>2. b \in Player /\ a \in Others(b)
      BY OthersFacts
    <2>3. picks'[b][a] = picks[b][a]
      <3>1. /\ picks'[q] = [picks[q] EXCEPT ![p] = Tail(@)]
            /\ \A r \in Player : r # q => picks'[r] = picks[r]
        BY <1>1, <1>2, <1>3 DEF NetplayTypeOK
      <3>2. \A o \in Others(q) : o # p => picks'[q][o] = picks[q][o]
        BY <1>1, <1>3, <3>1 DEF NetplayTypeOK
      <3> QED
        BY <2>2, <3>1, <3>2
    <2> QED
      BY <1>1, <1>2, <2>2, <2>3 DEF NetplayTypeOK
  <1>7. \A r \in Player : Selected(r)' = Selected(r) /\ Done(r)' = Done(r) /\ AtFirst(r)' = AtFirst(r)
    BY <1>2 DEF Selected, Done, AtFirst
  <1>8. Stage(p) /\ Picking(p, q) /\ Holds(p, q)
    BY <1>1 DEF Stages, Pickings, Queues
  \* Where something was cleared, the selection is that of the next game.
  <1>9. started[p][q] => Pending(p, q) /\ Head(picks[q][p])
    BY <1>2, PickArrives
  <1>10. NetplayTypeOK'
    <2>1. picked' \in [Player -> SUBSET Player] /\ \A r \in Player : picked'[r] \subseteq Others(r)
      <3>1. picked \in [Player -> SUBSET Player] /\ \A r \in Player : picked[r] \subseteq Others(r)
        BY <1>1 DEF NetplayTypeOK
      <3>2. (IF Head(picks[q][p]) THEN picked[p] \cup {q} ELSE picked[p]) \in SUBSET Player
        BY <1>3, <3>1
      <3>3. picked'[p] \subseteq Others(p)
        BY <1>5, <3>1
      <3> QED
        BY <1>4, <1>5, <3>1, <3>2, <3>3
    <2>2. /\ DOMAIN theirs' = Player
          /\ \A r \in Player : /\ DOMAIN theirs'[r] = Others(r)
                               /\ \A o \in Others(r) : IsQueue(theirs'[r][o])
      <3>1. IsQueue(theirs'[p][q])
        BY <1>1, <1>6, EmptyQueue DEF Cleared, NetplayTypeOK
      <3>2. DOMAIN theirs' = Player /\ \A r \in Player : DOMAIN theirs'[r] = Others(r)
        BY <1>1, <1>2 DEF NetplayTypeOK
      <3>3. \A r \in Player : \A o \in Others(r) : r # p \/ o # q => IsQueue(theirs'[r][o])
        BY <1>1, <1>6 DEF NetplayTypeOK
      <3> QED
        BY <3>1, <3>2, <3>3
    <2>3. DOMAIN started' = Player /\ \A r \in Player : started'[r] \in [Others(r) -> BOOLEAN]
      BY <1>1, <1>2 DEF NetplayTypeOK
    <2>4. /\ DOMAIN picks' = Player
          /\ \A r \in Player : /\ DOMAIN picks'[r] = Others(r)
                               /\ \A o \in Others(r) :
                                     picks'[r][o] \in {<<>>, <<FALSE>>, <<TRUE>>, <<FALSE, TRUE>>}
      <3>1. picks'[q][p] \in {<<>>, <<TRUE>>}
        BY <1>2, <1>6, PickArrives
      <3>2. DOMAIN picks' = Player /\ \A r \in Player : DOMAIN picks'[r] = Others(r)
        BY <1>1, <1>2 DEF NetplayTypeOK
      <3>3. \A r \in Player : \A o \in Others(r) : r # q \/ o # p => picks'[r][o] = picks[r][o]
        BY <1>6, OthersFacts
      <3>4. \A r \in Player : \A o \in Others(r) :
               picks[r][o] \in {<<>>, <<FALSE>>, <<TRUE>>, <<FALSE, TRUE>>}
        BY <1>1 DEF NetplayTypeOK
      <3> QED
        BY <3>1, <3>2, <3>3, <3>4
    <2> QED
      BY <1>1, <1>2, <2>1, <2>2, <2>3, <2>4 DEF NetplayTypeOK
  <1>11. Stages'
    BY <1>1, <1>2 DEF Stages, Stage, AtFirst
  <1>12. Lockstep'
    BY <1>1, <1>2, <1>7, LockstepKept
  <1>13. Pickings'
    <2> SUFFICES ASSUME NEW a \in Player, NEW b \in Others(a) PROVE Picking(a, b)'
      BY DEF Pickings
    <2>1. Picking(a, b) /\ b \in Player
      BY <1>1, OthersFacts DEF Pickings
    <2>2. CASE a = p /\ b = q
      <3>1. CASE Head(picks[q][p])
        <4>1. picks'[q][p] = <<>> /\ Pending(p, q) /\ q \in picked'[p]
          BY <1>2, <1>5, <1>6, <3>1, PickArrives
        <4>2. ~Pending(p, q)' /\ picks'[q][p] \notin {<<FALSE>>, <<FALSE, TRUE>>}
          BY <4>1, PickFacts DEF Pending
        <4>3. Selected(q)' = game'[p] + 1 /\ ~AtFirst(p)'
          <5>1. ~AtFirst(p)
            BY <1>8, <4>1, SlippiAssumption DEF Picking, AtFirst
          <5> QED
            BY <1>2, <1>3, <1>7, <1>8, <4>1, <5>1 DEF Picking
        <4>4. (started[p][q] <=> frame[p] > 1 /\ q \notin picked[p])'
          BY <1>6, <4>1
        <4> QED
          BY <2>2, <4>1, <4>2, <4>3, <4>4 DEF Picking
      <3>2. CASE ~Head(picks[q][p])
        <4>1. /\ picks'[q][p] \in {<<>>, <<TRUE>>}
              /\ Pending(p, q)' <=> Pending(p, q)
              /\ ~started[p][q] /\ game[p] = 0
          <5>1. /\ picks'[q][p] \in {<<>>, <<TRUE>>} /\ ~started[p][q] /\ game[p] = 0
                /\ picks'[q][p] = <<TRUE>> <=> Pending(p, q)
            BY <1>2, <1>6, <3>2, PickArrives
          <5>2. picks'[q][p] = <<TRUE>> <=> Pending(p, q)'
            BY <5>1, PickFacts DEF Pending
          <5> QED
            BY <5>1, <5>2
        <4>2. picked'[p] = picked[p] /\ picks'[q][p] \notin {<<FALSE>>, <<FALSE, TRUE>>}
          <5>1. picked'[p] = picked[p]
            BY <1>5, <3>2
          <5>2. picks'[q][p] \in {<<>>, <<TRUE>>}
            BY <4>1
          <5> QED
            BY <5>1, <5>2, PickFacts
        <4>3. (started[p][q] <=> frame[p] > 1 /\ q \notin picked[p])'
          BY <1>2, <1>6, <1>8, <4>1, <4>2 DEF Stage
        <4> QED
          BY <1>2, <1>3, <1>7, <2>1, <2>2, <4>1, <4>2, <4>3 DEF Picking
      <3> QED
        BY <3>1, <3>2
    <2>3. CASE a # p
      BY <1>2, <1>5, <1>6, <1>7, <2>1, <2>3, PickingKept
    <2>4. CASE a = p /\ b # q
      <3>1. b \in picked'[a] <=> b \in picked[a]
        BY <1>5, <2>4
      <3>2. picks'[b][a] = picks[b][a] /\ started'[a][b] = started[a][b]
        BY <1>6, <2>4
      <3> QED
        BY <1>2, <1>7, <2>1, <3>1, <3>2 DEF Picking, Pending
    <2> QED
      BY <2>2, <2>3, <2>4
  <1>14. PadsInPlay'
    BY <1>1, <1>2, <1>7, PadsKept
  <1>15. Queues'
    <2> SUFFICES ASSUME NEW a \in Player, NEW b \in Others(a) PROVE Holds(a, b)'
      BY DEF Queues
    <2>1. Holds(a, b)
      BY <1>1 DEF Queues
    <2>2. CASE a # p \/ b # q
      BY <1>2, <1>6, <2>1, <2>2, HoldsKept
    <2>3. CASE a = p /\ b = q /\ ~started[p][q]
      <3>1. theirs'[p][q] = theirs[p][q] /\ ~started'[p][q]
        BY <1>6, <2>3 DEF Cleared
      <3> QED
        BY <1>2, <1>7, <2>1, <2>3, <3>1 DEF Holds, Sent
    <2>4. CASE a = p /\ b = q /\ started[p][q]
      <3>1. theirs'[p][q] = None /\ ~started'[p][q]
        BY <1>6, <2>4 DEF Cleared
      <3>2. ~(scene[p] = "game" /\ frame[p] <= MaxFrame)
        <4>1. scene[p] = "menu" \/ frame[p] > MaxFrame
          BY <1>8, <1>9, <2>4 DEF Picking
        <4> QED
          BY <1>1, <4>1, TypesOf
      <3> QED
        BY <1>2, <2>4, <3>1, <3>2, EmptyQueue DEF Holds
    <2> QED
      BY <2>2, <2>3, <2>4
  <1>16. Acknowledgments'
    <2> SUFFICES ASSUME NEW a \in Player, NEW b \in Others(a) PROVE Acknowledged(a, b)'
      BY DEF Acknowledgments
    <2>1. Acknowledged(a, b) /\ b \in Player /\ a \in Others(b)
      BY <1>1, OthersFacts DEF Acknowledgments
    <2>2. CASE a = q /\ b = p /\ started[p][q]
      <3>1. Selected(q) = game[p] + 1 /\ game[p] \in Nat /\ game[q] \in Nat
        BY <1>1, <1>3, <1>8, <1>9, <2>2, TypesOf DEF Picking
      <3>2. Selected(q) = game[q] => HeadOf(p, q) = 0
        BY <2>2, <3>1 DEF HeadOf
      <3>3. HeadOf(p, q)' = 0
        BY <1>6, <2>2, EmptyQueue DEF HeadOf, Cleared
      <3>4. acks[p][q] > 0 => InPlay(q)
        BY <2>1, <2>2 DEF Acknowledged
      <3>5. InPlay(q) => Selected(q) = game[q]
        BY <1>3 DEF InPlay
      <3>6. scene[q] = "game" => Selected(q) = game[q]
        BY <1>1, <1>3, SelectedFacts
      <3>7. InPlay(q) => InPlay(q)'
        BY <1>2, <1>3, <1>7, InPlayKept
      <3>8. Joined(q, p)' = Joined(q, p)
        BY <1>2 DEF Joined
      <3> QED
        BY <1>2, <2>1, <2>2, <3>2, <3>3, <3>4, <3>5, <3>6, <3>7, <3>8 DEF Acknowledged
    <2>3. CASE ~(a = q /\ b = p /\ started[p][q])
      <3>1. HeadOf(b, a)' = HeadOf(b, a)
        <4>1. CASE b = p /\ a = q
          <5>1. theirs'[p][q] = theirs[p][q] /\ ~started'[p][q] /\ ~started[p][q]
            BY <1>6, <2>3, <4>1 DEF Cleared
          <5> QED
            BY <4>1, <5>1 DEF HeadOf
        <4>2. CASE ~(b = p /\ a = q)
          BY <1>2, <1>6, <2>1, <4>2, HeadOfKept
        <4> QED
          BY <4>1, <4>2
      <3> QED
        BY <1>2, <1>7, <2>1, <3>1, AcknowledgedKept
    <2> QED
      BY <2>2, <2>3
  <1> QED
    BY <1>10, <1>11, <1>12, <1>13, <1>14, <1>15, <1>16 DEF NetplayInv

-----------------------------------------------------------------------------
(* The network *)

LEMMA DisconnectedKeeps ==
    ASSUME NetplayInv, NEW p \in Player, NEW q \in Others(p), Disconnected(p, q)
    PROVE  NetplayInv'
  <1>1. NetplayTypeOK /\ Stages /\ Lockstep /\ Pickings /\ PadsInPlay /\ Queues /\ Acknowledgments
    BY DEF NetplayInv
  <1>2. /\ active' = [active EXCEPT ![p] = @ \ {q}]
        /\ scene' = scene /\ game' = game /\ frame' = frame /\ final' = final /\ ready' = ready
        /\ skipping' = skipping /\ toShed' = toShed /\ picked' = picked /\ mine' = mine
        /\ acked' = acked /\ theirs' = theirs /\ started' = started /\ pads' = pads
        /\ acks' = acks /\ picks' = picks
    BY DEF Disconnected, queueVars, netVars
  <1>3. \A r \in Player : active'[r] \subseteq active[r]
    BY <1>1, <1>2 DEF NetplayTypeOK
  <1>4. \A r \in Player : Selected(r)' = Selected(r) /\ Done(r)' = Done(r)
    BY <1>2 DEF Selected, Done
  <1>5. NetplayTypeOK'
    <2>1. active' \in [Player -> SUBSET Player] /\ \A r \in Player : active'[r] \subseteq Others(r)
      BY <1>1, <1>2, <1>3 DEF NetplayTypeOK
    <2> QED
      BY <1>1, <1>2, <2>1 DEF NetplayTypeOK
  <1>6. Stages'
    BY <1>1, <1>2 DEF Stages, Stage, AtFirst
  <1>7. Lockstep'
    BY <1>1, <1>2, <1>4, LockstepKept
  <1>8. Pickings'
    BY <1>1, <1>2, <1>4, PickingKept, OthersFacts DEF Pickings
  <1>9. PadsInPlay'
    BY <1>1, <1>2, <1>4, PadsKept
  <1>10. Queues'
    BY <1>1, <1>2, <1>3, HoldsKept DEF Queues
  <1>11. Acknowledgments'
    <2> SUFFICES ASSUME NEW a \in Player, NEW b \in Others(a) PROVE Acknowledged(a, b)'
      BY DEF Acknowledgments
    <2>1. Acknowledged(a, b) /\ b \in Player
      BY <1>1, OthersFacts DEF Acknowledgments
    <2>2. HeadOf(b, a)' = HeadOf(b, a)
      BY <1>2 DEF HeadOf
    <2> QED
      BY <1>2, <1>3, <1>4, <2>1, <2>2, AcknowledgedKept
  <1> QED
    BY <1>5, <1>6, <1>7, <1>8, <1>9, <1>10, <1>11 DEF NetplayInv

\* Packets are lost, or acknowledgments come: the players' games stay as they are.
LEMMA NetworkKeeps ==
    ASSUME NetplayInv, UNCHANGED <<gameVars, picked, mine, theirs, started, picks>>,
           pads' \subseteq pads, NetplayTypeOK', Acknowledgments'
    PROVE  NetplayInv'
  <1>1. NetplayTypeOK /\ Stages /\ Lockstep /\ Pickings /\ PadsInPlay /\ Queues
    BY DEF NetplayInv
  <1>2. /\ scene' = scene /\ game' = game /\ frame' = frame /\ final' = final /\ ready' = ready
        /\ active' = active /\ picked' = picked /\ mine' = mine
        /\ theirs' = theirs /\ started' = started /\ picks' = picks
    BY DEF gameVars
  <1>3. \A r \in Player : Selected(r)' = Selected(r) /\ Done(r)' = Done(r)
    BY <1>2 DEF Selected, Done
  <1>4. Stages'
    BY <1>1, <1>2 DEF Stages, Stage, AtFirst
  <1>5. Lockstep'
    BY <1>1, <1>2, <1>3, LockstepKept
  <1>6. Pickings'
    BY <1>1, <1>2, <1>3, PickingKept, OthersFacts DEF Pickings
  <1>7. PadsInPlay'
    BY <1>1, <1>2, <1>3, PadsKept
  <1>8. Queues'
    BY <1>1, <1>2, HoldsKept DEF Queues
  <1> QED
    BY <1>4, <1>5, <1>6, <1>7, <1>8 DEF NetplayInv

LEMMA LoseKeeps ==
    ASSUME NetplayInv, Lose
    PROVE  NetplayInv'
  <1>1. NetplayTypeOK /\ Acknowledgments
    BY DEF NetplayInv
  <1>2. /\ pads' \subseteq pads /\ scene' = scene /\ game' = game /\ frame' = frame
        /\ final' = final /\ ready' = ready /\ active' = active /\ skipping' = skipping
        /\ toShed' = toShed /\ picked' = picked /\ mine' = mine /\ acked' = acked
        /\ theirs' = theirs /\ started' = started /\ acks' = acks /\ picks' = picks
    BY DEF Lose, gameVars, queueVars
  <1>3. NetplayTypeOK'
    BY <1>1, <1>2 DEF NetplayTypeOK
  <1>4. \A r \in Player : Selected(r)' = Selected(r)
    BY <1>2 DEF Selected
  <1>5. Acknowledgments'
    <2> SUFFICES ASSUME NEW a \in Player, NEW b \in Others(a) PROVE Acknowledged(a, b)'
      BY DEF Acknowledgments
    <2>1. Acknowledged(a, b) /\ HeadOf(b, a)' = HeadOf(b, a)
      BY <1>1, <1>2 DEF Acknowledgments, HeadOf
    <2> QED
      BY <1>2, <1>4, <2>1, AcknowledgedKept
  <1> QED
    BY <1>2, <1>3, <1>5, NetworkKeeps DEF gameVars

LEMMA OnAckKeeps ==
    ASSUME NetplayInv, NEW p \in Player, NEW q \in Others(p), OnAck(p, q)
    PROVE  NetplayInv'
  <1>1. NetplayTypeOK /\ Acknowledgments /\ q \in Player /\ p \in Others(q)
    BY OthersFacts DEF NetplayInv
  <1>2. /\ acks[q][p] > 0 /\ acks' = [acks EXCEPT ![q][p] = 0]
        /\ acked' = [acked EXCEPT ![p][q] = Larger(@, acks[q][p])]
        /\ pads' = pads /\ scene' = scene /\ game' = game /\ frame' = frame
        /\ final' = final /\ ready' = ready /\ active' = active /\ skipping' = skipping
        /\ toShed' = toShed /\ picked' = picked /\ mine' = mine
        /\ theirs' = theirs /\ started' = started /\ picks' = picks
    BY DEF OnAck, gameVars
  <1>3. /\ acks'[q][p] = 0 /\ acked'[p][q] = Larger(acked[p][q], acks[q][p])
        /\ acked[p][q] \in Nat /\ acks[q][p] \in Nat
    BY <1>1, <1>2, TypesOf DEF NetplayTypeOK
  <1>4. \A a \in Player : \A b \in Others(a) : a # p \/ b # q =>
           acks'[b][a] = acks[b][a] /\ acked'[a][b] = acked[a][b]
    <2> SUFFICES ASSUME NEW a \in Player, NEW b \in Others(a), a # p \/ b # q
                 PROVE  acks'[b][a] = acks[b][a] /\ acked'[a][b] = acked[a][b]
      OBVIOUS
    <2>1. b \in Player /\ a \in Others(b)
      BY OthersFacts
    <2>2. acks'[b][a] = acks[b][a]
      BY <1>1, <1>2, <2>1 DEF NetplayTypeOK
    <2>3. acked'[a][b] = acked[a][b]
      BY <1>1, <1>2 DEF NetplayTypeOK
    <2> QED
      BY <2>2, <2>3
  <1>5. NetplayTypeOK'
    <2>1. DOMAIN acks' = Player /\ \A r \in Player : acks'[r] \in [Others(r) -> Nat]
      BY <1>1, <1>2 DEF NetplayTypeOK
    <2>2. DOMAIN acked' = Player /\ \A r \in Player : acked'[r] \in [Others(r) -> Nat]
      <3>1. Larger(acked[p][q], acks[q][p]) \in Nat
        BY <1>3 DEF Larger
      <3> QED
        BY <1>1, <1>2, <3>1 DEF NetplayTypeOK
    <2> QED
      BY <1>1, <1>2, <2>1, <2>2 DEF NetplayTypeOK
  <1>6. \A r \in Player : Selected(r)' = Selected(r)
    BY <1>2 DEF Selected
  <1>7. Acknowledgments'
    <2> SUFFICES ASSUME NEW a \in Player, NEW b \in Others(a) PROVE Acknowledged(a, b)'
      BY DEF Acknowledgments
    <2>1. /\ Acknowledged(a, b) /\ HeadOf(b, a)' = HeadOf(b, a) /\ Joined(a, b)' = Joined(a, b)
      BY <1>1, <1>2 DEF Acknowledgments, HeadOf, Joined
    <2>2. CASE a = p /\ b = q
      <3>1. /\ scene[p] = "game" /\ frame[p] \in 2 .. MaxFrame /\ Joined(p, q)
            => acked'[p][q] <= HeadOf(q, p)
        BY <1>2, <1>3, <2>1, <2>2 DEF Acknowledged, Larger
      <3> QED
        BY <1>2, <1>3, <2>1, <2>2, <3>1 DEF Acknowledged
    <2>3. CASE a # p \/ b # q
      BY <1>2, <1>4, <1>6, <2>1, <2>3, AcknowledgedKept
    <2> QED
      BY <2>2, <2>3
  <1> QED
    BY <1>2, <1>5, <1>7, NetworkKeeps DEF gameVars

\* A packet that comes before the pads of the game before are cleared has nothing that is
\* missing: its sender has not got further than its second frame.
LEMMA EarlyPads ==
    ASSUME NetplayInv, NEW p \in Player, NEW m \in pads, m.to = p,
           Joined(m.from, p), started[p][m.from], game[p] < game[m.from]
    PROVE  ~Taken(p, m)
  <1> DEFINE q == m.from
  <1>1. NetplayTypeOK /\ q \in Player /\ q \in Others(p) /\ p \in Others(q)
    BY DEF NetplayInv, NetplayTypeOK, Packet, Others
  <1>2. InPlay(q) /\ m.hi <= frame[q] - 1 + Delay /\ m.hi \in Nat /\ m.lo \in Nat
    BY <1>1 DEF NetplayInv, PadsInPlay, NetplayTypeOK, Packet
  <1>3. Holds(p, q) /\ Holds(q, p)
    BY <1>1 DEF NetplayInv, Queues
  <1>4. game[p] \in Nat /\ game[q] \in Nat /\ frame[q] \in Nat /\ frame[q] > 1
    BY <1>1, <1>2, TypesOf DEF InPlay
  <1>5. started[q][p] /\ p \in active[q]
    BY <1>1, <1>2, InPlayFacts DEF Joined
  <1>6. Head0(theirs[q][p]) = 0
    <2>1. Head0(theirs[q][p]) \in Nat
      BY <1>1, HeadFacts
    <2>2. ~(Head0(theirs[q][p]) > 0)
      BY <1>1, <1>3, <1>4, NewestPad
    <2> QED
      BY <2>1, <2>2
  <1>7. frame[q] = 2
    BY <1>3, <1>4, <1>5, <1>6 DEF Holds
  <1>8. Selected(p) > game[p]
    BY <1>2, <1>4 DEF InPlay
  <1>9. Head0(theirs[p][q]) >= MaxFrame - Horizon /\ Head0(theirs[p][q]) \in Nat
    BY <1>1, <1>3, <1>8, HeadFacts DEF Holds
  <1>10. m.hi - Head0(theirs[p][q]) < 1
    BY <1>2, <1>7, <1>9
  <1> QED
    BY <1>2, <1>9, <1>10 DEF Taken, Missing, Smaller

LEMMA OnPadKeeps ==
    ASSUME NetplayInv, NEW p \in Player, NEW m \in pads, OnPad(p, m)
    PROVE  NetplayInv'
  <1> DEFINE q == m.from
  <1>1. NetplayTypeOK /\ Stages /\ Lockstep /\ Pickings /\ PadsInPlay /\ Queues /\ Acknowledgments
    BY DEF NetplayInv
  <1>2. /\ m.to = p /\ pads' = pads \ {m} /\ scene' = scene /\ game' = game /\ frame' = frame
        /\ final' = final /\ ready' = ready /\ active' = active /\ skipping' = skipping
        /\ toShed' = toShed /\ picked' = picked /\ mine' = mine /\ acked' = acked
        /\ started' = started /\ picks' = picks
    BY DEF OnPad, gameVars
  <1>3. /\ q \in Player /\ q # p /\ q \in Others(p) /\ p \in Others(q)
        /\ m.hi \in Nat /\ m.lo \in Nat /\ m.lo >= 1 /\ m.lo <= m.hi /\ m.game \in Nat
    BY <1>1, <1>2 DEF NetplayTypeOK, Packet, Others
  <1>4. \A r \in Player : Selected(r)' = Selected(r) /\ Done(r)' = Done(r) /\ AtFirst(r)' = AtFirst(r)
    BY <1>2 DEF Selected, Done, AtFirst
  <1>5. CASE ~Taken(p, m)
    <2>1. theirs' = theirs /\ acks' = acks
      BY <1>5 DEF OnPad
    <2>2. NetplayTypeOK'
      BY <1>1, <1>2, <2>1 DEF NetplayTypeOK
    <2>3. Acknowledgments'
      <3> SUFFICES ASSUME NEW a \in Player, NEW b \in Others(a) PROVE Acknowledged(a, b)'
        BY DEF Acknowledgments
      <3>1. Acknowledged(a, b) /\ HeadOf(b, a)' = HeadOf(b, a)
        BY <1>1, <1>2, <2>1 DEF Acknowledgments, HeadOf
      <3> QED
        BY <1>2, <1>4, <2>1, <3>1, AcknowledgedKept
    <2> QED
      BY <1>2, <2>1, <2>2, <2>3, NetworkKeeps DEF gameVars
  <1>6. CASE Taken(p, m)
    <2> DEFINE old == theirs[p][q]
               new == With(old, m.hi, m.game)
    <2>1. /\ theirs' = [theirs EXCEPT ![p][q] = new]
          /\ acks' = [acks EXCEPT ![p][q] = Larger(@, m.hi)]
      BY <1>6 DEF OnPad
    <2>2. IsQueue(old) /\ Head0(old) \in Nat /\ m.hi > Head0(old)
      <3>1. IsQueue(old) /\ Head0(old) \in Nat
        BY <1>1, <1>3, HeadFacts
      <3>2. m.hi - Head0(old) >= 1
        BY <1>3, <1>6, <3>1 DEF Taken, Missing, Smaller
      <3> QED
        BY <1>3, <3>1, <3>2
    <2>3. /\ theirs'[p][q] = new /\ acks'[p][q] = Larger(acks[p][q], m.hi)
          /\ \A a \in Player : \A b \in Others(a) : a # p \/ b # q =>
                theirs'[a][b] = theirs[a][b] /\ acks'[a][b] = acks[a][b]
      BY <1>1, <1>3, <2>1 DEF NetplayTypeOK
    <2>4. /\ IsQueue(new) /\ new # None /\ Head0(new) = m.hi
          /\ Oldest(new) = IF old = None THEN 1 ELSE Oldest(old)
          /\ \A f \in DOMAIN new : \/ f \in DOMAIN old /\ new[f] = old[f]
                                   \/ f \in Nat /\ f <= m.hi /\ new[f] = m.game
      BY <1>3, <2>2, WithFacts
    <2> HIDE DEF old, new
    <2>5. /\ InPlay(q) /\ m.game = game[q] /\ m.hi <= frame[q] - 1 + Delay
          /\ Selected(p) = m.game
      BY <1>1 DEF PadsInPlay, InPlay
    <2>6. /\ game[p] \in Nat /\ game[q] \in Nat /\ frame[q] \in Nat /\ frame[p] \in Nat
          /\ frame[q] > 1 /\ acks[p][q] \in Nat /\ final[p] \in Nat
      BY <1>1, <1>3, <2>5, TypesOf DEF InPlay
    <2>7. NetplayTypeOK'
      <3>1. /\ DOMAIN theirs' = Player
            /\ \A r \in Player : /\ DOMAIN theirs'[r] = Others(r)
                                 /\ \A o \in Others(r) : IsQueue(theirs'[r][o])
        <4>1. DOMAIN theirs' = Player /\ \A r \in Player : DOMAIN theirs'[r] = Others(r)
          BY <1>1, <2>1 DEF NetplayTypeOK
        <4>2. ASSUME NEW r \in Player, NEW o \in Others(r)
              PROVE  IsQueue(theirs'[r][o])
          <5>1. CASE r = p /\ o = q
            BY <2>3, <2>4, <5>1
          <5>2. CASE r # p \/ o # q
            BY <1>1, <2>3, <5>2 DEF NetplayTypeOK
          <5> QED
            BY <5>1, <5>2
        <4> QED
          BY <4>1, <4>2
      <3>2. DOMAIN acks' = Player /\ \A r \in Player : acks'[r] \in [Others(r) -> Nat]
        <4>1. Larger(acks[p][q], m.hi) \in Nat
          BY <1>3, <2>6 DEF Larger
        <4> QED
          BY <1>1, <2>1, <4>1 DEF NetplayTypeOK
      <3> QED
        BY <1>1, <1>2, <3>1, <3>2 DEF NetplayTypeOK
    <2>8. Stages' /\ Lockstep' /\ Pickings' /\ PadsInPlay'
      <3>1. Stages'
        BY <1>1, <1>2 DEF Stages, Stage, AtFirst
      <3>2. Lockstep'
        BY <1>1, <1>2, <1>4, LockstepKept
      <3>3. Pickings'
        BY <1>1, <1>2, <1>4, PickingKept, OthersFacts DEF Pickings
      <3>4. PadsInPlay'
        BY <1>1, <1>2, <1>4, PadsKept
      <3> QED
        BY <3>1, <3>2, <3>3, <3>4
    <2>9. Holds(p, q)'
      <3>1. Holds(p, q) /\ Picking(p, q) /\ Stage(p)
        BY <1>1, <1>3 DEF Queues, Pickings, Stages
      \* What it brings belongs to the game that p is in, or waits for.
      <3>2. IF started[p][q] THEN m.game >= game[p] /\ m.game <= Selected(p)
            ELSE m.game = IF AtFirst(p) THEN game[p] ELSE game[p] + 1
        <4>1. CASE started[p][q]
          BY <1>1, <2>5, <2>6, <4>1, SelectedFacts
        <4>2. CASE ~started[p][q] /\ AtFirst(p)
          BY <1>1, <2>5, <4>2, SelectedFacts DEF AtFirst
        <4>3. CASE ~started[p][q] /\ ~AtFirst(p)
          <5>1. CASE q \in picked[p]
            <6>1. Selected(q) = game[p] + 1
              BY <3>1, <4>3, <5>1 DEF Picking
            <6>2. Selected(q) = game[q]
              BY <1>3, <2>5 DEF InPlay
            <6> QED
              BY <2>5, <4>3, <6>1, <6>2
          <5>2. CASE q \notin picked[p]
            <6>1. frame[p] = 1 /\ scene[p] = "menu"
              BY <1>1, <2>6, <3>1, <4>3, <5>2, TypesOf DEF Picking, AtFirst
            <6>2. game[p] = 0
              BY <2>6, <3>1, <6>1 DEF Stage, Finished
            <6>3. Selected(p) > game[p]
              BY <1>1, <1>3, <2>5, <2>6, <6>2 DEF Stages, Stage
            <6> QED
              BY <1>1, <2>5, <2>6, <4>3, <6>3, SelectedFacts
          <5> QED
            BY <5>1, <5>2
        <4> QED
          BY <4>1, <4>2, <4>3
      <3>3. \A f \in DOMAIN new :
               /\ new[f] \in Nat /\ new[f] <= game[q]
               /\ new[f] = game[q] => Sent(q, f)
               /\ IF started[p][q] THEN new[f] >= game[p] /\ new[f] <= Selected(p)
                  ELSE new[f] = IF AtFirst(p) THEN game[p] ELSE game[p] + 1
        <4> TAKE f \in DOMAIN new
        <4>1. CASE f \in DOMAIN old /\ new[f] = old[f]
          BY <3>1, <4>1 DEF Holds, old
        <4>2. CASE f \in Nat /\ f <= m.hi /\ new[f] = m.game
          BY <1>3, <2>5, <2>6, <3>2, <4>2 DEF Sent
        <4> QED
          BY <2>4, <4>1, <4>2
      <3>4. /\ ~started[p][q] => Oldest(new) = 1
            /\ scene[p] = "game" => Oldest(new) <= Larger(1, final[p])
        BY <2>4, <2>6, <3>1 DEF Holds, Larger, old
      <3>5. Head0(new) > Head0(old) /\ Head0(new) \in Nat /\ Head0(old) \in Nat
        BY <1>3, <2>2, <2>4
      <3>6. /\ scene[p] = "game" /\ frame[p] <= MaxFrame /\ q \in active[p] => final[p] <= Head0(new)
            /\ q \in active[p] /\ started[p][q] => /\ Head0(new) >= frame[p] - 1 - Horizon
                                                   /\ frame[p] > 2 => Head0(new) > 0
            /\ started[p][q] /\ Selected(p) > game[p] => Head0(new) >= MaxFrame - Horizon
        BY <2>6, <3>1, <3>5 DEF Holds, old
      <3> QED
        BY <1>2, <1>4, <2>3, <3>3, <3>4, <3>6 DEF Holds, Sent
    <2>10. Queues'
      <3> SUFFICES ASSUME NEW a \in Player, NEW b \in Others(a) PROVE Holds(a, b)'
        BY DEF Queues
      <3>1. Holds(a, b)
        BY <1>1 DEF Queues
      <3>2. CASE a # p \/ b # q
        BY <1>2, <2>3, <3>1, <3>2, HoldsKept
      <3> QED
        BY <2>9, <3>2
    <2>11. Acknowledgments'
      <3> SUFFICES ASSUME NEW a \in Player, NEW b \in Others(a) PROVE Acknowledged(a, b)'
        BY DEF Acknowledgments
      <3>1. Acknowledged(a, b) /\ b \in Player /\ a \in Others(b) /\ b # a
        BY <1>1, OthersFacts DEF Acknowledgments
      <3>2. CASE a = q /\ b = p
        <4>1. HeadOf(p, q)' = IF started[p][q] /\ game[p] < game[q] THEN 0 ELSE m.hi
          BY <1>2, <2>3, <2>4 DEF HeadOf
        <4>2. HeadOf(p, q) = IF started[p][q] /\ game[p] < game[q] THEN 0 ELSE Head0(old)
          BY DEF HeadOf, old
        <4>3. Joined(q, p)' <=> Joined(q, p)
          BY <1>2 DEF Joined
        <4>4. Joined(q, p) => ~(started[p][q] /\ game[p] < game[q])
          BY <1>2, <1>6, EarlyPads
        <4>5. HeadOf(p, q) <= HeadOf(p, q)' /\ HeadOf(p, q) \in Nat /\ HeadOf(p, q)' \in Nat
          BY <1>3, <2>2, <4>1, <4>2
        <4>6. InPlay(q)'
          BY <1>2, <1>3, <1>4, <2>5, InPlayKept
        <4>7. Joined(q, p) => acks'[p][q] <= HeadOf(p, q)'
          <5> SUFFICES ASSUME Joined(q, p) PROVE acks'[p][q] <= HeadOf(p, q)'
            OBVIOUS
          <5>1. acks[p][q] <= HeadOf(p, q)
            BY <2>6, <3>1, <3>2, <4>5 DEF Acknowledged
          <5>2. m.hi <= HeadOf(p, q)'
            BY <1>3, <4>1, <4>4
          <5> QED
            BY <1>3, <2>3, <2>6, <4>5, <5>1, <5>2 DEF Larger
        <4>8. scene[q] = "game" /\ frame[q] \in 2 .. MaxFrame /\ Joined(q, p) =>
                 acked[q][p] <= HeadOf(p, q)' /\ mine[q].lo <= HeadOf(p, q)' + 1
          <5>1. acked[q][p] \in Nat /\ mine[q].lo \in Nat
            BY <1>1, <1>3, TypesOf
          <5> QED
            BY <3>1, <3>2, <4>5, <5>1 DEF Acknowledged
        <4> QED
          BY <1>2, <3>2, <4>3, <4>6, <4>7, <4>8 DEF Acknowledged
      <3>3. CASE ~(a = q /\ b = p)
        <4>1. theirs'[b][a] = theirs[b][a] /\ acks'[b][a] = acks[b][a]
          BY <2>3, <3>1, <3>3
        <4>2. HeadOf(b, a)' = HeadOf(b, a)
          BY <1>2, <3>1, <4>1, HeadOfKept
        <4> QED
          BY <1>2, <1>4, <3>1, <4>1, <4>2, AcknowledgedKept
      <3> QED
        BY <3>2, <3>3
    <2> QED
      BY <2>7, <2>8, <2>10, <2>11 DEF NetplayInv
  <1> QED
    BY <1>5, <1>6

-----------------------------------------------------------------------------
(* The online frame *)

\* What holds of a player that asks for pads.
LEMMA Asking ==
    ASSUME NetplayInv, NEW p \in Player, scene[p] = "game", frame[p] <= MaxFrame
    PROVE  /\ game[p] \in Nat /\ game[p] > 0 /\ frame[p] \in Nat /\ frame[p] >= 1
           /\ final[p] \in Nat /\ (frame[p] = 1 => final[p] = 0) /\ final[p] >= frame[p] - 1 - Horizon
           /\ frame[p] > 1 => InPlay(p) /\ picked[p] = {} /\ ~ready[p]
           /\ \A q \in Others(p) :
                 /\ started[p][q] <=> frame[p] > 1
                 /\ picks[q][p] = <<>>
                 /\ \A f \in DOMAIN theirs[p][q] : theirs[p][q][f] = game[p]
                 /\ theirs[p][q] # None => game[q] = game[p]
  <1>1. NetplayTypeOK /\ Stage(p) /\ \A r \in Player : Selected(r) = game[p] /\ game[r] <= game[p]
    BY Playing DEF NetplayInv, Stages
  <1>2. /\ game[p] \in Nat /\ game[p] > 0 /\ frame[p] \in Nat /\ frame[p] >= 1 /\ final[p] \in Nat
        /\ final[p] >= frame[p] - 1 - Horizon /\ (AtFirst(p) <=> frame[p] = 1)
        /\ (frame[p] = 1 => final[p] = 0)
    BY <1>1, TypesOf DEF Stage, AtFirst
  <1>3. frame[p] > 1 => InPlay(p) /\ picked[p] = {} /\ ~ready[p]
    <2>1. frame[p] > 1 => InPlay(p)
      BY <1>1 DEF InPlay
    <2>2. picked[p] \subseteq Others(p)
      BY <1>1, TypesOf
    <2> QED
      BY <1>1, <1>2, <2>1, <2>2, InPlayFacts DEF Stage
  <1>4. ASSUME NEW q \in Others(p)
        PROVE  /\ started[p][q] <=> frame[p] > 1
               /\ picks[q][p] = <<>>
               /\ \A f \in DOMAIN theirs[p][q] : theirs[p][q][f] = game[p]
               /\ theirs[p][q] # None => game[q] = game[p]
    <2>1. Picking(p, q) /\ Holds(p, q) /\ q \in Player /\ p \in Others(q) /\ game[q] \in Nat
      BY <1>1, OthersFacts, TypesOf DEF NetplayInv, Pickings, Queues
    <2>2. started[p][q] <=> frame[p] > 1
      BY <1>3, <2>1 DEF Picking
    <2>3. picks[q][p] = <<>>
      <3>1. ~Pending(p, q) /\ picks[q][p] \notin {<<FALSE>>, <<FALSE, TRUE>>}
        <4>1. Selected(q) # game[p] + 1 /\ game[p] # 0
          BY <1>1, <1>2, <2>1
        <4> QED
          BY <2>1, <4>1, Zenon DEF Picking
      <3> QED
        BY <1>1, <2>1, <3>1 DEF NetplayTypeOK, Pending
    <2>4. \A f \in DOMAIN theirs[p][q] : theirs[p][q][f] = game[p] /\ game[p] <= game[q]
      <3> TAKE f \in DOMAIN theirs[p][q]
      <3>1. theirs[p][q][f] \in Nat /\ theirs[p][q][f] <= game[q]
        BY <2>1 DEF Holds
      <3>2. theirs[p][q][f] = game[p]
        BY <1>1, <1>2, <2>1, <2>2, <3>1 DEF Holds
      <3> QED
        BY <3>1, <3>2
    <2>5. theirs[p][q] # None => game[q] = game[p]
      <3> SUFFICES ASSUME theirs[p][q] # None PROVE game[q] = game[p]
        OBVIOUS
      <3>1. Head0(theirs[p][q]) \in DOMAIN theirs[p][q]
        BY <1>1, HeadFacts, QueueFacts
      <3> QED
        BY <1>1, <1>2, <2>1, <2>4, <3>1
    <2> QED
      BY <2>2, <2>3, <2>4, <2>5
  <1> QED
    BY <1>2, <1>3, <1>4

\* The newest pad a player is given of another is of the window the pads it has of it begin.
LEMMA LatestOfFacts ==
    ASSUME NetplayInv, NEW p \in Player, scene[p] = "game", frame[p] <= MaxFrame,
           NEW q \in Others(p)
    PROVE  LET queue == theirs[p][q] IN
           /\ LatestOf(p, q) \in Nat /\ LatestOf(p, q) <= Head0(queue)
           /\ q \in active[p] => LatestOf(p, q) >= Smaller(Head0(queue), final[p] + Horizon - 1)
  <1> DEFINE queue == theirs[p][q]
             short == Shortened(queue, final[p])
  <1>1. /\ IsQueue(queue) /\ Head0(queue) \in Nat /\ final[p] \in Nat
        /\ q \in active[p] => final[p] <= Head0(queue)
    BY HeadFacts, TypesOf DEF NetplayInv, Queues, Holds
  <1>2. /\ IsQueue(short) /\ Head0(short) = Head0(queue) /\ (short = None <=> queue = None)
        /\ queue # None => Oldest(short) = Larger(Oldest(queue), Smaller(final[p], Head0(queue)))
    BY <1>1, ShortenedFacts
  <1>3. queue # None => Oldest(queue) \in Nat
    BY <1>1, QueueFacts
  <1>4. Latest(short) \in Nat /\ Latest(short) <= Head0(short)
    BY <1>2, QueueFacts
  <1>5. q \in active[p] => Latest(short) >= Smaller(Head0(queue), final[p] + Horizon - 1)
    <2> SUFFICES ASSUME q \in active[p]
                 PROVE  Latest(short) >= Smaller(Head0(queue), final[p] + Horizon - 1)
      OBVIOUS
    <2>1. CASE queue = None
      <3>1. Latest(short) = 0 /\ Head0(queue) = 0
        BY <1>2, <2>1, EmptyQueue
      <3> QED
        BY <1>1, <3>1 DEF Smaller
    <2>2. CASE queue # None
      <3>1. Latest(short) = Smaller(Head0(queue), Oldest(short) + Horizon - 1)
        BY <1>2, <2>2, LatestFacts
      <3>2. Oldest(short) \in Nat /\ Oldest(short) >= final[p]
        BY <1>1, <1>2, <1>3, <2>2 DEF Larger, Smaller
      <3> HIDE DEF queue, short
      <3> QED
        BY <1>1, <3>1, <3>2 DEF Smaller
    <2> QED
      BY <2>1, <2>2
  <1> QED
    BY <1>2, <1>4, <1>5 DEF LatestOf

\* Nobody is waited for at the first frame.
LEMMA BehindFacts ==
    ASSUME NetplayInv, NEW p \in Player, scene[p] = "game", frame[p] <= MaxFrame
    PROVE  /\ Behind(p) \subseteq active[p]
           /\ frame[p] = 1 => Behind(p) = {}
           /\ Behind(p) = {} =>
                 \A q \in active[p] : /\ LatestOf(p, q) >= frame[p] - Horizon
                                      /\ frame[p] = 2 => LatestOf(p, q) >= 1
  <1>1. active[p] \subseteq Others(p) /\ frame[p] \in Nat
    BY TypesOf DEF NetplayInv
  <1>2. \A q \in active[p] : LatestOf(p, q) \in Nat
    BY <1>1, LatestOfFacts
  <1> QED
    BY <1>1, <1>2 DEF Behind, Enough

LEMMA StartFacts ==
    ASSUME NetplayInv, NEW p \in Player, scene[p] = "game", frame[p] <= MaxFrame
    PROVE  /\ AcksAtStart(p) \in [Others(p) -> Nat]
           /\ QueueAtStart(p).lo \in Nat /\ QueueAtStart(p).lo >= 1 /\ QueueAtStart(p).hi \in Nat
           /\ QueueAtStart(p).hi = IF frame[p] = 1 THEN 0 ELSE frame[p] - 1 + Delay
           /\ \A q \in Others(p) : frame[p] = 1 \/ Joined(p, q) =>
                 AcksAtStart(p)[q] <= HeadOf(q, p) /\ QueueAtStart(p).lo <= HeadOf(q, p) + 1
  <1>1. NetplayTypeOK /\ Stage(p) /\ \A q \in Others(p) : Acknowledged(p, q)
    BY DEF NetplayInv, Stages, Acknowledgments
  <1>2. frame[p] \in Nat /\ frame[p] >= 1
    BY <1>1, TypesOf
  <1>3. \A q \in Others(p) : HeadOf(q, p) \in Nat
    BY <1>1, OthersFacts, HeadFacts
  <1>4. CASE frame[p] = 1
    BY <1>3, <1>4 DEF AcksAtStart, QueueAtStart
  <1>5. CASE frame[p] # 1
    <2>1. AcksAtStart(p) = acked[p] /\ QueueAtStart(p) = mine[p]
      BY <1>5 DEF AcksAtStart, QueueAtStart
    <2>2. acked[p] \in [Others(p) -> Nat] /\ mine[p].lo \in Nat /\ mine[p].lo >= 1 /\ mine[p].hi \in Nat
      BY <1>1, TypesOf DEF NetplayTypeOK
    <2>3. mine[p].hi = frame[p] - 1 + Delay
      BY <1>1, <1>2, <1>5 DEF Stage
    <2> QED
      BY <1>1, <1>2, <1>5, <2>1, <2>2, <2>3 DEF Acknowledged
  <1> QED
    BY <1>4, <1>5

\* What sending to those left does: the queue keeps what one of them has not acknowledged, and
\* every packet that is new holds it.
LEMMA SendPadDoes ==
    ASSUME NetplayInv, NEW p \in Player, scene[p] = "game", frame[p] <= MaxFrame,
           NEW hi \in Nat, NEW remaining \in SUBSET Others(p), remaining # {},
           SendPad(p, hi, remaining)
    PROVE  \E queue \in [lo : Nat \ {0}, hi : Nat] :
              /\ mine' = [mine EXCEPT ![p] = queue] /\ queue.hi = hi
              /\ \A q \in remaining :
                    queue.lo <= Larger(QueueAtStart(p).lo, Larger(AcksAtStart(p)[q], hi - MaxCopied))
              /\ frame[p] = 1 => queue.lo = Larger(1, hi - MaxCopied)
              /\ \A m \in pads' : \/ m \in pads
                                  \/ /\ queue.lo <= hi
                                     /\ \E q \in Others(p) :
                                           m = [from |-> p, to |-> q, game |-> game[p],
                                                lo |-> queue.lo, hi |-> hi]
              /\ IF queue.lo > hi THEN started' = started
                 ELSE started' = [started EXCEPT ![p] = [q \in Others(p) |-> TRUE]]
  <1> DEFINE S == {AcksAtStart(p)[q] : q \in remaining}
             queue == Unacknowledged(p, hi, remaining)
  <1>1. AcksAtStart(p) \in [Others(p) -> Nat] /\ QueueAtStart(p).lo \in Nat /\ QueueAtStart(p).lo >= 1
    BY StartFacts
  <1>2. Least(S) \in S /\ Least(S) \in Nat /\ \A q \in remaining : Least(S) <= AcksAtStart(p)[q]
    <2>1. S \in SUBSET Nat /\ S # {}
      BY <1>1
    <2>2. Least(S) \in S /\ \A s \in S : Least(S) <= s
      BY <2>1, LeastOf
    <2> QED
      BY <2>1, <2>2
  <1>3. /\ queue = [lo |-> Larger(QueueAtStart(p).lo, Larger(Least(S), hi - MaxCopied)), hi |-> hi]
        /\ queue.lo = Larger(QueueAtStart(p).lo, Larger(Least(S), hi - MaxCopied)) /\ queue.hi = hi
    BY DEF Unacknowledged
  <1>4. \A q \in remaining : AcksAtStart(p)[q] \in Nat
    BY <1>1
  <1>5. mine' = [mine EXCEPT ![p] = queue]
    BY DEF SendPad
  <1>6. IF queue.lo > hi THEN pads' = pads /\ started' = started
        ELSE pads' = Sending(p, queue) /\ started' = [started EXCEPT ![p] = [q \in Others(p) |-> TRUE]]
    BY <1>3 DEF SendPad
  <1> HIDE DEF queue, S
  <1>7. queue \in [lo : Nat \ {0}, hi : Nat]
    BY <1>1, <1>2, <1>3 DEF Larger
  <1>8. \A q \in remaining :
           queue.lo <= Larger(QueueAtStart(p).lo, Larger(AcksAtStart(p)[q], hi - MaxCopied))
    BY <1>1, <1>2, <1>3, <1>4 DEF Larger
  <1>9. frame[p] = 1 => queue.lo = Larger(1, hi - MaxCopied)
    <2> SUFFICES ASSUME frame[p] = 1 PROVE queue.lo = Larger(1, hi - MaxCopied)
      OBVIOUS
    <2>1. QueueAtStart(p).lo = 1 /\ AcksAtStart(p) = [q \in Others(p) |-> 0]
      BY DEF QueueAtStart, AcksAtStart
    <2>2. Least(S) = 0
      BY <1>2, <2>1 DEF S
    <2> QED
      BY <1>3, <2>1, <2>2 DEF Larger
  <1>10. ASSUME NEW m \in pads', m \notin pads
         PROVE  /\ queue.lo <= hi
                /\ \E q \in Others(p) : m = [from |-> p, to |-> q, game |-> game[p],
                                             lo |-> queue.lo, hi |-> hi]
    <2>1. queue.lo <= hi /\ m \in Sending(p, queue)
      BY <1>6, <1>7, <1>10
    <2> QED
      BY <1>3, <1>10, <2>1 DEF Sending
  <1> QED
    BY <1>3, <1>5, <1>6, <1>7, <1>8, <1>9, <1>10

\* What a call does to the player that makes it: it runs the frame, with everyone's pads there as
\* far back as the window, or holds it.
Asked(p) ==
    /\ final'[p] \in Nat /\ final'[p] >= final[p]
    /\ \/ frame'[p] = frame[p] /\ final'[p] = final[p]
       \/ /\ frame'[p] = frame[p] + 1
          /\ final'[p] >= frame[p] - Horizon
          /\ \A q \in active'[p] : /\ final'[p] <= Head0(theirs[p][q])
                                   /\ Head0(theirs[p][q]) >= frame[p] - Horizon
                                   /\ frame[p] = 2 => Head0(theirs[p][q]) > 0
    /\ active'[p] \subseteq active[p]
    /\ toShed'[p] \in Nat /\ skipping'[p] \in BOOLEAN
    /\ mine'[p] \in [lo : Nat \ {0}, hi : Nat]
    /\ frame'[p] > 1 => mine'[p].hi = frame'[p] - 1 + Delay
    /\ frame'[p] > 1 =>
          \A q \in active'[p] :
             mine'[p].lo <= Larger(QueueAtStart(p).lo,
                                   Larger(AcksAtStart(p)[q], frame'[p] - 1 + Delay - MaxCopied))
    /\ started'[p] \in [Others(p) -> BOOLEAN]
    /\ \A q \in Others(p) : started'[p][q] <=> frame'[p] > 1
    /\ \A m \in pads' :
          \/ m \in pads
          \/ /\ m \in Packet /\ m.from = p /\ m.to # p /\ m.game = game[p] /\ m.lo <= m.hi
             /\ frame'[p] > 1 /\ m.hi = frame'[p] - 1 + Delay

\* Sending again, or for the first time, is all that it does to what is told of its pads.
LEMMA SendingAsked ==
    ASSUME NetplayInv, NEW p \in Player, scene[p] = "game", frame[p] <= MaxFrame,
           NEW hi \in Nat, NEW remaining \in SUBSET active[p], remaining # {},
           SendPad(p, hi, remaining),
           frame'[p] \in Nat, frame'[p] \in {frame[p], frame[p] + 1},
           hi = IF frame'[p] = 1 THEN 0 ELSE frame'[p] - 1 + Delay,
           active'[p] = remaining
    PROVE  /\ mine'[p] \in [lo : Nat \ {0}, hi : Nat]
           /\ frame'[p] > 1 => mine'[p].hi = frame'[p] - 1 + Delay
           /\ frame'[p] > 1 =>
                 \A q \in active'[p] :
                    mine'[p].lo <= Larger(QueueAtStart(p).lo,
                                          Larger(AcksAtStart(p)[q], frame'[p] - 1 + Delay - MaxCopied))
           /\ started'[p] \in [Others(p) -> BOOLEAN]
           /\ \A q \in Others(p) : started'[p][q] <=> frame'[p] > 1
           /\ \A m \in pads' :
                 \/ m \in pads
                 \/ /\ m \in Packet /\ m.from = p /\ m.to # p /\ m.game = game[p] /\ m.lo <= m.hi
                    /\ frame'[p] > 1 /\ m.hi = frame'[p] - 1 + Delay
           /\ \A r \in Player : r # p => mine'[r] = mine[r] /\ started'[r] = started[r]
           /\ mine' = [r \in Player |-> mine'[r]] /\ DOMAIN started' = Player
  <1>1. NetplayTypeOK /\ active[p] \subseteq Others(p)
    BY TypesOf DEF NetplayInv
  <1>2. PICK queue \in [lo : Nat \ {0}, hi : Nat] :
              /\ mine' = [mine EXCEPT ![p] = queue] /\ queue.hi = hi
              /\ \A q \in remaining :
                    queue.lo <= Larger(QueueAtStart(p).lo, Larger(AcksAtStart(p)[q], hi - MaxCopied))
              /\ frame[p] = 1 => queue.lo = Larger(1, hi - MaxCopied)
              /\ \A m \in pads' : \/ m \in pads
                                  \/ /\ queue.lo <= hi
                                     /\ \E q \in Others(p) :
                                           m = [from |-> p, to |-> q, game |-> game[p],
                                                lo |-> queue.lo, hi |-> hi]
              /\ IF queue.lo > hi THEN started' = started
                 ELSE started' = [started EXCEPT ![p] = [q \in Others(p) |-> TRUE]]
    BY <1>1, SendPadDoes
  <1>3. mine'[p] = queue /\ \A r \in Player : r # p => mine'[r] = mine[r]
    BY <1>1, <1>2 DEF NetplayTypeOK
  <1>4. /\ frame[p] \in Nat /\ frame[p] >= 1 /\ game[p] \in Nat /\ queue.lo \in Nat /\ queue.lo >= 1
        /\ \A q \in Others(p) : started[p][q] <=> frame[p] > 1
    BY Asking
  <1>5. /\ DOMAIN started' = Player
        /\ \A r \in Player : r # p => started'[r] = started[r]
        /\ started'[p] = IF queue.lo > hi THEN started[p] ELSE [q \in Others(p) |-> TRUE]
    BY <1>1, <1>2 DEF NetplayTypeOK
  <1>6. started[p] \in [Others(p) -> BOOLEAN]
    BY <1>1 DEF NetplayTypeOK
  <1>7. started'[p] \in [Others(p) -> BOOLEAN] /\ \A q \in Others(p) : started'[p][q] <=> frame'[p] > 1
    <2>1. CASE frame'[p] = 1
      <3>1. queue.lo > hi /\ ~(frame[p] > 1) /\ ~(frame'[p] > 1)
        BY <1>4, <2>1
      <3>2. started'[p] = started[p]
        BY <1>5, <3>1
      <3> QED
        BY <1>4, <1>6, <3>1, <3>2
    <2>2. CASE frame'[p] # 1 /\ queue.lo > hi
      <3>1. frame[p] # 1
        BY <1>2, <1>4, <2>2 DEF Larger
      <3> QED
        BY <1>4, <1>5, <1>6, <2>2, <3>1
    <2>3. CASE frame'[p] # 1 /\ ~(queue.lo > hi)
      <3>1. frame'[p] > 1 /\ started'[p] = [q \in Others(p) |-> TRUE]
        BY <1>4, <1>5, <2>3
      <3> QED
        BY <3>1
    <2> QED
      BY <2>1, <2>2, <2>3
  <1>8. ASSUME NEW m \in pads', m \notin pads
        PROVE  /\ m \in Packet /\ m.from = p /\ m.to # p /\ m.game = game[p] /\ m.lo <= m.hi
               /\ frame'[p] > 1 /\ m.hi = frame'[p] - 1 + Delay
    <2>1. PICK q \in Others(p) : m = [from |-> p, to |-> q, game |-> game[p], lo |-> queue.lo, hi |-> hi]
      BY <1>2, <1>8
    <2>2. queue.lo <= hi
      BY <1>2, <1>8
    <2>3. frame'[p] > 1 /\ hi = frame'[p] - 1 + Delay
      BY <1>4, <2>2
    <2> QED
      BY <1>4, <2>1, <2>2, <2>3 DEF Packet, Others
  <1>9. frame'[p] > 1 =>
           /\ hi = frame'[p] - 1 + Delay /\ mine'[p].hi = hi
           /\ \A q \in active'[p] :
                 mine'[p].lo <= Larger(QueueAtStart(p).lo, Larger(AcksAtStart(p)[q], hi - MaxCopied))
    BY <1>2, <1>3
  <1>10. mine' = [r \in Player |-> mine'[r]]
    BY <1>1, <1>2 DEF NetplayTypeOK
  <1>11. mine'[p] \in [lo : Nat \ {0}, hi : Nat]
    BY <1>3
  <1>12. frame'[p] > 1 =>
           \A q \in active'[p] :
              mine'[p].lo <= Larger(QueueAtStart(p).lo,
                                    Larger(AcksAtStart(p)[q], frame'[p] - 1 + Delay - MaxCopied))
    BY <1>9
  <1> QED
    BY <1>3, <1>5, <1>7, <1>8, <1>9, <1>10, <1>11, <1>12

\* What of the others' it changes: nothing but what is under way to them.
Untouched(p) ==
    /\ scene' = scene /\ game' = game /\ acks' = acks /\ picks' = picks
    /\ \A r \in Player : r # p =>
          /\ frame'[r] = frame[r] /\ final'[r] = final[r] /\ ready'[r] = ready[r]
          /\ picked'[r] = picked[r] /\ active'[r] = active[r] /\ skipping'[r] = skipping[r]
          /\ toShed'[r] = toShed[r] /\ mine'[r] = mine[r] /\ acked'[r] = acked[r]
          /\ theirs'[r] = theirs[r] /\ started'[r] = started[r]
    /\ frame' = [r \in Player |-> frame'[r]] /\ final' = [r \in Player |-> final'[r]] /\ ready' = [r \in Player |-> ready'[r]]
    /\ picked' = [r \in Player |-> picked'[r]] /\ active' = [r \in Player |-> active'[r]] /\ skipping' = [r \in Player |-> skipping'[r]]
    /\ toShed' = [r \in Player |-> toShed'[r]] /\ mine' = [r \in Player |-> mine'[r]] /\ DOMAIN acked' = Player
    /\ DOMAIN theirs' = Player /\ DOMAIN started' = Player

Cleaned(p) ==
    /\ picked'[p] = {} /\ ready'[p] = FALSE
    /\ acked'[p] = AcksAtStart(p)
    /\ theirs'[p] = [q \in Others(p) |-> Shortened(theirs[p][q], final[p])]

LEMMA HoldDoes ==
    ASSUME NetplayInv, NEW p \in Player, Inputs(p), Hold(p)
    PROVE  /\ Asked(p)
           /\ \A r \in Player : r # p => /\ active'[r] = active[r] /\ mine'[r] = mine[r]
                                         /\ started'[r] = started[r]
           /\ active' = [r \in Player |-> active'[r]] /\ mine' = [r \in Player |-> mine'[r]] /\ DOMAIN started' = Player
  <1>1. /\ scene[p] = "game" /\ frame[p] <= MaxFrame /\ frame' = frame /\ final' = final
        /\ skipping' = skipping /\ toShed' = toShed /\ Behind(p) # {}
    BY DEF Inputs, Hold
  <1>2. PICK late \in SUBSET {q \in Behind(p) : p \in Drops} :
              /\ active' = [active EXCEPT ![p] = @ \ late]
              /\ IF late = active[p] THEN UNCHANGED <<mine, pads, started>>
                 ELSE SendAgain(p, active[p] \ late)
    BY DEF Hold
  <1>3. NetplayTypeOK /\ Stage(p)
    BY DEF NetplayInv, Stages
  <1>4. /\ frame[p] \in Nat /\ frame[p] > 1 /\ final[p] \in Nat
        /\ \A q \in Others(p) : started[p][q] <=> frame[p] > 1
    BY <1>1, Asking, BehindFacts
  <1>5. late \subseteq active[p]
    BY <1>1, <1>2, BehindFacts
  <1>6. /\ active'[p] = active[p] \ late /\ \A r \in Player : r # p => active'[r] = active[r]
        /\ active' = [r \in Player |-> active'[r]]
    BY <1>2, <1>3 DEF NetplayTypeOK
  <1>7. toShed'[p] \in Nat /\ skipping'[p] \in BOOLEAN
    BY <1>1, <1>3 DEF NetplayTypeOK
  <1>8. CASE late = active[p]
    <2>1. mine' = mine /\ pads' = pads /\ started' = started /\ active'[p] = {}
      BY <1>2, <1>6, <1>8
    <2>2. mine[p] \in [lo : Nat \ {0}, hi : Nat] /\ mine[p].hi = frame[p] - 1 + Delay
      BY <1>3, <1>4 DEF NetplayTypeOK, Stage
    <2>3. started[p] \in [Others(p) -> BOOLEAN] /\ mine = [r \in Player |-> mine[r]] /\ DOMAIN started = Player
      BY <1>3 DEF NetplayTypeOK
    <2> QED
      BY <1>1, <1>4, <1>6, <1>7, <2>1, <2>2, <2>3 DEF Asked
  <1>9. CASE late # active[p]
    <2>1. SendPad(p, QueueAtStart(p).hi, active[p] \ late) /\ active[p] \ late # {}
      BY <1>2, <1>5, <1>9 DEF SendAgain
    <2>2. PICK hi \in Nat : /\ SendPad(p, hi, active[p] \ late)
                           /\ hi = IF frame'[p] = 1 THEN 0 ELSE frame'[p] - 1 + Delay
      BY <1>1, <2>1, StartFacts
    <2>3. frame'[p] = frame[p] /\ frame'[p] \in Nat /\ final'[p] = final[p] /\ final'[p] >= final[p]
      BY <1>1, <1>4
    <2>4. PICK remaining \in SUBSET active[p] :
             active'[p] = remaining /\ remaining # {} /\ SendPad(p, hi, remaining)
      BY <1>6, <2>1, <2>2
    <2> QED
      BY <1>1, <1>4, <1>6, <1>7, <2>2, <2>3, <2>4, SendingAsked DEF Asked
  <1> QED
    BY <1>8, <1>9

LEMMA ShedDoes ==
    ASSUME NetplayInv, NEW p \in Player, Inputs(p), Shed(p)
    PROVE  /\ Asked(p)
           /\ \A r \in Player : r # p => /\ skipping'[r] = skipping[r] /\ toShed'[r] = toShed[r]
                                         /\ mine'[r] = mine[r] /\ started'[r] = started[r]
           /\ skipping' = [r \in Player |-> skipping'[r]] /\ toShed' = [r \in Player |-> toShed'[r]]
           /\ mine' = [r \in Player |-> mine'[r]] /\ DOMAIN started' = Player
  <1>1. /\ scene[p] = "game" /\ frame[p] <= MaxFrame /\ frame' = frame /\ final' = final
        /\ active' = active /\ active[p] # {} /\ skipping' = [skipping EXCEPT ![p] = TRUE]
        /\ SendPad(p, QueueAtStart(p).hi, active[p])
    BY DEF Inputs, Shed, SendAgain
  <1>2. NetplayTypeOK
    BY DEF NetplayInv
  <1>3. /\ toShed'[p] \in Nat /\ toShed' = [r \in Player |-> toShed'[r]]
        /\ \A r \in Player : r # p => toShed'[r] = toShed[r]
    <2>1. PICK n \in Nat : toShed' = [toShed EXCEPT ![p] = n]
      <3>1. CASE toShed[p] > 0 /\ toShed' = [toShed EXCEPT ![p] = @ - 1]
        <4>1. toShed[p] - 1 \in Nat
          BY <1>2, <3>1 DEF NetplayTypeOK
        <4> QED
          BY <3>1, <4>1
      <3>2. CASE \E n \in 1 .. MaxShed : toShed' = [toShed EXCEPT ![p] = n - 1]
        <4>1. PICK n \in 1 .. MaxShed : toShed' = [toShed EXCEPT ![p] = n - 1]
          BY <3>2
        <4>2. n - 1 \in Nat
          OBVIOUS
        <4> QED
          BY <4>1, <4>2
      <3> QED
        BY <3>1, <3>2 DEF Shed
    <2> QED
      BY <1>2, <2>1 DEF NetplayTypeOK
  <1>4. skipping'[p] \in BOOLEAN /\ skipping' = [r \in Player |-> skipping'[r]]
        /\ \A r \in Player : r # p => skipping'[r] = skipping[r]
    BY <1>1, <1>2 DEF NetplayTypeOK
  <1>5. /\ frame'[p] = frame[p] /\ frame'[p] \in Nat /\ active'[p] = active[p]
        /\ final'[p] = final[p] /\ final'[p] \in Nat /\ final'[p] >= final[p]
    BY <1>1, Asking
  <1>6. PICK hi \in Nat, remaining \in SUBSET active[p] :
           /\ SendPad(p, hi, remaining) /\ active'[p] = remaining /\ remaining # {}
           /\ hi = IF frame'[p] = 1 THEN 0 ELSE frame'[p] - 1 + Delay
    <2>1. QueueAtStart(p).hi \in Nat
          /\ QueueAtStart(p).hi = IF frame'[p] = 1 THEN 0 ELSE frame'[p] - 1 + Delay
      BY <1>1, <1>5, StartFacts
    <2> QED
      BY <1>1, <1>5, <2>1
  <1>7. scene[p] = "game" /\ frame[p] <= MaxFrame /\ frame[p] \in Nat
    BY <1>1, Asking
  <1>8. /\ mine' = [r \in Player |-> mine'[r]] /\ DOMAIN started' = Player
        /\ \A r \in Player : r # p => mine'[r] = mine[r] /\ started'[r] = started[r]
    BY <1>5, <1>6, <1>7, SendingAsked
  <1>9. Asked(p)
    BY <1>3, <1>4, <1>5, <1>6, <1>7, SendingAsked DEF Asked
  <1> QED
    BY <1>3, <1>4, <1>8, <1>9

LEMMA RunDoes ==
    ASSUME NetplayInv, NEW p \in Player, Inputs(p), Run(p)
    PROVE  /\ Asked(p)
           /\ \A r \in Player : r # p => /\ skipping'[r] = skipping[r] /\ frame'[r] = frame[r]
                                         /\ final'[r] = final[r]
                                         /\ mine'[r] = mine[r] /\ started'[r] = started[r]
           /\ skipping' = [r \in Player |-> skipping'[r]] /\ frame' = [r \in Player |-> frame'[r]] /\ final' = [r \in Player |-> final'[r]]
           /\ mine' = [r \in Player |-> mine'[r]] /\ DOMAIN started' = Player
  <1>1. /\ scene[p] = "game" /\ frame[p] <= MaxFrame /\ active' = active /\ active[p] # {}
        /\ toShed' = toShed /\ Behind(p) = {} /\ skipping' = [skipping EXCEPT ![p] = FALSE]
        /\ frame' = [frame EXCEPT ![p] = @ + 1]
        /\ final' = [final EXCEPT ![p] = Larger(@, EveryonesLatest(p))]
        /\ SendPad(p, frame[p] + Delay, active[p])
    BY DEF Inputs, Run
  <1>2. NetplayTypeOK /\ active[p] \subseteq Others(p)
    BY TypesOf DEF NetplayInv
  <1>3. /\ frame'[p] = frame[p] + 1 /\ final'[p] = Larger(final[p], EveryonesLatest(p))
        /\ \A r \in Player : r # p => /\ skipping'[r] = skipping[r] /\ frame'[r] = frame[r]
                                      /\ final'[r] = final[r]
        /\ skipping' = [r \in Player |-> skipping'[r]] /\ frame' = [r \in Player |-> frame'[r]] /\ final' = [r \in Player |-> final'[r]]
        /\ skipping'[p] \in BOOLEAN /\ toShed'[p] \in Nat
    BY <1>1, <1>2 DEF NetplayTypeOK
  <1>4. frame[p] \in Nat /\ frame[p] >= 1 /\ final[p] \in Nat
    BY <1>1, Asking
  <1>5. \A q \in active[p] :
           /\ LatestOf(p, q) \in Nat /\ LatestOf(p, q) <= Head0(theirs[p][q])
           /\ LatestOf(p, q) >= frame[p] - Horizon
           /\ frame[p] = 2 => LatestOf(p, q) >= 1
           /\ Head0(theirs[p][q]) \in Nat /\ final[p] <= Head0(theirs[p][q])
    <2> TAKE q \in active[p]
    <2>1. Head0(theirs[p][q]) \in Nat
      BY <1>2, HeadFacts
    <2>2. final[p] <= Head0(theirs[p][q])
      BY <1>1, <1>2 DEF NetplayInv, Queues, Holds
    <2> QED
      BY <1>1, <1>2, <2>1, <2>2, LatestOfFacts, BehindFacts
  <1>6. PICK e \in Nat : /\ EveryonesLatest(p) = e /\ e >= frame[p] - Horizon
                         /\ \A q \in active[p] : e <= LatestOf(p, q)
    <2> DEFINE S == {LatestOf(p, q) : q \in active[p]}
    <2>1. S \in SUBSET Nat /\ S # {}
      BY <1>1, <1>5
    <2>2. Least(S) \in S /\ \A s \in S : Least(S) <= s
      BY <2>1, LeastOf
    <2>3. Least(S) \in Nat /\ Least(S) >= frame[p] - Horizon /\ \A q \in active[p] : Least(S) <= LatestOf(p, q)
      BY <1>5, <2>1, <2>2
    <2>4. EveryonesLatest(p) = Smaller(frame[p], Least(S))
      BY DEF EveryonesLatest
    <2> HIDE DEF S
    <2> QED
      BY <1>4, <1>5, <2>3, <2>4 DEF Smaller
  <1>7. /\ final'[p] \in Nat /\ final'[p] >= final[p] /\ final'[p] >= frame[p] - Horizon
        /\ \A q \in active[p] : final'[p] <= Head0(theirs[p][q])
    BY <1>3, <1>4, <1>5, <1>6 DEF Larger
  <1>8. \A q \in active[p] : /\ Head0(theirs[p][q]) >= frame[p] - Horizon
                             /\ frame[p] = 2 => Head0(theirs[p][q]) > 0
    BY <1>4, <1>5
  <1>9. frame'[p] \in Nat /\ frame[p] + Delay \in Nat
        /\ frame[p] + Delay = IF frame'[p] = 1 THEN 0 ELSE frame'[p] - 1 + Delay
    BY <1>3, <1>4
  <1>10. /\ mine' = [r \in Player |-> mine'[r]] /\ DOMAIN started' = Player
         /\ \A r \in Player : r # p => mine'[r] = mine[r] /\ started'[r] = started[r]
    BY <1>1, <1>3, <1>9, SendingAsked
  <1>11. Asked(p)
    BY <1>1, <1>3, <1>7, <1>8, <1>9, SendingAsked DEF Asked
  <1> QED
    BY <1>3, <1>10, <1>11

LEMMA InputsDo ==
    ASSUME NetplayInv, NEW p \in Player, Inputs(p)
    PROVE  Asked(p) /\ Untouched(p) /\ Cleaned(p)
  <1>1. /\ scene[p] = "game" /\ frame[p] <= MaxFrame /\ StartGame(p)
        /\ theirs' = [theirs EXCEPT ![p] = [q \in Others(p) |-> Shortened(@[q], final[p])]]
        /\ scene' = scene /\ game' = game /\ acks' = acks /\ picks' = picks
        /\ Hold(p) \/ Shed(p) \/ Run(p)
    BY DEF Inputs
  <1>2. NetplayTypeOK
    BY DEF NetplayInv
  <1>3. Cleaned(p)
    <2>1. acked'[p] = AcksAtStart(p)
          /\ theirs'[p] = [q \in Others(p) |-> Shortened(theirs[p][q], final[p])]
      BY <1>1, <1>2 DEF NetplayTypeOK, StartGame
    <2>2. ready'[p] = (ready[p] /\ frame[p] # 1)
          /\ picked'[p] = IF frame[p] = 1 THEN {} ELSE picked[p]
      BY <1>1, <1>2 DEF NetplayTypeOK, StartGame
    <2>3. frame[p] # 1 => ~ready[p] /\ picked[p] = {}
      BY <1>1, Asking
    <2> QED
      BY <2>1, <2>2, <2>3 DEF Cleaned
  <1>4. /\ \A r \in Player : r # p => /\ acked'[r] = acked[r] /\ theirs'[r] = theirs[r]
                                      /\ ready'[r] = ready[r] /\ picked'[r] = picked[r]
        /\ DOMAIN acked' = Player /\ DOMAIN theirs' = Player
        /\ ready' = [r \in Player |-> ready'[r]] /\ picked' = [r \in Player |-> picked'[r]]
    BY <1>1, <1>2 DEF NetplayTypeOK, StartGame
  <1>5. /\ frame = [r \in Player |-> frame[r]] /\ final = [r \in Player |-> final[r]] /\ active = [r \in Player |-> active[r]]
        /\ skipping = [r \in Player |-> skipping[r]] /\ toShed = [r \in Player |-> toShed[r]]
    BY <1>2 DEF NetplayTypeOK
  <1>6. CASE Hold(p)
    <2>1. frame' = frame /\ final' = final /\ skipping' = skipping /\ toShed' = toShed
      BY <1>6 DEF Hold
    <2>2. Asked(p)
      BY <1>6, HoldDoes
    <2>3. \A r \in Player : r # p => active'[r] = active[r] /\ mine'[r] = mine[r] /\ started'[r] = started[r]
      BY <1>6, HoldDoes
    <2>4. active' = [r \in Player |-> active'[r]] /\ mine' = [r \in Player |-> mine'[r]] /\ DOMAIN started' = Player
      BY <1>6, HoldDoes
    <2>5. Untouched(p)
      BY <1>1, <1>4, <1>5, <2>1, <2>3, <2>4 DEF Untouched
    <2> QED
      BY <1>3, <2>2, <2>5
  <1>7. CASE Shed(p)
    <2>1. frame' = frame /\ final' = final /\ active' = active
      BY <1>7 DEF Shed
    <2>2. Asked(p)
      BY <1>7, ShedDoes
    <2>3. \A r \in Player : r # p => skipping'[r] = skipping[r] /\ toShed'[r] = toShed[r] /\ mine'[r] = mine[r] /\ started'[r] = started[r]
      BY <1>7, ShedDoes
    <2>4. skipping' = [r \in Player |-> skipping'[r]] /\ toShed' = [r \in Player |-> toShed'[r]] /\ mine' = [r \in Player |-> mine'[r]] /\ DOMAIN started' = Player
      BY <1>7, ShedDoes
    <2>5. Untouched(p)
      BY <1>1, <1>4, <1>5, <2>1, <2>3, <2>4 DEF Untouched
    <2> QED
      BY <1>3, <2>2, <2>5
  <1>8. CASE Run(p)
    <2>1. toShed' = toShed /\ active' = active
      BY <1>8 DEF Run
    <2>2. Asked(p)
      BY <1>8, RunDoes
    <2>3. \A r \in Player : r # p => skipping'[r] = skipping[r] /\ frame'[r] = frame[r] /\ final'[r] = final[r] /\ mine'[r] = mine[r] /\ started'[r] = started[r]
      BY <1>8, RunDoes
    <2>4. skipping' = [r \in Player |-> skipping'[r]] /\ frame' = [r \in Player |-> frame'[r]] /\ final' = [r \in Player |-> final'[r]] /\ mine' = [r \in Player |-> mine'[r]] /\ DOMAIN started' = Player
      BY <1>8, RunDoes
    <2>5. Untouched(p)
      BY <1>1, <1>4, <1>5, <2>1, <2>3, <2>4 DEF Untouched
    <2> QED
      BY <1>3, <2>2, <2>5
  <1> QED
    BY <1>1, <1>6, <1>7, <1>8

\* No more is unacknowledged than a packet may hold: who is so far ahead of the other's pads has
\* not sent more than the other's own frame calls for.
LEMMA Lag ==
    ASSUME NetplayInv, NEW p \in Player, NEW q \in Others(p), scene[p] = "game",
           frame[p] <= MaxFrame, Joined(p, q), NEW n \in Nat, Head0(theirs[p][q]) >= n - Horizon
    PROVE  n + Delay - MaxCopied <= HeadOf(q, p)
  <1>1. /\ NetplayTypeOK /\ Holds(p, q) /\ Holds(q, p) /\ Picking(q, p)
        /\ q \in Player /\ p \in Others(q)
    BY OthersFacts DEF NetplayInv, Queues, Pickings
  <1>2. /\ HeadOf(q, p) \in Nat /\ Head0(theirs[p][q]) \in Nat /\ Head0(theirs[q][p]) \in Nat
        /\ IsQueue(theirs[p][q])
    BY <1>1, HeadFacts
  <1>3. CASE Head0(theirs[p][q]) = 0
    BY <1>2, <1>3
  <1>4. CASE Head0(theirs[p][q]) > 0
    <2> DEFINE f == Head0(theirs[p][q])
    <2>1. theirs[p][q] # None
      BY <1>2, <1>4, QueueFacts
    <2>2. game[q] = game[p] /\ game[p] \in Nat /\ Selected(p) = game[p]
      BY <1>1, <2>1, Asking, SelectedFacts
    <2>3. f \in DOMAIN theirs[p][q] /\ theirs[p][q][f] = game[q]
      BY <1>1, <1>4, <2>2, NewestPad, Asking
    <2>4. frame[q] > 1 /\ f <= frame[q] - 1 + Delay /\ frame[q] \in Nat
      BY <1>1, <2>3, TypesOf DEF Holds, Sent
    <2>5. started[q][p]
      <3>1. ~AtFirst(q) /\ Selected(p) # game[q] + 1
        BY <2>2, <2>4 DEF AtFirst
      <3> QED
        BY <1>1, <2>4, <3>1 DEF Picking
    <2>6. Head0(theirs[q][p]) >= frame[q] - 1 - Horizon
      BY <1>1, <2>5 DEF Holds, Joined
    <2>7. HeadOf(q, p) = Head0(theirs[q][p])
      BY <2>2 DEF HeadOf
    <2> QED
      BY <1>2, <2>4, <2>6, <2>7
  <1> QED
    BY <1>2, <1>3, <1>4

LEMMA InputsKeeps ==
    ASSUME NetplayInv, NEW p \in Player, Inputs(p)
    PROVE  NetplayInv'
  <1>1. NetplayTypeOK /\ Stages /\ Lockstep /\ Pickings /\ PadsInPlay /\ Queues /\ Acknowledgments
    BY DEF NetplayInv
  <1>2. scene[p] = "game" /\ frame[p] <= MaxFrame
    BY DEF Inputs
  <1>3. Asked(p) /\ Untouched(p) /\ Cleaned(p)
    BY InputsDo
  <1>4. /\ game[p] \in Nat /\ game[p] > 0 /\ frame[p] \in Nat /\ frame[p] >= 1
        /\ final[p] \in Nat /\ (frame[p] = 1 => final[p] = 0) /\ final[p] >= frame[p] - 1 - Horizon
        /\ frame[p] > 1 => InPlay(p)
    BY <1>2, Asking
  <1>5. /\ frame'[p] \in Nat /\ frame'[p] >= frame[p] /\ frame'[p] <= frame[p] + 1
        /\ final'[p] \in Nat /\ final'[p] >= final[p]
    BY <1>3, <1>4 DEF Asked
  <1>6. \A r \in Player : Selected(r)' = Selected(r) /\ (Done(r) => Done(r)')
    <2> TAKE r \in Player
    <2>1. CASE r = p
      BY <1>2, <1>3, <1>4, <2>1 DEF Untouched, Selected, Done
    <2>2. CASE r # p
      BY <1>3, <2>2 DEF Untouched, Selected, Done
    <2> QED
      BY <2>1, <2>2
  <1>7. \A r \in Player : Selected(r) = game[p] /\ game[r] <= game[p]
    BY <1>2, Playing
  <1>8. NetplayTypeOK'
    <2>1. \A q \in Others(p) : IsQueue(theirs'[p][q])
      BY <1>1, <1>3, <1>4, ShortenedFacts DEF Cleaned, NetplayTypeOK
    <2>2. acked'[p] \in [Others(p) -> Nat] /\ DOMAIN theirs'[p] = Others(p)
      BY <1>2, <1>3, StartFacts DEF Cleaned
    <2>3. /\ frame' = [r \in Player |-> frame'[r]] /\ final' = [r \in Player |-> final'[r]] /\ ready' = [r \in Player |-> ready'[r]]
          /\ picked' = [r \in Player |-> picked'[r]] /\ active' = [r \in Player |-> active'[r]] /\ skipping' = [r \in Player |-> skipping'[r]]
          /\ toShed' = [r \in Player |-> toShed'[r]] /\ mine' = [r \in Player |-> mine'[r]] /\ DOMAIN acked' = Player
          /\ DOMAIN theirs' = Player /\ DOMAIN started' = Player
          /\ scene' = scene /\ game' = game /\ acks' = acks /\ picks' = picks
      BY <1>3 DEF Untouched
    <2>4. ASSUME NEW r \in Player
          PROVE  /\ frame'[r] \in 1 .. Finished /\ final'[r] \in Nat /\ ready'[r] \in BOOLEAN
                 /\ picked'[r] \subseteq Others(r) /\ active'[r] \subseteq Others(r)
                 /\ skipping'[r] \in BOOLEAN /\ toShed'[r] \in Nat
                 /\ mine'[r] \in [lo : Nat \ {0}, hi : Nat]
                 /\ acked'[r] \in [Others(r) -> Nat]
                 /\ DOMAIN theirs'[r] = Others(r)
                 /\ \A q \in Others(r) : IsQueue(theirs'[r][q])
                 /\ started'[r] \in [Others(r) -> BOOLEAN]
      <3>1. CASE r = p
        <4>1. active[p] \subseteq Others(p)
          BY <1>1, TypesOf
        <4>2. frame'[p] \in 1 .. Finished
          BY <1>2, <1>4, <1>5 DEF Finished
        <4> QED
          BY <1>3, <1>5, <2>1, <2>2, <3>1, <4>1, <4>2 DEF Asked, Cleaned
      <3>2. CASE r # p
        <4>1. /\ frame'[r] = frame[r] /\ final'[r] = final[r] /\ ready'[r] = ready[r]
              /\ picked'[r] = picked[r] /\ active'[r] = active[r] /\ skipping'[r] = skipping[r]
              /\ toShed'[r] = toShed[r] /\ mine'[r] = mine[r] /\ acked'[r] = acked[r]
              /\ theirs'[r] = theirs[r] /\ started'[r] = started[r]
          BY <1>3, <3>2 DEF Untouched
        <4> QED
          BY <1>1, <4>1 DEF NetplayTypeOK
      <3> QED
        BY <3>1, <3>2
    <2>5. pads' \subseteq Packet /\ \A m \in pads' : m.to # m.from /\ m.lo <= m.hi
      BY <1>1, <1>3 DEF Asked, NetplayTypeOK
    <2>6. \A r \in Player : Others(r) \subseteq Player
      BY DEF Others
    <2> QED
      BY <1>1, <2>3, <2>4, <2>5, <2>6 DEF NetplayTypeOK
  <1>9. Stages'
    <2> SUFFICES ASSUME NEW r \in Player PROVE Stage(r)'
      BY DEF Stages
    <2>1. CASE r = p
      <3>1. ready'[p] = FALSE /\ scene'[p] = "game" /\ game'[p] = game[p]
        BY <1>2, <1>3 DEF Cleaned, Untouched
      <3>2. frame'[p] = 1 => final'[p] = 0
        BY <1>3, <1>4 DEF Asked
      <3>3. frame'[p] > 1 => mine'[p].hi = frame'[p] - 1 + Delay
        BY <1>3 DEF Asked
      <3>4. final'[p] >= frame'[p] - 1 - Horizon
        BY <1>3, <1>4 DEF Asked
      <3> QED
        BY <1>4, <2>1, <3>1, <3>2, <3>3, <3>4 DEF Stage, AtFirst
    <2>2. CASE r # p
      <3>1. Stage(r)
        BY <1>1 DEF Stages
      <3> QED
        BY <1>3, <2>2, <3>1 DEF Untouched, Stage, AtFirst
    <2> QED
      BY <2>1, <2>2
  <1>10. Lockstep'
    BY <1>1, <1>3, <1>6, LockstepKept DEF Untouched
  <1>11. Pickings'
    <2> SUFFICES ASSUME NEW a \in Player, NEW b \in Others(a) PROVE Picking(a, b)'
      BY DEF Pickings
    <2>1. Picking(a, b) /\ b \in Player /\ b # a
      BY <1>1, OthersFacts DEF Pickings
    <2>2. CASE a = p
      <3>1. picks'[b][p] = <<>> /\ picked'[p] = {}
        BY <1>2, <1>3, <2>2, Asking DEF Untouched, Cleaned
      <3>2. ~Pending(p, b)' /\ picks'[b][p] \notin {<<FALSE>>, <<FALSE, TRUE>>}
        BY <3>1, PickFacts DEF Pending
      <3>3. Selected(b)' = game'[p]
        BY <1>3, <1>6, <1>7, <2>1 DEF Untouched
      <3>4. started'[p][b] <=> frame'[p] > 1
        BY <1>3, <2>2 DEF Asked
      <3> QED
        BY <2>2, <3>1, <3>2, <3>3, <3>4 DEF Picking
    <2>3. CASE a # p
      BY <1>3, <1>6, <2>1, <2>3, PickingKept DEF Untouched
    <2> QED
      BY <2>2, <2>3
  <1>12. frame'[p] > 1 => InPlay(p)'
    <2>1. game'[p] = game[p]
      BY <1>3 DEF Untouched
    <2> QED
      BY <1>6, <1>7, <2>1 DEF InPlay
  <1>13. PadsInPlay'
    <2> SUFFICES ASSUME NEW m \in pads'
                 PROVE  /\ InPlay(m.from)' /\ m.game = game'[m.from]
                        /\ m.hi <= frame'[m.from] - 1 + Delay
      BY DEF PadsInPlay
    <2>1. CASE m \in pads
      <3>1. m.from \in Player /\ InPlay(m.from) /\ m.game = game[m.from] /\ m.hi \in Nat
            /\ m.hi <= frame[m.from] - 1 + Delay
        BY <1>1, <2>1 DEF PadsInPlay, NetplayTypeOK, Packet
      <3>2. CASE m.from = p
        <4>1. frame'[p] > 1
          BY <1>4, <1>5, <3>1, <3>2 DEF InPlay
        <4> QED
          BY <1>3, <1>4, <1>5, <1>12, <3>1, <3>2, <4>1 DEF Untouched
      <3>3. CASE m.from # p
        BY <1>3, <1>6, <3>1, <3>3, InPlayKept DEF Untouched
      <3> QED
        BY <3>2, <3>3
    <2>2. CASE m \notin pads
      <3>1. m.from = p /\ m.game = game[p] /\ frame'[p] > 1 /\ m.hi = frame'[p] - 1 + Delay
        BY <1>3, <2>2 DEF Asked
      <3> QED
        BY <1>3, <1>5, <1>12, <3>1 DEF Untouched
    <2> QED
      BY <2>1, <2>2
  <1>14. ASSUME NEW q \in Others(p)
         PROVE  /\ IsQueue(theirs[p][q]) /\ theirs'[p][q] = Shortened(theirs[p][q], final[p])
                /\ Head0(theirs'[p][q]) = Head0(theirs[p][q]) /\ Head0(theirs[p][q]) \in Nat
                /\ theirs'[p][q] = None <=> theirs[p][q] = None
                /\ theirs[p][q] # None =>
                      /\ Oldest(theirs[p][q]) \in Nat
                      /\ Oldest(theirs'[p][q]) =
                            Larger(Oldest(theirs[p][q]), Smaller(final[p], Head0(theirs[p][q])))
                /\ \A f \in DOMAIN theirs'[p][q] : /\ f \in DOMAIN theirs[p][q]
                                                   /\ theirs'[p][q][f] = theirs[p][q][f]
    <2>1. IsQueue(theirs[p][q]) /\ Head0(theirs[p][q]) \in Nat
      BY <1>1, HeadFacts
    <2>2. theirs'[p][q] = Shortened(theirs[p][q], final[p])
      BY <1>3, <1>14 DEF Cleaned
    <2>3. theirs[p][q] # None => Oldest(theirs[p][q]) \in Nat
      BY <2>1, QueueFacts
    <2> QED
      <3> DEFINE queue == theirs[p][q]
                 floor == final[p]
                 short == Shortened(queue, floor)
      <3>1. IsQueue(queue) /\ floor \in Nat /\ theirs'[p][q] = short
        BY <1>4, <2>1, <2>2
      <3> HIDE DEF queue, floor
      <3>2. /\ Head0(short) = Head0(queue) /\ (short = None <=> queue = None)
            /\ \A f \in DOMAIN short : f \in DOMAIN queue /\ short[f] = queue[f]
            /\ queue # None =>
                  Oldest(short) = Larger(Oldest(queue), Smaller(floor, Head0(queue)))
        BY <3>1, ShortenedFacts
      <3> HIDE DEF short
      <3>3. theirs'[p][q] = short
        BY <3>1
      <3> QED
        BY <2>1, <2>2, <2>3, <3>2, <3>3 DEF queue, floor
  <1>15. ASSUME NEW q \in Others(p)
         PROVE  Holds(p, q)'
    <2>1. Holds(p, q) /\ q \in Player /\ q # p
      BY <1>1, <1>15, OthersFacts DEF Queues
    <2>2. /\ scene'[p] = "game" /\ game'[p] = game[p] /\ game'[q] = game[q] /\ frame'[q] = frame[q]
          /\ Selected(p)' = game[p] /\ (AtFirst(p)' <=> frame'[p] = 1)
          /\ (started'[p][q] <=> frame'[p] > 1)
      BY <1>2, <1>3, <1>6, <1>7, <1>15, <2>1 DEF Untouched, Asked, AtFirst
    <2>3. /\ theirs[p][q] # None => game[q] = game[p]
          /\ \A f \in DOMAIN theirs[p][q] : theirs[p][q][f] = game[p]
          /\ started[p][q] <=> frame[p] > 1
      BY <1>2, <1>15, Asking
    <2>4. \A f \in DOMAIN theirs'[p][q] :
             /\ theirs'[p][q][f] = game[p] /\ theirs'[p][q][f] \in Nat
             /\ theirs'[p][q][f] <= game'[q]
             /\ theirs'[p][q][f] = game'[q] => Sent(q, f)'
             /\ IF started'[p][q] THEN theirs'[p][q][f] >= game'[p] /\ theirs'[p][q][f] <= Selected(p)'
                ELSE theirs'[p][q][f] = game'[p] /\ AtFirst(p)'
      <3> TAKE f \in DOMAIN theirs'[p][q]
      <3>1. theirs'[p][q][f] = game[p] /\ game[p] <= game[q] /\ (game[p] = game[q] => Sent(q, f))
        BY <1>14, <1>15, <2>1, <2>3 DEF Holds
      <3> QED
        BY <1>4, <1>5, <2>2, <3>1 DEF Sent
    <2>5. theirs'[p][q] # None => /\ ~started'[p][q] => Oldest(theirs'[p][q]) = 1
                                  /\ Oldest(theirs'[p][q]) <= Larger(1, final'[p])
      <3> SUFFICES ASSUME theirs[p][q] # None
                   PROVE  /\ ~started'[p][q] => Oldest(theirs'[p][q]) = 1
                          /\ Oldest(theirs'[p][q]) <= Larger(1, final'[p])
        BY <1>14, <1>15
      <3> DEFINE lo == Oldest(theirs[p][q])
                 hi == Head0(theirs[p][q])
      <3>1. /\ lo \in Nat /\ hi \in Nat /\ lo <= Larger(1, final[p])
            /\ Oldest(theirs'[p][q]) = Larger(lo, Smaller(final[p], hi))
            /\ ~started[p][q] => lo = 1
        BY <1>2, <1>14, <1>15, <2>1 DEF Holds
      <3> HIDE DEF lo, hi
      <3>2. Oldest(theirs'[p][q]) <= Larger(1, final'[p])
        BY <1>4, <1>5, <3>1 DEF Larger, Smaller
      <3>3. ASSUME ~started'[p][q]
            PROVE  Oldest(theirs'[p][q]) = 1
        <4>1. frame[p] = 1 /\ ~started[p][q] /\ final[p] = 0
          BY <1>4, <1>5, <2>2, <2>3, <3>3
        <4> QED
          BY <3>1, <4>1 DEF Larger, Smaller
      <3> QED
        BY <3>2, <3>3
    <2>6. q \in active'[p] => final'[p] <= Head0(theirs'[p][q])
      <3> SUFFICES ASSUME q \in active'[p] PROVE final'[p] <= Head0(theirs[p][q])
        BY <1>14, <1>15
      <3>1. q \in active[p] /\ final[p] <= Head0(theirs[p][q])
        BY <1>2, <1>3, <2>1 DEF Asked, Holds
      <3> QED
        BY <1>3, <3>1 DEF Asked
    <2>7. q \in active'[p] /\ started'[p][q] =>
             /\ Head0(theirs'[p][q]) >= frame'[p] - 1 - Horizon
             /\ frame'[p] > 2 => Head0(theirs'[p][q]) > 0
      <3> SUFFICES ASSUME q \in active'[p], started'[p][q]
                   PROVE  /\ Head0(theirs[p][q]) >= frame'[p] - 1 - Horizon
                          /\ frame'[p] > 2 => Head0(theirs[p][q]) > 0
        BY <1>14, <1>15
      <3>1. q \in active[p] /\ frame'[p] > 1 /\ Head0(theirs[p][q]) \in Nat
        BY <1>3, <1>14, <1>15, <2>2 DEF Asked
      <3>2. frame[p] > 1 => /\ Head0(theirs[p][q]) >= frame[p] - 1 - Horizon
                            /\ frame[p] > 2 => Head0(theirs[p][q]) > 0
        BY <2>1, <2>3, <3>1 DEF Holds
      <3>3. CASE frame'[p] = frame[p]
        BY <3>1, <3>2, <3>3
      <3>4. CASE frame'[p] # frame[p]
        <4>1. /\ frame'[p] = frame[p] + 1 /\ Head0(theirs[p][q]) >= frame[p] - Horizon
              /\ frame[p] = 2 => Head0(theirs[p][q]) > 0
          BY <1>3, <3>4 DEF Asked
        <4> QED
          BY <1>4, <3>1, <3>2, <4>1
      <3> QED
        BY <3>3, <3>4
    <2> QED
      BY <1>4, <2>2, <2>4, <2>5, <2>6, <2>7 DEF Holds
  <1>16. Queues'
    <2> SUFFICES ASSUME NEW a \in Player, NEW b \in Others(a) PROVE Holds(a, b)'
      BY DEF Queues
    <2>1. Holds(a, b) /\ b \in Player /\ b # a
      BY <1>1, OthersFacts DEF Queues
    <2>2. CASE a = p
      BY <1>15, <2>2
    <2>3. CASE a # p /\ b = p
      <3>1. /\ theirs'[a][b] = theirs[a][b] /\ started'[a][b] = started[a][b] /\ game' = game
            /\ scene' = scene /\ frame'[a] = frame[a] /\ final'[a] = final[a] /\ active'[a] = active[a]
            /\ AtFirst(a)' = AtFirst(a)
        BY <1>3, <2>3 DEF Untouched, AtFirst
      <3>2. \A f \in DOMAIN theirs[a][b] : f \in Nat
        <4>1. IsQueue(theirs[a][b])
          BY <1>1, HeadFacts
        <4>2. theirs[a][b] = None \/ DOMAIN theirs[a][b] = Oldest(theirs[a][b]) .. Head0(theirs[a][b])
          BY <4>1, QueueFacts
        <4>3. theirs[a][b] # None => Oldest(theirs[a][b]) \in Nat /\ Head0(theirs[a][b]) \in Nat
          BY <4>1, QueueFacts
        <4> QED
          BY <4>2, <4>3, EmptyQueue
      <3>3. \A f \in DOMAIN theirs[a][b] : Sent(b, f) => Sent(b, f)'
        BY <1>4, <1>5, <2>3, <3>2 DEF Sent
      <3>4. Selected(a)' = Selected(a)
        BY <1>6
      <3> QED
        BY <2>1, <3>1, <3>3, <3>4 DEF Holds
    <2>4. CASE a # p /\ b # p
      BY <1>3, <2>1, <2>4, HoldsKept DEF Untouched
    <2> QED
      BY <2>2, <2>3, <2>4
  <1>17. ASSUME NEW q \in Others(p)
         PROVE  Acknowledged(p, q)'
    <2>1. /\ Acknowledged(p, q) /\ q \in Player /\ q # p /\ p \in Others(q)
          /\ HeadOf(q, p) \in Nat /\ Head0(theirs[p][q]) \in Nat
      BY <1>1, <1>17, OthersFacts, HeadFacts DEF Acknowledgments
    <2>2. HeadOf(q, p)' = HeadOf(q, p) /\ acks'[q][p] = acks[q][p]
      BY <1>3, <2>1 DEF Untouched, HeadOf
    <2>3. active'[q] = active[q] /\ active'[p] \subseteq active[p] /\ (Joined(p, q)' => Joined(p, q))
      BY <1>3, <2>1 DEF Untouched, Asked, Joined
    <2>4. acks'[q][p] > 0 => /\ InPlay(p)'
                             /\ Joined(p, q)' => acks'[q][p] <= HeadOf(q, p)'
      <3> SUFFICES ASSUME acks[q][p] > 0
                   PROVE  InPlay(p)' /\ (Joined(p, q)' => acks[q][p] <= HeadOf(q, p))
        BY <2>2
      <3>1. InPlay(p) /\ (Joined(p, q) => acks[q][p] <= HeadOf(q, p))
        BY <2>1 DEF Acknowledged
      <3>2. frame'[p] > 1
        BY <1>4, <1>5, <3>1 DEF InPlay
      <3> QED
        BY <1>12, <2>3, <3>1, <3>2
    <2>5. ASSUME frame'[p] > 1, Joined(p, q)'
          PROVE  acked'[p][q] <= HeadOf(q, p)' /\ mine'[p].lo <= HeadOf(q, p)' + 1
      <3> DEFINE H == HeadOf(q, p)
                 n == frame'[p] - 1
      <3>1. Joined(p, q) /\ q \in active'[p] /\ q \in active[p]
        BY <2>3, <2>5 DEF Joined
      <3>2. /\ AcksAtStart(p)[q] <= H /\ QueueAtStart(p).lo <= H + 1
            /\ AcksAtStart(p)[q] \in Nat /\ QueueAtStart(p).lo \in Nat
        BY <1>2, <1>17, <3>1, StartFacts
      <3>3. n + Delay - MaxCopied <= H + 1
        <4>1. n \in Nat
          BY <1>5, <2>5
        <4>2. Head0(theirs[p][q]) >= n - Horizon
          <5>1. CASE frame'[p] = frame[p]
            <6>1. started[p][q]
              BY <1>2, <1>17, <2>5, <5>1, Asking
            <6>2. Holds(p, q)
              BY <1>1, <1>17 DEF Queues
            <6> QED
              BY <3>1, <5>1, <6>1, <6>2 DEF Holds
          <5>2. CASE frame'[p] # frame[p]
            <6>1. frame'[p] = frame[p] + 1 /\ Head0(theirs[p][q]) >= frame[p] - Horizon
              BY <1>3, <3>1, <5>2 DEF Asked
            <6> QED
              BY <1>4, <6>1
          <5> QED
            BY <5>1, <5>2
        <4>3. n + Delay - MaxCopied <= H
          BY <1>2, <1>17, <3>1, <4>1, <4>2, Lag
        <4>4. H \in Nat
          BY <2>1
        <4> HIDE DEF n, H
        <4> QED
          BY <4>1, <4>3, <4>4
      <3>4. acked'[p][q] = AcksAtStart(p)[q]
        BY <1>3 DEF Cleaned
      <3>5. mine'[p].lo <= Larger(QueueAtStart(p).lo, Larger(AcksAtStart(p)[q], n + Delay - MaxCopied))
        BY <1>3, <2>5, <3>1 DEF Asked
      <3>6. mine'[p].lo \in Nat /\ n \in Int
        BY <1>3, <1>5 DEF Asked
      <3> HIDE DEF H, n
      <3>7. H \in Nat
        BY <2>1 DEF H
      <3>8. mine'[p].lo <= H + 1
        BY <3>2, <3>3, <3>5, <3>6, <3>7 DEF Larger
      <3> QED
        BY <2>2, <3>2, <3>4, <3>8 DEF H
    <2> QED
      BY <2>4, <2>5 DEF Acknowledged
  <1>18. Acknowledgments'
    <2> SUFFICES ASSUME NEW a \in Player, NEW b \in Others(a) PROVE Acknowledged(a, b)'
      BY DEF Acknowledgments
    <2>1. Acknowledged(a, b) /\ b \in Player /\ b # a /\ a \in Others(b)
      BY <1>1, OthersFacts DEF Acknowledgments
    <2>2. CASE a = p
      BY <1>17, <2>2
    <2>3. CASE a # p
      <3>1. HeadOf(b, a)' = HeadOf(b, a)
        <4>1. CASE b = p
          <5>1. ~(game[p] < game[a]) /\ game' = game
            BY <1>1, <1>3, <1>4, <1>7, TypesOf DEF Untouched
          <5>2. Head0(theirs'[p][a]) = Head0(theirs[p][a])
            BY <1>14, <2>1, <4>1
          <5> QED
            BY <4>1, <5>1, <5>2 DEF HeadOf
        <4>2. CASE b # p
          BY <1>3, <2>1, <4>2, HeadOfKept DEF Untouched
        <4> QED
          BY <4>1, <4>2
      <3>2. active'[a] \subseteq active[a] /\ active'[b] \subseteq active[b]
        BY <1>3, <2>1, <2>3 DEF Untouched, Asked
      <3> QED
        BY <1>3, <1>6, <2>1, <2>3, <3>1, <3>2, AcknowledgedKept DEF Untouched
    <2> QED
      BY <2>2, <2>3
  <1> QED
    BY <1>8, <1>9, <1>10, <1>11, <1>13, <1>16, <1>18 DEF NetplayInv

-----------------------------------------------------------------------------
(* Every step *)

LEMMA StutterKeeps ==
    ASSUME NetplayInv, UNCHANGED vars
    PROVE  NetplayInv'
  <1>1. /\ scene' = scene /\ game' = game /\ frame' = frame /\ final' = final /\ ready' = ready
        /\ active' = active /\ skipping' = skipping /\ toShed' = toShed /\ picked' = picked
        /\ mine' = mine /\ acked' = acked /\ theirs' = theirs /\ started' = started
        /\ pads' = pads /\ acks' = acks /\ picks' = picks
    BY DEF vars, gameVars, queueVars, netVars
  <1>2. NetplayTypeOK /\ Acknowledgments
    BY DEF NetplayInv
  <1>3. NetplayTypeOK'
    BY <1>1, <1>2 DEF NetplayTypeOK
  <1>4. Acknowledgments'
    BY <1>1, <1>2 DEF Acknowledgments, Acknowledged, InPlay, Selected, Joined, HeadOf
  <1> QED
    BY <1>1, <1>3, <1>4, NetworkKeeps DEF gameVars

LEMMA StepKeeps ==
    ASSUME NetplayInv, [Next]_vars
    PROVE  NetplayInv'
  <1>1. CASE UNCHANGED vars
    BY <1>1, StutterKeeps
  <1>2. CASE Lose
    BY <1>2, LoseKeeps
  <1>3. ASSUME NEW p \in Player,
               \/ LockIn(p) \/ Begin(p) \/ Inputs(p) \/ GameEnd(p)
               \/ \E q \in Others(p) : OnSelections(p, q) \/ OnAck(p, q) \/ Disconnected(p, q)
               \/ \E m \in pads : OnPad(p, m)
        PROVE  NetplayInv'
    <2>1. CASE LockIn(p) \/ Begin(p) \/ Inputs(p) \/ GameEnd(p)
      BY <2>1, LockInKeeps, BeginKeeps, InputsKeeps, GameEndKeeps
    <2>2. ASSUME NEW q \in Others(p), OnSelections(p, q) \/ OnAck(p, q) \/ Disconnected(p, q)
          PROVE  NetplayInv'
      BY <2>2, OnSelectionsKeeps, OnAckKeeps, DisconnectedKeeps
    <2>3. ASSUME NEW m \in pads, OnPad(p, m)
          PROVE  NetplayInv'
      BY <2>3, OnPadKeeps
    <2> QED
      BY <1>3, <2>1, <2>2, <2>3
  <1> QED
    BY <1>1, <1>2, <1>3 DEF Next

\* The inductive invariant holds of every reachable state, for any number of players: what the
\* stages of the clients in a match, the packets and selections under way, the pads held
\* (remote_pad_queue_) and those acknowledged (last_frame_acked_) say of one another.
THEOREM NetplayInvariant == Spec => []NetplayInv
  <1>1. Init => NetplayInv
    BY NetplayStarts
  <1>2. NetplayInv /\ [Next]_vars => NetplayInv'
    BY StepKeeps
  <1> QED
    BY <1>1, <1>2, PTL DEF Spec

-----------------------------------------------------------------------------
(* What it gives *)

LEMMA InvHasPadsOfThisGame == NetplayInv => PadsOfThisGame
  <1> SUFFICES ASSUME NetplayInv, NEW p \in Player, scene[p] = "game", frame[p] <= MaxFrame,
                      NEW q \in Others(p)
               PROVE  LET queue == theirs[p][q] IN
                      /\ \A f \in DOMAIN queue : queue[f] = game[p]
                      /\ q \in active[p] /\ final[p] > 0 => final[p] \in DOMAIN queue
                      /\ queue # None => DOMAIN queue = Oldest(queue) .. Head0(queue)
    BY DEF PadsOfThisGame
  <1> DEFINE queue == theirs[p][q]
  <1>1. IsQueue(queue) /\ Holds(p, q) /\ final[p] \in Nat
    BY HeadFacts, Asking DEF NetplayInv, Queues
  <1>2. \A f \in DOMAIN queue : queue[f] = game[p]
    BY Asking
  <1>3. queue # None => DOMAIN queue = Oldest(queue) .. Head0(queue)
    BY <1>1, QueueFacts
  <1>4. ASSUME q \in active[p], final[p] > 0
        PROVE  final[p] \in DOMAIN queue
    <2>1. final[p] <= Head0(queue)
      BY <1>1, <1>4 DEF Holds
    <2>2. queue # None
      BY <1>1, <1>4, <2>1, QueueFacts
    <2>3. Oldest(queue) <= Larger(1, final[p]) /\ Oldest(queue) \in Nat /\ Head0(queue) \in Nat
      BY <1>1, <2>2, QueueFacts DEF Holds
    <2>4. Oldest(queue) <= final[p]
      BY <1>1, <1>4, <2>3 DEF Larger
    <2> QED
      BY <1>1, <1>3, <2>1, <2>2, <2>3, <2>4
  <1> QED
    BY <1>2, <1>3, <1>4

LEMMA InvHasNothingWantedIsGone == NetplayInv => NothingWantedIsGone
  <1> SUFFICES ASSUME NetplayInv, NEW p \in Player, NEW q \in Others(p), scene[p] = "game",
                      frame[p] \in 2 .. MaxFrame, Joined(p, q)
               PROVE  game[q] <= game[p] /\ mine[p].lo <= HeadOf(q, p) + 1
    BY DEF NothingWantedIsGone
  <1>1. frame[p] <= MaxFrame /\ q \in Player
    BY OthersFacts
  <1>2. game[q] <= game[p]
    BY <1>1, Playing
  <1>3. Acknowledged(p, q)
    BY DEF NetplayInv, Acknowledgments
  <1> QED
    BY <1>2, <1>3 DEF Acknowledged

\* Of two players that wait for each other, the one that is not ahead is freed: the packet the
\* other sends again starts within what it has, and reaches as far as its frame.
LEMMA SlowerIsFreed ==
    ASSUME NetplayInv, NEW p \in Player, NEW q \in Others(p),
           scene[p] = "game", scene[q] = "game", game[p] = game[q],
           frame[p] <= MaxFrame, frame[q] <= MaxFrame,
           q \in Behind(p), p \in Behind(q), frame[q] <= frame[p]
    PROVE  Frees(p, q)
  <1> DEFINE H == Head0(theirs[q][p])
             hi == mine[p].hi
             queue == Unacknowledged(p, hi, active[p])
             more == With(theirs[q][p], hi, game[p])
             short == Shortened(more, final[q])
  <1>1. NetplayTypeOK /\ q \in Player /\ q # p /\ p \in Others(q)
    BY OthersFacts DEF NetplayInv
  <1>2. /\ frame[p] \in Nat /\ frame[q] \in Nat /\ frame[p] > 1 /\ frame[q] > 1
        /\ final[q] \in Nat /\ final[q] >= frame[q] - 1 - Horizon
        /\ started[p][q] /\ started[q][p]
    <2>1. frame[p] # 1 /\ frame[q] # 1
      BY <1>1, BehindFacts
    <2> QED
      BY <1>1, <2>1, Asking
  <1>3. Joined(p, q)
    BY <1>1, BehindFacts DEF Joined
  <1>4. /\ IsQueue(theirs[q][p]) /\ H \in Nat /\ HeadOf(q, p) = H
        /\ H >= frame[q] - 1 - Horizon /\ Head0(theirs[p][q]) >= frame[p] - 1 - Horizon
    <2>1. Holds(p, q) /\ Holds(q, p)
      BY <1>1 DEF NetplayInv, Queues
    <2>2. game[p] \in Nat /\ game[q] \in Nat
      BY <1>1, TypesOf
    <2> QED
      BY <1>1, <1>2, <1>3, <2>1, <2>2, HeadFacts DEF Joined, Holds, HeadOf
  <1>5. hi = frame[p] - 1 + Delay /\ hi \in Nat /\ hi >= frame[q]
    <2>1. hi = frame[p] - 1 + Delay
      BY <1>2 DEF NetplayInv, Stages, Stage
    <2> QED
      BY <1>2, <2>1
  <1>6. hi - MaxCopied <= H
    <2>1. frame[p] - 1 \in Nat
      BY <1>2
    <2>2. frame[p] - 1 + Delay - MaxCopied <= HeadOf(q, p)
      BY <1>3, <1>4, <2>1, Lag
    <2>3. hi - MaxCopied = frame[p] - 1 + Delay - MaxCopied
      BY <1>2, <1>5
    <2> QED
      BY <1>4, <2>2, <2>3
  <1>7. queue.hi = hi /\ queue.lo \in Nat /\ queue.lo <= H + 1
    <2> DEFINE S == {AcksAtStart(p)[r] : r \in active[p]}
    <2>1. AcksAtStart(p) \in [Others(p) -> Nat] /\ active[p] \subseteq Others(p) /\ q \in active[p]
      BY <1>1, <1>3, StartFacts, TypesOf DEF Joined
    <2>2. S \in SUBSET Nat /\ S # {} /\ AcksAtStart(p)[q] \in S
      BY <2>1
    <2>3. Least(S) \in Nat /\ Least(S) <= AcksAtStart(p)[q]
      BY <2>2, LeastOf
    <2>4. AcksAtStart(p)[q] <= H /\ QueueAtStart(p).lo <= H + 1 /\ QueueAtStart(p).lo \in Nat
      BY <1>3, <1>4, StartFacts
    <2>5. queue.hi = hi /\ queue.lo = Larger(QueueAtStart(p).lo, Larger(Least(S), hi - MaxCopied))
      BY DEF Unacknowledged
    <2>6. AcksAtStart(p)[q] \in Nat
      BY <2>1
    <2> HIDE DEF S, H, hi, queue
    <2> QED
      BY <1>4, <1>5, <1>6, <2>3, <2>4, <2>5, <2>6 DEF Larger
  \* It waits because it has no more than what its own final frame says, not because of the window.
  <1>8. H < frame[q]
    <2>1. /\ LatestOf(q, p) \in Nat /\ LatestOf(q, p) >= Smaller(H, final[q] + Horizon - 1)
      BY <1>1, <1>3, LatestOfFacts DEF Joined
    <2>2. \/ ~(LatestOf(q, p) >= frame[q] - Horizon)
          \/ frame[q] = 2 /\ ~(LatestOf(q, p) >= 1)
      BY DEF Behind, Enough
    <2> HIDE DEF H
    <2> QED
      BY <1>2, <1>4, <2>1, <2>2 DEF Smaller
  <1>9. Taken(q, Again(p, q))
    <2>1. /\ Again(p, q).from = p /\ Again(p, q).hi = hi /\ Again(p, q).lo = queue.lo
      BY <1>7 DEF Again
    <2>2. Missing(q, Again(p, q)) = hi - H
      BY <2>1 DEF Missing
    <2> HIDE DEF H, hi, queue
    <2>3. hi - H \in 1 .. Smaller(hi - queue.lo + 1, MaxCopied)
      BY <1>2, <1>4, <1>5, <1>6, <1>7, <1>8 DEF Smaller
    <2> QED
      BY <2>1, <2>2, <2>3 DEF Taken
  <1>10. Enough(q, Latest(short))
    <2>1. IsQueue(more) /\ more # None /\ Head0(more) = hi
      BY <1>2, <1>4, <1>5, <1>8, WithFacts
    <2>2. Oldest(more) \in Nat /\ Oldest(more) >= 1
      BY <2>1, QueueFacts
    <2>3. /\ IsQueue(short) /\ short # None /\ Head0(short) = hi
          /\ Oldest(short) = Larger(Oldest(more), Smaller(final[q], hi))
      BY <1>2, <2>1, ShortenedFacts
    <2>4. Latest(short) = Smaller(hi, Oldest(short) + Horizon - 1)
      BY <2>3, LatestFacts
    <2> HIDE DEF H, hi, more, short
    <2>5. Latest(short) >= frame[q] - Horizon /\ Latest(short) >= 1
      BY <1>2, <1>5, <2>2, <2>3, <2>4 DEF Larger, Smaller
    <2> QED
      BY <2>5 DEF Enough
  <1> QED
    BY <1>9, <1>10 DEF Frees

LEMMA InvHasNeitherWaitsForever == NetplayInv => NeitherWaitsForever
  <1> SUFFICES ASSUME NetplayInv, NEW p \in Player, NEW q \in Others(p),
                      scene[p] = "game", scene[q] = "game", game[p] = game[q],
                      frame[p] <= MaxFrame, frame[q] <= MaxFrame,
                      q \in Behind(p), p \in Behind(q)
               PROVE  Frees(p, q) \/ Frees(q, p)
    BY DEF NeitherWaitsForever
  <1>1. q \in Player /\ p \in Others(q) /\ frame[p] \in Nat /\ frame[q] \in Nat
    BY OthersFacts, TypesOf DEF NetplayInv
  <1>2. CASE frame[q] <= frame[p]
    BY <1>2, SlowerIsFreed
  <1>3. CASE frame[p] <= frame[q]
    BY <1>1, <1>3, SlowerIsFreed
  <1> QED
    BY <1>1, <1>2, <1>3

\* The state keeps its types: the queues of pads are without holes, and a player's selections under
\* way to another are what it sent on connecting and one for the game that is next (OnData()).
THEOREM NetplayTypeCorrect == Spec => []NetplayTypeOK
  <1>1. NetplayInv => NetplayTypeOK
    BY DEF NetplayInv
  <1> QED
    BY <1>1, NetplayInvariant, PTL

\* No player is in a game another has not selected its character for, and whoever's selection is a
\* game behind is done with the last (prepare_online_match_state()): a message, which names no game,
\* can only be of one of two.
THEOREM GamesInStep == Spec => []Lockstep
  <1>1. NetplayInv => Lockstep
    BY DEF NetplayInv
  <1> QED
    BY <1>1, NetplayInvariant, PTL

\* A player in a game is only ever given pads of that game, whatever was lost, repeated or late,
\* and whichever of the selection and the first pads came first (slippi_netplay_receive.h,
\* OnMatchSelections and PadInputs): for every number of players, frames and games.
THEOREM PadsAreOfThisGame == Spec => []PadsOfThisGame
  BY NetplayInvariant, InvHasPadsOfThisGame, PTL

\* What a player has acknowledged, or would want next, is still in the sender's queue: no packet
\* is refused for ever because its beginning is gone (SendSlippiPad(), PadInputs()).
THEOREM NothingWantedIsEverGone == Spec => []NothingWantedIsGone
  BY NetplayInvariant, InvHasNothingWantedIsGone, PTL

\* When two players of one game are held for each other's pads, what one of them sends again is
\* taken by the other and frees it (should_skip_online_frame() sending on a held frame).
THEOREM NoMutualWait == Spec => []NeitherWaitsForever
  BY NetplayInvariant, InvHasNeitherWaitsForever, PTL
=============================================================================
