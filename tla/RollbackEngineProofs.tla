------------------------ MODULE RollbackEngineProofs ------------------------
(***************************************************************************)
(* Proofs about the rollback engine (RollbackEngine), for every horizon,   *)
(* delay and number of frames, whatever pads come and when, and wherever   *)
(* the alarm falls due, as long as the other player is there and no body   *)
(* outran a rollback (Undisturbed).                                        *)
(*                                                                         *)
(* The argument.  Every frame before SureTo was run on the pad the other   *)
(* player gave; from there on each is run on a guess that is kept          *)
(* (SamplesOK).  What is finalized stays below it (FinOK), so a checksum   *)
(* that is compared or sent is of pads that came (RingOK), and at most     *)
(* Horizon frames are guesses (Order), so every state a rollback may need  *)
(* has its slot (SavesOK) and every local pad its place (LocalOK).         *)
(*                                                                         *)
(* The parts of the invariant are about values m, p, q, s and h of mu,     *)
(* past, queue, saves and held, since one step calls the host twice.       *)
(***************************************************************************)
EXTENDS RollbackEngine, FiniteSetTheorems, WellFoundedInduction, TLAPS

USE EngineAssumption

DelaySlots == 0 .. Delay - 1
LocalSlots == 0 .. LocalInputs - 1
RingSlots  == 0 .. Checksums - 1

SampleType == [frame : Nat, local : Nat, remote : Pad]
State      == Seq(SampleType)
Pads       == Seq(Pad)
Entry      == [frame : Nat, checksum : State]
Window     == UNION {[k -> Pad] : k \in SUBSET Nat}
Reply      == [latest : Nat, pads : Window, target : Nat, early : Pad]

MuType ==
    [started : BOOLEAN, disconnected : BOOLEAN, displayed : BOOLEAN,
     over : BOOLEAN, endSeen : Nat, force : BOOLEAN, frame : Nat, rx : Reply,
     delayed : [DelaySlots -> Nat], delayIdx : DelaySlots,
     localInputs : [LocalSlots -> Nat], localIdx : LocalSlots,
     predicting : BOOLEAN, ss : Nat, guesses : Pads,
     active : BOOLEAN, shouldLoad : BOOLEAN, endFrame : Nat, stable : BOOLEAN,
     finalized : Nat, stableFinalized : Nat,
     ring : [RingSlots -> Entry], ringIdx : RingSlots, ringLast : Nat, tx : Entry]

CoreTypes(m, p, q, s, h) ==
    /\ m \in MuType /\ p \in State /\ q \in State /\ h \in Pads
    /\ \A g \in DOMAIN s : s[g] \in State

-----------------------------------------------------------------------------
(* The inductive invariant *)

Known(p, q) == Len(p) + Len(q)

\* The next frame that no pad was asked for.
Asked(m) == IF m.active THEN m.endFrame + 1 ELSE m.frame

\* What was taken for a frame before this one was no guess, or came as guessed.
SureTo(m) == IF m.predicting THEN m.ss ELSE m.frame

\* The other player's pad of frame f is v, and nothing that comes changes that.
Sure(h, f, v) == \/ f <= Len(h) /\ v = h[f]
                 \/ f < SyncFrame - Delay /\ v = NoPad

AllSure(h, state) == \A i \in 2 .. Len(state) : Sure(h, i - 1, state[i].remote)

SampleOK(m, h, e, f) ==
    /\ e.frame = f /\ e.local = Mine(f)
    /\ f >= 1 /\ f < SureTo(m) => Sure(h, f, e.remote)
    /\ m.predicting /\ f >= m.ss => e.remote = m.guesses[f - m.ss + 1]

SamplesOK(m, p, q, h) ==
    /\ \A i \in 1 .. Len(p) : SampleOK(m, h, p[i], i - 1)
    /\ \A i \in 1 .. Len(q) : SampleOK(m, h, q[i], Len(p) + i - 1)

\* Where the frames asked for are: played, waiting, or to be run again.
Order(m, p, q) ==
    /\ m.started <=> Len(p) >= 1
    /\ m.force => Known(p, q) >= 1
    /\ ~m.active => /\ ~m.shouldLoad /\ ~m.stable
                    /\ m.frame = IF Known(p, q) = 0 THEN 1 ELSE Known(p, q)
    /\ m.shouldLoad => /\ m.predicting /\ m.frame = m.endFrame + 1
                       /\ m.endFrame \in {Known(p, q), Known(p, q) + 1}
    /\ m.active /\ ~m.shouldLoad => /\ m.stable /\ m.frame = Known(p, q)
                                    /\ Known(p, q) >= 1 /\ m.frame <= m.endFrame + 1
                                    /\ m.endFrame <= m.frame + Horizon + 1
    /\ m.predicting => /\ m.ss >= SyncFrame - Delay /\ m.ss + Len(m.guesses) = Known(p, q)
                       /\ m.ss + Horizon >= Known(p, q)
    /\ ~m.predicting => m.guesses = <<>>
    /\ Asked(m) <= MaxFrame + 2
    /\ Len(q) <= MaxQueue + 1

\* The pads shown of frames that may still be compared are the other player's.
Shown(rx, h, floor) ==
    /\ rx.latest <= Len(h)
    /\ \A k \in DOMAIN rx.pads : k \in 1 .. rx.latest /\ rx.pads[k] = h[k]
    /\ \A k \in 1 .. rx.latest : k >= floor => k \in DOMAIN rx.pads
    /\ rx.target = 0 \/ rx.target >= SyncFrame

RxOK(m, h) ==
    /\ Shown(m.rx, h, m.stableFinalized)
    /\ m.active => m.rx.latest + Horizon >= m.endFrame
    /\ Len(h) + Horizon >= Asked(m) - 1

HeldOK(h) == Len(h) <= MaxFrame /\ \A k \in 1 .. Len(h) : h[k] \in PadOf(k)

\* What is finalized is below the first guess, and not far below the next frame.  While a
\* rollback waits to be loaded, bodies may finalize the first frame it is to run again, once
\* its pad has come.
FinOK(m, p) ==
    /\ ~m.shouldLoad => m.stableFinalized < SureTo(m)
    /\ m.shouldLoad => /\ m.stableFinalized <= m.ss
                       /\ m.rx.latest < m.ss => m.stableFinalized < m.ss
    /\ \/ m.stableFinalized = 0 \/ m.stableFinalized < Len(p)
       \/ m.stableFinalized = Len(p) /\ m.active /\ ~m.shouldLoad
    /\ ~m.shouldLoad => /\ m.finalized < SureTo(m)
                        /\ m.finalized + Horizon + 1 >= m.frame
                        /\ ~m.predicting => m.finalized = m.frame - 1
    /\ m.shouldLoad => /\ m.finalized <= m.ss /\ m.finalized <= m.rx.latest
                       /\ m.finalized + Horizon + 1 >= m.endFrame
                       /\ m.rx.latest < m.ss => m.finalized + Horizon >= m.endFrame
    /\ m.active /\ ~m.shouldLoad /\ m.predicting =>
           m.rx.latest < m.ss /\ m.finalized + Horizon >= m.endFrame

\* The checksums of frames played are those of the states on this timeline, each in
\* its place, and those since the one last finalized are all there.
EntryOK(m, p, i) ==
    LET f == m.ring[i].frame IN
    /\ f <= m.ringLast
    /\ f >= 1 => RingSlot(m, f) = i
    /\ f < Len(p) \/ f = 0 => m.ring[i].checksum = SubSeq(p, 1, f)

RingOK(m, p) ==
    /\ m.ringLast <= m.stableFinalized + Horizon /\ m.ringLast < Asked(m)
    /\ Len(p) <= m.ringLast + 1
    /\ \A i \in RingSlots : EntryOK(m, p, i)
    /\ \A g \in 0 .. m.ringLast :
          g > m.ringLast - Checksums => m.ring[RingSlot(m, g)].frame = g

TxOK(m, h) == Len(m.tx.checksum) = m.tx.frame /\ AllSure(h, m.tx.checksum)

\* The states of all frames that were run on a guess are kept.
SavesOK(m, p, s) ==
    /\ DOMAIN s \subseteq 0 .. Len(p) - 1
    /\ Cardinality(DOMAIN s) <= Slots
    /\ m.predicting => \A g \in m.ss .. Len(p) - 1 : g \in DOMAIN s /\ s[g] = SubSeq(p, 1, g)

\* The local pads to come and those given are where the code reads them.
Wrapped(i, n) == IF i < 0 THEN i + n ELSE i
Ahead(i, n)   == IF i < n THEN i ELSE i - n

LocalAt(m, a) ==
    /\ \A k \in DelaySlots : m.delayed[Ahead(m.delayIdx + k, Delay)] = Mine(a + k)
    /\ \A j \in 1 .. LocalInputs :
          j < a => m.localInputs[Wrapped(m.localIdx - j, LocalInputs)] = Mine(a - j)

Body(m, p, q, s, h) ==
    /\ CoreTypes(m, p, q, s, h)
    /\ SamplesOK(m, p, q, h) /\ Order(m, p, q) /\ RxOK(m, h) /\ HeldOK(h)
    /\ FinOK(m, p) /\ RingOK(m, p) /\ TxOK(m, h) /\ SavesOK(m, p, s)

Core(m, p, q, s, h) == Body(m, p, q, s, h) /\ LocalAt(m, Asked(m))

Loop(m, q, a) ==
    /\ a \in [where : {"wait", "begin", "end"}, left : 0 .. MaxQueue + 1]
    /\ a.where = "wait" => ~m.stable
    /\ a.where = "begin" /\ ~m.stable => a.left >= 1 /\ a.left <= Len(q)
    /\ a.where = "end" /\ ~m.stable => a.left <= 1 \/ Len(q) >= a.left - 1
    /\ a.where = "begin" /\ m.active /\ ~m.shouldLoad => m.frame <= m.endFrame
    /\ m.active /\ ~m.shouldLoad => q = <<>>

\* The frames kept over a rollback are of the match.
Within(m) == m.ss <= MaxFrame + 1 /\ m.endFrame <= MaxFrame + 1

\* The frame last finalized was played.
Settled(m, p) == m.stableFinalized = 0 \/ m.stableFinalized < Len(p)

EngineInv ==
    /\ Core(mu, past, queue, saves, held)
    /\ Loop(mu, queue, at)
    /\ Within(mu) /\ mu.endSeen <= MaxFrame + 1
    /\ Settled(mu, past)
    /\ EndIsReal
    /\ cut = {}

-----------------------------------------------------------------------------
(* Arithmetic *)

LEMMA Sizes ==
    /\ Horizon \in Nat /\ Horizon >= 2 /\ Delay \in Nat /\ Delay >= 1
    /\ SyncFrame \in Nat /\ SyncFrame > Delay
    /\ LocalInputs \in Nat /\ LocalInputs >= Horizon + 2
    /\ Checksums \in Nat /\ Checksums > Horizon /\ Slots \in Nat
    /\ Slots = Horizon /\ Predictions > Horizon
    /\ MaxFrame \in Nat /\ MaxQueue \in Nat /\ MaxQueue >= 1
    /\ NoPad \in Pad
  BY DEF LocalInputs, Checksums, Slots, Predictions

LEMMA HorizonNat == Horizon \in Nat /\ Horizon >= 2
  OBVIOUS

LEMMA Opening == SyncFrame - Delay \in Nat
  BY Sizes

\* A set of numbers has a least one.
LEMMA Least ==
    ASSUME NEW T \in SUBSET Nat, T # {}
    PROVE  \E t \in T : \A s \in T : t <= s
  <1>1. PICK F : F = {0 .. t : t \in T}
    OBVIOUS
  <1>2. F \subseteq FiniteSubsetsOf(Nat)
    <2>1. \A t \in T : IsFiniteSet(0 .. t) /\ 0 .. t \subseteq Nat
      BY FS_Interval
    <2> QED
      BY <1>1, <2>1 DEF FiniteSubsetsOf
  <1>3. F # {}
    BY <1>1
  <1>4. PICK x \in F : \A y \in F : ~ (<<y, x>> \in StrictSubsetOrdering(Nat))
    BY <1>2, <1>3, FS_StrictSubsetOrderingWellFounded, WFMin
  <1>5. PICK t \in T : x = 0 .. t
    BY <1>1
  <1>6. ASSUME NEW s \in T, s < t
        PROVE  FALSE
    <2>1. PICK y : y = 0 .. s
      OBVIOUS
    <2>2. y \in F
      BY <1>1, <2>1
    <2>3. y \subseteq x /\ y # x /\ x \in SUBSET Nat /\ y \in SUBSET Nat
      BY <1>5, <1>6, <2>1
    <2> QED
      BY <1>4, <2>2, <2>3 DEF StrictSubsetOrdering
  <1> QED
    BY <1>6

LEMMA Multiple ==
    ASSUME NEW n \in Nat \ {0}, NEW k \in Int, n * k < n, -n < n * k
    PROVE  k = 0
  <1>1. k >= 1 => n * k >= n * 1
    OBVIOUS
  <1>2. k <= -1 => n * k <= n * (-1)
    OBVIOUS
  <1> QED
    BY <1>1, <1>2

LEMMA Division ==
    ASSUME NEW n \in Nat \ {0}, NEW a \in Int
    PROVE  a % n \in 0 .. n - 1 /\ \E k \in Int : a = n * k + (a % n)
  <1>1. a = n * (a \div n) + (a % n) /\ a \div n \in Int
    OBVIOUS
  <1>2. a % n \in 0 .. n - 1
    OBVIOUS
  <1> QED
    BY <1>1, <1>2

\* Numbers closer than n have different remainders.
LEMMA Apart ==
    ASSUME NEW n \in Nat \ {0}, NEW a \in Int, NEW b \in Int, a % n = b % n,
           a - b < n, b - a < n
    PROVE  a = b
  <1>1. PICK k \in Int : a = n * k + (a % n)
    BY Division
  <1>2. PICK l \in Int : b = n * l + (b % n)
    BY Division
  <1>3. n * (k - l) = a - b
    BY <1>1, <1>2
  <1>4. k - l = 0
    BY <1>3, Multiple
  <1> QED
    BY <1>3, <1>4

LEMMA Around ==
    ASSUME NEW n \in Nat \ {0}, NEW a \in Int
    PROVE  (a + n) % n = a % n
  <1>1. PICK b, r, t : b = a + n /\ r = a % n /\ t = b % n
    OBVIOUS
  <1>2. b \in Int
    BY <1>1
  <1>3. PICK k \in Int : a = n * k + r
    BY <1>1, Division
  <1>4. PICK l \in Int : b = n * l + t
    BY <1>1, <1>2, Division
  <1>5. r \in 0 .. n - 1 /\ t \in 0 .. n - 1
    BY <1>1, <1>2, Division
  <1>6. n * (k + 1 - l) = t - r
    BY <1>1, <1>3, <1>4
  <1>7. k + 1 - l = 0
    BY <1>5, <1>6, Multiple
  <1>8. t = r
    BY <1>5, <1>6, <1>7
  <1> QED
    BY <1>1, <1>8

\* The slot after i of n.
After(i, n) == (i + 1) % n

LEMMA OneOn ==
    ASSUME NEW n \in Nat \ {0}, NEW i \in 0 .. n - 1
    PROVE  After(i, n) = IF i + 1 = n THEN 0 ELSE i + 1
  BY DEF After

-----------------------------------------------------------------------------
(* The other player stays gone *)

KnowsGone(m) == "disconnected" \in DOMAIN m

StaysGone(m, n) == KnowsGone(n) /\ n.disconnected = m.disconnected

LEMMA LoadStays ==
    ASSUME NEW m, KnowsGone(m), NEW f, NEW g
    PROVE  StaysGone(m, [LoadOpponent(m, f) EXCEPT !.frame = g])
  <1>1. StaysGone(m, LoadOpponent(m, f))
    BY DEF StaysGone, KnowsGone, LoadOpponent
  <1> QED
    BY <1>1 DEF StaysGone, KnowsGone

LEMMA CheckStays ==
    ASSUME NEW m, KnowsGone(m), NEW f, NEW n \in CheckPredictions(m, f)
    PROVE  StaysGone(m, n)
  <1>1. PICK b : b = PassGuesses(m)
    OBVIOUS
  <1>2. StaysGone(m, b)
    BY <1>1 DEF StaysGone, KnowsGone, PassGuesses
  <1>3. StaysGone(m, TriggerRollback(b, f))
    BY <1>2 DEF StaysGone, KnowsGone, TriggerRollback
  <1>4. StaysGone(m, [b EXCEPT !.predicting = FALSE, !.guesses = <<>>])
    BY <1>2 DEF StaysGone, KnowsGone
  <1>5. \/ n = m \/ n = b \/ n = TriggerRollback(b, f)
        \/ n = [b EXCEPT !.predicting = FALSE, !.guesses = <<>>]
    BY <1>1 DEF CheckPredictions
  <1> QED
    BY <1>2, <1>3, <1>4, <1>5 DEF StaysGone

LEMMA RenewStays ==
    ASSUME NEW m, KnowsGone(m), NEW q, NEW reply, NEW c \in Renew(m, q, reply)
    PROVE  /\ KnowsGone(c.mu)
           /\ c.mu.disconnected = (m.disconnected \/ reply.result = "disconnected")
  <1>1. PICK t, r, g : /\ t = [frame |-> m.stableFinalized, checksum |-> ChecksumOf(m)]
                       /\ r = [k \in DOMAIN NoReply |-> reply[k]]
                       /\ g = (m.disconnected \/ reply.result = "disconnected")
    OBVIOUS
  <1>2. PICK sent : sent = [m EXCEPT !.tx = t, !.rx = r, !.disconnected = g]
    OBVIOUS
  <1>3. KnowsGone(sent) /\ sent.disconnected = g
    BY <1>2 DEF KnowsGone
  <1>4. sent = [m EXCEPT !.tx = [frame |-> m.stableFinalized, checksum |-> ChecksumOf(m)],
                         !.rx = [k \in DOMAIN NoReply |-> reply[k]],
                         !.disconnected = @ \/ reply.result = "disconnected"]
    BY <1>1, <1>2
  <1>5. PICK f : f = m.frame
    OBVIOUS
  <1>6. \/ c = [mu |-> sent, queue |-> q]
        \/ \E n \in CheckPredictions(DelayPad(sent, f), f) :
               \/ c = [mu |-> n, queue |-> q]
               \/ \E y : c = [mu |-> [LoadOpponent(n, f) EXCEPT !.frame = f + 1], queue |-> y]
    BY <1>4, <1>5 DEF Renew
  <1>7. CASE c = [mu |-> sent, queue |-> q]
    BY <1>1, <1>3, <1>7
  <1>8. ASSUME NEW n \in CheckPredictions(DelayPad(sent, f), f),
               \/ c = [mu |-> n, queue |-> q]
               \/ \E y : c = [mu |-> [LoadOpponent(n, f) EXCEPT !.frame = f + 1], queue |-> y]
        PROVE  KnowsGone(c.mu) /\ c.mu.disconnected = g
    <2>1. StaysGone(sent, DelayPad(sent, f))
      BY <1>3 DEF StaysGone, KnowsGone, DelayPad
    <2>2. StaysGone(sent, n)
      BY <2>1, CheckStays DEF StaysGone
    <2>3. StaysGone(sent, [LoadOpponent(n, f) EXCEPT !.frame = f + 1])
      BY <2>2, LoadStays DEF StaysGone
    <2>4. c.mu = n \/ c.mu = [LoadOpponent(n, f) EXCEPT !.frame = f + 1]
      BY <1>8
    <2> QED
      BY <1>3, <2>2, <2>3, <2>4 DEF StaysGone
  <1> QED
    BY <1>1, <1>6, <1>7, <1>8

LEMMA CalledStays ==
    ASSUME NEW m, KnowsGone(m), NEW q, NEW h, NEW c \in Called(m, q, h)
    PROVE  KnowsGone(c.mu) /\ (~c.mu.disconnected => ~m.disconnected)
  <1>1. PICK more, reply, n :
            /\ n \in Renew(m, q, reply)
            /\ c = [mu |-> n.mu, queue |-> n.queue, held |-> h \o more,
                    again |-> reply.result = "advance"]
    BY DEF Called
  <1>2. c.mu = n.mu
    BY <1>1
  <1> QED
    BY <1>1, <1>2, RenewStays

LEMMA FetchStays ==
    ASSUME NEW m, KnowsGone(m), NEW c \in Fetched(m)
    PROVE  KnowsGone(c.mu) /\ (~c.mu.disconnected => ~m.disconnected)
  <1>1. PICK b \in Called(m, queue, held) : c = b \/ c \in Called(b.mu, b.queue, b.held)
    BY DEF Fetched
  <1>2. KnowsGone(b.mu) /\ (~b.mu.disconnected => ~m.disconnected)
    BY CalledStays
  <1> QED
    BY <1>1, <1>2, CalledStays

LEMMA BodyStays ==
    ASSUME KnowsGone(mu), FrameBegin
    PROVE  StaysGone(mu, mu')
  <1>1. PICK k, r, f, d, b, w, st :
            /\ k = WentBack.mu /\ r = RollbackPads.mu /\ f = Len(Loaded) /\ st = Loaded
            /\ d = mu.disconnected
            /\ b = Settle([r EXCEPT !.started = TRUE, !.displayed = d], f)
            /\ w = WriteChecksum(b, f, st)
    OBVIOUS
  <1>2. StaysGone(mu, k)
    BY <1>1 DEF WentBack, StaysGone, KnowsGone
  <1>3. StaysGone(mu, r)
    <2>1. r = k \/ r = RenewAgain(k, WentBack.queue).mu
      BY <1>1 DEF RollbackPads
    <2>2. PICK g : g = k.frame
      OBVIOUS
    <2>3. PICK c : c = RenewAgain(k, WentBack.queue)
      OBVIOUS
    <2>4. \/ c = [mu |-> k, queue |-> WentBack.queue]
          \/ \E y : c = [mu |-> [LoadOpponent(k, g) EXCEPT !.frame = g + 1], queue |-> y]
      BY <2>2, <2>3 DEF RenewAgain
    <2>5. c.mu = k \/ c.mu = [LoadOpponent(k, g) EXCEPT !.frame = g + 1]
      BY <2>4
    <2>6. r = k \/ r = [LoadOpponent(k, g) EXCEPT !.frame = g + 1]
      BY <2>1, <2>3, <2>5
    <2>7. KnowsGone(k) /\ k.disconnected = mu.disconnected
      BY <1>2 DEF StaysGone
    <2>8. PICK n : n = [LoadOpponent(k, g) EXCEPT !.frame = g + 1]
      OBVIOUS
    <2>9. StaysGone(k, n)
      BY <2>7, <2>8, LoadStays
    <2> QED
      BY <1>2, <2>6, <2>7, <2>8, <2>9 DEF StaysGone
  <1>4. StaysGone(mu, b)
    <2>1. PICK c : c = [r EXCEPT !.started = TRUE, !.displayed = d]
      OBVIOUS
    <2>2. StaysGone(mu, c)
      BY <1>3, <2>1 DEF StaysGone, KnowsGone
    <2>3. b = Settle(c, f)
      BY <1>1, <2>1
    <2> QED
      BY <2>2, <2>3 DEF Settle, StaysGone, KnowsGone
  <1>5. StaysGone(mu, w)
    BY <1>1, <1>4 DEF WriteChecksum, StaysGone, KnowsGone
  <1>6. mu' = SeeEnd(w, f, st)
    BY <1>1 DEF FrameBegin
  <1> QED
    BY <1>5, <1>6 DEF SeeEnd, StaysGone, KnowsGone

LEMMA StepStays ==
    ASSUME KnowsGone(mu), [Next]_vars
    PROVE  KnowsGone(mu') /\ (Undisturbed' => Undisturbed)
  <1>1. CASE Alarm
    <2>1. outrun' = outrun
      BY <1>1 DEF Alarm
    <2>2. KnowsGone(mu') /\ (~mu'.disconnected => ~mu.disconnected)
      <3>1. CASE mu' = [mu EXCEPT !.force = TRUE]
        BY <3>1 DEF KnowsGone
      <3>2. CASE mu' = mu
        BY <3>2
      <3>3. CASE Fetch(mu)
        BY <3>3, FetchStays DEF Fetch
      <3> QED
        BY <1>1, <3>1, <3>2, <3>3 DEF Alarm
    <2> QED
      BY <2>1, <2>2 DEF Undisturbed
  <1>2. CASE AskLate
    <2>1. PICK m : m = [mu EXCEPT !.force = FALSE]
      OBVIOUS
    <2>2. outrun' = outrun /\ Fetch(m)
      BY <1>2, <2>1 DEF AskLate
    <2>3. StaysGone(mu, m)
      BY <2>1 DEF StaysGone, KnowsGone
    <2>4. KnowsGone(mu') /\ (~mu'.disconnected => ~m.disconnected)
      BY <2>2, <2>3, FetchStays DEF Fetch, StaysGone
    <2> QED
      BY <2>2, <2>3, <2>4 DEF Undisturbed, StaysGone
  <1>3. CASE RunEngine
    <2>1. outrun' = outrun /\ StaysGone(mu, mu')
      BY <1>3 DEF RunEngine, StaysGone, KnowsGone
    <2> QED
      BY <2>1 DEF Undisturbed, StaysGone
  <1>4. CASE FrameBegin
    <2>1. outrun' = (outrun \/ Outruns)
      BY <1>4 DEF FrameBegin
    <2>2. StaysGone(mu, mu')
      BY <1>4, BodyStays
    <2> QED
      BY <2>1, <2>2 DEF Undisturbed, StaysGone
  <1>5. CASE FrameEnd
    <2>1. /\ outrun' = outrun
          /\ mu' = mu \/ mu' = [mu EXCEPT !.active = FALSE, !.stable = FALSE]
      BY <1>5 DEF FrameEnd
    <2>2. StaysGone(mu, mu')
      BY <2>1 DEF StaysGone, KnowsGone
    <2> QED
      BY <2>1, <2>2 DEF Undisturbed, StaysGone
  <1>6. CASE UNCHANGED vars
    BY <1>6 DEF vars, Undisturbed
  <1> QED
    BY <1>1, <1>2, <1>3, <1>4, <1>5, <1>6 DEF Next

-----------------------------------------------------------------------------
(* What each step of the bookkeeping leaves alone *)

SameRest(m, n) ==
    /\ n.started = m.started /\ n.over = m.over
    /\ n.endSeen = m.endSeen /\ n.force = m.force
SameLocal(m, n) ==
    /\ n.delayed = m.delayed /\ n.delayIdx = m.delayIdx
    /\ n.localInputs = m.localInputs /\ n.localIdx = m.localIdx
SameGuesses(m, n) == n.predicting = m.predicting /\ n.ss = m.ss /\ n.guesses = m.guesses
SameRoll(m, n) ==
    /\ n.active = m.active /\ n.shouldLoad = m.shouldLoad
    /\ n.endFrame = m.endFrame /\ n.stable = m.stable
SameRing(m, n)  == n.ring = m.ring /\ n.ringIdx = m.ringIdx /\ n.ringLast = m.ringLast
SameReply(m, n) == n.rx = m.rx /\ n.tx = m.tx
SameFin(m, n)   == n.finalized = m.finalized /\ n.stableFinalized = m.stableFinalized

LEMMA MuFields ==
    ASSUME NEW m \in MuType
    PROVE  /\ m.started \in BOOLEAN /\ m.over \in BOOLEAN /\ m.force \in BOOLEAN
           /\ m.disconnected \in BOOLEAN /\ m.displayed \in BOOLEAN
           /\ m.predicting \in BOOLEAN /\ m.active \in BOOLEAN
           /\ m.shouldLoad \in BOOLEAN /\ m.stable \in BOOLEAN
           /\ m.endSeen \in Nat /\ m.frame \in Nat /\ m.ss \in Nat /\ m.endFrame \in Nat
           /\ m.finalized \in Nat /\ m.stableFinalized \in Nat /\ m.ringLast \in Nat
           /\ m.guesses \in Pads /\ m.rx \in Reply /\ m.tx \in Entry
           /\ m.delayed \in [DelaySlots -> Nat] /\ m.delayIdx \in DelaySlots
           /\ m.localInputs \in [LocalSlots -> Nat] /\ m.localIdx \in LocalSlots
           /\ m.ring \in [RingSlots -> Entry] /\ m.ringIdx \in RingSlots
  BY DEF MuType

LEMMA ReplyFields ==
    ASSUME NEW rx \in Reply
    PROVE  /\ rx.latest \in Nat /\ rx.target \in Nat /\ rx.early \in Pad
           /\ DOMAIN rx.pads \subseteq Nat
           /\ \A k \in DOMAIN rx.pads : rx.pads[k] \in Pad
  <1>1. rx.latest \in Nat /\ rx.target \in Nat /\ rx.early \in Pad /\ rx.pads \in Window
    BY DEF Reply
  <1>2. PICK ks \in SUBSET Nat : rx.pads \in [ks -> Pad]
    BY <1>1 DEF Window
  <1> QED
    BY <1>1, <1>2

LEMMA EntryFields ==
    ASSUME NEW e \in Entry
    PROVE  e.frame \in Nat /\ e.checksum \in State
  BY DEF Entry

LEMMA SampleFields ==
    ASSUME NEW st \in State
    PROVE  /\ Len(st) \in Nat
           /\ \A i \in 1 .. Len(st) :
                 /\ st[i] \in SampleType
                 /\ st[i].frame \in Nat /\ st[i].local \in Nat /\ st[i].remote \in Pad
  <1>1. \A e \in SampleType : e.frame \in Nat /\ e.local \in Nat /\ e.remote \in Pad
    BY DEF SampleType
  <1>2. Len(st) \in Nat /\ \A i \in 1 .. Len(st) : st[i] \in SampleType
    BY DEF State
  <1> QED
    BY <1>1, <1>2

LEMMA PadTypes ==
    ASSUME NEW rx \in Reply, NEW f \in Nat
    PROVE  Confirmed(rx, f) \in Pad /\ Guess(rx, f) \in Pad
  BY ReplyFields, Sizes DEF Confirmed, Guess

LEMMA TheirType ==
    ASSUME NEW m \in MuType, NEW f \in Nat
    PROVE  TheirPad(m, f) \in Pad
  BY PadTypes, MuFields DEF TheirPad

SentOf(m, reply) ==
    [m EXCEPT !.tx = [frame |-> m.stableFinalized, checksum |-> ChecksumOf(m)],
              !.rx = [k \in DOMAIN NoReply |-> reply[k]],
              !.disconnected = @ \/ reply.result = "disconnected"]

SameFrame(m, n) == n.frame = m.frame

WithFrame(m, g)      == [m EXCEPT !.frame = g]
WithFinalized(m, g)  == [m EXCEPT !.finalized = g]
WithGuesses(m, b, c) == [m EXCEPT !.predicting = TRUE, !.ss = b, !.guesses = c]

GuessesAre(n, b, c) == n.predicting = TRUE /\ n.ss = b /\ n.guesses = c
Finalized(m, n, g)  == n.finalized = g /\ n.stableFinalized = m.stableFinalized
FrameIs(n, g)       == n.frame = g

LEMMA SetGuesses ==
    ASSUME NEW m \in MuType, NEW b \in Nat, NEW c \in Pads, NEW n,
           n = WithGuesses(m, b, c)
    PROVE  /\ n \in MuType /\ GuessesAre(n, b, c)
           /\ SameFrame(m, n) /\ SameFin(m, n)
           /\ SameRest(m, n) /\ SameLocal(m, n) /\ SameRoll(m, n) /\ SameRing(m, n)
           /\ SameReply(m, n)
  <1>1. PICK k : k = [m EXCEPT !.predicting = TRUE]
    OBVIOUS
  <1>2. PICK l : l = [k EXCEPT !.ss = b]
    OBVIOUS
  <1>3. n = [l EXCEPT !.guesses = c]
    BY <1>1, <1>2 DEF WithGuesses
  <1>4. /\ k \in MuType /\ k.predicting = TRUE /\ SameFrame(m, k) /\ SameFin(m, k)
        /\ SameRest(m, k) /\ SameLocal(m, k) /\ SameRoll(m, k) /\ SameRing(m, k)
        /\ SameReply(m, k)
    BY <1>1 DEF MuType, SameFrame, SameRest, SameLocal, SameRoll, SameRing, SameReply, SameFin
  <1>5. /\ l \in MuType /\ l.predicting = k.predicting /\ l.ss = b
        /\ SameFrame(k, l) /\ SameFin(k, l)
        /\ SameRest(k, l) /\ SameLocal(k, l) /\ SameRoll(k, l) /\ SameRing(k, l)
        /\ SameReply(k, l)
    BY <1>2, <1>4 DEF MuType, SameFrame, SameRest, SameLocal, SameRoll, SameRing, SameReply,
                      SameFin
  <1>6. /\ n \in MuType /\ n.predicting = l.predicting /\ n.ss = l.ss /\ n.guesses = c
        /\ SameFrame(l, n) /\ SameFin(l, n)
        /\ SameRest(l, n) /\ SameLocal(l, n) /\ SameRoll(l, n) /\ SameRing(l, n)
        /\ SameReply(l, n)
    <2>1. n \in MuType /\ n.guesses = c
      BY <1>3, <1>5 DEF MuType
    <2>2. /\ n.predicting = l.predicting /\ n.ss = l.ss
          /\ SameFrame(l, n) /\ SameFin(l, n) /\ SameRest(l, n) /\ SameLocal(l, n)
      BY <1>3, <1>5 DEF MuType, SameFrame, SameRest, SameLocal, SameFin
    <2>3. SameRoll(l, n) /\ SameRing(l, n) /\ SameReply(l, n)
      BY <1>3, <1>5 DEF MuType, SameRoll, SameRing, SameReply
    <2> QED
      BY <2>1, <2>2, <2>3
  <1> QED
    BY <1>4, <1>5, <1>6 DEF SameFrame, SameRest, SameLocal, SameRoll, SameRing, SameReply,
                            SameFin, GuessesAre

LEMMA SetFrame ==
    ASSUME NEW m \in MuType, NEW g \in Nat, NEW n, n = WithFrame(m, g)
    PROVE  /\ n \in MuType /\ FrameIs(n, g) /\ SameFin(m, n) /\ SameGuesses(m, n)
           /\ SameRest(m, n) /\ SameLocal(m, n) /\ SameRoll(m, n) /\ SameRing(m, n)
           /\ SameReply(m, n)
  BY DEF MuType, WithFrame, SameRest, SameLocal, SameRoll, SameRing, SameReply, SameFin,
         SameGuesses, FrameIs

LEMMA SetFinalized ==
    ASSUME NEW m \in MuType, NEW g \in Nat, NEW n, n = WithFinalized(m, g)
    PROVE  /\ n \in MuType /\ SameFrame(m, n) /\ Finalized(m, n, g)
           /\ SameGuesses(m, n)
           /\ SameRest(m, n) /\ SameLocal(m, n) /\ SameRoll(m, n) /\ SameRing(m, n)
           /\ SameReply(m, n)
  BY DEF MuType, WithFinalized, SameRest, SameLocal, SameRoll, SameRing, SameReply,
         SameGuesses, SameFrame, Finalized

SameButGuesses(m, n) ==
    /\ SameRest(m, n) /\ SameLocal(m, n) /\ SameRoll(m, n) /\ SameRing(m, n)
    /\ SameReply(m, n) /\ n.stableFinalized = m.stableFinalized

\* What taking the other player's pad of frame f does.
LoadedPad(m, f, n) ==
    /\ ~IsGuess(m, f) => SameGuesses(m, n) /\ n.finalized = f
    /\ IsGuess(m, f) =>
          /\ n.predicting /\ n.finalized = m.finalized
          /\ m.predicting => /\ n.ss = m.ss
                             /\ n.guesses = Append(m.guesses, TheirPad(m, f))
          /\ ~m.predicting => n.ss = f /\ n.guesses = <<TheirPad(m, f)>>

LEMMA LoadFields ==
    ASSUME NEW m \in MuType, NEW f \in Nat, NEW g \in Nat, NEW n,
           n = WithFrame(LoadOpponent(m, f), g)
    PROVE  n \in MuType /\ FrameIs(n, g) /\ SameButGuesses(m, n) /\ LoadedPad(m, f, n)
  <1>1. TheirPad(m, f) \in Pad /\ m.guesses \in Pads /\ m.ss \in Nat
    BY TheirType, MuFields
  <1>2. PICK k : k = LoadOpponent(m, f)
    OBVIOUS
  <1>3. k \in MuType /\ SameButGuesses(m, k) /\ LoadedPad(m, f, k)
    <2>1. CASE ~IsGuess(m, f)
      <3>1. k = WithFinalized(m, f)
        BY <1>2, <2>1 DEF LoadOpponent, WithFinalized
      <3>2. /\ k \in MuType /\ Finalized(m, k, f) /\ SameGuesses(m, k)
            /\ SameRest(m, k) /\ SameLocal(m, k) /\ SameRoll(m, k) /\ SameRing(m, k)
            /\ SameReply(m, k)
        BY <3>1, SetFinalized
      <3> QED
        BY <2>1, <3>2 DEF SameButGuesses, Finalized, LoadedPad
    <2>2. CASE IsGuess(m, f) /\ m.predicting
      <3>1. PICK b, c : b = m.ss /\ c = Append(m.guesses, TheirPad(m, f))
        OBVIOUS
      <3>2. k = WithGuesses(m, b, c)
        BY <1>2, <2>2, <3>1 DEF LoadOpponent, MuType, WithGuesses
      <3>3. b \in Nat /\ c \in Pads
        BY <1>1, <3>1 DEF Pads
      <3>4. /\ k \in MuType /\ GuessesAre(k, b, c)
            /\ SameFin(m, k) /\ SameRest(m, k) /\ SameLocal(m, k) /\ SameRoll(m, k)
            /\ SameRing(m, k) /\ SameReply(m, k)
        BY <3>2, <3>3, SetGuesses
      <3> QED
        BY <2>2, <3>1, <3>4 DEF SameButGuesses, SameFin, GuessesAre, LoadedPad
    <2>3. CASE IsGuess(m, f) /\ ~m.predicting
      <3>1. PICK c : c = <<TheirPad(m, f)>>
        OBVIOUS
      <3>2. k = WithGuesses(m, f, c)
        BY <1>2, <2>3, <3>1 DEF LoadOpponent, WithGuesses
      <3>3. c \in Pads
        BY <1>1, <3>1 DEF Pads
      <3>4. /\ k \in MuType /\ GuessesAre(k, f, c)
            /\ SameFin(m, k) /\ SameRest(m, k) /\ SameLocal(m, k) /\ SameRoll(m, k)
            /\ SameRing(m, k) /\ SameReply(m, k)
        BY <3>2, <3>3, SetGuesses
      <3> QED
        BY <2>3, <3>1, <3>4 DEF SameButGuesses, SameFin, GuessesAre, LoadedPad
    <2> QED
      BY <2>1, <2>2, <2>3
  <1>4. n = WithFrame(k, g)
    BY <1>2
  <1>5. /\ n \in MuType /\ FrameIs(n, g) /\ SameFin(k, n) /\ SameGuesses(k, n)
        /\ SameRest(k, n) /\ SameLocal(k, n) /\ SameRoll(k, n) /\ SameRing(k, n)
        /\ SameReply(k, n)
    BY <1>3, <1>4, SetFrame
  <1>6. SameButGuesses(m, n)
    BY <1>3, <1>5 DEF SameButGuesses, SameFin, SameRest, SameLocal, SameRoll, SameRing,
                      SameReply
  <1>7. LoadedPad(m, f, n)
    BY <1>3, <1>5 DEF LoadedPad, SameFin, SameGuesses
  <1> QED
    BY <1>5, <1>6, <1>7

ReplyOf(reply) == [latest |-> reply.latest, pads |-> reply.pads,
                   target |-> reply.target, early |-> reply.early]

Sent(m, n, rx) ==
    /\ n.rx = rx
    /\ n.tx = [frame |-> m.stableFinalized, checksum |-> ChecksumOf(m)]

LEMMA ReplyAsType ==
    ASSUME NEW reply, reply.latest \in Nat, reply.pads \in Window,
           reply.target \in Nat, reply.early \in Pad
    PROVE  /\ [k \in DOMAIN NoReply |-> reply[k]] = ReplyOf(reply)
           /\ ReplyOf(reply) \in Reply
           /\ ReplyOf(reply).latest = reply.latest /\ ReplyOf(reply).pads = reply.pads
           /\ ReplyOf(reply).target = reply.target /\ ReplyOf(reply).early = reply.early
  BY DEF NoReply, ReplyOf, Reply

LEMMA SentFields ==
    ASSUME NEW m \in MuType, NEW reply, ReplyOf(reply) \in Reply, ChecksumOf(m) \in State,
           [k \in DOMAIN NoReply |-> reply[k]] = ReplyOf(reply),
           ~m.disconnected, reply.result # "disconnected",
           NEW n, n = SentOf(m, reply)
    PROVE  /\ n \in MuType /\ Sent(m, n, ReplyOf(reply)) /\ SameFrame(m, n) /\ SameFin(m, n)
           /\ SameGuesses(m, n) /\ SameRest(m, n) /\ SameLocal(m, n) /\ SameRoll(m, n)
           /\ SameRing(m, n)
  <1>1. PICK t, r : t = [frame |-> m.stableFinalized, checksum |-> ChecksumOf(m)]
                    /\ r = ReplyOf(reply)
    OBVIOUS
  <1>2. t \in Entry /\ r \in Reply
    BY <1>1, MuFields DEF Entry
  <1>3. n = [[m EXCEPT !.tx = t] EXCEPT !.rx = r]
    <2>1. (m.disconnected \/ reply.result = "disconnected") = m.disconnected
      BY MuFields
    <2>2. n = [m EXCEPT !.tx = t, !.rx = r, !.disconnected = m.disconnected]
      BY <1>1, <2>1 DEF SentOf, MuType
    <2> QED
      BY <2>2 DEF MuType
  <1>4. PICK k : k = [m EXCEPT !.tx = t]
    OBVIOUS
  <1>5. /\ k \in MuType /\ k.tx = t /\ SameFrame(m, k) /\ SameFin(m, k)
        /\ SameGuesses(m, k) /\ SameRest(m, k) /\ SameLocal(m, k) /\ SameRoll(m, k)
        /\ SameRing(m, k)
    BY <1>2, <1>4 DEF MuType, SameFrame, SameFin, SameGuesses, SameRest, SameLocal, SameRoll,
                      SameRing
  <1>6. /\ n \in MuType /\ n.tx = k.tx /\ n.rx = r /\ SameFrame(k, n) /\ SameFin(k, n)
        /\ SameGuesses(k, n) /\ SameRest(k, n) /\ SameLocal(k, n) /\ SameRoll(k, n)
        /\ SameRing(k, n)
    <2>1. n = [k EXCEPT !.rx = r]
      BY <1>3, <1>4
    <2>2. n \in MuType /\ n.rx = r
      BY <1>2, <1>5, <2>1 DEF MuType
    <2>3. n.tx = k.tx /\ SameFrame(k, n) /\ SameFin(k, n) /\ SameGuesses(k, n)
      BY <1>2, <1>5, <2>1 DEF MuType, SameFrame, SameFin, SameGuesses
    <2>4. SameRest(k, n) /\ SameLocal(k, n) /\ SameRoll(k, n) /\ SameRing(k, n)
      BY <1>2, <1>5, <2>1 DEF MuType, SameRest, SameLocal, SameRoll, SameRing
    <2> QED
      BY <2>2, <2>3, <2>4
  <1> QED
    BY <1>1, <1>5, <1>6 DEF Sent, SameFrame, SameFin, SameGuesses, SameRest,
                            SameLocal, SameRoll, SameRing

Delayed(m, n, f) ==
    /\ n.localInputs = [m.localInputs EXCEPT ![m.localIdx] = m.delayed[m.delayIdx]]
    /\ n.localIdx = (m.localIdx + 1) % LocalInputs
    /\ n.delayed = [m.delayed EXCEPT ![m.delayIdx] = SentPad(f)]
    /\ n.delayIdx = (m.delayIdx + 1) % Delay

LEMMA DelayFields ==
    ASSUME NEW m \in MuType, NEW f \in Nat, NEW n, n = DelayPad(m, f)
    PROVE  /\ n \in MuType /\ Delayed(m, n, f) /\ SameFrame(m, n) /\ SameFin(m, n)
           /\ SameGuesses(m, n) /\ SameRest(m, n) /\ SameRoll(m, n) /\ SameRing(m, n)
           /\ SameReply(m, n)
  <1>1. PICK a, b, c, d : /\ a = [m.localInputs EXCEPT ![m.localIdx] = m.delayed[m.delayIdx]]
                          /\ b = (m.localIdx + 1) % LocalInputs
                          /\ c = [m.delayed EXCEPT ![m.delayIdx] = SentPad(f)]
                          /\ d = (m.delayIdx + 1) % Delay
    OBVIOUS
  <1>2. a \in [LocalSlots -> Nat] /\ c \in [DelaySlots -> Nat]
    <2>1. m.delayed[m.delayIdx] \in Nat /\ SentPad(f) \in Nat
      BY MuFields DEF SentPad
    <2> QED
      BY <1>1, <2>1, MuFields
  <1>3. b \in LocalSlots /\ d \in DelaySlots
    <2>1. m.localIdx \in Int /\ m.delayIdx \in Int
      BY MuFields DEF LocalSlots, DelaySlots
    <2>2. m.localIdx + 1 \in Int /\ m.delayIdx + 1 \in Int
      BY <2>1
    <2>3. LocalInputs \in Nat \ {0} /\ Delay \in Nat \ {0}
      BY Sizes
    <2> QED
      BY <1>1, <2>2, <2>3, Division DEF LocalSlots, DelaySlots
  <1>4. n = [m EXCEPT !.localInputs = a, !.localIdx = b, !.delayed = c, !.delayIdx = d]
    BY <1>1 DEF DelayPad, MuType
  <1>5. PICK k : k = [m EXCEPT !.localInputs = a, !.localIdx = b]
    OBVIOUS
  <1>6. n = [k EXCEPT !.delayed = c, !.delayIdx = d]
    BY <1>4, <1>5
  <1>7. k \in MuType /\ k.localInputs = a /\ k.localIdx = b
    BY <1>2, <1>3, <1>5 DEF MuType
  <1>8. /\ SameFrame(m, k) /\ SameFin(m, k) /\ SameGuesses(m, k) /\ SameRest(m, k)
        /\ SameRoll(m, k) /\ SameRing(m, k) /\ SameReply(m, k)
    BY <1>2, <1>3, <1>5 DEF MuType, SameFrame, SameFin, SameGuesses, SameRest,
                            SameRoll, SameRing, SameReply
  <1>9. n \in MuType /\ n.delayed = c /\ n.delayIdx = d /\ n.localInputs = a /\ n.localIdx = b
    BY <1>2, <1>3, <1>6, <1>7 DEF MuType
  <1>10. /\ SameFrame(k, n) /\ SameFin(k, n) /\ SameGuesses(k, n) /\ SameRest(k, n)
         /\ SameRoll(k, n) /\ SameRing(k, n) /\ SameReply(k, n)
    BY <1>2, <1>3, <1>6, <1>7 DEF MuType, SameFrame, SameFin, SameGuesses, SameRest,
                            SameRoll, SameRing, SameReply
  <1>11. Delayed(m, n, f)
    BY <1>1, <1>9 DEF Delayed
  <1> QED
    BY <1>8, <1>9, <1>10, <1>11 DEF SameFrame, SameFin, SameGuesses, SameRest,
                             SameRoll, SameRing, SameReply

-----------------------------------------------------------------------------
(* The guesses passed *)

LEMMA PassedFacts ==
    ASSUME NEW m \in MuType
    PROVE  /\ Passed(m) \in 0 .. Len(m.guesses) /\ StopsAt(m, Passed(m))
           /\ \A j \in 0 .. Passed(m) - 1 : ~StopsAt(m, j)
  <1>1. Len(m.guesses) \in Nat
    BY MuFields DEF Pads
  <1>2. PICK T : T = {i \in 0 .. Len(m.guesses) : StopsAt(m, i)}
    OBVIOUS
  <1>3. T \in SUBSET Nat /\ Len(m.guesses) \in T
    BY <1>1, <1>2 DEF StopsAt
  <1>4. PICK t \in T : \A s \in T : t <= s
    BY <1>3, Least
  <1>5. t \in 0 .. Len(m.guesses) /\ StopsAt(m, t)
    BY <1>2, <1>4
  <1>6. \A j \in 0 .. t - 1 : ~StopsAt(m, j)
    BY <1>1, <1>2, <1>4, <1>5
  <1> QED
    BY <1>5, <1>6 DEF Passed

Passing(m, n, i) ==
    /\ n.predicting = m.predicting /\ n.ss = m.ss + i
    /\ n.guesses = SubSeq(m.guesses, i + 1, Len(m.guesses))
    /\ n.finalized = Smaller(m.ss + i, m.rx.latest)
    /\ n.stableFinalized = m.stableFinalized

LEMMA PassFields ==
    ASSUME NEW m \in MuType, NEW n, n = PassGuesses(m)
    PROVE  /\ n \in MuType /\ Passing(m, n, Passed(m)) /\ SameFrame(m, n) /\ SameRest(m, n)
           /\ SameLocal(m, n) /\ SameRoll(m, n) /\ SameRing(m, n) /\ SameReply(m, n)
  <1>1. Passed(m) \in 0 .. Len(m.guesses) /\ Len(m.guesses) \in Nat /\ m.ss \in Nat
        /\ m.guesses \in Pads /\ m.rx.latest \in Nat
    BY PassedFacts, MuFields, ReplyFields DEF Pads
  <1>2. PICK a, b, c : /\ a = m.ss + Passed(m)
                       /\ b = SubSeq(m.guesses, Passed(m) + 1, Len(m.guesses))
                       /\ c = Smaller(m.ss + Passed(m), m.rx.latest)
    OBVIOUS
  <1>3. a \in Nat /\ b \in Pads /\ c \in Nat
    <2>1. a \in Nat /\ c \in Nat
      BY <1>1, <1>2 DEF Smaller
    <2>2. b \in Pads
      BY <1>1, <1>2 DEF Pads
    <2> QED
      BY <2>1, <2>2
  <1>4. n = [m EXCEPT !.ss = a, !.guesses = b, !.finalized = c]
    BY <1>2 DEF PassGuesses, MuType
  <1>5. PICK k : k = [m EXCEPT !.ss = a, !.guesses = b]
    OBVIOUS
  <1>6. n = [k EXCEPT !.finalized = c]
    BY <1>4, <1>5
  <1>7. k \in MuType /\ k.ss = a /\ k.guesses = b /\ k.predicting = m.predicting
    BY <1>3, <1>5 DEF MuType
  <1>8. /\ k.stableFinalized = m.stableFinalized /\ SameFrame(m, k) /\ SameRest(m, k)
        /\ SameLocal(m, k) /\ SameRoll(m, k) /\ SameRing(m, k) /\ SameReply(m, k)
    BY <1>3, <1>5 DEF MuType, SameFrame, SameRest, SameLocal, SameRoll, SameRing, SameReply
  <1>9. n \in MuType /\ n.ss = a /\ n.guesses = b /\ n.predicting = m.predicting
        /\ n.finalized = c /\ n.stableFinalized = k.stableFinalized
    BY <1>3, <1>6, <1>7 DEF MuType
  <1>10. /\ SameFrame(k, n) /\ SameRest(k, n)
         /\ SameLocal(k, n) /\ SameRoll(k, n) /\ SameRing(k, n) /\ SameReply(k, n)
    BY <1>3, <1>6, <1>7 DEF MuType, SameFrame, SameRest, SameLocal, SameRoll, SameRing,
                            SameReply
  <1>11. Passing(m, n, Passed(m))
    BY <1>2, <1>8, <1>9 DEF Passing
  <1> QED
    BY <1>8, <1>9, <1>10, <1>11 DEF SameFrame, SameRest, SameLocal, SameRoll, SameRing,
                                    SameReply

Triggered(m, n, f) ==
    /\ n.active = TRUE /\ n.shouldLoad = TRUE /\ n.endFrame = f /\ n.frame = f + 1
    /\ n.stable = m.stable

LEMMA TriggerFields ==
    ASSUME NEW m \in MuType, NEW f \in Nat, NEW n, n = TriggerRollback(m, f)
    PROVE  /\ n \in MuType /\ Triggered(m, n, f) /\ SameGuesses(m, n) /\ SameFin(m, n)
           /\ SameRest(m, n) /\ SameLocal(m, n) /\ SameRing(m, n) /\ SameReply(m, n)
  <1>1. PICK g : g = f + 1
    OBVIOUS
  <1>2. g \in Nat
    BY <1>1
  <1>3. PICK k : k = [m EXCEPT !.active = TRUE, !.shouldLoad = TRUE]
    OBVIOUS
  <1>4. n = [k EXCEPT !.endFrame = f, !.frame = g]
    BY <1>1, <1>3 DEF TriggerRollback
  <1>5. k \in MuType /\ k.active = TRUE /\ k.shouldLoad = TRUE /\ k.stable = m.stable
    BY <1>3 DEF MuType
  <1>6. /\ SameGuesses(m, k) /\ SameFin(m, k)
        /\ SameRest(m, k) /\ SameLocal(m, k) /\ SameRing(m, k) /\ SameReply(m, k)
    BY <1>3 DEF MuType, SameGuesses, SameFin, SameRest, SameLocal, SameRing, SameReply
  <1>7. /\ n \in MuType /\ n.active = k.active /\ n.shouldLoad = k.shouldLoad
        /\ n.stable = k.stable /\ n.endFrame = f /\ n.frame = g
    <2>1. n \in MuType
      <3>1. PICK j : j = [k EXCEPT !.endFrame = f]
        OBVIOUS
      <3>2. j \in MuType
        BY <1>5, <3>1 DEF MuType
      <3>3. n = [j EXCEPT !.frame = g]
        BY <1>4, <3>1
      <3> QED
        BY <1>2, <3>2, <3>3 DEF MuType
    <2>2. /\ n.active = k.active /\ n.shouldLoad = k.shouldLoad
          /\ n.stable = k.stable
      BY <1>4, <1>5 DEF MuType
    <2>3. n.endFrame = f /\ n.frame = g
      BY <1>4, <1>5 DEF MuType
    <2> QED
      BY <2>1, <2>2, <2>3
  <1>8. /\ SameGuesses(k, n) /\ SameFin(k, n)
        /\ SameRest(k, n) /\ SameLocal(k, n) /\ SameRing(k, n) /\ SameReply(k, n)
    BY <1>2, <1>4, <1>5 DEF MuType, SameGuesses, SameFin, SameRest, SameLocal, SameRing,
                            SameReply
  <1>9. Triggered(m, n, f)
    BY <1>1, <1>5, <1>7 DEF Triggered
  <1> QED
    BY <1>6, <1>7, <1>8, <1>9 DEF SameGuesses, SameFin, SameRest, SameLocal, SameRing,
                                  SameReply

StopsPredicting(m, n) == n.predicting = FALSE /\ n.ss = m.ss /\ n.guesses = <<>>
NotPredicting(m) == [m EXCEPT !.predicting = FALSE, !.guesses = <<>>]

LEMMA KeepFields ==
    ASSUME NEW m \in MuType, NEW n, n = NotPredicting(m)
    PROVE  /\ n \in MuType /\ StopsPredicting(m, n) /\ SameFrame(m, n) /\ SameFin(m, n)
           /\ SameRest(m, n) /\ SameLocal(m, n) /\ SameRoll(m, n) /\ SameRing(m, n)
           /\ SameReply(m, n)
  <1>1. PICK k, e : k = [m EXCEPT !.predicting = FALSE] /\ e = <<>>
    OBVIOUS
  <1>2. e \in Pads
    BY <1>1 DEF Pads
  <1>3. n = [k EXCEPT !.guesses = e]
    BY <1>1 DEF NotPredicting
  <1>4. /\ k \in MuType /\ k.predicting = FALSE /\ k.ss = m.ss /\ SameFrame(m, k)
        /\ SameFin(m, k) /\ SameRest(m, k) /\ SameLocal(m, k) /\ SameRoll(m, k)
        /\ SameRing(m, k) /\ SameReply(m, k)
    BY <1>1 DEF MuType, SameFrame, SameFin, SameRest, SameLocal, SameRoll, SameRing,
                SameReply
  <1>5. /\ n \in MuType /\ n.predicting = FALSE /\ n.ss = k.ss /\ n.guesses = e
        /\ SameFrame(k, n) /\ SameFin(k, n) /\ SameRest(k, n) /\ SameLocal(k, n)
    BY <1>2, <1>3, <1>4 DEF MuType, SameFrame, SameFin, SameRest, SameLocal
  <1>6. SameRoll(k, n) /\ SameRing(k, n) /\ SameReply(k, n)
    BY <1>2, <1>3, <1>4 DEF MuType, SameRoll, SameRing, SameReply
  <1> QED
    BY <1>1, <1>4, <1>5, <1>6 DEF StopsPredicting, SameFrame, SameFin, SameRest,
                                  SameLocal, SameRoll, SameRing, SameReply

-----------------------------------------------------------------------------
(* What a body does *)

GoneBack(m, n) ==
    /\ n.predicting = FALSE /\ n.guesses = <<>> /\ n.ss = m.ss
    /\ n.active = m.active /\ n.shouldLoad = FALSE /\ n.endFrame = m.endFrame
    /\ n.stable = m.stable
ToGoBack(m) == [m EXCEPT !.frame = m.ss, !.shouldLoad = FALSE,
                         !.predicting = FALSE, !.guesses = <<>>]

LEMMA BackFields ==
    ASSUME NEW m \in MuType, NEW n, n = ToGoBack(m)
    PROVE  /\ n \in MuType /\ GoneBack(m, n) /\ FrameIs(n, m.ss) /\ SameFin(m, n)
           /\ SameRest(m, n) /\ SameLocal(m, n) /\ SameRing(m, n) /\ SameReply(m, n)
  <1>1. PICK s, e : s = m.ss /\ e = <<>>
    OBVIOUS
  <1>2. s \in Nat /\ e \in Pads
    BY <1>1, MuFields DEF Pads
  <1>3. PICK k : k = [m EXCEPT !.frame = s, !.shouldLoad = FALSE]
    OBVIOUS
  <1>4. n = [k EXCEPT !.predicting = FALSE, !.guesses = e]
    BY <1>1, <1>3 DEF ToGoBack
  <1>5. /\ k \in MuType /\ k.frame = s /\ k.shouldLoad = FALSE
        /\ k.active = m.active /\ k.endFrame = m.endFrame /\ k.stable = m.stable
        /\ k.ss = m.ss
    BY <1>2, <1>3 DEF MuType
  <1>6. /\ SameFin(m, k) /\ SameRest(m, k) /\ SameLocal(m, k) /\ SameRing(m, k)
        /\ SameReply(m, k)
    BY <1>2, <1>3 DEF MuType, SameFin, SameRest, SameLocal, SameRing, SameReply
  <1>7. /\ n \in MuType /\ n.frame = k.frame /\ n.shouldLoad = k.shouldLoad
        /\ n.active = k.active /\ n.endFrame = k.endFrame /\ n.stable = k.stable
        /\ n.ss = k.ss /\ n.predicting = FALSE /\ n.guesses = e
    BY <1>2, <1>4, <1>5 DEF MuType
  <1>8. /\ SameFin(k, n) /\ SameRest(k, n) /\ SameLocal(k, n) /\ SameRing(k, n)
        /\ SameReply(k, n)
    BY <1>2, <1>4, <1>5 DEF MuType, SameFin, SameRest, SameLocal, SameRing, SameReply
  <1>9. GoneBack(m, n) /\ FrameIs(n, m.ss)
    BY <1>1, <1>5, <1>7 DEF GoneBack, FrameIs
  <1> QED
    BY <1>6, <1>7, <1>8, <1>9 DEF SameFin, SameRest, SameLocal, SameRing, SameReply

Begun(m, n, f) ==
    /\ n.started = TRUE /\ n.over = m.over /\ n.endSeen = m.endSeen /\ n.force = m.force
    /\ n.finalized = m.finalized
    /\ n.stableFinalized = Larger(m.stableFinalized, Smaller(f, m.finalized))

LEMMA BeginFields ==
    ASSUME NEW m \in MuType, NEW f \in Nat, NEW b \in BOOLEAN, NEW n,
           n = Settle([m EXCEPT !.started = TRUE, !.displayed = b], f)
    PROVE  /\ n \in MuType /\ Begun(m, n, f) /\ SameFrame(m, n) /\ SameGuesses(m, n)
           /\ SameLocal(m, n) /\ SameRoll(m, n) /\ SameRing(m, n) /\ SameReply(m, n)
  <1>1. PICK s : s = Larger(m.stableFinalized, Smaller(f, m.finalized))
    OBVIOUS
  <1>2. s \in Nat
    BY <1>1, MuFields DEF Larger, Smaller
  <1>3. n = [m EXCEPT !.started = TRUE, !.displayed = b, !.stableFinalized = s]
    BY <1>1 DEF Settle, MuType
  <1>4. PICK k : k = [m EXCEPT !.started = TRUE, !.displayed = b]
    OBVIOUS
  <1>5. n = [k EXCEPT !.stableFinalized = s]
    BY <1>3, <1>4
  <1>6. /\ k \in MuType /\ k.started = TRUE /\ k.over = m.over /\ k.endSeen = m.endSeen
        /\ k.force = m.force /\ k.finalized = m.finalized
    BY <1>4 DEF MuType
  <1>7. /\ SameFrame(m, k) /\ SameGuesses(m, k) /\ SameLocal(m, k) /\ SameRoll(m, k)
        /\ SameRing(m, k) /\ SameReply(m, k)
    BY <1>4 DEF MuType, SameFrame, SameGuesses, SameLocal, SameRoll, SameRing, SameReply
  <1>8. /\ n \in MuType /\ n.started = k.started /\ n.over = k.over
        /\ n.endSeen = k.endSeen /\ n.force = k.force /\ n.finalized = k.finalized
        /\ n.stableFinalized = s
    BY <1>2, <1>5, <1>6 DEF MuType
  <1>9. /\ SameFrame(k, n) /\ SameGuesses(k, n) /\ SameLocal(k, n) /\ SameRoll(k, n)
        /\ SameRing(k, n) /\ SameReply(k, n)
    BY <1>2, <1>5, <1>6 DEF MuType, SameFrame, SameGuesses, SameLocal, SameRoll, SameRing,
                            SameReply
  <1>10. Begun(m, n, f)
    BY <1>1, <1>6, <1>8 DEF Begun
  <1> QED
    BY <1>7, <1>8, <1>9, <1>10 DEF SameFrame, SameGuesses, SameLocal, SameRoll, SameRing,
                                   SameReply

Written(m, n, f, state) ==
    /\ n.ring = [m.ring EXCEPT ![RingSlot(m, f)] = [frame |-> f, checksum |-> state]]
    /\ n.ringIdx = IF f > m.ringLast THEN (m.ringIdx + 1) % Checksums ELSE m.ringIdx
    /\ n.ringLast = Larger(m.ringLast, f)

LEMMA SlotType ==
    ASSUME NEW m \in MuType, NEW f \in Nat
    PROVE  RingSlot(m, f) \in RingSlots
  <1>1. m.ringIdx \in Int /\ m.ringLast \in Int
    BY MuFields DEF RingSlots
  <1>2. PICK a : a = m.ringIdx + f - (m.ringLast + 1)
    OBVIOUS
  <1>3. a \in Int /\ Checksums \in Nat \ {0}
    BY <1>1, <1>2, Sizes
  <1> QED
    BY <1>2, <1>3, Division DEF RingSlot, RingSlots

LEMMA WriteFields ==
    ASSUME NEW m \in MuType, NEW f \in Nat, NEW state \in State, NEW n,
           n = WriteChecksum(m, f, state)
    PROVE  /\ n \in MuType /\ Written(m, n, f, state) /\ SameFrame(m, n) /\ SameFin(m, n)
           /\ SameGuesses(m, n) /\ SameRest(m, n) /\ SameLocal(m, n) /\ SameRoll(m, n)
           /\ SameReply(m, n)
  <1>1. PICK a, b, c :
           /\ a = [m.ring EXCEPT ![RingSlot(m, f)] = [frame |-> f, checksum |-> state]]
           /\ b = IF f > m.ringLast THEN (m.ringIdx + 1) % Checksums ELSE m.ringIdx
           /\ c = Larger(m.ringLast, f)
    OBVIOUS
  <1>2. a \in [RingSlots -> Entry]
    <2>1. [frame |-> f, checksum |-> state] \in Entry
      BY DEF Entry
    <2> QED
      BY <1>1, <2>1, MuFields
  <1>3. b \in RingSlots
    <2>1. m.ringIdx \in RingSlots /\ m.ringIdx + 1 \in Int /\ Checksums \in Nat \ {0}
      BY MuFields, Sizes DEF RingSlots
    <2>2. (m.ringIdx + 1) % Checksums \in RingSlots
      BY <2>1, Division DEF RingSlots
    <2> QED
      BY <1>1, <2>1, <2>2
  <1>4. c \in Nat
    BY <1>1, MuFields DEF Larger
  <1>5. n = [m EXCEPT !.ring = a, !.ringIdx = b, !.ringLast = c]
    BY <1>1 DEF WriteChecksum, MuType
  <1>6. n \in MuType /\ n.ring = a /\ n.ringIdx = b /\ n.ringLast = c
    <2>1. PICK k : k = [m EXCEPT !.ring = a]
      OBVIOUS
    <2>2. n = [k EXCEPT !.ringIdx = b, !.ringLast = c]
      BY <1>5, <2>1
    <2>3. k \in MuType /\ k.ring = a
      BY <1>2, <2>1 DEF MuType
    <2>4. n \in MuType
      <3>1. PICK j : j = [k EXCEPT !.ringIdx = b]
        OBVIOUS
      <3>2. j \in MuType
        BY <1>3, <2>3, <3>1 DEF MuType
      <3>3. n = [j EXCEPT !.ringLast = c]
        BY <2>2, <3>1
      <3> QED
        BY <1>4, <3>2, <3>3 DEF MuType
    <2>5. n.ring = k.ring /\ n.ringIdx = b /\ n.ringLast = c
      BY <2>2, <2>3 DEF MuType
    <2> QED
      BY <2>3, <2>4, <2>5
  <1>7. /\ SameFrame(m, n) /\ SameFin(m, n) /\ SameGuesses(m, n) /\ SameRest(m, n)
        /\ SameLocal(m, n) /\ SameRoll(m, n) /\ SameReply(m, n)
    BY <1>2, <1>3, <1>4, <1>5 DEF MuType, SameFrame, SameFin, SameGuesses, SameRest,
                                  SameLocal, SameRoll, SameReply
  <1> QED
    BY <1>1, <1>6, <1>7 DEF Written

Ended(m, n, f, state) ==
    /\ n.started = m.started /\ n.force = m.force
    /\ n.endSeen \in {0, f, m.endSeen}
    /\ n.over => m.over \/ (f - n.endSeen > Horizon)

LEMMA EndFields ==
    ASSUME NEW m \in MuType, NEW f \in Nat, NEW state \in State, NEW n,
           n = SeeEnd(m, f, state)
    PROVE  /\ n \in MuType /\ Ended(m, n, f, state) /\ SameFrame(m, n) /\ SameFin(m, n)
           /\ SameGuesses(m, n) /\ SameLocal(m, n) /\ SameRoll(m, n)
           /\ SameRing(m, n) /\ SameReply(m, n)
  <1>1. CASE ~MatchEnded(state) /\ Cut = {}
    <2>1. n = [m EXCEPT !.endSeen = 0]
      BY <1>1 DEF SeeEnd
    <2>2. /\ n \in MuType /\ n.started = m.started /\ n.force = m.force /\ n.endSeen = 0
          /\ n.over = m.over
      BY <2>1 DEF MuType
    <2>3. /\ SameFrame(m, n) /\ SameFin(m, n)
          /\ SameGuesses(m, n) /\ SameLocal(m, n) /\ SameRoll(m, n)
          /\ SameRing(m, n) /\ SameReply(m, n)
      BY <2>1 DEF MuType, SameFrame, SameFin, SameGuesses, SameLocal, SameRoll, SameRing,
                  SameReply
    <2> QED
      BY <2>2, <2>3 DEF Ended
  <1>2. CASE ~(~MatchEnded(state) /\ Cut = {})
    <2>1. PICK a : a = IF m.endSeen = 0 THEN f ELSE m.endSeen
      OBVIOUS
    <2>2. a \in Nat /\ a \in {f, m.endSeen}
      BY <2>1, MuFields
    <2>3. n = [m EXCEPT !.endSeen = a, !.over = f - a > Horizon]
      BY <1>2, <2>1 DEF SeeEnd
    <2>4. PICK k : k = [m EXCEPT !.endSeen = a]
      OBVIOUS
    <2>5. /\ k \in MuType /\ k.endSeen = a /\ k.started = m.started /\ k.force = m.force
          /\ SameFrame(m, k) /\ SameFin(m, k)
          /\ SameGuesses(m, k) /\ SameLocal(m, k) /\ SameRoll(m, k)
          /\ SameRing(m, k) /\ SameReply(m, k)
      BY <2>2, <2>4 DEF MuType, SameFrame, SameFin, SameGuesses, SameLocal, SameRoll,
                        SameRing, SameReply
    <2>6. /\ n \in MuType /\ n.endSeen = k.endSeen
          /\ n.started = k.started /\ n.force = k.force
          /\ SameFrame(k, n) /\ SameFin(k, n)
          /\ SameGuesses(k, n) /\ SameLocal(k, n) /\ SameRoll(k, n)
          /\ SameRing(k, n) /\ SameReply(k, n)
          /\ n.over => f - a > Horizon
      <3>1. CASE f - a > Horizon
        <4>1. n = [k EXCEPT !.over = TRUE]
          BY <2>3, <2>4, <3>1
        <4>2. /\ n \in MuType /\ n.endSeen = k.endSeen /\ n.over = TRUE
              /\ n.started = k.started /\ n.force = k.force
          BY <2>5, <4>1 DEF MuType
        <4>3. /\ SameFrame(k, n) /\ SameFin(k, n) /\ SameGuesses(k, n)
              /\ SameLocal(k, n)
          BY <2>5, <4>1 DEF MuType, SameFrame, SameFin, SameGuesses, SameLocal
        <4>4. SameRoll(k, n) /\ SameRing(k, n) /\ SameReply(k, n)
          BY <2>5, <4>1 DEF MuType, SameRoll, SameRing, SameReply
        <4> QED
          BY <3>1, <4>2, <4>3, <4>4
      <3>2. CASE ~(f - a > Horizon)
        <4>1. (f - a > Horizon) = FALSE
          BY <3>2
        <4>2. n = [k EXCEPT !.over = FALSE]
          BY <2>3, <2>4, <4>1
        <4>3. /\ n \in MuType /\ n.endSeen = k.endSeen /\ n.over = FALSE
              /\ n.started = k.started /\ n.force = k.force
          BY <2>5, <4>2 DEF MuType
        <4>4. /\ SameFrame(k, n) /\ SameFin(k, n) /\ SameGuesses(k, n)
              /\ SameLocal(k, n)
          BY <2>5, <4>2 DEF MuType, SameFrame, SameFin, SameGuesses, SameLocal
        <4>5. SameRoll(k, n) /\ SameRing(k, n) /\ SameReply(k, n)
          BY <2>5, <4>2 DEF MuType, SameRoll, SameRing, SameReply
        <4> QED
          BY <3>2, <4>3, <4>4, <4>5
      <3> QED
        BY <3>1, <3>2
    <2> QED
      BY <2>2, <2>5, <2>6 DEF Ended, SameFrame, SameFin, SameGuesses, SameLocal,
                              SameRoll, SameRing, SameReply
  <1> QED
    BY <1>1, <1>2

-----------------------------------------------------------------------------
(* The pads that come *)

MorePads(h, h2) ==
    /\ h2 \in Pads /\ HeldOK(h2) /\ Len(h) <= Len(h2)
    /\ \A k \in 1 .. Len(h) : h2[k] = h[k]

LEMMA Arrived ==
    ASSUME NEW h \in Pads, HeldOK(h), NEW more \in Arrivals(h)
    PROVE  MorePads(h, h \o more)
  <1>1. PICK n \in 0 .. MaxBurst : more \in [1 .. n -> Pad]
    BY DEF Arrivals
  <1>2. n \in Nat /\ more \in Seq(Pad) /\ Len(more) = n /\ h \in Seq(Pad) /\ Len(h) \in Nat
    BY <1>1 DEF Pads
  <1>3. Len(h) + n <= MaxFrame /\ \A i \in 1 .. n : more[i] \in PadOf(Len(h) + i)
    BY <1>2 DEF Arrivals
  <1>4. PICK h2 : h2 = h \o more
    OBVIOUS
  <1>5. /\ h2 \in Pads /\ Len(h2) = Len(h) + n
        /\ \A k \in 1 .. Len(h2) : h2[k] = IF k <= Len(h) THEN h[k] ELSE more[k - Len(h)]
    <2>1. h2 \in Seq(Pad) /\ Len(h2) = Len(h) + n
      BY <1>2, <1>4
    <2>2. \A k \in 1 .. Len(h) + n : h2[k] = IF k <= Len(h) THEN h[k] ELSE more[k - Len(h)]
      BY <1>2, <1>4
    <2> QED
      BY <2>1, <2>2 DEF Pads
  <1>6. \A k \in 1 .. Len(h2) : h2[k] \in PadOf(k)
    <2> SUFFICES ASSUME NEW k \in 1 .. Len(h2)
                 PROVE  h2[k] \in PadOf(k)
      OBVIOUS
    <2>1. CASE k <= Len(h)
      BY <1>2, <1>5, <2>1 DEF HeldOK
    <2>2. CASE k > Len(h)
      <3>1. k - Len(h) \in 1 .. n /\ Len(h) + (k - Len(h)) = k
        BY <1>2, <1>5, <2>2
      <3>2. h2[k] = more[k - Len(h)]
        BY <1>2, <1>5, <2>2
      <3> QED
        BY <1>3, <3>1, <3>2
    <2> QED
      BY <1>2, <1>5, <2>1, <2>2
  <1>7. HeldOK(h2)
    BY <1>3, <1>5, <1>6 DEF HeldOK
  <1>8. Len(h) <= Len(h2) /\ \A k \in 1 .. Len(h) : h2[k] = h[k]
    BY <1>2, <1>5
  <1> QED
    BY <1>4, <1>5, <1>7, <1>8 DEF MorePads

LEMMA SureStays ==
    ASSUME NEW h \in Pads, NEW h2, MorePads(h, h2), NEW f \in Nat, f >= 1, NEW v,
           Sure(h, f, v)
    PROVE  Sure(h2, f, v)
  BY DEF MorePads, Sure, Pads

GoodReply(rx, h, f, floor) ==
    /\ rx \in Reply /\ Shown(rx, h, floor) /\ rx.latest <= f
    /\ rx.latest = Smaller(Newest(Len(h), floor), f)

LEMMA NewestFacts ==
    ASSUME NEW n \in Nat, NEW floor \in Nat
    PROVE  /\ Newest(n, floor) \in Nat /\ Newest(n, floor) <= n
           /\ Base(n, floor) \in Nat
           /\ n >= 1 => Base(n, floor) >= 1
           /\ \A k \in 1 .. n : k >= floor => Base(n, floor) <= k
  BY Sizes DEF Newest, Base, Smaller, Larger

LEMMA NewestGrows ==
    ASSUME NEW n \in Nat, NEW o \in Nat, n <= o, NEW floor \in Nat
    PROVE  Newest(n, floor) <= Newest(o, floor)
  BY Sizes DEF Newest, Base, Smaller, Larger

LEMMA ReplyFacts ==
    ASSUME NEW h \in Pads, NEW f \in Nat, NEW floor \in Nat, NEW gone, ~gone,
           NEW reply \in Replies(f, h, floor, gone)
    PROVE  /\ GoodReply(ReplyOf(reply), h, f, floor)
           /\ [k \in DOMAIN NoReply |-> reply[k]] = ReplyOf(reply)
           /\ reply.result \notin {"skip", "disconnected"} => ReplyOf(reply).latest + Horizon >= f
  <1>1. PICK n, b, l, w : /\ n = Newest(Len(h), floor) /\ b = Base(Len(h), floor)
                          /\ l = Smaller(n, f)
                          /\ w = [k \in {j \in b .. l : j >= 1} |-> h[k]]
    OBVIOUS
  <1>2. Len(h) \in Nat /\ h \in Seq(Pad)
    BY DEF Pads
  <1>3. /\ n \in Nat /\ n <= Len(h) /\ b \in Nat
        /\ \A k \in 1 .. Len(h) : k >= floor => b <= k
    BY <1>1, <1>2, NewestFacts
  <1>4. l \in Nat /\ l <= n /\ l <= f
    BY <1>1, <1>3 DEF Smaller
  <1>5. /\ reply.latest = l /\ reply.pads = w /\ reply.early \in Pad
        /\ reply.target \in {0} \cup (EarlyAt \cap Larger(l + 1, SyncFrame) .. f)
        /\ reply.result \notin {"skip", "disconnected"} => n >= f - Horizon
    <2>1. PICK rs, ts : /\ rs = {"skip", "disconnected"} \cup (IF n < f - Horizon THEN {} ELSE {"normal"})
                             \cup (IF n < f - Horizon \/ f % AdvanceEvery # 0 THEN {}
                                   ELSE {"advance"})
                        /\ ts = {0} \cup (EarlyAt \cap Larger(l + 1, SyncFrame) .. f)
      OBVIOUS
    <2>2. reply \in [result : rs, latest : {l}, pads : {w}, target : ts, early : Pad]
      BY <1>1, <2>1 DEF Replies
    <2>3. /\ reply.result \in rs /\ reply.latest = l /\ reply.pads = w
          /\ reply.target \in ts /\ reply.early \in Pad
      BY <2>2
    <2>4. reply.result \notin {"skip", "disconnected"} => ~(n < f - Horizon)
      BY <2>1, <2>3
    <2>5. ~(n < f - Horizon) => n >= f - Horizon
      BY <1>3, Sizes
    <2> QED
      BY <2>1, <2>3, <2>4, <2>5
  <1>6. reply.target \in Nat /\ (reply.target = 0 \/ reply.target >= SyncFrame)
    BY <1>4, <1>5, Sizes DEF Larger
  <1>7. w \in Window
    <2>1. PICK ks : ks = {j \in b .. l : j >= 1}
      OBVIOUS
    <2>2. ks \in SUBSET Nat /\ \A k \in ks : h[k] \in Pad
      BY <1>2, <1>3, <1>4, <2>1
    <2>3. w \in [ks -> Pad]
      BY <1>1, <2>1, <2>2
    <2> QED
      BY <2>2, <2>3 DEF Window
  <1>8. \A k \in DOMAIN w : k \in 1 .. l /\ w[k] = h[k]
    BY <1>1, <1>3, <1>4
  <1>9. \A k \in 1 .. l : k >= floor => k \in DOMAIN w
    BY <1>1, <1>2, <1>3, <1>4
  <1>10. PICK rx : rx = ReplyOf(reply)
    OBVIOUS
  <1>11. /\ [k \in DOMAIN NoReply |-> reply[k]] = rx /\ rx \in Reply
         /\ rx.latest = l /\ rx.pads = w /\ rx.target = reply.target
    BY <1>4, <1>5, <1>6, <1>7, <1>10, ReplyAsType
  <1>12. GoodReply(rx, h, f, floor)
    BY <1>1, <1>2, <1>3, <1>4, <1>6, <1>8, <1>9, <1>11 DEF GoodReply, Shown
  <1>13. reply.result \notin {"skip", "disconnected"} => rx.latest + Horizon >= f
    BY <1>1, <1>3, <1>5, <1>11, Sizes DEF Smaller
  <1> QED
    BY <1>10, <1>11, <1>12, <1>13

-----------------------------------------------------------------------------
(* The local pads *)

LEMMA LocalShift ==
    ASSUME NEW m \in MuType, NEW n \in MuType, NEW a \in Nat, LocalAt(m, a), Delayed(m, n, a)
    PROVE  LocalAt(n, a + 1) /\ m.delayed[m.delayIdx] = Mine(a)
  <1>1. PICK i, d, j, l : /\ i = m.delayIdx /\ d = m.delayed
                          /\ j = m.localIdx /\ l = m.localInputs
    OBVIOUS
  <1>2. /\ i \in 0 .. Delay - 1 /\ d \in [0 .. Delay - 1 -> Nat]
        /\ j \in 0 .. LocalInputs - 1 /\ l \in [0 .. LocalInputs - 1 -> Nat]
    BY <1>1, MuFields DEF DelaySlots, LocalSlots
  <1>3. /\ \A k \in 0 .. Delay - 1 : d[Ahead(i + k, Delay)] = Mine(a + k)
        /\ \A k \in 1 .. LocalInputs : k < a => l[Wrapped(j - k, LocalInputs)] = Mine(a - k)
    BY <1>1 DEF LocalAt, DelaySlots
  <1>4. d[i] = Mine(a)
    <2>1. Ahead(i + 0, Delay) = i /\ a + 0 = a /\ 0 \in 0 .. Delay - 1
      BY <1>2, Sizes DEF Ahead
    <2> QED
      BY <1>3, <2>1
  <1>5. /\ n.delayIdx = IF i + 1 = Delay THEN 0 ELSE i + 1
        /\ n.localIdx = IF j + 1 = LocalInputs THEN 0 ELSE j + 1
    <2>1. n.delayIdx = After(i, Delay) /\ n.localIdx = After(j, LocalInputs)
      BY <1>1 DEF Delayed, After
    <2>2. Delay \in Nat \ {0} /\ LocalInputs \in Nat \ {0}
      BY Sizes
    <2> QED
      BY <1>2, <2>1, <2>2, OneOn
  <1>6. \A k \in 0 .. Delay - 1 : n.delayed[Ahead(n.delayIdx + k, Delay)] = Mine(a + 1 + k)
    <2> SUFFICES ASSUME NEW k \in 0 .. Delay - 1
                 PROVE  n.delayed[Ahead(n.delayIdx + k, Delay)] = Mine(a + 1 + k)
      OBVIOUS
    <2>1. n.delayed = [d EXCEPT ![i] = SentPad(a)]
      BY <1>1 DEF Delayed
    <2>2. CASE k = Delay - 1
      <3>1. Ahead(n.delayIdx + k, Delay) = i
        BY <1>2, <1>5, <2>2, Sizes DEF Ahead
      <3>2. SentPad(a) = Mine(a + 1 + k)
        BY <2>2, Sizes DEF SentPad, Mine
      <3> QED
        BY <1>2, <2>1, <3>1, <3>2
    <2>3. CASE k < Delay - 1
      <3>1. PICK x : x = Ahead(n.delayIdx + k, Delay)
        OBVIOUS
      <3>2. x = Ahead(i + (k + 1), Delay) /\ x # i /\ x \in 0 .. Delay - 1
        BY <1>2, <1>5, <2>3, <3>1, Sizes DEF Ahead
      <3>3. k + 1 \in 0 .. Delay - 1 /\ a + (k + 1) = a + 1 + k
        BY <2>3, Sizes
      <3>4. d[x] = Mine(a + 1 + k)
        BY <1>3, <3>2, <3>3
      <3> QED
        BY <1>2, <2>1, <3>1, <3>2, <3>4
    <2> QED
      BY <2>2, <2>3, Sizes
  <1>7. \A k \in 1 .. LocalInputs :
           k < a + 1 => n.localInputs[Wrapped(n.localIdx - k, LocalInputs)] = Mine(a + 1 - k)
    <2> SUFFICES ASSUME NEW k \in 1 .. LocalInputs, k < a + 1
                 PROVE  n.localInputs[Wrapped(n.localIdx - k, LocalInputs)] = Mine(a + 1 - k)
      OBVIOUS
    <2>1. n.localInputs = [l EXCEPT ![j] = d[i]]
      BY <1>1 DEF Delayed
    <2>2. CASE k = 1
      <3>1. Wrapped(n.localIdx - k, LocalInputs) = j /\ a + 1 - k = a
        BY <1>2, <1>5, <2>2, Sizes DEF Wrapped
      <3> QED
        BY <1>2, <1>4, <2>1, <3>1
    <2>3. CASE k > 1
      <3>1. PICK x : x = Wrapped(n.localIdx - k, LocalInputs)
        OBVIOUS
      <3>2. x = Wrapped(j - (k - 1), LocalInputs) /\ x # j /\ x \in 0 .. LocalInputs - 1
        BY <1>2, <1>5, <2>3, <3>1, Sizes DEF Wrapped
      <3>3. k - 1 \in 1 .. LocalInputs /\ k - 1 < a /\ a - (k - 1) = a + 1 - k
        BY <2>3, Sizes
      <3>4. l[x] = Mine(a + 1 - k)
        BY <1>3, <3>2, <3>3
      <3> QED
        BY <1>2, <2>1, <3>1, <3>2, <3>4
    <2> QED
      BY <2>2, <2>3, Sizes
  <1>8. LocalAt(n, a + 1)
    BY <1>6, <1>7 DEF LocalAt, DelaySlots
  <1> QED
    BY <1>1, <1>4, <1>8

-----------------------------------------------------------------------------
(* The other player's pad of the next frame *)

LEMMA AppendFacts ==
    ASSUME NEW S, NEW w \in Seq(S), NEW t \in S, NEW u, u = Append(w, t)
    PROVE  /\ u \in Seq(S) /\ Len(w) \in Nat /\ Len(u) = Len(w) + 1
           /\ \A j \in 1 .. Len(w) : u[j] = w[j]
           /\ u[Len(w) + 1] = t
  OBVIOUS

LEMMA OnePad ==
    ASSUME NEW t, NEW u, u = <<t>>
    PROVE  Len(u) = 1 /\ u[1] = t
  OBVIOUS

LEMMA TheirPadSure ==
    ASSUME NEW m \in MuType, NEW h \in Pads, HeldOK(h), Shown(m.rx, h, m.stableFinalized),
           NEW f \in Nat, f >= 1, f >= m.stableFinalized, ~IsGuess(m, f)
    PROVE  Sure(h, f, TheirPad(m, f))
  <1>1. /\ m.rx \in Reply /\ m.rx.latest \in Nat /\ m.rx.target \in Nat
        /\ Len(h) \in Nat /\ m.stableFinalized \in Nat
    BY MuFields, ReplyFields DEF Pads
  <1>2. /\ m.rx.latest <= Len(h)
        /\ \A k \in DOMAIN m.rx.pads : k \in 1 .. m.rx.latest /\ m.rx.pads[k] = h[k]
        /\ \A k \in 1 .. m.rx.latest : k >= m.stableFinalized => k \in DOMAIN m.rx.pads
        /\ m.rx.target = 0 \/ m.rx.target >= SyncFrame
    BY DEF Shown
  <1>3. CASE m.rx.latest >= f
    <2>1. f \in 1 .. m.rx.latest
      BY <1>1, <1>3
    <2>2. TheirPad(m, f) = h[f]
      BY <1>2, <1>3, <2>1 DEF TheirPad, Confirmed
    <2> QED
      BY <1>1, <1>2, <1>3, <2>2 DEF Sure
  <1>4. CASE m.rx.latest < f
    <2>1. f < SyncFrame - Delay
      BY <1>4, Sizes DEF IsGuess, Guesses
    <2>2. ~HasEarly(m.rx, f)
      <3>1. m.rx.target = 0 \/ m.rx.target >= SyncFrame
        BY <1>2
      <3>2. SyncFrame \in Nat /\ Delay \in Nat
        BY Sizes
      <3>3. m.rx.target \in Nat /\ m.rx.latest \in Nat
        BY <1>1
      <3> QED
        BY <2>1, <3>1, <3>2, <3>3 DEF HasEarly
    <2>3. TheirPad(m, f) = Confirmed(m.rx, m.rx.latest)
      BY <1>1, <1>4, <2>2 DEF TheirPad, Guess
    <2>4. Confirmed(m.rx, m.rx.latest) = NoPad
      <3>1. CASE m.rx.latest \in DOMAIN m.rx.pads
        <4>1. m.rx.latest \in 1 .. Len(h) /\ m.rx.pads[m.rx.latest] = h[m.rx.latest]
          BY <1>1, <1>2, <3>1
        <4>2. h[m.rx.latest] \in PadOf(m.rx.latest) /\ m.rx.latest < SyncFrame
          BY <1>1, <1>4, <2>1, <4>1, Sizes DEF HeldOK
        <4> QED
          BY <3>1, <4>1, <4>2 DEF PadOf, Confirmed
      <3> QED
        BY <3>1 DEF Confirmed
    <2> QED
      BY <2>1, <2>3, <2>4 DEF Sure
  <1> QED
    BY <1>1, <1>3, <1>4

\* What holds as the pad of frame f is taken, and after.
BeforePad(k, f) ==
    /\ k.predicting => /\ k.ss >= SyncFrame - Delay /\ k.ss + Len(k.guesses) = f
                       /\ k.rx.latest < k.ss
                       /\ k.finalized < k.ss /\ k.finalized + Horizon >= f
                       /\ k.stableFinalized < k.ss
    /\ ~k.predicting => /\ k.guesses = <<>> /\ k.stableFinalized <= f
                        /\ k.rx.latest < f => /\ k.finalized < f
                                              /\ k.finalized + Horizon >= f
                                              /\ k.stableFinalized < f

AfterPad(k, n, f) ==
    /\ n.finalized < SureTo(n) /\ n.finalized + Horizon >= f
    /\ n.stableFinalized < SureTo(n)
    /\ n.predicting => /\ n.finalized = k.finalized
                       /\ n.ss >= SyncFrame - Delay /\ n.ss + Len(n.guesses) = f + 1
                       /\ n.rx.latest < n.ss
                       /\ k.predicting \/ k.rx.latest < f
    /\ ~n.predicting => n.finalized = f /\ n.guesses = <<>>

LEMMA MineType == \A f \in Nat : Mine(f) \in Nat
  BY Sizes DEF Mine

Takes(k, f, q, n, q2) ==
    /\ n = WithFrame(LoadOpponent(k, f), f + 1)
    /\ q2 = Append(q, Sample(f, Mine(f), TheirPad(k, f)))

LEMMA PadTaken ==
    ASSUME NEW k \in MuType, NEW p \in State, NEW q \in State, NEW h \in Pads, NEW s,
           NEW f \in Nat, f = Known(p, q), f >= 1, k.frame = f,
           SamplesOK(k, p, q, h), Shown(k.rx, h, k.stableFinalized), HeldOK(h),
           BeforePad(k, f), SavesOK(k, p, s),
           NEW n, NEW q2, Takes(k, f, q, n, q2)
    PROVE  /\ n \in MuType /\ SameButGuesses(k, n) /\ FrameIs(n, f + 1)
           /\ q2 \in State /\ Len(q2) = Len(q) + 1
           /\ SamplesOK(n, p, q2, h) /\ AfterPad(k, n, f) /\ SavesOK(n, p, s)
  <1>1. PICK e, t : e = Sample(f, Mine(f), TheirPad(k, f)) /\ t = TheirPad(k, f)
    OBVIOUS
  <1>2. e \in SampleType /\ e.frame = f /\ e.local = Mine(f) /\ e.remote = t /\ t \in Pad
    BY <1>1, TheirType, MineType DEF Sample, SampleType
  <1>3. /\ Len(p) \in Nat /\ Len(q) \in Nat /\ f = Len(p) + Len(q)
        /\ k.ss \in Nat /\ Len(k.guesses) \in Nat
        /\ k.rx.latest \in Nat /\ k.finalized \in Nat /\ k.stableFinalized \in Nat
        /\ k.predicting \in BOOLEAN
    <2>1. Len(p) \in Nat /\ Len(q) \in Nat /\ f = Len(p) + Len(q)
      BY DEF State, Known
    <2>2. Len(k.guesses) \in Nat
      BY MuFields DEF Pads
    <2> QED
      BY <2>1, <2>2, MuFields, ReplyFields
  <1>4. /\ q2 \in State /\ Len(q2) = Len(q) + 1
        /\ \A i \in 1 .. Len(q) : q2[i] = q[i]
        /\ q2[Len(q) + 1] = e
    BY <1>1, <1>2, AppendFacts DEF State, Takes
  <1>5. n \in MuType /\ FrameIs(n, f + 1) /\ SameButGuesses(k, n) /\ LoadedPad(k, f, n)
    <2>1. f + 1 \in Nat /\ n = WithFrame(LoadOpponent(k, f), f + 1)
      BY DEF Takes
    <2> QED
      BY <2>1, LoadFields
  <1>6. /\ n.frame = f + 1 /\ n.stableFinalized = k.stableFinalized /\ n.rx = k.rx
        /\ n.shouldLoad = k.shouldLoad
    BY <1>5 DEF FrameIs, SameButGuesses, SameReply, SameRoll
  <1>7. /\ \A i \in 1 .. Len(p) : SampleOK(k, h, p[i], i - 1)
        /\ \A i \in 1 .. Len(q) : SampleOK(k, h, q[i], Len(p) + i - 1)
    BY DEF SamplesOK
  <1>8. ASSUME SampleOK(n, h, e, f),
               \A g \in 0 .. f - 1 : \A x : SampleOK(k, h, x, g) => SampleOK(n, h, x, g)
        PROVE  SamplesOK(n, p, q2, h)
    <2>1. \A i \in 1 .. Len(p) : SampleOK(n, h, p[i], i - 1)
      <3> SUFFICES ASSUME NEW i \in 1 .. Len(p)
                   PROVE  SampleOK(n, h, p[i], i - 1)
        OBVIOUS
      <3>1. i - 1 \in 0 .. f - 1
        BY <1>3
      <3> QED
        BY <1>7, <1>8, <3>1
    <2>2. \A i \in 1 .. Len(q2) : SampleOK(n, h, q2[i], Len(p) + i - 1)
      <3> SUFFICES ASSUME NEW i \in 1 .. Len(q2)
                   PROVE  SampleOK(n, h, q2[i], Len(p) + i - 1)
        OBVIOUS
      <3>1. CASE i = Len(q) + 1
        <4>1. Len(p) + i - 1 = f /\ q2[i] = e
          BY <1>3, <1>4, <3>1
        <4> QED
          BY <1>8, <4>1
      <3>2. CASE i # Len(q) + 1
        <4>1. i \in 1 .. Len(q)
          BY <1>3, <1>4, <3>2
        <4>2. Len(p) + i - 1 \in 0 .. f - 1
          BY <1>3, <4>1
        <4>3. q2[i] = q[i]
          BY <1>4, <4>1
        <4> QED
          BY <1>7, <1>8, <4>1, <4>2, <4>3
      <3> QED
        BY <3>1, <3>2
    <2> QED
      BY <2>1, <2>2 DEF SamplesOK
  <1>9. CASE ~IsGuess(k, f)
    <2>1. /\ n.predicting = k.predicting /\ n.ss = k.ss /\ n.guesses = k.guesses
          /\ n.finalized = f
      BY <1>5, <1>9 DEF LoadedPad, SameGuesses
    <2>2. ~k.predicting
      <3>1. SUFFICES ASSUME k.predicting
                     PROVE  FALSE
        OBVIOUS
      <3>2. k.ss >= SyncFrame - Delay /\ k.ss + Len(k.guesses) = f /\ k.rx.latest < k.ss
        BY <3>1 DEF BeforePad
      <3> QED
        BY <1>3, <1>9, <3>2, Sizes DEF IsGuess, Guesses
    <2>3. SureTo(n) = f + 1 /\ SureTo(k) = f
      BY <1>6, <2>1, <2>2 DEF SureTo
    <2>4. SampleOK(n, h, e, f)
      <3>1. f >= k.stableFinalized
        BY <1>3, <2>2 DEF BeforePad
      <3>2. Sure(h, f, t)
        BY <1>1, <1>9, <3>1, TheirPadSure
      <3> QED
        BY <1>2, <2>1, <2>2, <3>2 DEF SampleOK
    <2>5. \A g \in 0 .. f - 1 : \A x : SampleOK(k, h, x, g) => SampleOK(n, h, x, g)
      BY <2>1, <2>2, <2>3 DEF SampleOK
    <2>6. SamplesOK(n, p, q2, h)
      BY <1>8, <2>4, <2>5
    <2>7. AfterPad(k, n, f)
      <3>1. k.guesses = <<>> /\ k.stableFinalized <= f
        BY <2>2 DEF BeforePad
      <3> QED
        BY <1>3, <1>6, <2>1, <2>2, <2>3, <3>1, Sizes DEF AfterPad
    <2>8. SavesOK(n, p, s)
      BY <1>6, <2>1, <2>2 DEF SavesOK
    <2> QED
      BY <1>4, <1>5, <2>6, <2>7, <2>8
  <1>10. CASE IsGuess(k, f) /\ k.predicting
    <2>1. /\ n.predicting /\ n.ss = k.ss /\ n.guesses = Append(k.guesses, t)
          /\ n.finalized = k.finalized
      BY <1>1, <1>5, <1>10 DEF LoadedPad
    <2>2. /\ k.ss >= SyncFrame - Delay /\ k.ss + Len(k.guesses) = f
          /\ k.rx.latest < k.ss
          /\ k.finalized < k.ss /\ k.finalized + Horizon >= f
          /\ k.stableFinalized < k.ss
      BY <1>10 DEF BeforePad
    <2>3. k.ss + Len(k.guesses) = f
      BY <2>2
    <2>4. n.ss = k.ss
      BY <2>1
    <2>5. SureTo(n) = k.ss /\ SureTo(k) = k.ss
      BY <1>10, <2>1 DEF SureTo
    <2>6. /\ Len(n.guesses) = Len(k.guesses) + 1
          /\ \A j \in 1 .. Len(k.guesses) : n.guesses[j] = k.guesses[j]
          /\ n.guesses[Len(k.guesses) + 1] = t
      BY <1>2, <2>1, AppendFacts, MuFields DEF Pads
    <2>7. SampleOK(n, h, e, f)
      <3>1. f - n.ss + 1 = Len(k.guesses) + 1 /\ ~(f < SureTo(n))
        BY <1>3, <2>3, <2>4, <2>5
      <3> QED
        BY <1>2, <2>6, <3>1 DEF SampleOK
    <2>8. \A g \in 0 .. f - 1 : \A x : SampleOK(k, h, x, g) => SampleOK(n, h, x, g)
      <3> SUFFICES ASSUME NEW g \in 0 .. f - 1, NEW x, SampleOK(k, h, x, g)
                   PROVE  SampleOK(n, h, x, g)
        OBVIOUS
      <3>1. g >= k.ss => g - k.ss + 1 \in 1 .. Len(k.guesses)
        <4>1. PICK a \in Nat, b \in Nat : a = k.ss /\ b = Len(k.guesses)
          BY <1>3
        <4>2. a + b = f
          BY <2>3, <4>1
        <4>3. g >= a => g - a + 1 \in 1 .. b
          BY <4>2
        <4> QED
          BY <4>1, <4>3
      <3>2. g >= k.ss => x.remote = n.guesses[g - n.ss + 1]
        BY <1>10, <2>1, <2>6, <3>1 DEF SampleOK
      <3> QED
        BY <2>1, <2>5, <3>2 DEF SampleOK
    <2>9. SamplesOK(n, p, q2, h)
      BY <1>8, <2>7, <2>8
    <2>10. AfterPad(k, n, f)
      <3>1. n.ss + Len(n.guesses) = f + 1
        <4>1. PICK a \in Nat, b \in Nat : a = k.ss /\ b = Len(k.guesses)
          BY <1>3
        <4>2. a + b = f /\ Len(n.guesses) = b + 1
          BY <2>3, <2>6, <4>1
        <4> QED
          BY <2>4, <4>1, <4>2
      <3>2. /\ n.finalized < SureTo(n) /\ n.finalized + Horizon >= f
            /\ n.stableFinalized < SureTo(n)
        BY <1>6, <2>1, <2>2, <2>5
      <3>3. n.ss >= SyncFrame - Delay /\ n.rx.latest < n.ss
        BY <1>6, <2>2, <2>4
      <3> QED
        BY <1>10, <2>1, <3>1, <3>2, <3>3 DEF AfterPad
    <2>11. SavesOK(n, p, s)
      BY <1>6, <1>10, <2>1 DEF SavesOK
    <2> QED
      BY <1>4, <1>5, <2>9, <2>10, <2>11
  <1>11. CASE IsGuess(k, f) /\ ~k.predicting
    <2>1. n.predicting /\ n.ss = f /\ n.guesses = <<t>> /\ n.finalized = k.finalized
      BY <1>1, <1>5, <1>11 DEF LoadedPad
    <2>2. k.rx.latest < f /\ f >= SyncFrame - Delay
      BY <1>11 DEF IsGuess, Guesses
    <2>3. k.finalized < f /\ k.finalized + Horizon >= f /\ k.stableFinalized < f
      BY <1>11, <2>2 DEF BeforePad
    <2>4. SureTo(n) = f /\ SureTo(k) = f
      BY <1>11, <2>1 DEF SureTo
    <2>5. Len(n.guesses) = 1 /\ n.guesses[1] = t
      BY <2>1, OnePad
    <2>6. SampleOK(n, h, e, f)
      <3>1. f - n.ss + 1 = 1 /\ ~(f < SureTo(n))
        BY <2>1, <2>4
      <3> QED
        BY <1>2, <2>5, <3>1 DEF SampleOK
    <2>7. \A g \in 0 .. f - 1 : \A x : SampleOK(k, h, x, g) => SampleOK(n, h, x, g)
      BY <2>1, <2>4 DEF SampleOK
    <2>8. SamplesOK(n, p, q2, h)
      BY <1>8, <2>6, <2>7
    <2>9. AfterPad(k, n, f)
      BY <1>3, <1>6, <2>1, <2>2, <2>3, <2>4, <2>5 DEF AfterPad
    <2>10. SavesOK(n, p, s)
      <3>1. \A g \in n.ss .. Len(p) - 1 : FALSE
        BY <1>3, <2>1
      <3> QED
        BY <3>1 DEF SavesOK
    <2> QED
      BY <1>4, <1>5, <2>8, <2>9, <2>10
  <1> QED
    BY <1>9, <1>10, <1>11

-----------------------------------------------------------------------------
(* A call to the host *)

\* The first n elements.
Prefix(st, n) == SubSeq(st, 1, n)

LEMMA PrefixFacts ==
    ASSUME NEW st \in State, NEW n \in Nat, n <= Len(st), NEW u, u = Prefix(st, n)
    PROVE  u \in State /\ Len(u) = n /\ \A i \in 1 .. n : u[i] = st[i]
  BY DEF State, Prefix

LEMMA ChecksumIs ==
    ASSUME NEW m \in MuType, NEW p \in State, RingOK(m, p), FinOK(m, p),
           m.active => m.shouldLoad
    PROVE  /\ m.stableFinalized <= Len(p)
           /\ ChecksumOf(m) = SubSeq(p, 1, m.stableFinalized)
  <1>1. PICK f \in Nat, l \in Nat, n \in Nat :
            f = m.stableFinalized /\ l = m.ringLast /\ n = Len(p)
    BY MuFields DEF State
  <1>2. /\ f = 0 \/ f < n
        /\ l <= f + Horizon /\ n <= l + 1
    BY <1>1 DEF FinOK, RingOK
  <1>3. f <= n /\ f \in 0 .. l /\ f > l - Checksums
    BY <1>2, Sizes
  <1>4. PICK i \in RingSlots : i = RingSlot(m, f)
    BY SlotType
  <1>5. m.ring[i].frame = f
    BY <1>1, <1>3, <1>4 DEF RingOK
  <1>6. PICK T : T = {j \in 0 .. Checksums - 1 : m.ring[j].frame = m.stableFinalized}
    OBVIOUS
  <1>7. T \in SUBSET Nat /\ T # {} /\ T \subseteq RingSlots
    BY <1>1, <1>4, <1>5, <1>6 DEF RingSlots
  <1>8. PICK c \in T : c = CHOOSE j \in T : \A k \in T : j <= k
    <2>1. \E j \in T : \A k \in T : j <= k
      BY <1>7, Least
    <2> QED
      BY <2>1
  <1>9. ChecksumOf(m) = m.ring[c].checksum
    BY <1>6, <1>7, <1>8 DEF ChecksumOf
  <1>10. EntryOK(m, p, c) /\ m.ring[c].frame = f
    <2>1. c \in RingSlots /\ m.ring[c].frame = f
      <3>1. c \in T
        BY <1>8
      <3>2. \A j \in T : j \in RingSlots /\ m.ring[j].frame = f
        BY <1>1, <1>6, <1>7
      <3> QED
        BY <3>1, <3>2
    <2> QED
      BY <2>1 DEF RingOK
  <1>11. m.ring[c].checksum = SubSeq(p, 1, f)
    BY <1>1, <1>2, <1>10 DEF EntryOK
  <1> QED
    BY <1>1, <1>3, <1>9, <1>11

\* What may be asked of the host: the first call of a frame, or the second.
MayCall(m, p, q, h) ==
    /\ Known(p, q) >= 1 /\ m.frame <= MaxFrame + 1 /\ Len(q) <= MaxQueue
    /\ m.active => /\ m.shouldLoad /\ m.endFrame = Known(p, q)
                   /\ m.rx.latest <= m.endFrame
                   /\ m.rx.latest <= Newest(Len(h), m.stableFinalized)
                   /\ m.stableFinalized < m.ss

LEMMA CoreParts ==
    ASSUME NEW m, NEW p, NEW q, NEW s, NEW h, Body(m, p, q, s, h)
    PROVE  /\ m \in MuType /\ p \in State /\ q \in State /\ h \in Pads
           /\ \A g \in DOMAIN s : s[g] \in State
           /\ SamplesOK(m, p, q, h) /\ Order(m, p, q) /\ RxOK(m, h) /\ HeldOK(h)
           /\ FinOK(m, p) /\ RingOK(m, p) /\ TxOK(m, h) /\ SavesOK(m, p, s)
  BY DEF Body, CoreTypes

LEMMA Numbers ==
    ASSUME NEW m \in MuType, NEW p \in State, NEW q \in State, NEW h \in Pads
    PROVE  /\ Len(p) \in Nat /\ Len(q) \in Nat /\ Len(h) \in Nat /\ Known(p, q) \in Nat
           /\ Known(p, q) = Len(p) + Len(q) /\ Len(m.guesses) \in Nat
           /\ m.rx.latest \in Nat /\ Asked(m) \in Nat /\ SureTo(m) \in Nat
  <1>1. Len(p) \in Nat /\ Len(q) \in Nat /\ Len(h) \in Nat
    BY DEF State, Pads
  <1>2. Len(m.guesses) \in Nat /\ m.rx.latest \in Nat
    BY MuFields, ReplyFields DEF Pads
  <1>3. Asked(m) \in Nat /\ SureTo(m) \in Nat
    BY MuFields DEF Asked, SureTo
  <1> QED
    BY <1>1, <1>2, <1>3 DEF Known

\* More pads come: what is known of the samples stays.
LEMMA SamplesStay ==
    ASSUME NEW m \in MuType, NEW n \in MuType, NEW p \in State, NEW q \in State,
           NEW h \in Pads, NEW h2, MorePads(h, h2) \/ h2 = h, SamplesOK(m, p, q, h),
           SureTo(n) = SureTo(m), SameGuesses(m, n)
    PROVE  SamplesOK(n, p, q, h2)
  <1>1. ASSUME NEW e, NEW f \in Nat, SampleOK(m, h, e, f)
        PROVE  SampleOK(n, h2, e, f)
    <2>1. f >= 1 /\ f < SureTo(n) => Sure(h2, f, e.remote)
      BY <1>1, SureStays DEF SampleOK
    <2> QED
      BY <1>1, <2>1 DEF SampleOK, SameGuesses
  <1>2. ASSUME NEW i \in 1 .. Len(p)
        PROVE  SampleOK(n, h2, p[i], i - 1)
    <2>1. i - 1 \in Nat
      BY Numbers
    <2> QED
      BY <1>1, <2>1 DEF SamplesOK
  <1>3. ASSUME NEW i \in 1 .. Len(q)
        PROVE  SampleOK(n, h2, q[i], Len(p) + i - 1)
    <2>1. Len(p) + i - 1 \in Nat
      BY Numbers
    <2> QED
      BY <1>1, <2>1 DEF SamplesOK
  <1> QED
    BY <1>2, <1>3 DEF SamplesOK

LEMMA SentKeeps ==
    ASSUME NEW m, NEW p, NEW q, NEW s, NEW h, Core(m, p, q, s, h), MayCall(m, p, q, h),
           NEW h2, MorePads(h, h2),
           NEW rx, GoodReply(rx, h2, m.frame, m.stableFinalized),
           NEW n \in MuType, Sent(m, n, rx), SameFrame(m, n), SameFin(m, n),
           SameGuesses(m, n), SameRest(m, n), SameLocal(m, n), SameRoll(m, n), SameRing(m, n)
    PROVE  Core(n, p, q, s, h2)
  <1>1. /\ m \in MuType /\ p \in State /\ q \in State /\ h \in Pads
        /\ \A g \in DOMAIN s : s[g] \in State
        /\ SamplesOK(m, p, q, h) /\ Order(m, p, q) /\ RxOK(m, h) /\ HeldOK(h)
        /\ FinOK(m, p) /\ RingOK(m, p) /\ TxOK(m, h) /\ SavesOK(m, p, s)
        /\ LocalAt(m, Asked(m))
    BY CoreParts DEF Core
  <1>2. /\ n.frame = m.frame /\ n.finalized = m.finalized
        /\ n.stableFinalized = m.stableFinalized /\ n.predicting = m.predicting
        /\ n.ss = m.ss /\ n.guesses = m.guesses
        /\ n.started = m.started /\ n.force = m.force
        /\ n.active = m.active /\ n.shouldLoad = m.shouldLoad
        /\ n.endFrame = m.endFrame /\ n.stable = m.stable
        /\ n.ring = m.ring /\ n.ringIdx = m.ringIdx /\ n.ringLast = m.ringLast
        /\ n.rx = rx
    BY DEF Sent, SameFrame, SameFin, SameGuesses, SameRest, SameRoll, SameRing
  <1>3. /\ n.delayed = m.delayed /\ n.delayIdx = m.delayIdx
        /\ n.localInputs = m.localInputs /\ n.localIdx = m.localIdx
    BY DEF SameLocal
  <1>4. Asked(n) = Asked(m) /\ SureTo(n) = SureTo(m)
    BY <1>2 DEF Asked, SureTo
  <1>5. /\ h2 \in Pads /\ HeldOK(h2) /\ Len(h) <= Len(h2) /\ Len(h) \in Nat
        /\ Len(h2) \in Nat /\ m.rx.latest \in Nat /\ rx.latest \in Nat /\ m.frame \in Nat
        /\ m.endFrame \in Nat /\ m.stableFinalized \in Nat
    BY <1>1, Numbers, MuFields, ReplyFields DEF MorePads, GoodReply
  <1>6. m.active => /\ m.shouldLoad /\ m.frame = m.endFrame + 1
                    /\ m.rx.latest <= rx.latest
    <2> SUFFICES ASSUME m.active
                 PROVE  /\ m.shouldLoad /\ m.frame = m.endFrame + 1
                        /\ m.rx.latest <= rx.latest
      OBVIOUS
    <2>1. m.shouldLoad /\ m.frame = m.endFrame + 1
      BY <1>1 DEF MayCall, Order
    <2>2. PICK a, b : a = Newest(Len(h), m.stableFinalized) /\ b = Newest(Len(h2), m.stableFinalized)
      OBVIOUS
    <2>3. a \in Nat /\ b \in Nat /\ a <= b
      BY <1>5, <2>2, NewestFacts, NewestGrows
    <2>4. m.rx.latest <= a /\ m.rx.latest <= m.endFrame
      BY <2>2 DEF MayCall
    <2>5. rx.latest = Smaller(b, m.frame)
      BY <2>2 DEF GoodReply
    <2> QED
      BY <1>5, <2>1, <2>3, <2>4, <2>5 DEF Smaller
  <1>15. m.stableFinalized < SureTo(m) /\ (m.shouldLoad => m.stableFinalized < m.ss)
    <2>1. CASE m.shouldLoad
      BY <1>1, <2>1 DEF MayCall, Order, SureTo
    <2>2. CASE ~m.shouldLoad
      BY <1>1, <2>2 DEF FinOK
    <2> QED
      BY <2>1, <2>2
  <1>7. SamplesOK(n, p, q, h2)
    BY <1>1, <1>4, SamplesStay
  <1>8. Order(n, p, q)
    BY <1>1, <1>2, <1>4 DEF Order
  <1>9. RxOK(n, h2)
    <2>1. Shown(n.rx, h2, n.stableFinalized)
      BY <1>2 DEF GoodReply
    <2>2. n.active => n.rx.latest + Horizon >= n.endFrame
      BY <1>1, <1>2, <1>5, <1>6, Sizes DEF RxOK
    <2>3. Len(h2) + Horizon >= Asked(n) - 1
      <3>1. Len(h) + Horizon >= Asked(m) - 1 /\ Asked(m) \in Nat
        BY <1>1, Numbers DEF RxOK
      <3> QED
        BY <1>4, <1>5, <3>1, Sizes
    <2> QED
      BY <2>1, <2>2, <2>3 DEF RxOK
  <1>10. FinOK(n, p)
    <2>1. m.finalized \in Nat /\ m.ss \in Nat
      BY <1>1, MuFields
    <2>2. m.shouldLoad => m.active
      BY <1>1 DEF Order
    <2>3. m.shouldLoad => /\ m.finalized <= m.ss /\ m.finalized <= rx.latest
                          /\ m.finalized + Horizon + 1 >= m.endFrame
                          /\ rx.latest < m.ss => m.finalized + Horizon >= m.endFrame
      <3> SUFFICES ASSUME m.shouldLoad
                   PROVE  /\ m.finalized <= m.ss /\ m.finalized <= rx.latest
                          /\ m.finalized + Horizon + 1 >= m.endFrame
                          /\ rx.latest < m.ss => m.finalized + Horizon >= m.endFrame
        OBVIOUS
      <3>1. /\ m.finalized <= m.ss /\ m.finalized <= m.rx.latest
            /\ m.finalized + Horizon + 1 >= m.endFrame
            /\ m.rx.latest < m.ss => m.finalized + Horizon >= m.endFrame
        BY <1>1 DEF FinOK
      <3>2. m.rx.latest <= rx.latest /\ m.rx.latest \in Nat /\ rx.latest \in Nat
        BY <1>5, <1>6, <2>2
      <3>3. m.finalized <= rx.latest
        BY <2>1, <3>1, <3>2
      <3>4. rx.latest < m.ss => m.rx.latest < m.ss
        BY <2>1, <3>2
      <3> QED
        BY <3>1, <3>3, <3>4
    <2>4. ~(m.active /\ ~m.shouldLoad)
      BY <1>6
    <2>5. /\ m.stableFinalized < SureTo(m)
          /\ m.shouldLoad => m.stableFinalized <= m.ss /\ m.stableFinalized < m.ss
          /\ m.stableFinalized = 0 \/ m.stableFinalized < Len(p)
          /\ ~m.shouldLoad => /\ m.finalized < SureTo(m)
                              /\ m.finalized + Horizon + 1 >= m.frame
                              /\ ~m.predicting => m.finalized = m.frame - 1
      BY <1>1, <1>5, <1>6, <1>15, <2>1 DEF FinOK
    <2> QED
      BY <1>2, <1>4, <2>3, <2>4, <2>5 DEF FinOK
  <1>11. RingOK(n, p)
    BY <1>1, <1>2, <1>4 DEF RingOK, EntryOK, RingSlot
  <1>12. TxOK(n, h2)
    <2>1. PICK f, c : f = m.stableFinalized /\ c = SubSeq(p, 1, f)
      OBVIOUS
    <2>2. f \in Nat /\ f <= Len(p) /\ ChecksumOf(m) = c /\ f < SureTo(m)
      BY <1>1, <1>5, <1>6, <1>15, <2>1, ChecksumIs
    <2>3. c \in State /\ Len(c) = f /\ \A i \in 1 .. f : c[i] = p[i]
      <3>1. p \in State /\ f \in Nat /\ f <= Len(p) /\ c = Prefix(p, f)
        BY <1>1, <2>1, <2>2 DEF Prefix
      <3> QED
        BY <3>1, PrefixFacts
    <2>4. n.tx.frame = f /\ n.tx.checksum = c
      BY <2>1, <2>2 DEF Sent
    <2>5. AllSure(h2, c)
      <3> SUFFICES ASSUME NEW i \in 2 .. Len(c)
                   PROVE  Sure(h2, i - 1, c[i].remote)
        BY DEF AllSure
      <3>1. i \in 1 .. Len(p) /\ i - 1 \in Nat /\ i - 1 >= 1 /\ i - 1 < f /\ c[i] = p[i]
        <4>1. Len(c) = f /\ f \in Nat /\ f <= Len(p) /\ Len(p) \in Nat
          BY <1>1, <2>2, <2>3, Numbers
        <4>2. i \in 1 .. f
          BY <4>1
        <4> QED
          BY <2>3, <4>1, <4>2
      <3>2. SampleOK(n, h2, p[i], i - 1)
        BY <1>7, <3>1 DEF SamplesOK
      <3>3. i - 1 < SureTo(n)
        BY <1>1, <1>4, <2>2, <3>1, Numbers
      <3> QED
        BY <3>1, <3>2, <3>3 DEF SampleOK
    <2> QED
      BY <2>3, <2>4, <2>5 DEF TxOK
  <1>13. SavesOK(n, p, s)
    BY <1>1, <1>2 DEF SavesOK
  <1>14. LocalAt(n, Asked(n))
    BY <1>1, <1>3, <1>4 DEF LocalAt
  <1> QED
    BY <1>1, <1>5, <1>7, <1>8, <1>9, <1>10, <1>11, <1>12, <1>13, <1>14
    DEF Core, Body, CoreTypes

\* The elements after the first i.
From(w, i) == SubSeq(w, i + 1, Len(w))

IsFrom(u, w, i) == Len(u) = Len(w) - i /\ \A j \in 1 .. Len(w) - i : u[j] = w[i + j]

LEMMA FromFacts ==
    ASSUME NEW w \in Pads, NEW i \in 0 .. Len(w), NEW u, u = From(w, i)
    PROVE  IsFrom(u, w, i)
  BY DEF Pads, From, IsFrom

LEMMA Nothing ==
    ASSUME NEW w \in Pads
    PROVE  Len(w) = 0 <=> w = <<>>
  BY DEF Pads

LEMMA PassKeeps ==
    ASSUME NEW d \in MuType, NEW p \in State, NEW q \in State, NEW s, NEW h \in Pads,
           SamplesOK(d, p, q, h), Shown(d.rx, h, d.stableFinalized), SavesOK(d, p, s),
           d.predicting, d.stableFinalized < d.ss, d.ss >= SyncFrame - Delay,
           d.ss + Len(d.guesses) = Known(p, q),
           NEW b, b = PassGuesses(d)
    PROVE  /\ b \in MuType /\ SamplesOK(b, p, q, h) /\ SavesOK(b, p, s)
           /\ b.predicting /\ b.ss >= d.ss /\ b.ss + Len(b.guesses) = Known(p, q)
           /\ b.finalized = Smaller(b.ss, d.rx.latest)
           /\ b.stableFinalized = d.stableFinalized
           /\ ~DiffersAt(d, Passed(d)) => b.guesses = <<>> \/ d.rx.latest < b.ss
  <1>1. PICK i \in Nat, n \in Nat, t \in Nat, l \in Nat, z \in Nat :
            /\ i = Passed(d) /\ n = Len(d.guesses) /\ t = d.ss
            /\ l = d.rx.latest /\ z = d.stableFinalized
    <2>1. Len(d.guesses) \in Nat /\ d.ss \in Nat /\ d.rx.latest \in Nat
          /\ d.stableFinalized \in Nat
      BY MuFields, Numbers
    <2>2. Passed(d) \in Nat
      BY <2>1, PassedFacts
    <2> QED
      BY <2>1, <2>2
  <1>2. /\ d.guesses \in Pads /\ n \in Nat /\ t \in Nat /\ l \in Nat /\ z \in Nat
        /\ i \in 0 .. n /\ StopsAt(d, i) /\ \A j \in 0 .. i - 1 : ~StopsAt(d, j)
    BY <1>1, MuFields, Numbers, PassedFacts
  <1>3. /\ z < t /\ t + n = Known(p, q) /\ t >= 1
    <2>1. SyncFrame - Delay >= 1 /\ SyncFrame - Delay \in Nat
      BY Sizes
    <2>2. t >= SyncFrame - Delay /\ z < t /\ t + n = Known(p, q)
      BY <1>1
    <2>3. t \in Nat
      BY <1>2
    <2>4. t >= 1
      BY <2>1, <2>2, <2>3
    <2> QED
      BY <2>2, <2>4
  <1>4. /\ b \in MuType /\ Passing(d, b, i) /\ b.shouldLoad = d.shouldLoad
    BY <1>1, PassFields DEF SameRoll
  <1>5. /\ b.predicting /\ b.ss = t + i /\ b.guesses = From(d.guesses, i)
        /\ b.finalized = Smaller(b.ss, l) /\ b.stableFinalized = z
    BY <1>1, <1>4 DEF Passing, From
  <1>6. Len(b.guesses) = n - i /\ \A j \in 1 .. n - i : b.guesses[j] = d.guesses[i + j]
    <2>1. d.guesses \in Pads /\ i \in 0 .. Len(d.guesses) /\ n = Len(d.guesses)
      BY <1>1, <1>2
    <2>2. IsFrom(b.guesses, d.guesses, i)
      BY <1>5, <2>1, FromFacts
    <2> QED
      BY <2>1, <2>2 DEF IsFrom
  <1>7. SureTo(b) = t + i /\ SureTo(d) = t
    BY <1>1, <1>5 DEF SureTo
  <1>8. ASSUME NEW e, NEW f \in Nat, f < t + n, SampleOK(d, h, e, f)
        PROVE  SampleOK(b, h, e, f)
    <2>1. e.frame = f /\ e.local = Mine(f) /\ (f >= 1 /\ f < t => Sure(h, f, e.remote))
      BY <1>7, <1>8 DEF SampleOK
    <2>2. f >= t => e.remote = d.guesses[f - t + 1]
      BY <1>1, <1>8 DEF SampleOK
    <2>3. ASSUME f >= t, f < t + i
          PROVE  Sure(h, f, e.remote)
      <3>1. PICK j : j = f - t
        OBVIOUS
      <3>2. j \in 0 .. i - 1 /\ t + j = f /\ j \in Nat /\ j < n
        BY <1>2, <2>3, <3>1
      <3>3. ~StopsAt(d, j)
        BY <1>2, <3>2
      <3>4. ~(l < f) /\ ~DiffersAt(d, j)
        BY <1>1, <3>2, <3>3 DEF StopsAt
      <3>5. d.guesses[j + 1] = Confirmed(d.rx, f)
        <4>1. j < n /\ f <= l /\ f > z
          BY <1>2, <1>3, <2>3, <3>2, <3>4
        <4>2. n = Len(d.guesses) /\ d.ss + j = f /\ l = d.rx.latest /\ z = d.stableFinalized
          BY <1>1, <3>2
        <4> QED
          BY <3>4, <4>1, <4>2 DEF DiffersAt
      <3>6. f \in 1 .. l /\ f >= z /\ f <= Len(h)
        <4>1. l <= Len(h) /\ Len(h) \in Nat
          BY <1>1, Numbers DEF Shown
        <4> QED
          BY <1>3, <2>3, <3>4, <4>1
      <3>7. Confirmed(d.rx, f) = h[f]
        BY <1>1, <3>6 DEF Shown, Confirmed
      <3> QED
        BY <2>2, <2>3, <3>1, <3>5, <3>6, <3>7 DEF Sure
    <2>4. f >= t + i => e.remote = b.guesses[f - b.ss + 1]
      <3> SUFFICES ASSUME f >= t + i
                   PROVE  e.remote = b.guesses[f - b.ss + 1]
        OBVIOUS
      <3>1. PICK j : j = f - (t + i) + 1
        OBVIOUS
      <3>2. j \in 1 .. n - i /\ i + j = f - t + 1 /\ f >= t
        BY <1>2, <1>8, <3>1
      <3>3. b.guesses[j] = d.guesses[f - t + 1]
        BY <1>6, <3>2
      <3> QED
        BY <1>5, <2>2, <3>1, <3>2, <3>3
    <2>5. f >= 1 /\ f < SureTo(b) => Sure(h, f, e.remote)
      BY <1>2, <1>7, <2>1, <2>3
    <2> QED
      BY <1>5, <2>1, <2>4, <2>5 DEF SampleOK
  <1>9. SamplesOK(b, p, q, h)
    <2>1. Len(p) \in Nat /\ Len(q) \in Nat /\ t + n = Len(p) + Len(q)
      BY <1>3, Numbers
    <2>2. ASSUME NEW k \in 1 .. Len(p)
          PROVE  SampleOK(b, h, p[k], k - 1)
      <3>1. k - 1 \in Nat /\ k - 1 < t + n
        BY <2>1
      <3> QED
        BY <1>8, <3>1 DEF SamplesOK
    <2>3. ASSUME NEW k \in 1 .. Len(q)
          PROVE  SampleOK(b, h, q[k], Len(p) + k - 1)
      <3>1. Len(p) + k - 1 \in Nat /\ Len(p) + k - 1 < t + n
        BY <2>1
      <3> QED
        BY <1>8, <3>1 DEF SamplesOK
    <2> QED
      BY <2>2, <2>3 DEF SamplesOK
  <1>10. SavesOK(b, p, s)
    <2>1. \A g \in b.ss .. Len(p) - 1 : g \in d.ss .. Len(p) - 1
      <3>1. b.ss = t + i /\ d.ss = t /\ Len(p) \in Nat
        BY <1>1, <1>5, Numbers
      <3> QED
        BY <3>1
    <2> QED
      BY <1>5, <2>1 DEF SavesOK
  <1>11. b.ss >= d.ss /\ b.ss + Len(b.guesses) = Known(p, q)
    <2>1. b.ss = t + i /\ d.ss = t /\ Len(b.guesses) = n - i /\ t + n = Known(p, q)
      BY <1>1, <1>3, <1>5, <1>6
    <2> QED
      BY <2>1
  <1>12. ~DiffersAt(d, Passed(d)) => b.guesses = <<>> \/ l < b.ss
    <2> SUFFICES ASSUME ~DiffersAt(d, i), ~(l < b.ss)
                 PROVE  b.guesses = <<>>
      BY <1>1
    <2>1. ~(t + i <= z)
      BY <1>2, <1>3
    <2>2. i = n
      BY <1>1, <1>2, <1>5, <2>1 DEF StopsAt
    <2>3. Len(b.guesses) = 0 /\ b.guesses \in Pads
      BY <1>2, <1>4, <1>6, <2>2, MuFields
    <2> QED
      BY <2>3, Nothing
  <1> QED
    BY <1>1, <1>4, <1>5, <1>9, <1>10, <1>11, <1>12

\* What is known as the guesses are compared, for frame f.
Checking(d, p, q, s, h, f) ==
    /\ Body(d, p, q, s, h) /\ f = d.frame /\ LocalAt(d, f + 1)
    /\ d.rx.latest <= f /\ d.rx.latest + Horizon >= f
    /\ Known(p, q) >= 1 /\ f <= MaxFrame + 1 /\ Len(q) <= MaxQueue
    /\ d.active => d.shouldLoad /\ d.endFrame = Known(p, q) /\ d.stableFinalized < d.ss

LEMMA FrameIsKnown ==
    ASSUME NEW d, NEW p, NEW q, NEW s, NEW h, NEW f, Checking(d, p, q, s, h, f)
    PROVE  /\ f \in Nat /\ f >= 1 /\ Known(p, q) \in Nat /\ f \in {Known(p, q), Known(p, q) + 1}
           /\ ~d.active => f = Known(p, q) /\ ~d.shouldLoad
           /\ Asked(d) = f
  <1>1. d \in MuType /\ p \in State /\ q \in State /\ h \in Pads /\ Order(d, p, q)
    BY CoreParts DEF Checking
  <1>2. d.frame \in Nat /\ Known(p, q) \in Nat /\ d.endFrame \in Nat
    BY <1>1, MuFields, Numbers
  <1>3. CASE d.active
    BY <1>1, <1>2, <1>3 DEF Checking, Order, Asked
  <1>4. CASE ~d.active
    BY <1>1, <1>2, <1>4 DEF Checking, Order, Asked
  <1> QED
    BY <1>3, <1>4

\* A rollback is started, or goes on to this frame.
LEMMA TriggerKeeps ==
    ASSUME NEW d, NEW p, NEW q, NEW s, NEW h, NEW f, Checking(d, p, q, s, h, f),
           d.predicting, NEW n, n = TriggerRollback(PassGuesses(d), f)
    PROVE  /\ Core(n, p, q, s, h) /\ SameRest(d, n) /\ n.stable = d.stable
           /\ n.active /\ n.shouldLoad /\ n.endFrame = f /\ n.frame = f + 1
           /\ n.rx = d.rx /\ n.stableFinalized = d.stableFinalized
           /\ n.stableFinalized < n.ss
  <1>1. /\ d \in MuType /\ p \in State /\ q \in State /\ h \in Pads
        /\ \A g \in DOMAIN s : s[g] \in State
        /\ SamplesOK(d, p, q, h) /\ Order(d, p, q) /\ RxOK(d, h) /\ HeldOK(h)
        /\ FinOK(d, p) /\ RingOK(d, p) /\ TxOK(d, h) /\ SavesOK(d, p, s)
        /\ LocalAt(d, f + 1)
    BY CoreParts DEF Checking
  <1>2. /\ f \in Nat /\ f >= 1 /\ f \in {Known(p, q), Known(p, q) + 1} /\ Known(p, q) \in Nat
        /\ Asked(d) = f
    BY FrameIsKnown
  <1>3. PICK b : b = PassGuesses(d)
    OBVIOUS
  <1>4. /\ d.ss >= SyncFrame - Delay /\ d.ss + Len(d.guesses) = Known(p, q)
        /\ d.ss + Horizon >= Known(p, q) /\ d.stableFinalized < d.ss
    BY <1>1 DEF Order, FinOK, SureTo, Checking
  <1>5. /\ b \in MuType /\ SamplesOK(b, p, q, h) /\ SavesOK(b, p, s)
        /\ b.predicting /\ b.ss >= d.ss /\ b.ss + Len(b.guesses) = Known(p, q)
        /\ b.finalized = Smaller(b.ss, d.rx.latest)
        /\ b.stableFinalized = d.stableFinalized
    BY <1>1, <1>3, <1>4, PassKeeps DEF RxOK
  <1>6. /\ SameFrame(d, b) /\ SameRest(d, b) /\ SameLocal(d, b) /\ SameRoll(d, b)
        /\ SameRing(d, b) /\ SameReply(d, b)
    BY <1>1, <1>3, PassFields
  <1>7. /\ n \in MuType /\ Triggered(b, n, f) /\ SameGuesses(b, n) /\ SameFin(b, n)
        /\ SameRest(b, n) /\ SameLocal(b, n) /\ SameRing(b, n) /\ SameReply(b, n)
    BY <1>2, <1>3, <1>5, TriggerFields
  <1>8. /\ n.active = TRUE /\ n.shouldLoad = TRUE /\ n.endFrame = f /\ n.frame = f + 1
        /\ n.stable = d.stable /\ n.predicting = TRUE /\ n.ss = b.ss
        /\ n.guesses = b.guesses /\ n.finalized = Smaller(b.ss, d.rx.latest)
        /\ n.stableFinalized = d.stableFinalized
    BY <1>5, <1>6, <1>7 DEF Triggered, SameGuesses, SameFin, SameRoll, MuType
  <1>9. /\ n.started = d.started /\ n.force = d.force /\ n.ring = d.ring
        /\ n.ringIdx = d.ringIdx /\ n.ringLast = d.ringLast /\ n.rx = d.rx /\ n.tx = d.tx
        /\ SameRest(d, n)
    BY <1>6, <1>7 DEF SameRest, SameRing, SameReply
  <1>10. Asked(n) = f + 1 /\ SureTo(n) = b.ss /\ SureTo(b) = b.ss
    BY <1>5, <1>8 DEF Asked, SureTo
  <1>11. PICK a \in Nat, l \in Nat, t \in Nat, g \in Nat : /\ a = d.ss /\ l = d.rx.latest /\ t = b.ss
                                                /\ g = Len(h)
    BY <1>1, <1>5, MuFields, Numbers
  <1>12. /\ t >= a /\ a + Horizon >= Known(p, q) /\ l <= f /\ l + Horizon >= f /\ l <= g
    BY <1>1, <1>4, <1>5, <1>11 DEF Checking, RxOK, Shown
  <1>13. SamplesOK(n, p, q, h)
    BY <1>1, <1>5, <1>7, <1>10, SamplesStay
  <1>14. Order(n, p, q)
    <2>1. t >= SyncFrame - Delay /\ t + Horizon >= Known(p, q)
      <3>1. PICK y \in Nat, k \in Nat : y = SyncFrame - Delay /\ k = Known(p, q)
        BY <1>2, Opening
      <3>2. a >= y /\ t >= a /\ a + Horizon >= k
        BY <1>4, <1>11, <1>12, <3>1
      <3>3. t >= y /\ t + Horizon >= k
        BY <3>2, Sizes
      <3> QED
        BY <3>1, <3>3
    <2>2. /\ f \in {Known(p, q), Known(p, q) + 1} /\ f + 1 <= MaxFrame + 2
          /\ Len(q) <= MaxQueue + 1
      <3>1. f \in {Known(p, q), Known(p, q) + 1}
        BY <1>2
      <3>2. f \in Nat /\ f <= MaxFrame + 1
        BY <1>2 DEF Checking
      <3>3. Len(q) \in Nat /\ Len(q) <= MaxQueue
        BY <1>1, Numbers DEF Checking
      <3>4. f + 1 <= MaxFrame + 2
        BY <3>2, Sizes
      <3>5. Len(q) <= MaxQueue + 1
        BY <3>3, Sizes
      <3> QED
        BY <3>1, <3>4, <3>5
    <2>3. /\ n.started <=> Len(p) >= 1
          /\ n.force => Known(p, q) >= 1
      BY <1>1, <1>9 DEF Order
    <2> QED
      BY <1>5, <1>8, <1>10, <1>11, <2>1, <2>2, <2>3 DEF Order
  <1>15. RxOK(n, h)
    <2>1. l + Horizon >= f /\ g + Horizon >= f + 1 - 1
      BY <1>2, <1>12, Sizes
    <2>2. Shown(n.rx, h, n.stableFinalized)
      BY <1>1, <1>8, <1>9 DEF RxOK
    <2>3. n.rx.latest = l /\ n.endFrame = f /\ Asked(n) = f + 1 /\ Len(h) = g
      BY <1>8, <1>9, <1>10, <1>11
    <2>4. n.rx.latest + Horizon >= n.endFrame
      BY <2>1, <2>3
    <2>5. Len(h) + Horizon >= Asked(n) - 1
      <3>1. Asked(n) - 1 = f
        BY <1>2, <2>3
      <3>2. g + Horizon >= f
        BY <1>2, <1>12, Sizes
      <3> QED
        BY <2>3, <3>1, <3>2
    <2> QED
      BY <2>2, <2>4, <2>5 DEF RxOK
  <1>16. FinOK(n, p)
    <2>1. /\ Smaller(t, l) <= t /\ Smaller(t, l) <= l
          /\ Smaller(t, l) + Horizon + 1 >= f
          /\ l < t => Smaller(t, l) + Horizon >= f
      BY <1>2, <1>12, Sizes DEF Smaller
    <2>2. d.stableFinalized < t /\ d.stableFinalized <= t
      BY <1>1, <1>4, <1>11, <1>12, MuFields
    <2>3. d.stableFinalized = 0 \/ d.stableFinalized < Len(p)
      BY <1>1 DEF FinOK, Checking
    <2> QED
      BY <1>8, <1>9, <1>10, <1>11, <2>1, <2>2, <2>3 DEF FinOK
  <1>20. n.stableFinalized < n.ss
    BY <1>1, <1>4, <1>8, <1>11, <1>12, MuFields
  <1>17. RingOK(n, p)
    <2>1. d.ringLast < f + 1
      <3>1. d.ringLast < f /\ d.ringLast \in Nat
        BY <1>1, <1>2, MuFields DEF RingOK
      <3> QED
        BY <1>2, <3>1
    <2> QED
      BY <1>1, <1>8, <1>9, <1>10, <2>1 DEF RingOK, EntryOK, RingSlot
  <1>18. TxOK(n, h) /\ SavesOK(n, p, s)
    BY <1>1, <1>5, <1>8, <1>9 DEF TxOK, SavesOK
  <1>19. LocalAt(n, Asked(n))
    BY <1>1, <1>6, <1>7, <1>10 DEF LocalAt, SameLocal
  <1> QED
    BY <1>1, <1>7, <1>8, <1>9, <1>13, <1>14, <1>15, <1>16, <1>17, <1>18, <1>19,
       <1>20
    DEF Core, Body, CoreTypes

\* The frame is run on: the guesses stand, and the pad of the frame is taken.
Standing(d, k) ==
    \/ ~d.predicting /\ k = d
    \/ /\ d.predicting /\ ~DiffersAt(d, Passed(d))
       /\ \/ PassGuesses(d).guesses = <<>> /\ k = NotPredicting(PassGuesses(d))
          \/ PassGuesses(d).guesses # <<>> /\ k = PassGuesses(d)

LEMMA StandingFacts ==
    ASSUME NEW d, NEW p, NEW q, NEW s, NEW h, NEW f, Checking(d, p, q, s, h, f),
           ~d.active, NEW k, Standing(d, k)
    PROVE  /\ k \in MuType /\ SameFrame(d, k) /\ SameRest(d, k) /\ SameLocal(d, k)
           /\ SameRoll(d, k) /\ SameRing(d, k) /\ SameReply(d, k)
           /\ k.stableFinalized = d.stableFinalized /\ k.stableFinalized < SureTo(k)
           /\ SamplesOK(k, p, q, h) /\ SavesOK(k, p, s) /\ BeforePad(k, f)
  <1>1. /\ d \in MuType /\ p \in State /\ q \in State /\ h \in Pads
        /\ SamplesOK(d, p, q, h) /\ Order(d, p, q) /\ RxOK(d, h)
        /\ FinOK(d, p) /\ SavesOK(d, p, s) /\ f = d.frame
    BY CoreParts DEF Checking
  <1>2. /\ f \in Nat /\ f >= 1 /\ f = Known(p, q) /\ ~d.shouldLoad
    BY FrameIsKnown
  <1>3. PICK l \in Nat, z \in Nat : l = d.rx.latest /\ z = d.stableFinalized
    BY <1>1, MuFields, Numbers
  <1>4. l <= f /\ l + Horizon >= f
    BY <1>3 DEF Checking
  <1>5. CASE ~d.predicting /\ k = d
    <2>1. d.guesses = <<>> /\ d.finalized = f - 1 /\ z < SureTo(d)
      BY <1>1, <1>2, <1>3, <1>5 DEF Order, FinOK
    <2>2. BeforePad(k, f)
      <3>1. d.finalized < f /\ d.finalized + Horizon >= f
        BY <1>2, <2>1, Sizes
      <3>2. z < f
        BY <1>1, <1>5, <2>1 DEF SureTo
      <3> QED
        BY <1>2, <1>3, <1>5, <2>1, <3>1, <3>2 DEF BeforePad
    <2> QED
      BY <1>1, <1>3, <1>5, <2>1, <2>2 DEF SameFrame, SameRest, SameLocal, SameRoll, SameRing,
                                          SameReply
  <1>6. CASE d.predicting
    <2>1. PICK b : b = PassGuesses(d)
      OBVIOUS
    <2>2. ~DiffersAt(d, Passed(d))
      BY <1>6 DEF Standing
    <2>3. /\ d.ss >= SyncFrame - Delay /\ d.ss + Len(d.guesses) = Known(p, q)
          /\ d.stableFinalized < d.ss
      BY <1>1, <1>2, <1>6 DEF Order, FinOK, SureTo
    <2>4. /\ b \in MuType /\ SamplesOK(b, p, q, h) /\ SavesOK(b, p, s)
          /\ b.predicting /\ b.ss >= d.ss /\ b.ss + Len(b.guesses) = f
          /\ b.finalized = Smaller(b.ss, l) /\ b.stableFinalized = z
          /\ b.guesses = <<>> \/ l < b.ss
      <3>1. Shown(d.rx, h, d.stableFinalized) /\ d.predicting
        BY <1>1, <1>6 DEF RxOK
      <3>2. /\ b \in MuType /\ SamplesOK(b, p, q, h) /\ SavesOK(b, p, s)
            /\ b.predicting /\ b.ss >= d.ss /\ b.ss + Len(b.guesses) = Known(p, q)
            /\ b.finalized = Smaller(b.ss, d.rx.latest)
            /\ b.stableFinalized = d.stableFinalized
            /\ ~DiffersAt(d, Passed(d)) => b.guesses = <<>> \/ d.rx.latest < b.ss
        BY <1>1, <2>1, <2>3, <3>1, PassKeeps
      <3> QED
        BY <1>2, <1>3, <2>2, <3>2
    <2>5. /\ SameFrame(d, b) /\ SameRest(d, b) /\ SameLocal(d, b) /\ SameRoll(d, b)
          /\ SameRing(d, b) /\ SameReply(d, b)
      BY <1>1, <2>1, PassFields
    <2>6. PICK t \in Nat, a \in Nat : t = b.ss /\ a = d.ss
      BY <1>1, <2>4, MuFields
    <2>7. z < t /\ t >= SyncFrame - Delay
      <3>1. PICK y \in Nat : y = SyncFrame - Delay
        BY Opening
      <3>2. a >= y /\ t >= a /\ z < a
        BY <1>3, <2>3, <2>4, <2>6, <3>1
      <3>3. t >= y /\ z < t
        BY <3>2
      <3> QED
        BY <3>1, <3>3
    <2>8. CASE b.guesses = <<>>
      <3>1. k = NotPredicting(b)
        BY <1>6, <2>1, <2>8 DEF Standing
      <3>2. /\ k \in MuType /\ StopsPredicting(b, k) /\ SameFrame(b, k) /\ SameFin(b, k)
            /\ SameRest(b, k) /\ SameLocal(b, k) /\ SameRoll(b, k) /\ SameRing(b, k)
            /\ SameReply(b, k)
        BY <2>4, <3>1, KeepFields
      <3>3. /\ SameFrame(d, k) /\ SameRest(d, k) /\ SameLocal(d, k) /\ SameRoll(d, k)
            /\ SameRing(d, k) /\ SameReply(d, k)
        BY <2>5, <3>2 DEF SameFrame, SameRest, SameLocal, SameRoll, SameRing, SameReply
      <3>4. /\ k.predicting = FALSE /\ k.guesses = <<>> /\ k.frame = f
            /\ k.stableFinalized = z /\ k.finalized = Smaller(t, l) /\ k.rx.latest = l
        BY <1>1, <1>3, <2>4, <2>6, <2>8, <3>2, <3>3 DEF StopsPredicting, SameFin, SameFrame,
                                                         SameReply
      <3>5. t = f
        <4>1. Len(b.guesses) = 0
          BY <2>8
        <4> QED
          BY <2>4, <2>6, <4>1
      <3>6. SureTo(k) = f /\ SureTo(b) = f
        BY <2>4, <2>6, <3>4, <3>5 DEF SureTo
      <3>7. SamplesOK(k, p, q, h)
        <4>1. \A e, g : SampleOK(b, h, e, g) => SampleOK(k, h, e, g)
          BY <3>4, <3>6 DEF SampleOK
        <4> QED
          BY <2>4, <4>1 DEF SamplesOK
      <3>8. SavesOK(k, p, s)
        BY <2>4, <3>4 DEF SavesOK
      <3>9. BeforePad(k, f)
        <4>1. l < f => Smaller(t, l) < f /\ Smaller(t, l) + Horizon >= f
          BY <1>4, <3>5 DEF Smaller
        <4> QED
          BY <2>7, <3>4, <3>5, <4>1 DEF BeforePad
      <3>10. k.stableFinalized < SureTo(k)
        BY <2>7, <3>4, <3>5, <3>6
      <3> QED
        BY <1>3, <3>2, <3>3, <3>4, <3>7, <3>8, <3>9, <3>10
    <2>9. CASE b.guesses # <<>>
      <3>1. k = b
        BY <1>6, <2>1, <2>9 DEF Standing
      <3>2. l < t
        BY <2>4, <2>6, <2>9
      <3>3. b.finalized = l
        BY <2>4, <2>6, <3>2 DEF Smaller
      <3>4. BeforePad(b, f)
        <4>1. b.rx.latest = l
          BY <1>3, <2>5 DEF SameReply
        <4> QED
          BY <1>4, <2>4, <2>6, <2>7, <3>2, <3>3, <4>1 DEF BeforePad
      <3>5. SureTo(b) = t
        BY <2>4, <2>6 DEF SureTo
      <3> QED
        BY <1>3, <2>4, <2>5, <2>7, <3>1, <3>4, <3>5
    <2> QED
      BY <2>8, <2>9
  <1> QED
    BY <1>5, <1>6 DEF Standing

\* The pad of a frame is taken, and its sample waits for a body.
LEMMA NormalKeeps ==
    ASSUME NEW d, NEW p, NEW q, NEW s, NEW h, NEW f, Checking(d, p, q, s, h, f),
           ~d.active, NEW k, Standing(d, k), NEW n, NEW q2, Takes(k, f, q, n, q2)
    PROVE  /\ Core(n, p, q2, s, h) /\ SameRest(d, n) /\ n.stable = d.stable
           /\ ~n.active /\ Len(q2) = Len(q) + 1 /\ n.frame = f + 1
  <1>1. /\ d \in MuType /\ p \in State /\ q \in State /\ h \in Pads
        /\ \A g \in DOMAIN s : s[g] \in State
        /\ Order(d, p, q) /\ RxOK(d, h) /\ HeldOK(h)
        /\ FinOK(d, p) /\ RingOK(d, p) /\ TxOK(d, h) /\ f = d.frame
        /\ LocalAt(d, f + 1)
    BY CoreParts DEF Checking
  <1>2. /\ f \in Nat /\ f >= 1 /\ f = Known(p, q) /\ ~d.shouldLoad /\ Asked(d) = f
    BY FrameIsKnown
  <1>3. /\ k \in MuType /\ SameFrame(d, k) /\ SameRest(d, k) /\ SameLocal(d, k)
        /\ SameRoll(d, k) /\ SameRing(d, k) /\ SameReply(d, k)
        /\ k.stableFinalized = d.stableFinalized /\ k.stableFinalized < SureTo(k)
        /\ SamplesOK(k, p, q, h) /\ SavesOK(k, p, s) /\ BeforePad(k, f)
    BY StandingFacts
  <1>4. /\ k.frame = f /\ k.rx = d.rx /\ Shown(k.rx, h, k.stableFinalized)
    BY <1>1, <1>3 DEF SameFrame, SameReply, RxOK
  <1>5. /\ n \in MuType /\ SameButGuesses(k, n) /\ FrameIs(n, f + 1)
        /\ q2 \in State /\ Len(q2) = Len(q) + 1
        /\ SamplesOK(n, p, q2, h) /\ AfterPad(k, n, f) /\ SavesOK(n, p, s)
    <2>1. /\ k \in MuType /\ p \in State /\ q \in State /\ h \in Pads
          /\ f \in Nat /\ f = Known(p, q) /\ f >= 1 /\ k.frame = f
          /\ SamplesOK(k, p, q, h) /\ Shown(k.rx, h, k.stableFinalized) /\ HeldOK(h)
          /\ k.stableFinalized < SureTo(k) /\ BeforePad(k, f) /\ SavesOK(k, p, s)
      BY <1>1, <1>2, <1>3, <1>4
    <2> QED
      BY <2>1, PadTaken
  <1>6. /\ n.started = d.started /\ n.force = d.force /\ SameRest(d, n) /\ SameLocal(d, n)
        /\ n.active = d.active /\ n.shouldLoad = d.shouldLoad /\ n.stable = d.stable
        /\ n.ring = d.ring /\ n.ringIdx = d.ringIdx /\ n.ringLast = d.ringLast
        /\ n.rx = d.rx /\ n.tx = d.tx /\ n.stableFinalized = d.stableFinalized
        /\ n.frame = f + 1
    BY <1>3, <1>5 DEF SameButGuesses, SameRest, SameLocal, SameRoll, SameRing, SameReply,
                      FrameIs
  <1>7. ~n.active /\ ~n.shouldLoad /\ ~n.stable /\ Asked(n) = f + 1
    BY <1>1, <1>2, <1>6 DEF Order, Asked
  <1>8. Known(p, q2) = f + 1 /\ Len(q2) <= MaxQueue + 1 /\ f + 1 <= MaxFrame + 2
    <2>1. /\ Len(p) \in Nat /\ Len(q) \in Nat /\ Len(q) <= MaxQueue /\ f <= MaxFrame + 1
      BY <1>1, Numbers DEF Checking
    <2> QED
      BY <1>2, <1>5, <2>1, Sizes DEF Known
  <1>9. Order(n, p, q2)
    <2>1. n.started <=> Len(p) >= 1
      BY <1>1, <1>6 DEF Order
    <2>2. n.predicting => n.ss + Horizon >= f + 1
      <3> SUFFICES ASSUME n.predicting
                   PROVE  n.ss + Horizon >= f + 1
        OBVIOUS
      <3>1. n.finalized < n.ss /\ n.finalized + Horizon >= f
        BY <1>5 DEF AfterPad, SureTo
      <3>2. n.finalized \in Nat /\ n.ss \in Nat
        BY <1>5, MuFields
      <3> QED
        BY <1>2, <3>1, <3>2, Sizes
    <2>3. n.predicting => n.ss >= SyncFrame - Delay /\ n.ss + Len(n.guesses) = f + 1
      BY <1>5 DEF AfterPad
    <2>4. ~n.predicting => n.guesses = <<>>
      BY <1>5 DEF AfterPad
    <2>5. f + 1 >= 1 /\ f + 1 # 0
      BY <1>2
    <2> QED
      BY <1>6, <1>7, <1>8, <2>1, <2>2, <2>3, <2>4, <2>5 DEF Order
  <1>10. RxOK(n, h)
    <2>1. PICK l \in Nat, g \in Nat : l = d.rx.latest /\ g = Len(h)
      BY <1>1, Numbers
    <2>2. l + Horizon >= f /\ l <= g
      BY <1>1, <2>1 DEF Checking, RxOK, Shown
    <2>4. Shown(n.rx, h, n.stableFinalized)
      BY <1>1, <1>6 DEF RxOK
    <2>5. Asked(n) - 1 = f
      BY <1>2, <1>7
    <2>6. Len(h) + Horizon >= Asked(n) - 1
      BY <1>2, <2>1, <2>2, <2>5, Sizes
    <2> QED
      BY <1>7, <2>4, <2>6 DEF RxOK
  <1>11. FinOK(n, p)
    <2>1. n.finalized \in Nat
      BY <1>5, MuFields
    <2>2. /\ n.finalized < SureTo(n) /\ n.finalized + Horizon >= f
          /\ n.stableFinalized < SureTo(n)
          /\ ~n.predicting => n.finalized = f
      BY <1>5 DEF AfterPad
    <2>3. n.finalized + Horizon + 1 >= n.frame /\ (~n.predicting => n.finalized = n.frame - 1)
      BY <1>2, <1>6, <2>1, <2>2, Sizes
    <2>4. n.stableFinalized = 0 \/ n.stableFinalized < Len(p)
      BY <1>1, <1>6 DEF FinOK
    <2> QED
      BY <1>7, <2>2, <2>3, <2>4 DEF FinOK
  <1>12. RingOK(n, p)
    <2>1. d.ringLast < f /\ d.ringLast \in Nat
      BY <1>1, <1>2, MuFields DEF RingOK
    <2>2. d.ringLast < f + 1
      BY <1>2, <2>1
    <2> QED
      BY <1>1, <1>6, <1>7, <2>2 DEF RingOK, EntryOK, RingSlot
  <1>13. TxOK(n, h)
    BY <1>1, <1>6 DEF TxOK
  <1>14. LocalAt(n, Asked(n))
    BY <1>1, <1>6, <1>7 DEF LocalAt, SameLocal
  <1> QED
    BY <1>1, <1>5, <1>6, <1>7, <1>9, <1>10, <1>11, <1>12, <1>13, <1>14
    DEF Core, Body, CoreTypes

\* The guesses that are left do not fill the ring they are kept in.
LEMMA GuessesFit ==
    ASSUME NEW d, NEW p, NEW q, NEW s, NEW h, NEW f, Checking(d, p, q, s, h, f),
           ~d.active, d.predicting, NEW b, b = PassGuesses(d)
    PROVE  b.guesses = <<>> <=> Len(b.guesses) \in {0, Predictions}
  <1>1. /\ d \in MuType /\ p \in State /\ q \in State /\ h \in Pads
        /\ SamplesOK(d, p, q, h) /\ Order(d, p, q) /\ RxOK(d, h)
        /\ FinOK(d, p) /\ SavesOK(d, p, s) /\ ~d.shouldLoad
    BY CoreParts, FrameIsKnown DEF Checking
  <1>2. /\ d.ss >= SyncFrame - Delay /\ d.ss + Len(d.guesses) = Known(p, q)
        /\ d.ss + Horizon >= Known(p, q) /\ d.stableFinalized < d.ss
        /\ Shown(d.rx, h, d.stableFinalized)
    BY <1>1 DEF Order, FinOK, SureTo, RxOK
  <1>3. b \in MuType /\ b.ss >= d.ss /\ b.ss + Len(b.guesses) = Known(p, q)
    BY <1>1, <1>2, PassKeeps
  <1>4. PICK a \in Nat, t \in Nat, g \in Nat, k \in Nat :
            a = d.ss /\ t = b.ss /\ g = Len(b.guesses) /\ k = Known(p, q)
    BY <1>1, <1>3, MuFields, Numbers
  <1>5. g < Predictions
    <2>1. a + Horizon >= k /\ t >= a /\ t + g = k
      BY <1>2, <1>3, <1>4
    <2>2. g <= Horizon /\ Horizon \in Nat /\ Predictions \in Nat /\ Predictions > Horizon
      BY <2>1, Sizes DEF Predictions
    <2> QED
      BY <2>2
  <1>6. b.guesses \in Pads
    BY <1>3, MuFields
  <1> QED
    BY <1>4, <1>5, <1>6, Nothing, Sizes

LEMMA Checked ==
    ASSUME NEW d, NEW p, NEW q, NEW s, NEW h, NEW f, Checking(d, p, q, s, h, f),
           NEW n \in CheckPredictions(d, f)
    PROVE  \/ ~d.active /\ Standing(d, n) /\ n.active = FALSE
           \/ d.predicting /\ n = TriggerRollback(PassGuesses(d), f)
  <1>1. d \in MuType /\ Order(d, p, q) /\ (d.active => d.shouldLoad)
    BY CoreParts DEF Checking
  <1>2. d.active => d.predicting
    BY <1>1 DEF Order
  <1>3. PICK b : b = PassGuesses(d)
    OBVIOUS
  <1>4. b \in MuType /\ b.active = d.active
    BY <1>1, <1>3, PassFields DEF SameRoll
  <1>5. NotPredicting(b).active = d.active
    BY <1>4, KeepFields DEF SameRoll
  <1>6. d.active \in BOOLEAN
    BY <1>1, MuFields
  <1>7. CASE ~d.predicting
    <2>1. n = d
      BY <1>7 DEF CheckPredictions
    <2> QED
      BY <1>2, <1>6, <1>7, <2>1 DEF Standing
  <1>8. CASE d.predicting
    <2>1. CASE d.active \/ DiffersAt(d, Passed(d))
      BY <1>8, <2>1 DEF CheckPredictions
    <2>2. CASE ~d.active /\ ~DiffersAt(d, Passed(d))
      <3>1. PICK e : e = IF b.guesses = <<>> THEN NotPredicting(b) ELSE b
        OBVIOUS
      <3>4. b.guesses = <<>> <=> Len(b.guesses) \in {0, Predictions}
        BY <1>3, <1>8, <2>2, GuessesFit
      <3>5. /\ Len(b.guesses) \in {0, Predictions} => e = NotPredicting(b)
            /\ Len(b.guesses) \notin {0, Predictions} => e = b
        BY <3>1, <3>4
      <3>2. n = e \/ n = TriggerRollback(b, f)
        BY <1>3, <1>8, <2>2, <3>5 DEF CheckPredictions, NotPredicting
      <3>3. Standing(d, e) /\ e.active = FALSE
        BY <1>3, <1>4, <1>5, <1>6, <1>8, <2>2, <3>1 DEF Standing
      <3> QED
        BY <1>3, <1>8, <2>2, <3>2, <3>3
    <2> QED
      BY <2>1, <2>2
  <1> QED
    BY <1>7, <1>8

\* The guesses are compared with the local pads moved on by one frame.
LEMMA DelayKeeps ==
    ASSUME NEW m, NEW p, NEW q, NEW s, NEW h, Core(m, p, q, s, h),
           NEW f \in Nat, f = m.frame, m.active => m.shouldLoad /\ m.endFrame = Known(p, q),
           m.active => m.stableFinalized < m.ss,
           m.rx.latest <= f, m.rx.latest + Horizon >= f,
           Known(p, q) >= 1, f <= MaxFrame + 1, Len(q) <= MaxQueue,
           NEW d, d = DelayPad(m, f)
    PROVE  /\ Checking(d, p, q, s, h, f) /\ m.delayed[m.delayIdx] = Mine(f)
           /\ SameRest(m, d) /\ SameRoll(m, d) /\ SameReply(m, d) /\ SameFin(m, d)
           /\ SameGuesses(m, d)
  <1>1. /\ m \in MuType /\ p \in State /\ q \in State /\ h \in Pads
        /\ \A g \in DOMAIN s : s[g] \in State
        /\ SamplesOK(m, p, q, h) /\ Order(m, p, q) /\ RxOK(m, h) /\ HeldOK(h)
        /\ FinOK(m, p) /\ RingOK(m, p) /\ TxOK(m, h) /\ SavesOK(m, p, s)
        /\ LocalAt(m, Asked(m))
    BY CoreParts DEF Core
  <1>2. /\ d \in MuType /\ Delayed(m, d, f) /\ SameFrame(m, d) /\ SameFin(m, d)
        /\ SameGuesses(m, d) /\ SameRest(m, d) /\ SameRoll(m, d) /\ SameRing(m, d)
        /\ SameReply(m, d)
    BY <1>1, DelayFields
  <1>3. Asked(m) = f
    <2>1. m.active => m.frame = m.endFrame + 1
      BY <1>1 DEF Order
    <2> QED
      BY <2>1 DEF Asked
  <1>4. LocalAt(d, f + 1) /\ m.delayed[m.delayIdx] = Mine(f)
    <2>1. LocalAt(m, f)
      BY <1>1, <1>3
    <2> QED
      BY <1>1, <1>2, <2>1, LocalShift
  <1>5. /\ d.frame = m.frame /\ d.predicting = m.predicting /\ d.ss = m.ss
        /\ d.guesses = m.guesses /\ d.active = m.active /\ d.shouldLoad = m.shouldLoad
        /\ d.endFrame = m.endFrame /\ d.stable = m.stable /\ d.rx = m.rx /\ d.tx = m.tx
        /\ d.started = m.started /\ d.force = m.force
        /\ d.ring = m.ring /\ d.ringIdx = m.ringIdx /\ d.ringLast = m.ringLast
        /\ d.finalized = m.finalized /\ d.stableFinalized = m.stableFinalized
    BY <1>2 DEF SameFrame, SameGuesses, SameRest, SameRoll, SameRing, SameReply, SameFin
  <1>6. Asked(d) = Asked(m) /\ SureTo(d) = SureTo(m)
    BY <1>5 DEF Asked, SureTo
  <1>7. Body(d, p, q, s, h)
    <2>1. SamplesOK(d, p, q, h)
      BY <1>1, <1>2, <1>6, SamplesStay
    <2>2. Order(d, p, q)
      BY <1>1, <1>5, <1>6 DEF Order
    <2>3. RxOK(d, h) /\ TxOK(d, h)
      BY <1>1, <1>5, <1>6 DEF RxOK, TxOK
    <2>4. FinOK(d, p)
      BY <1>1, <1>5, <1>6 DEF FinOK
    <2>5. RingOK(d, p)
      BY <1>1, <1>5, <1>6 DEF RingOK, EntryOK, RingSlot
    <2>6. SavesOK(d, p, s)
      BY <1>1, <1>5 DEF SavesOK
    <2> QED
      BY <1>1, <1>2, <2>1, <2>2, <2>3, <2>4, <2>5, <2>6 DEF Body, CoreTypes
  <1>8. Checking(d, p, q, s, h, f)
    BY <1>4, <1>5, <1>7 DEF Checking
  <1> QED
    BY <1>2, <1>4, <1>8

-----------------------------------------------------------------------------
(* The calls to the host *)

\* What a call leaves.
AfterCall(m, p, q, c, s, h) ==
    /\ Core(c.mu, p, c.queue, s, h) /\ SameRest(m, c.mu) /\ c.mu.stable = m.stable
    /\ c.mu.active => c.mu.shouldLoad
    /\ Len(c.queue) >= Len(q)
    /\ Within(m) => Within(c.mu)

\* The frame is asked for, and the reply is not to skip it.
Leaves(n, f, q, c) ==
    c = IF n.active THEN [mu |-> n, queue |-> q]
        ELSE [mu |-> [LoadOpponent(n, f) EXCEPT !.frame = f + 1],
              queue |-> Append(q, Sample(f, Mine(f), TheirPad(n, f)))]

\* The guesses passed are of frames asked for.
LEMMA PassWithin ==
    ASSUME NEW d, NEW p, NEW q, NEW s, NEW h, NEW f, Checking(d, p, q, s, h, f),
           d.predicting, Within(d), NEW b, b = PassGuesses(d)
    PROVE  b \in MuType /\ Within(b)
  <1>1. /\ d \in MuType /\ p \in State /\ q \in State /\ h \in Pads /\ Order(d, p, q)
    BY CoreParts DEF Checking
  <1>2. PICK t \in Nat, g \in Nat, k \in Nat, i \in Nat :
            t = d.ss /\ g = Len(d.guesses) /\ k = Known(p, q) /\ i = Passed(d)
    <2>1. Len(d.guesses) \in Nat /\ Passed(d) \in 0 .. Len(d.guesses)
      BY <1>1, Numbers, PassedFacts
    <2>2. Passed(d) \in Nat
      BY <2>1
    <2> QED
      BY <1>1, <2>1, <2>2, MuFields, Numbers
  <1>3. t + g = k /\ i <= g
    <2>1. i \in 0 .. g
      BY <1>1, <1>2, PassedFacts
    <2> QED
      BY <1>1, <1>2, <2>1 DEF Order
  <1>4. k <= MaxFrame + 1
    <2>1. f \in Nat /\ f \in {k, k + 1} /\ f <= MaxFrame + 1
      BY <1>2, FrameIsKnown DEF Checking
    <2> QED
      BY <1>2, <2>1, Sizes
  <1>5. b \in MuType /\ b.ss = t + i /\ b.endFrame = d.endFrame
    BY <1>1, <1>2, PassFields DEF Passing, SameRoll
  <1>6. t + i <= MaxFrame + 1
    BY <1>2, <1>3, <1>4, Sizes
  <1> QED
    BY <1>5, <1>6 DEF Within

LEMMA FrameWithin ==
    ASSUME NEW d, NEW p, NEW q, NEW s, NEW h, NEW f, Checking(d, p, q, s, h, f),
           Within(d), NEW n \in CheckPredictions(d, f), NEW c, Leaves(n, f, q, c)
    PROVE  Within(c.mu)
  <1>1. d \in MuType /\ f \in Nat /\ f <= MaxFrame + 1
    BY CoreParts, FrameIsKnown DEF Checking
  <1>2. CASE ~d.active /\ Standing(d, n) /\ n.active = FALSE
    <2>1. n \in MuType /\ Within(n)
      <3>1. CASE ~d.predicting /\ n = d
        BY <1>1, <3>1
      <3>2. CASE d.predicting /\ n = PassGuesses(d)
        BY <3>2, PassWithin
      <3>3. CASE d.predicting /\ n = NotPredicting(PassGuesses(d))
        <4>1. PICK b : b = PassGuesses(d)
          OBVIOUS
        <4>2. b \in MuType /\ Within(b)
          BY <3>3, <4>1, PassWithin
        <4>3. n \in MuType /\ n.ss = b.ss /\ n.endFrame = b.endFrame
          BY <3>3, <4>1, <4>2, KeepFields DEF StopsPredicting, SameRoll
        <4> QED
          BY <4>2, <4>3 DEF Within
      <3> QED
        BY <1>2, <3>1, <3>2, <3>3 DEF Standing
    <2>2. PICK k : k = WithFrame(LoadOpponent(n, f), f + 1)
      OBVIOUS
    <2>3. c.mu = k
      BY <1>2, <2>2 DEF WithFrame, Leaves
    <2>4. k.ss \in {n.ss, f} /\ k.endFrame = n.endFrame
      <3>1. f + 1 \in Nat
        BY <1>1
      <3>2. SameButGuesses(n, k) /\ LoadedPad(n, f, k)
        BY <1>1, <2>1, <2>2, <3>1, LoadFields
      <3> QED
        BY <3>2 DEF SameButGuesses, LoadedPad, SameGuesses, SameRoll
    <2> QED
      BY <1>1, <2>1, <2>3, <2>4 DEF Within
  <1>3. CASE d.predicting /\ n = TriggerRollback(PassGuesses(d), f)
    <2>1. PICK b : b = PassGuesses(d)
      OBVIOUS
    <2>2. b \in MuType /\ Within(b)
      BY <1>3, <2>1, PassWithin
    <2>3. n.active /\ n.endFrame = f /\ n.ss = b.ss
      <3>1. n = TriggerRollback(b, f)
        BY <1>3, <2>1
      <3>2. Triggered(b, n, f) /\ SameGuesses(b, n)
        BY <1>1, <2>2, <3>1, TriggerFields
      <3> QED
        BY <3>2 DEF Triggered, SameGuesses
    <2>4. c.mu = n
      BY <2>3 DEF Leaves
    <2> QED
      BY <1>1, <2>2, <2>3, <2>4 DEF Within
  <1> QED
    BY <1>2, <1>3, Checked

LEMMA FrameKeeps ==
    ASSUME NEW m, NEW p, NEW q, NEW s, NEW h, NEW f, NEW d, Checking(d, p, q, s, h, f),
           SameRest(m, d), d.stable = m.stable, Within(m) => Within(d),
           NEW n \in CheckPredictions(d, f), NEW c, Leaves(n, f, q, c)
    PROVE  /\ AfterCall(m, p, q, c, s, h) /\ c.mu.frame = f + 1
           /\ c.mu.active => /\ c.queue = q /\ c.mu.endFrame = f /\ c.mu.rx = d.rx
                             /\ c.mu.stableFinalized = d.stableFinalized
                             /\ c.mu.stableFinalized < c.mu.ss
           /\ ~c.mu.active => Len(c.queue) = Len(q) + 1
  <1>1. /\ Within(m) => Within(c.mu)
        /\ Len(q) \in Nat /\ Len(q) <= Len(q) + 1
    <2>1. Len(q) \in Nat
      BY CoreParts DEF Checking, State
    <2> QED
      BY <2>1, FrameWithin
  <1>2. CASE ~d.active /\ Standing(d, n) /\ n.active = FALSE
    <2>1. PICK k, q2 : /\ k = WithFrame(LoadOpponent(n, f), f + 1)
                       /\ q2 = Append(q, Sample(f, Mine(f), TheirPad(n, f)))
      OBVIOUS
    <2>2. c.mu = k /\ c.queue = q2
      BY <1>2, <2>1 DEF WithFrame, Leaves
    <2>3. /\ Core(k, p, q2, s, h) /\ SameRest(d, k) /\ k.stable = d.stable
          /\ ~k.active /\ Len(q2) = Len(q) + 1 /\ k.frame = f + 1
      <3>1. Takes(n, f, q, k, q2)
        BY <2>1 DEF Takes
      <3> QED
        BY <1>2, <3>1, NormalKeeps
    <2>4. SameRest(m, k)
      BY <2>3 DEF SameRest
    <2> QED
      BY <1>1, <2>2, <2>3, <2>4 DEF AfterCall
  <1>3. CASE d.predicting /\ n = TriggerRollback(PassGuesses(d), f)
    <2>1. /\ Core(n, p, q, s, h) /\ SameRest(d, n) /\ n.stable = d.stable
          /\ n.active /\ n.shouldLoad /\ n.endFrame = f /\ n.frame = f + 1
          /\ n.rx = d.rx /\ n.stableFinalized = d.stableFinalized
          /\ n.stableFinalized < n.ss
      BY <1>3, TriggerKeeps
    <2>2. c.mu = n /\ c.queue = q
      BY <2>1 DEF Leaves
    <2>3. SameRest(m, n)
      BY <2>1 DEF SameRest
    <2> QED
      BY <1>1, <2>1, <2>2, <2>3 DEF AfterCall
  <1> QED
    BY <1>2, <1>3, Checked

LEMMA CallKeeps ==
    ASSUME NEW m, NEW p, NEW q, NEW s, NEW h, Core(m, p, q, s, h), MayCall(m, p, q, h),
           NEW more \in Arrivals(h), NEW h2, h2 = h \o more,
           NEW reply \in Replies(m.frame, h2, m.stableFinalized, m.disconnected),
           NEW c \in Renew(m, q, reply), ~c.mu.disconnected
    PROVE  /\ AfterCall(m, p, q, c, s, h2)
           /\ ~m.active /\ m.frame <= MaxFrame /\ Len(q) < MaxQueue
                  => MayCall(c.mu, p, c.queue, h2)
  <1>1. /\ m \in MuType /\ p \in State /\ q \in State /\ h \in Pads
        /\ Order(m, p, q) /\ RxOK(m, h) /\ HeldOK(h) /\ FinOK(m, p) /\ RingOK(m, p)
    BY CoreParts DEF Core
  <1>2. PICK f \in Nat, z \in Nat : f = m.frame /\ z = m.stableFinalized
    BY <1>1, MuFields
  <1>15. ~m.disconnected /\ reply.result # "disconnected"
    <2>1. KnowsGone(m)
      BY <1>1 DEF MuType, KnowsGone
    <2> QED
      BY <2>1, RenewStays
  <1>3. MorePads(h, h2) /\ h2 \in Pads
    BY <1>1, Arrived DEF MorePads
  <1>4. PICK rx : rx = ReplyOf(reply)
    OBVIOUS
  <1>5. /\ GoodReply(rx, h2, f, z) /\ [k \in DOMAIN NoReply |-> reply[k]] = rx
        /\ reply.result # "skip" => rx.latest + Horizon >= f
    BY <1>2, <1>3, <1>4, <1>15, ReplyFacts
  <1>6. PICK sent : sent = SentOf(m, reply)
    OBVIOUS
  <1>7. /\ sent \in MuType /\ Sent(m, sent, rx) /\ SameFrame(m, sent) /\ SameFin(m, sent)
        /\ SameGuesses(m, sent) /\ SameRest(m, sent) /\ SameLocal(m, sent)
        /\ SameRoll(m, sent) /\ SameRing(m, sent)
    <2>1. ChecksumOf(m) \in State
      <3>1. z \in Nat /\ z <= Len(p) /\ ChecksumOf(m) = Prefix(p, z)
        BY <1>1, <1>2, ChecksumIs DEF Prefix, MayCall
      <3> QED
        BY <1>1, <3>1, PrefixFacts
    <2>2. rx \in Reply
      BY <1>5 DEF GoodReply
    <2> QED
      BY <1>1, <1>4, <1>5, <1>6, <1>15, <2>1, <2>2, SentFields
  <1>8. Core(sent, p, q, s, h2)
    <2>1. GoodReply(rx, h2, m.frame, m.stableFinalized)
      BY <1>2, <1>5
    <2> QED
      BY <1>3, <1>7, <2>1, SentKeeps
  <1>9. /\ sent.rx = rx /\ sent.frame = f /\ sent.stableFinalized = z
        /\ sent.active = m.active /\ sent.shouldLoad = m.shouldLoad
        /\ sent.endFrame = m.endFrame /\ sent.stable = m.stable
    BY <1>2, <1>7 DEF Sent, SameFrame, SameFin, SameRoll
  <1>10. /\ Known(p, q) \in Nat /\ Len(q) \in Nat /\ Len(p) \in Nat
         /\ Known(p, q) = Len(p) + Len(q) /\ Known(p, q) >= 1
         /\ f <= MaxFrame + 1 /\ Len(q) <= MaxQueue
         /\ m.active => m.shouldLoad /\ m.endFrame = Known(p, q) /\ z < m.ss
    BY <1>1, <1>2, Numbers DEF MayCall
  <1>11. ~m.active => f = Known(p, q)
    BY <1>1, <1>2, <1>10 DEF Order
  <1>12. rx.latest <= f /\ rx.latest \in Nat /\ rx.latest <= Newest(Len(h2), z)
    <2>1. rx.latest = Smaller(Newest(Len(h2), z), f) /\ rx.latest <= f /\ rx \in Reply
      BY <1>5 DEF GoodReply
    <2>2. Newest(Len(h2), z) \in Nat
      <3>1. Len(h2) \in Nat
        BY <1>3 DEF Pads
      <3> QED
        BY <1>2, <3>1, NewestFacts
    <2>3. rx.latest \in Nat
      BY <2>1, ReplyFields
    <2> QED
      BY <2>1, <2>2, <2>3 DEF Smaller
  <1>13. CASE reply.result = "skip"
    <2>1. c = [mu |-> sent, queue |-> q]
      BY <1>6, <1>13 DEF Renew, SentOf
    <2>2. c.mu = sent /\ c.queue = q
      BY <2>1
    <2>3. AfterCall(m, p, q, c, s, h2)
      <3>1. Within(m) => Within(sent)
        BY <1>7, <1>9 DEF Within, SameGuesses
      <3> QED
        BY <1>7, <1>8, <1>9, <1>10, <2>2, <3>1 DEF AfterCall
    <2>4. ~m.active => MayCall(sent, p, q, h2)
      BY <1>9, <1>10 DEF MayCall
    <2> QED
      BY <2>2, <2>3, <2>4
  <1>14. CASE reply.result # "skip"
    <2>1. PICK d : d = DelayPad(sent, f)
      OBVIOUS
    <2>2. /\ Checking(d, p, q, s, h2, f) /\ sent.delayed[sent.delayIdx] = Mine(f)
          /\ SameRest(sent, d) /\ SameRoll(sent, d) /\ SameReply(sent, d) /\ SameFin(sent, d)
          /\ SameGuesses(sent, d)
      <3>1. /\ f = sent.frame /\ sent.rx.latest <= f /\ sent.rx.latest + Horizon >= f
            /\ sent.active => sent.shouldLoad /\ sent.endFrame = Known(p, q)
            /\ sent.active => sent.stableFinalized < sent.ss
        BY <1>5, <1>7, <1>9, <1>10, <1>12, <1>14, <1>15 DEF SameGuesses
      <3> QED
        BY <1>8, <1>10, <2>1, <3>1, DelayKeeps
    <2>3. m.delayed[m.delayIdx] = Mine(f)
      BY <1>7, <2>2 DEF SameLocal
    <2>4. PICK mine : mine = m.delayed[m.delayIdx]
      OBVIOUS
    <2>5. PICK n \in CheckPredictions(d, f) : Leaves(n, f, q, c)
      <3>1. PICK n \in CheckPredictions(d, f) :
                c = IF n.active THEN [mu |-> n, queue |-> q]
                    ELSE [mu |-> [LoadOpponent(n, f) EXCEPT !.frame = f + 1],
                          queue |-> Append(q, Sample(f, mine, TheirPad(n, f)))]
        BY <1>2, <1>6, <1>14, <2>1, <2>4 DEF Renew, SentOf
      <3> QED
        BY <2>3, <2>4, <3>1 DEF Leaves
    <2>6. /\ SameRest(m, d) /\ d.stable = m.stable /\ d.rx = rx /\ d.stableFinalized = z
      BY <1>7, <1>9, <2>2 DEF SameRest, SameRoll, SameReply, SameFin
    <2>7. /\ AfterCall(m, p, q, c, s, h2) /\ c.mu.frame = f + 1
          /\ c.mu.active => /\ c.queue = q /\ c.mu.endFrame = f /\ c.mu.rx = rx
                            /\ c.mu.stableFinalized = z
                            /\ c.mu.stableFinalized < c.mu.ss
          /\ ~c.mu.active => Len(c.queue) = Len(q) + 1
      <3>1. /\ Checking(d, p, q, s, h2, f) /\ SameRest(m, d) /\ d.stable = m.stable
            /\ Within(m) => Within(d)
        BY <1>7, <2>2, <2>6 DEF Within, SameGuesses, SameRoll
      <3>2. /\ AfterCall(m, p, q, c, s, h2) /\ c.mu.frame = f + 1
            /\ c.mu.active => /\ c.queue = q /\ c.mu.endFrame = f /\ c.mu.rx = d.rx
                              /\ c.mu.stableFinalized = d.stableFinalized
                              /\ c.mu.stableFinalized < c.mu.ss
            /\ ~c.mu.active => Len(c.queue) = Len(q) + 1
        BY <2>5, <3>1, FrameKeeps
      <3> QED
        BY <2>6, <3>2
    <2>8. ASSUME ~m.active, f <= MaxFrame, Len(q) < MaxQueue
          PROVE  MayCall(c.mu, p, c.queue, h2)
      <3>1. f + 1 <= MaxFrame + 1
        BY <2>8, Sizes
      <3>2. CASE c.mu.active
        <4>1. c.mu.shouldLoad
          BY <2>7, <3>2 DEF AfterCall
        <4> QED
          BY <1>10, <1>11, <1>12, <2>7, <2>8, <3>1, <3>2, <4>1 DEF MayCall
      <3>3. CASE ~c.mu.active
        <4>1. Known(p, c.queue) >= 1 /\ Len(c.queue) <= MaxQueue
          BY <1>10, <2>7, <2>8, <3>3, Sizes DEF Known
        <4> QED
          BY <2>7, <3>1, <3>3, <4>1 DEF MayCall
      <3> QED
        BY <3>2, <3>3
    <2> QED
      BY <1>2, <2>7, <2>8
  <1> QED
    BY <1>13, <1>14

LEMMA CalledKeeps ==
    ASSUME NEW m, NEW p, NEW q, NEW s, NEW h, Core(m, p, q, s, h), MayCall(m, p, q, h),
           NEW c \in Called(m, q, h),
           ~c.mu.disconnected
    PROVE  /\ AfterCall(m, p, q, c, s, c.held) /\ MorePads(h, c.held)
           /\ ~m.active /\ m.frame <= MaxFrame /\ Len(q) < MaxQueue
                  => MayCall(c.mu, p, c.queue, c.held)
  <1>0. ~m.disconnected
    <2>1. KnowsGone(m)
      BY CoreParts DEF Core, MuType, KnowsGone
    <2> QED
      BY <2>1, CalledStays
  <1>1. PICK more \in Arrivals(h) :
            \E reply \in Replies(m.frame, h \o more, m.stableFinalized, m.disconnected) :
                \E n \in Renew(m, q, reply) :
                    c = [mu |-> n.mu, queue |-> n.queue, held |-> h \o more,
                         again |-> reply.result = "advance"]
    BY <1>0 DEF Called
  <1>2. PICK h2 : h2 = h \o more
    OBVIOUS
  <1>3. PICK reply \in Replies(m.frame, h2, m.stableFinalized, m.disconnected) :
            \E n \in Renew(m, q, reply) :
                c = [mu |-> n.mu, queue |-> n.queue, held |-> h2,
                     again |-> reply.result = "advance"]
    BY <1>1, <1>2
  <1>4. PICK n \in Renew(m, q, reply) :
            c = [mu |-> n.mu, queue |-> n.queue, held |-> h2,
                 again |-> reply.result = "advance"]
    BY <1>3
  <1>5. c.mu = n.mu /\ c.queue = n.queue /\ c.held = h2
    BY <1>4
  <1>6. MorePads(h, h2)
    <2>1. h \in Pads /\ HeldOK(h)
      BY CoreParts DEF Core
    <2> QED
      BY <1>2, <2>1, Arrived
  <1>7. /\ AfterCall(m, p, q, n, s, h2)
        /\ ~m.active /\ m.frame <= MaxFrame /\ Len(q) < MaxQueue
               => MayCall(n.mu, p, n.queue, h2)
    BY <1>2, <1>5, CallKeeps
  <1> QED
    BY <1>5, <1>6, <1>7 DEF AfterCall

\* fn_800195FC() leaves the invariant as it was.
LEMMA FetchKeeps ==
    ASSUME NEW m, NEW p, NEW s, Core(m, p, queue, s, held), ~m.active,
           Known(p, queue) >= 1, m.frame <= MaxFrame, Len(queue) < MaxQueue,
           NEW c \in Fetched(m), ~c.mu.disconnected
    PROVE  AfterCall(m, p, queue, c, s, c.held) /\ MorePads(held, c.held)
  <1>1. MayCall(m, p, queue, held)
    <2>1. m.frame \in Nat /\ Len(queue) \in Nat
      <3>1. m \in MuType /\ p \in State /\ queue \in State /\ held \in Pads
        BY CoreParts DEF Core
      <3> QED
        BY <3>1, MuFields, Numbers
    <2> QED
      BY <2>1, Sizes DEF MayCall
  <1>2. PICK b \in Called(m, queue, held) :
            c \in IF b.again THEN Called(b.mu, b.queue, b.held) ELSE {b}
    BY DEF Fetched
  <1>6. ~b.mu.disconnected
    <2>1. KnowsGone(m)
      BY CoreParts DEF Core, MuType, KnowsGone
    <2> QED
      BY <1>2, <2>1, CalledStays
  <1>3. /\ AfterCall(m, p, queue, b, s, b.held) /\ MorePads(held, b.held)
        /\ MayCall(b.mu, p, b.queue, b.held)
    BY <1>1, <1>6, CalledKeeps
  <1>4. CASE c = b
    BY <1>3, <1>4
  <1>5. CASE c \in Called(b.mu, b.queue, b.held)
    <2>1. /\ Core(b.mu, p, b.queue, s, b.held) /\ SameRest(m, b.mu) /\ b.mu.stable = m.stable
          /\ Within(m) => Within(b.mu)
          /\ Len(b.queue) >= Len(queue)
      BY <1>3 DEF AfterCall
    <2>2. AfterCall(b.mu, p, b.queue, c, s, c.held) /\ MorePads(b.held, c.held)
      BY <1>3, <1>5, <2>1, CalledKeeps
    <2>5. Len(c.queue) >= Len(queue)
      <3>1. queue \in State /\ b.queue \in State /\ c.queue \in State
        BY <2>1, <2>2, CoreParts DEF Core, AfterCall
      <3>2. Len(queue) \in Nat /\ Len(b.queue) \in Nat /\ Len(c.queue) \in Nat
        BY <3>1 DEF State
      <3>3. Len(c.queue) >= Len(b.queue)
        BY <2>2 DEF AfterCall
      <3>4. Len(b.queue) >= Len(queue)
        BY <2>1
      <3> QED
        BY <3>2, <3>3, <3>4
    <2>3. AfterCall(m, p, queue, c, s, c.held)
      BY <2>1, <2>2, <2>5 DEF AfterCall, SameRest
    <2>4. MorePads(held, c.held)
      <3>1. /\ held \in Pads /\ b.held \in Pads /\ c.held \in Pads
            /\ Len(held) <= Len(b.held) /\ Len(b.held) <= Len(c.held)
        BY <1>3, <2>2, CoreParts DEF MorePads, Core
      <3>2. Len(held) \in Nat /\ Len(b.held) \in Nat /\ Len(c.held) \in Nat
        BY <3>1 DEF Pads
      <3>3. \A k \in 1 .. Len(held) : c.held[k] = held[k]
        <4>1. \A k \in 1 .. Len(held) : k \in 1 .. Len(b.held) /\ b.held[k] = held[k]
          BY <1>3, <3>1, <3>2 DEF MorePads
        <4> QED
          BY <2>2, <4>1 DEF MorePads
      <3> QED
        BY <2>2, <3>1, <3>2, <3>3 DEF MorePads
    <2> QED
      BY <2>3, <2>4
  <1> QED
    BY <1>2, <1>4, <1>5

-----------------------------------------------------------------------------
(* A frame is run again *)

\* What holds of the game in a rollback as it comes to frame Len(l), with no sample.
Rerun(k, l, sv, h) ==
    /\ CoreTypes(k, l, <<>>, sv, h)
    /\ k.active /\ ~k.shouldLoad /\ k.stable /\ k.started
    /\ k.frame = Len(l) /\ Len(l) >= 1 /\ Len(l) <= k.endFrame
    /\ k.endFrame <= Len(l) + Horizon + 1 /\ k.endFrame + 1 <= MaxFrame + 2
    /\ SamplesOK(k, l, <<>>, h) /\ BeforePad(k, Len(l)) /\ RxOK(k, h) /\ HeldOK(h)
    /\ k.stableFinalized <= Len(l)
    /\ k.predicting \/ k.rx.latest < Len(l) => k.finalized + Horizon >= k.endFrame
    /\ RingOK(k, l) /\ TxOK(k, h) /\ SavesOK(k, l, sv) /\ LocalAt(k, k.endFrame + 1)

\* The local pad of a frame that is run again is where the code looks for it.
LEMMA LocalThere ==
    ASSUME NEW k \in MuType, LocalAt(k, k.endFrame + 1), NEW f \in Nat, f >= 1,
           f <= k.endFrame, k.endFrame <= f + Horizon + 1
    PROVE  LocalAgain(k, f) = Mine(f)
  <1>1. PICK e \in Nat, x \in Nat, j \in Nat : /\ e = k.endFrame /\ x = k.localIdx
                                              /\ j = e - f + 1
    <2>1. k.endFrame \in Nat /\ k.localIdx \in Nat
      BY MuFields DEF LocalSlots
    <2>2. k.endFrame - f + 1 \in Nat
      BY <2>1
    <2> QED
      BY <2>1, <2>2
  <1>2. j \in 1 .. LocalInputs /\ j < e + 1 /\ e + 1 - j = f
    BY <1>1, Sizes
  <1>3. k.localInputs[Wrapped(x - j, LocalInputs)] = Mine(f)
    BY <1>1, <1>2 DEF LocalAt
  <1> QED
    BY <1>1, <1>3 DEF LocalAgain, Wrapped

LEMMA AgainKeeps ==
    ASSUME NEW k, NEW l, NEW sv, NEW h, Rerun(k, l, sv, h),
           NEW r, r = RenewAgain(k, <<>>)
    PROVE  /\ Core(r.mu, l, r.queue, sv, h) /\ SameRest(k, r.mu) /\ SameRoll(k, r.mu)
           /\ Len(r.queue) = 1 /\ (Within(k) => Within(r.mu))
  <1>1. /\ k \in MuType /\ l \in State /\ <<>> \in State /\ h \in Pads
        /\ \A g \in DOMAIN sv : sv[g] \in State
        /\ SamplesOK(k, l, <<>>, h) /\ RxOK(k, h) /\ HeldOK(h)
        /\ RingOK(k, l) /\ TxOK(k, h) /\ SavesOK(k, l, sv) /\ LocalAt(k, k.endFrame + 1)
    BY DEF Rerun, CoreTypes
  <1>2. PICK f \in Nat, e \in Nat, z \in Nat : /\ f = Len(l) /\ e = k.endFrame
                                              /\ z = k.stableFinalized
    BY <1>1, MuFields, Numbers
  <1>3. /\ k.frame = f /\ f >= 1 /\ f <= e /\ e <= f + Horizon + 1 /\ e + 1 <= MaxFrame + 2
        /\ k.active /\ ~k.shouldLoad /\ k.stable /\ k.started
    BY <1>2 DEF Rerun
  <1>4. Known(l, <<>>) = f
    BY <1>2 DEF Known
  <1>5. PICK n, q2 : Takes(k, f, <<>>, n, q2)
    BY DEF Takes
  <1>6. r.mu = n /\ r.queue = q2
    <2>1. LocalAgain(k, f) = Mine(f)
      BY <1>1, <1>2, <1>3, LocalThere
    <2>2. r = [mu |-> [LoadOpponent(k, f) EXCEPT !.frame = f + 1],
               queue |-> Append(<<>>, Sample(f, LocalAgain(k, f), TheirPad(k, f)))]
      <3>1. ~(k.frame > k.endFrame)
        BY <1>2, <1>3
      <3> QED
        BY <1>3, <3>1 DEF RenewAgain
    <2> QED
      BY <1>5, <2>1, <2>2 DEF Takes, WithFrame
  <1>7. /\ n \in MuType /\ SameButGuesses(k, n) /\ FrameIs(n, f + 1)
        /\ q2 \in State /\ Len(q2) = Len(<<>>) + 1
        /\ SamplesOK(n, l, q2, h) /\ AfterPad(k, n, f) /\ SavesOK(n, l, sv)
    <2>1. /\ f = Known(l, <<>>) /\ f >= 1 /\ k.frame = f
          /\ Shown(k.rx, h, k.stableFinalized)
          /\ BeforePad(k, f)
      BY <1>1, <1>2, <1>3, <1>4 DEF Rerun, RxOK
    <2> QED
      BY <1>1, <1>5, <2>1, PadTaken
  <1>8. /\ n.started = k.started /\ n.force = k.force /\ SameRest(k, n) /\ SameLocal(k, n)
        /\ SameRoll(k, n)
        /\ n.active = k.active /\ n.shouldLoad = k.shouldLoad /\ n.stable = k.stable
        /\ n.endFrame = e
        /\ n.ring = k.ring /\ n.ringIdx = k.ringIdx /\ n.ringLast = k.ringLast
        /\ n.rx = k.rx /\ n.tx = k.tx /\ n.stableFinalized = z
        /\ n.frame = f + 1
    BY <1>2, <1>7 DEF SameButGuesses, SameRest, SameLocal, SameRoll, SameRing, SameReply,
                      FrameIs
  <1>9. Asked(n) = e + 1 /\ Asked(k) = e + 1 /\ Known(l, q2) = f + 1 /\ Len(q2) = 1
    BY <1>2, <1>3, <1>7, <1>8 DEF Asked, Known
  <1>10. /\ n.finalized \in Nat /\ n.ss \in Nat /\ n.finalized < SureTo(n)
         /\ n.finalized + Horizon >= f /\ z < SureTo(n)
         /\ n.predicting => /\ n.finalized = k.finalized
                            /\ n.ss >= SyncFrame - Delay /\ n.ss + Len(n.guesses) = f + 1
                            /\ n.rx.latest < n.ss
         /\ ~n.predicting => n.finalized = f /\ n.guesses = <<>>
    BY <1>7, <1>8, MuFields DEF AfterPad
  <1>11. Order(n, l, q2)
    <2>1. n.predicting => n.ss + Horizon >= f + 1
      <3>1. n.predicting => n.finalized < n.ss
        BY <1>10 DEF SureTo
      <3>2. n.finalized \in Nat /\ n.ss \in Nat /\ n.finalized + Horizon >= f
        BY <1>10
      <3> QED
        BY <1>2, <3>1, <3>2, Sizes
    <2>2. n.started /\ Len(l) >= 1 /\ f + 1 >= 1
      BY <1>2, <1>3, <1>8
    <2>3. f + 1 <= e + 1 /\ e <= f + 1 + Horizon + 1 /\ 1 <= MaxQueue + 1
      BY <1>3, Sizes
    <2> QED
      BY <1>3, <1>8, <1>9, <1>10, <2>1, <2>2, <2>3 DEF Order
  <1>12. RxOK(n, h)
    BY <1>1, <1>2, <1>8, <1>9 DEF RxOK
  <1>13. FinOK(n, l)
    <2>1. z < Len(l) \/ z = Len(l)
      BY <1>2 DEF Rerun
    <2>2. n.finalized + Horizon + 1 >= n.frame /\ (~n.predicting => n.finalized = n.frame - 1)
      BY <1>2, <1>8, <1>10, Sizes
    <2>3. ASSUME n.predicting
          PROVE  n.rx.latest < n.ss /\ n.finalized + Horizon >= e
      <3>1. k.predicting \/ k.rx.latest < f
        BY <1>7, <2>3 DEF AfterPad
      <3> QED
        BY <1>2, <1>10, <2>3, <3>1 DEF Rerun
    <2> QED
      BY <1>3, <1>8, <1>10, <2>1, <2>2, <2>3 DEF FinOK
  <1>14. RingOK(n, l)
    BY <1>1, <1>8, <1>9, <1>2 DEF RingOK, EntryOK, RingSlot
  <1>15. TxOK(n, h)
    BY <1>1, <1>8 DEF TxOK
  <1>16. LocalAt(n, Asked(n))
    BY <1>1, <1>2, <1>8, <1>9 DEF LocalAt, SameLocal
  <1>17. CoreTypes(n, l, q2, sv, h)
    BY <1>1, <1>7 DEF CoreTypes
  <1>18. Within(k) => Within(n)
    <2>1. n.ss \in {k.ss, f}
      <3>1. n = WithFrame(LoadOpponent(k, f), f + 1) /\ f + 1 \in Nat
        BY <1>5 DEF Takes
      <3>2. LoadedPad(k, f, n)
        BY <1>1, <3>1, LoadFields
      <3> QED
        BY <3>2 DEF LoadedPad, SameGuesses
    <2>2. f <= MaxFrame + 1
      BY <1>3, Sizes
    <2> QED
      BY <1>2, <1>8, <2>1, <2>2 DEF Within
  <1> QED
    BY <1>1, <1>6, <1>7, <1>8, <1>9, <1>11, <1>12, <1>13, <1>14, <1>15, <1>16, <1>17,
       <1>18 DEF Core, Body

\* A rollback that has gone back goes on with the next frame.
LEMMA GoesOn ==
    ASSUME NEW m, NEW p, NEW s, NEW h, Core(m, p, <<>>, s, h),
           m.active, ~m.shouldLoad, m.frame <= m.endFrame
    PROVE  Rerun(m, p, s, h)
  <1>1. /\ m \in MuType /\ p \in State /\ <<>> \in State /\ h \in Pads
        /\ CoreTypes(m, p, <<>>, s, h)
        /\ SamplesOK(m, p, <<>>, h) /\ Order(m, p, <<>>) /\ RxOK(m, h) /\ HeldOK(h)
        /\ FinOK(m, p) /\ RingOK(m, p) /\ TxOK(m, h) /\ SavesOK(m, p, s)
        /\ LocalAt(m, Asked(m))
    BY CoreParts DEF Core, Body
  <1>2. PICK f \in Nat, e \in Nat, l \in Nat, x \in Nat, t \in Nat, z \in Nat :
            /\ f = Len(p) /\ e = m.endFrame /\ l = m.rx.latest /\ x = m.finalized /\ t = m.ss
            /\ z = m.stableFinalized
    BY <1>1, MuFields, Numbers
  <1>3. Known(p, <<>>) = f /\ Asked(m) = e + 1
    BY <1>2 DEF Known, Asked
  <1>4. /\ m.stable /\ m.frame = f /\ f >= 1 /\ f <= e /\ e <= f + Horizon + 1
        /\ e + 1 <= MaxFrame + 2
        /\ m.predicting => t >= SyncFrame - Delay /\ t + Len(m.guesses) = f
        /\ ~m.predicting => m.guesses = <<>>
    BY <1>1, <1>2, <1>3 DEF Order
  <1>5. m.started
    BY <1>1, <1>2, <1>4 DEF Order
  <1>6. l + Horizon >= e
    BY <1>1, <1>2 DEF RxOK
  <1>7. /\ m.predicting => x < t /\ l < t /\ x + Horizon >= e /\ z < t
        /\ ~m.predicting => x = f - 1 /\ z < f
    BY <1>1, <1>2, <1>4 DEF FinOK, SureTo
  <1>11. z <= f
    <2>1. CASE m.predicting
      <3>1. z < t /\ t + Len(m.guesses) = f /\ Len(m.guesses) \in Nat
        BY <1>1, <1>4, <1>7, <2>1, Numbers
      <3> QED
        BY <1>2, <3>1
    <2>2. CASE ~m.predicting
      BY <1>2, <1>7, <2>2
    <2> QED
      BY <2>1, <2>2
  <1>8. l < f /\ ~m.predicting => x + Horizon >= e
    <2> SUFFICES ASSUME l < f, ~m.predicting
                 PROVE  x + Horizon >= e
      OBVIOUS
    <2>1. x = f - 1
      BY <1>7
    <2>2. l \in Nat /\ f \in Nat /\ e \in Nat
      BY <1>2
    <2> QED
      BY <1>6, <2>1, <2>2, HorizonNat
  <1>9. BeforePad(m, f)
    <2>1. ASSUME m.predicting
          PROVE  x + Horizon >= f
      <3>1. x + Horizon >= e /\ f <= e
        BY <1>4, <1>7, <2>1
      <3> QED
        BY <3>1, HorizonNat
    <2>2. ASSUME ~m.predicting
          PROVE  x < f /\ x + Horizon >= f
      <3>1. x = f - 1
        BY <1>7, <2>2
      <3> QED
        BY <3>1, HorizonNat
    <2> QED
      BY <1>2, <1>4, <1>7, <1>11, <2>1, <2>2 DEF BeforePad
  <1>10. m.predicting \/ l < f => x + Horizon >= e
    BY <1>7, <1>8
  <1> QED
    BY <1>1, <1>2, <1>3, <1>4, <1>5, <1>7, <1>9, <1>10, <1>11 DEF Rerun

\* A rollback goes back to the frame of the first guess.
LEMMA ComesBack ==
    ASSUME NEW m, NEW p, NEW q, NEW s, NEW h, Core(m, p, q, s, h),
           m.active, m.shouldLoad, m.stable, m.ss <= Len(p),
           NEW k, k = ToGoBack(m), NEW l, l = Prefix(p, m.ss), NEW sv,
           sv = <<>> \/ (sv = s /\ Len(p) = m.ss)
    PROVE  Rerun(k, l, sv, h)
  <1>1. /\ m \in MuType /\ p \in State /\ q \in State /\ h \in Pads
        /\ \A g \in DOMAIN s : s[g] \in State
        /\ SamplesOK(m, p, q, h) /\ Order(m, p, q) /\ RxOK(m, h) /\ HeldOK(h)
        /\ FinOK(m, p) /\ RingOK(m, p) /\ TxOK(m, h) /\ SavesOK(m, p, s)
        /\ LocalAt(m, Asked(m))
    BY CoreParts DEF Core
  <1>2. PICK t \in Nat, e \in Nat, c \in Nat, x \in Nat, n \in Nat :
            /\ t = m.ss /\ e = m.endFrame /\ c = m.rx.latest /\ x = m.finalized
            /\ n = Known(p, q)
    BY <1>1, MuFields, Numbers
  <1>3. l \in State /\ Len(l) = t /\ \A i \in 1 .. t : l[i] = p[i]
    BY <1>1, <1>2, PrefixFacts
  <1>4. /\ k \in MuType /\ GoneBack(m, k) /\ FrameIs(k, m.ss) /\ SameFin(m, k)
        /\ SameRest(m, k) /\ SameLocal(m, k) /\ SameRing(m, k) /\ SameReply(m, k)
    BY <1>1, BackFields
  <1>5. /\ k.predicting = FALSE /\ k.guesses = <<>> /\ k.active /\ k.shouldLoad = FALSE
        /\ k.stable /\ k.endFrame = e /\ k.frame = t /\ k.started = m.started
        /\ k.ring = m.ring /\ k.ringIdx = m.ringIdx /\ k.ringLast = m.ringLast
        /\ k.rx = m.rx /\ k.tx = m.tx /\ k.finalized = x
        /\ k.stableFinalized = m.stableFinalized
    BY <1>2, <1>4 DEF GoneBack, FrameIs, SameFin, SameRest, SameRing, SameReply
  <1>6. /\ m.predicting /\ e \in {n, n + 1} /\ e + 1 <= MaxFrame + 2
        /\ t + Horizon >= n /\ t <= n
        /\ t >= 1
    <2>1. /\ m.predicting /\ e \in {n, n + 1} /\ e + 1 <= MaxFrame + 2
          /\ t >= SyncFrame - Delay /\ t + Len(m.guesses) = n /\ t + Horizon >= n
      BY <1>1, <1>2 DEF Order, Asked
    <2>2. Len(m.guesses) \in Nat
      BY <1>1, Numbers
    <2>3. SyncFrame - Delay >= 1 /\ SyncFrame - Delay \in Nat
      BY Sizes
    <2>4. t <= n /\ t >= 1
      <3>1. t \in Nat /\ n \in Nat
        BY <1>2
      <3>2. t >= SyncFrame - Delay /\ t + Len(m.guesses) = n
        BY <2>1
      <3> QED
        BY <2>2, <2>3, <3>1, <3>2
    <2> QED
      BY <2>1, <2>4
  <1>7. t <= e /\ e <= t + Horizon + 1
    <2>1. t \in Nat /\ n \in Nat /\ (e = n \/ e = n + 1)
      BY <1>2, <1>6
    <2>2. t + Horizon >= n /\ t <= n
      BY <1>6
    <2> QED
      BY <2>1, <2>2, HorizonNat
  <1>8. SureTo(k) = t /\ SureTo(m) = t /\ Asked(k) = e + 1 /\ Asked(m) = e + 1
    BY <1>2, <1>5, <1>6 DEF SureTo, Asked
  <1>9. /\ m.stableFinalized <= t /\ (c < t => m.stableFinalized < t) /\ x <= t /\ x <= c
        /\ x + Horizon + 1 >= e /\ (c < t => x + Horizon >= e)
    BY <1>1, <1>2, <1>8 DEF FinOK
  <1>10. m.started
    <2>1. Len(p) >= 1
      BY <1>1, <1>2, <1>6, Numbers
    <2> QED
      BY <1>1, <2>1 DEF Order
  <1>11. SamplesOK(k, l, <<>>, h)
    <2> SUFFICES ASSUME NEW i \in 1 .. t
                 PROVE  SampleOK(k, h, l[i], i - 1)
      BY <1>3 DEF SamplesOK
    <2>1. i \in 1 .. Len(p)
      <3>1. Len(p) \in Nat /\ t <= Len(p)
        BY <1>1, <1>2, Numbers
      <3> QED
        BY <3>1
    <2>2. SampleOK(m, h, p[i], i - 1)
      BY <1>1, <2>1 DEF SamplesOK
    <2> QED
      BY <1>3, <1>5, <1>8, <2>2 DEF SampleOK
  <1>12. BeforePad(k, t)
    <2>1. ASSUME c < t
          PROVE  x < t /\ x + Horizon >= t
      <3>1. t <= e /\ x <= c /\ x + Horizon >= e
        BY <1>7, <1>9, <2>1
      <3> QED
        BY <2>1, <3>1, Sizes
    <2> QED
      BY <1>2, <1>5, <1>9, <2>1 DEF BeforePad
  <1>13. RxOK(k, h)
    BY <1>1, <1>2, <1>5, <1>8 DEF RxOK
  <1>14. RingOK(k, l)
    <2>1. t <= Len(p) /\ Len(p) \in Nat /\ Len(p) <= m.ringLast + 1 /\ m.ringLast \in Nat
      BY <1>1, <1>2, MuFields, Numbers DEF RingOK
    <2>2. ASSUME NEW i \in RingSlots
          PROVE  EntryOK(k, l, i)
      <3>1. EntryOK(m, p, i)
        BY <1>1 DEF RingOK
      <3>2. PICK g \in Nat : g = m.ring[i].frame
        BY <1>1, MuFields, EntryFields
      <3>3. g < t \/ g = 0 => m.ring[i].checksum = SubSeq(l, 1, g)
        <4> SUFFICES ASSUME g < t \/ g = 0
                     PROVE  m.ring[i].checksum = SubSeq(l, 1, g)
          OBVIOUS
        <4>1. m.ring[i].checksum = SubSeq(p, 1, g) /\ g <= t
          BY <1>2, <2>1, <3>1, <3>2 DEF EntryOK
        <4>2. SubSeq(l, 1, g) = SubSeq(p, 1, g)
          BY <1>1, <1>2, <1>3, <2>1, <4>1 DEF Prefix, State
        <4> QED
          BY <4>1, <4>2
      <3> QED
        BY <1>3, <1>5, <3>1, <3>2, <3>3 DEF EntryOK, RingSlot
    <2>3. t <= k.ringLast + 1
      BY <1>2, <1>5, <2>1
    <2> QED
      BY <1>1, <1>3, <1>5, <1>8, <2>2, <2>3 DEF RingOK, RingSlot
  <1>15. TxOK(k, h)
    BY <1>1, <1>5 DEF TxOK
  <1>16. SavesOK(k, l, sv)
    <2>1. CASE sv = <<>>
      <3>1. DOMAIN sv = {}
        BY <2>1
      <3>2. Cardinality(DOMAIN sv) = 0
        BY <3>1, FS_EmptySet
      <3> QED
        BY <1>5, <3>1, <3>2, Sizes DEF SavesOK
    <2>2. CASE sv = s /\ Len(p) = m.ss
      BY <1>1, <1>2, <1>3, <1>5, <2>2 DEF SavesOK
    <2> QED
      BY <2>1, <2>2
  <1>17. LocalAt(k, k.endFrame + 1)
    BY <1>1, <1>4, <1>5, <1>8 DEF LocalAt, SameLocal
  <1>18. CoreTypes(k, l, <<>>, sv, h)
    <2>1. <<>> \in State
      BY DEF State
    <2>2. \A g \in DOMAIN sv : sv[g] \in State
      BY <1>1
    <2> QED
      BY <1>1, <1>3, <1>4, <2>1, <2>2 DEF CoreTypes
  <1> QED
    BY <1>1, <1>2, <1>3, <1>5, <1>6, <1>7, <1>8, <1>9, <1>10, <1>11, <1>12, <1>13, <1>14,
       <1>15, <1>16, <1>17, <1>18 DEF Rerun

-----------------------------------------------------------------------------
(* A body *)

\* A state is kept for frame f, and for every frame since b, as before.
Keeps(sv, sv2, f, st, b) ==
    /\ DOMAIN sv2 \subseteq 0 .. f /\ Cardinality(DOMAIN sv2) <= Slots
    /\ f \in DOMAIN sv2 /\ sv2[f] = st
    /\ \A g \in DOMAIN sv2 : g # f => g \in DOMAIN sv /\ sv2[g] = sv[g]
    /\ \A g \in b .. f - 1 : g \in DOMAIN sv2

LEMMA CaptureFacts ==
    ASSUME NEW sv, NEW f \in Nat, DOMAIN sv \subseteq 0 .. f - 1,
           Cardinality(DOMAIN sv) <= Slots, NEW st, NEW b \in Nat, b + Horizon >= f + 1,
           \A g \in b .. f - 1 : g \in DOMAIN sv, NEW sv2, sv2 = Capture(sv, f, st)
    PROVE  Keeps(sv, sv2, f, st, b)
  <1>1. PICK D, O : D = DOMAIN sv /\ O = {g \in D : \A x \in D : g <= x}
    OBVIOUS
  <1>2. /\ IsFiniteSet(D) /\ Cardinality(D) \in Nat /\ Cardinality(D) <= Slots
        /\ D \in SUBSET Nat /\ D \subseteq 0 .. f - 1 /\ f \notin D
    <2>1. D \subseteq 0 .. f - 1
      BY <1>1
    <2>2. IsFiniteSet(0 .. f - 1)
      BY FS_Interval
    <2>3. IsFiniteSet(D)
      BY <2>1, <2>2, FS_Subset
    <2>4. Cardinality(D) \in Nat
      BY <2>3, FS_CardinalityType
    <2> QED
      BY <1>1, <2>1, <2>3, <2>4
  <1>3. PICK T : T = IF f \in D \/ Cardinality(D) < Slots THEN D ELSE D \ O
    OBVIOUS
  <1>4. sv2 = [g \in T \cup {f} |-> IF g = f THEN st ELSE sv[g]]
    BY <1>1, <1>3 DEF Capture
  <1>5. /\ T \subseteq D /\ DOMAIN sv2 = T \cup {f} /\ sv2[f] = st
        /\ \A g \in DOMAIN sv2 : g # f => g \in DOMAIN sv /\ sv2[g] = sv[g]
    BY <1>1, <1>3, <1>4
  <1>6. DOMAIN sv2 \subseteq 0 .. f
    <2>1. T \subseteq 0 .. f
      BY <1>2, <1>5
    <2> QED
      BY <1>5, <2>1
  <1>7. CASE Cardinality(D) < Slots
    <2>1. T = D
      BY <1>3, <1>7
    <2>2. Cardinality(D \cup {f}) = Cardinality(D) + 1
      BY <1>2, FS_AddElement
    <2>3. Cardinality(DOMAIN sv2) <= Slots
      BY <1>2, <1>5, <1>7, <2>1, <2>2, Sizes
    <2> QED
      BY <1>1, <1>5, <1>6, <2>1, <2>3 DEF Keeps
  <1>8. CASE ~(Cardinality(D) < Slots)
    <2>1. Cardinality(D) = Slots /\ Cardinality(D) = Horizon /\ Horizon >= 2
      BY <1>2, <1>8, Sizes
    <2>2. D # {}
      BY <2>1, FS_EmptySet
    <2>3. PICK o \in D : \A x \in D : o <= x
      BY <1>2, <2>2, Least
    <2>4. O = {o}
      <3>1. \A g \in O : g = o
        BY <1>1, <1>2, <2>3
      <3>2. o \in O
        BY <1>1, <2>3
      <3> QED
        BY <3>1, <3>2
    <2>5. T = D \ {o}
      BY <1>2, <1>3, <1>8, <2>4
    <2>6. Cardinality(DOMAIN sv2) <= Slots
      <3>1. IsFiniteSet(D \ {o}) /\ Cardinality(D \ {o}) = Cardinality(D) - 1
        BY <1>2, FS_RemoveElement
      <3>2. f \notin D \ {o}
        BY <1>2
      <3>3. Cardinality((D \ {o}) \cup {f}) = Cardinality(D \ {o}) + 1
        BY <3>1, <3>2, FS_AddElement
      <3>4. Cardinality(DOMAIN sv2) = Cardinality(D)
        BY <1>2, <1>5, <2>5, <3>1, <3>3
      <3> QED
        BY <1>2, <3>4
    <2>7. ASSUME NEW g \in b .. f - 1
          PROVE  g # o
      <3>1. SUFFICES ASSUME g = o
                     PROVE  FALSE
        OBVIOUS
      <3>2. g \in Int /\ f - 1 \in Int
        OBVIOUS
      <3>3. D \subseteq g .. f - 1
        BY <1>2, <2>3, <3>1
      <3>4. /\ IsFiniteSet(g .. f - 1) /\ Cardinality(g .. f - 1) = f - g
        <4>1. ~(g > f - 1) /\ (f - 1) - g + 1 = f - g
          OBVIOUS
        <4> QED
          BY <3>2, <4>1, FS_Interval
      <3>5. Cardinality(D) <= f - g
        BY <3>3, <3>4, FS_Subset
      <3>6. f - g < Horizon
        BY Sizes
      <3> QED
        BY <2>1, <3>2, <3>5, <3>6
    <2>8. \A g \in b .. f - 1 : g \in DOMAIN sv2
      BY <1>1, <1>5, <2>5, <2>7
    <2> QED
      BY <1>5, <1>6, <2>6, <2>8 DEF Keeps
  <1> QED
    BY <1>7, <1>8

\* What the ring of checksums holds after a body.
RingIs(m, p) ==
    /\ \A i \in RingSlots : EntryOK(m, p, i)
    /\ \A g \in 0 .. m.ringLast :
          g > m.ringLast - Checksums => m.ring[RingSlot(m, g)].frame = g

\* The slots of the frames stay where they are.
Moves(x, y, f, c, x2, y2) ==
    /\ c \in Nat \ {0} /\ x \in 0 .. c - 1 /\ y \in Nat /\ f \in Nat /\ f <= y + 1
    /\ x2 = (IF f > y THEN After(x, c) ELSE x) /\ y2 = (IF y < f THEN f ELSE y)
SlotOf(x, y, g, c) == (x + g - (y + 1)) % c

LEMMA SlotStays ==
    ASSUME NEW c, NEW x, NEW y, NEW f, NEW x2, NEW y2, Moves(x, y, f, c, x2, y2), NEW g \in Nat
    PROVE  SlotOf(x2, y2, g, c) = SlotOf(x, y, g, c)
  <1>1. c \in Nat \ {0} /\ x \in 0 .. c - 1 /\ y \in Nat /\ f \in Nat /\ f <= y + 1
    BY DEF Moves
  <1>2. CASE f <= y
    BY <1>1, <1>2 DEF Moves
  <1>3. CASE f > y
    <2>1. f = y + 1 /\ y2 = y + 1
      BY <1>1, <1>3 DEF Moves
    <2>2. x2 = IF x + 1 = c THEN 0 ELSE x + 1
      BY <1>1, <1>3, OneOn DEF Moves
    <2>3. PICK u \in Int, v \in Int : u = x + g - (y + 1) /\ v = x2 + g - (y2 + 1)
      BY <1>1, <2>1, <2>2
    <2>4. v = u \/ v + c = u
      BY <1>1, <2>1, <2>2, <2>3
    <2>5. (v + c) % c = v % c
      BY <1>1, <2>3, Around
    <2> QED
      BY <2>3, <2>4, <2>5 DEF SlotOf
  <1> QED
    BY <1>1, <1>2, <1>3

LEMMA SlotsApart ==
    ASSUME NEW c \in Nat \ {0}, NEW x \in Int, NEW y \in Int, NEW f \in Int, NEW g \in Int,
           g - f < c, f - g < c, SlotOf(x, y, g, c) = SlotOf(x, y, f, c)
    PROVE  g = f
  <1>1. PICK u \in Int, v \in Int : u = x + g - (y + 1) /\ v = x + f - (y + 1)
    OBVIOUS
  <1>2. u % c = v % c /\ u - v < c /\ v - u < c
    BY <1>1 DEF SlotOf
  <1>3. u = v
    BY <1>2, Apart
  <1> QED
    BY <1>1, <1>3

\* Frame f is at most one after those in the ring, and not one whose place is taken.
Fits(f, m) == f <= m.ringLast + 1 /\ f > m.ringLast - Checksums

OneMore(l, p2, f) == Len(l) = f /\ Len(p2) = f + 1 /\ l = Prefix(p2, f)

LEMMA RingKeeps ==
    ASSUME NEW r \in MuType, NEW l \in State, NEW f \in Nat, RingIs(r, l),
           Fits(f, r),
           NEW n \in MuType, Written(r, n, f, l),
           NEW p2 \in State, OneMore(l, p2, f)
    PROVE  RingIs(n, p2)
  <1>1. PICK x \in Nat, y \in Nat, x2 \in Nat, y2 \in Nat, c \in Nat :
            /\ x = r.ringIdx /\ y = r.ringLast /\ x2 = n.ringIdx /\ y2 = n.ringLast
            /\ c = Checksums
    <2>1. \A m \in MuType : m.ringIdx \in Nat /\ m.ringLast \in Nat
      BY MuFields DEF RingSlots
    <2>2. Checksums \in Nat
      BY Sizes
    <2> QED
      BY <2>1, <2>2
  <1>2. /\ x \in 0 .. c - 1 /\ c \in Nat \ {0} /\ f <= y + 1 /\ f > y - c
        /\ y \in Nat /\ y2 \in Nat /\ x \in Nat
    <2>1. r.ringIdx \in 0 .. Checksums - 1 /\ Checksums > Horizon /\ Horizon >= 2
      BY MuFields, Sizes DEF RingSlots
    <2> QED
      BY <1>1, <2>1, Sizes DEF Fits
  <1>3. y2 = (IF y < f THEN f ELSE y) /\ x2 = IF f > y THEN After(x, c) ELSE x
    BY <1>1 DEF Written, Larger, After
  <1>4. ASSUME NEW g \in Nat
        PROVE  RingSlot(n, g) = RingSlot(r, g) /\ RingSlot(r, g) \in RingSlots
    <2>1. Moves(x, y, f, c, x2, y2)
      BY <1>2, <1>3 DEF Moves
    <2>2. SlotOf(x2, y2, g, c) = SlotOf(x, y, g, c)
      BY <2>1, SlotStays
    <2> QED
      BY <1>1, <2>2, SlotType DEF RingSlot, SlotOf
  <1>5. PICK o \in RingSlots : o = RingSlot(r, f)
    BY <1>4
  <1>6. /\ n.ring = [r.ring EXCEPT ![o] = [frame |-> f, checksum |-> l]]
        /\ r.ring \in [RingSlots -> Entry]
    BY <1>5, MuFields DEF Written
  <1>7. /\ n.ring[o] = [frame |-> f, checksum |-> l]
        /\ \A i \in RingSlots : i # o => n.ring[i] = r.ring[i]
    BY <1>5, <1>6
  <1>8. n.ring[o].frame = f /\ n.ring[o].checksum = l
    <2>1. PICK w : w = [frame |-> f, checksum |-> l]
      OBVIOUS
    <2>2. w.frame = f /\ w.checksum = l
      BY <2>1
    <2> QED
      BY <1>7, <2>1, <2>2
  <1>9. y <= y2 /\ f <= y2
    BY <1>2, <1>3
  <1>10. ASSUME NEW i \in RingSlots
         PROVE  EntryOK(n, p2, i)
    <2>1. CASE i = o
      <3>1. n.ring[i].frame = f /\ n.ring[i].checksum = SubSeq(p2, 1, f)
        BY <1>8, <2>1 DEF Prefix, OneMore
      <3>2. f >= 1 => RingSlot(n, f) = i
        BY <1>4, <1>5, <2>1
      <3> QED
        BY <1>1, <1>9, <3>1, <3>2 DEF EntryOK
    <2>2. CASE i # o
      <3>1. PICK g \in Nat : g = r.ring[i].frame
        BY MuFields, EntryFields
      <3>2. n.ring[i] = r.ring[i]
        BY <1>7, <2>2
      <3>3. /\ g <= y /\ (g >= 1 => RingSlot(r, g) = i)
            /\ g < f \/ g = 0 => r.ring[i].checksum = SubSeq(l, 1, g)
        BY <1>1, <3>1 DEF EntryOK, RingIs, OneMore
      <3>4. g <= y2 /\ (g >= 1 => RingSlot(n, g) = i)
        BY <1>4, <1>9, <3>3
      <3>5. ASSUME g < f + 1 \/ g = 0
            PROVE  r.ring[i].checksum = SubSeq(p2, 1, g)
        <4>1. g = f => g = 0
          BY <1>5, <2>2, <3>3
        <4>2. g < f \/ g = 0
          BY <3>5, <4>1
        <4>3. SubSeq(l, 1, g) = SubSeq(p2, 1, g)
          BY <4>2 DEF Prefix, State, OneMore
        <4> QED
          BY <3>3, <4>2, <4>3
      <3>6. Len(p2) = f + 1
        BY DEF OneMore
      <3> QED
        BY <1>1, <3>1, <3>2, <3>4, <3>5, <3>6 DEF EntryOK
    <2> QED
      BY <2>1, <2>2
  <1>11. ASSUME NEW g \in 0 .. y2, g > y2 - c
         PROVE  n.ring[RingSlot(n, g)].frame = g
    <2>1. CASE g = f
      BY <1>4, <1>5, <1>8, <2>1
    <2>2. CASE g # f
      <3>1. g \in 0 .. y /\ g > y - c /\ g - f < c /\ f - g < c
        BY <1>2, <1>3, <1>11, <2>2
      <3>2. r.ring[RingSlot(r, g)].frame = g
        BY <1>1, <3>1 DEF RingIs
      <3>3. RingSlot(r, g) # o
        <4>1. SUFFICES ASSUME RingSlot(r, g) = o
                       PROVE  FALSE
          OBVIOUS
        <4>2. SlotOf(x, y, g, c) = SlotOf(x, y, f, c)
          BY <1>1, <1>5, <4>1 DEF RingSlot, SlotOf
        <4>3. g \in Int /\ g - f < c /\ f - g < c
          BY <3>1
        <4>4. g = f
          BY <1>2, <4>2, <4>3, SlotsApart
        <4> QED
          BY <2>2, <4>4
      <3> QED
        BY <1>4, <1>7, <3>2, <3>3
    <2> QED
      BY <2>1, <2>2
  <1> QED
    BY <1>1, <1>10, <1>11 DEF RingIs

\* A body takes the first of the samples rq in the state l, and leaves the rest.
Ran(r, l, rq, sv, n, p2, q2, sv2) ==
    \E d \in BOOLEAN : \E b, w :
        /\ b = Settle([r EXCEPT !.started = TRUE, !.displayed = d], Len(l))
        /\ w = WriteChecksum(b, Len(l), l)
        /\ n = SeeEnd(w, Len(l), l)
        /\ sv2 = IF Captures(w, Len(l)) THEN Capture(sv, Len(l), l) ELSE sv
        /\ p2 = Append(l, Head(rq)) /\ q2 = Tail(rq)

\* What it leaves of mu_online.
Stepped(r, n, f, l) ==
    /\ n.started = TRUE /\ n.force = r.force
    /\ n.finalized = r.finalized
    /\ n.stableFinalized = Larger(r.stableFinalized, Smaller(f, r.finalized))
    /\ n.endSeen \in {0, f, r.endSeen} /\ (n.over => r.over \/ f - n.endSeen > Horizon)
    /\ SameFrame(r, n) /\ SameGuesses(r, n) /\ SameLocal(r, n) /\ SameRoll(r, n)
    /\ SameReply(r, n) /\ Written(r, n, f, l)

\* What it leaves of the samples and the states kept.
Moved(n, l, rq, sv, p2, q2, sv2, f) ==
    /\ OneMore(l, p2, f) /\ p2[f + 1] = rq[1] /\ \A i \in 1 .. f : p2[i] = l[i]
    /\ Len(q2) = Len(rq) - 1 /\ \A i \in 1 .. Len(rq) - 1 : q2[i] = rq[i + 1]
    /\ IF n.predicting /\ f > n.stableFinalized THEN sv2 = Capture(sv, f, l) ELSE sv2 = sv

LEMMA RanFields ==
    ASSUME NEW r \in MuType, NEW l \in State, NEW rq \in State, NEW sv, Len(rq) >= 1,
           NEW n, NEW p2, NEW q2, NEW sv2, Ran(r, l, rq, sv, n, p2, q2, sv2)
    PROVE  /\ n \in MuType /\ p2 \in State /\ q2 \in State
           /\ Stepped(r, n, Len(l), l) /\ Moved(n, l, rq, sv, p2, q2, sv2, Len(l))
  <1>0. PICK d \in BOOLEAN : \E b, w :
           /\ b = Settle([r EXCEPT !.started = TRUE, !.displayed = d], Len(l))
           /\ w = WriteChecksum(b, Len(l), l)
           /\ n = SeeEnd(w, Len(l), l)
           /\ sv2 = IF Captures(w, Len(l)) THEN Capture(sv, Len(l), l) ELSE sv
           /\ p2 = Append(l, Head(rq)) /\ q2 = Tail(rq)
    BY DEF Ran
  <1>1. PICK b, w :
           /\ b = Settle([r EXCEPT !.started = TRUE, !.displayed = d], Len(l))
           /\ w = WriteChecksum(b, Len(l), l)
           /\ n = SeeEnd(w, Len(l), l)
           /\ sv2 = IF Captures(w, Len(l)) THEN Capture(sv, Len(l), l) ELSE sv
           /\ p2 = Append(l, Head(rq)) /\ q2 = Tail(rq)
    BY <1>0
  <1>2. Len(l) \in Nat
    BY DEF State
  <1>3. PICK f \in Nat : f = Len(l)
    BY <1>2
  <1>4. b = Settle([r EXCEPT !.started = TRUE, !.displayed = d], f)
    BY <1>1, <1>3
  <1>5. /\ b \in MuType /\ Begun(r, b, f) /\ SameFrame(r, b) /\ SameGuesses(r, b)
        /\ SameLocal(r, b) /\ SameRoll(r, b) /\ SameRing(r, b) /\ SameReply(r, b)
    BY <1>4, BeginFields
  <1>6. /\ w \in MuType /\ Written(b, w, f, l) /\ SameFrame(b, w) /\ SameFin(b, w)
        /\ SameGuesses(b, w) /\ SameRest(b, w) /\ SameLocal(b, w) /\ SameRoll(b, w)
        /\ SameReply(b, w)
    <2>1. w = WriteChecksum(b, f, l)
      BY <1>1, <1>3
    <2> QED
      BY <1>5, <2>1, WriteFields
  <1>7. /\ n \in MuType /\ Ended(w, n, f, l) /\ SameFrame(w, n) /\ SameFin(w, n)
        /\ SameGuesses(w, n) /\ SameLocal(w, n) /\ SameRoll(w, n)
        /\ SameRing(w, n) /\ SameReply(w, n)
    <2>1. n = SeeEnd(w, f, l)
      BY <1>1, <1>3
    <2> QED
      BY <1>6, <2>1, EndFields
  <1>8. /\ SameFrame(r, n) /\ SameGuesses(r, n) /\ SameLocal(r, n) /\ SameRoll(r, n)
        /\ SameReply(r, n)
    BY <1>5, <1>6, <1>7 DEF SameFrame, SameGuesses, SameLocal, SameRoll, SameReply
  <1>9. /\ n.started = TRUE /\ n.force = r.force /\ n.finalized = r.finalized
        /\ n.stableFinalized = Larger(r.stableFinalized, Smaller(f, r.finalized))
        /\ w.stableFinalized = n.stableFinalized
    BY <1>5, <1>6, <1>7 DEF Begun, Ended, SameFin, SameRest
  <1>10. n.endSeen \in {0, f, r.endSeen} /\ (n.over => r.over \/ f - n.endSeen > Horizon)
    <2>1. w.endSeen = r.endSeen /\ w.over = r.over
      BY <1>5, <1>6 DEF Begun, SameRest
    <2> QED
      BY <1>7, <2>1 DEF Ended
  <1>11. Written(r, n, f, l)
    <2>1. b.ring = r.ring /\ b.ringIdx = r.ringIdx /\ b.ringLast = r.ringLast
      BY <1>5 DEF SameRing
    <2>2. RingSlot(b, f) = RingSlot(r, f)
      BY <2>1 DEF RingSlot
    <2>3. n.ring = w.ring /\ n.ringIdx = w.ringIdx /\ n.ringLast = w.ringLast
      BY <1>7 DEF SameRing
    <2> QED
      BY <1>6, <2>1, <2>2, <2>3 DEF Written
  <1>12. Stepped(r, n, f, l)
    BY <1>8, <1>9, <1>10, <1>11 DEF Stepped
  <1>13. Head(rq) \in SampleType /\ Head(rq) = rq[1]
    <2>1. rq # <<>>
      OBVIOUS
    <2> QED
      BY <2>1 DEF State
  <1>14. /\ p2 \in State /\ Len(p2) = f + 1 /\ \A i \in 1 .. f : p2[i] = l[i]
         /\ p2[f + 1] = rq[1]
    BY <1>1, <1>3, <1>13, AppendFacts DEF State
  <1>15. l = Prefix(p2, f)
    <2>1. f <= Len(p2)
      BY <1>14
    <2>2. /\ Prefix(p2, f) \in State /\ Len(Prefix(p2, f)) = f
          /\ \A i \in 1 .. f : Prefix(p2, f)[i] = p2[i]
      BY <1>14, <2>1, PrefixFacts
    <2>3. PICK u \in State : u = Prefix(p2, f)
      BY <2>2
    <2>4. Len(u) = f /\ Len(l) = f /\ \A i \in 1 .. f : u[i] = l[i]
      BY <1>3, <1>14, <2>2, <2>3
    <2> QED
      BY <2>3, <2>4 DEF State
  <1>16. /\ q2 \in State /\ Len(q2) = Len(rq) - 1
         /\ \A i \in 1 .. Len(rq) - 1 : q2[i] = rq[i + 1]
    <2>1. rq # <<>>
      OBVIOUS
    <2> QED
      BY <1>1, <2>1 DEF State
  <1>17. IF n.predicting /\ f > n.stableFinalized THEN sv2 = Capture(sv, f, l) ELSE sv2 = sv
    <2>1. w.predicting = n.predicting
      BY <1>7 DEF SameGuesses
    <2> QED
      BY <1>1, <1>3, <1>9, <2>1 DEF Captures
  <1>18. Moved(n, l, rq, sv, p2, q2, sv2, f)
    BY <1>3, <1>14, <1>15, <1>16, <1>17 DEF Moved, OneMore
  <1> QED
    BY <1>3, <1>7, <1>12, <1>14, <1>16, <1>18

LEMMA BodySamples ==
    ASSUME NEW r \in MuType, NEW l \in State, NEW rq \in State, NEW sv, NEW h \in Pads,
           NEW n \in MuType, NEW p2 \in State, NEW q2 \in State, NEW sv2, NEW f \in Nat,
           SamplesOK(r, l, rq, h), Len(rq) >= 1, SameGuesses(r, n), SureTo(n) = SureTo(r),
           Moved(n, l, rq, sv, p2, q2, sv2, f)
    PROVE  SamplesOK(n, p2, q2, h)
  <1>1. ASSUME NEW e, NEW g, SampleOK(r, h, e, g)
        PROVE  SampleOK(n, h, e, g)
    BY <1>1 DEF SampleOK, SameGuesses
  <1>2. PICK c \in Nat : c = Len(rq)
    BY DEF State
  <1>3. /\ Len(l) = f /\ Len(p2) = f + 1 /\ p2[f + 1] = rq[1] /\ \A i \in 1 .. f : p2[i] = l[i]
        /\ Len(q2) = c - 1 /\ (\A i \in 1 .. c - 1 : q2[i] = rq[i + 1]) /\ c >= 1
    BY <1>2 DEF Moved, OneMore
  <1>4. ASSUME NEW i \in 1 .. f + 1
        PROVE  SampleOK(n, h, p2[i], i - 1)
    <2>1. CASE i = f + 1
      <3>1. SampleOK(r, h, rq[1], f + 1 - 1)
        BY <1>2, <1>3 DEF SamplesOK
      <3> QED
        BY <1>1, <1>3, <2>1, <3>1
    <2>2. CASE i # f + 1
      <3>1. i \in 1 .. f
        BY <2>2
      <3>2. SampleOK(r, h, l[i], i - 1)
        BY <1>3, <3>1 DEF SamplesOK
      <3> QED
        BY <1>1, <1>3, <3>1, <3>2
    <2> QED
      BY <2>1, <2>2
  <1>5. ASSUME NEW i \in 1 .. c - 1
        PROVE  SampleOK(n, h, q2[i], f + 1 + i - 1)
    <2>1. i + 1 \in 1 .. c /\ f + (i + 1) - 1 = f + 1 + i - 1
      BY <1>2
    <2>2. SampleOK(r, h, rq[i + 1], f + (i + 1) - 1)
      BY <1>2, <1>3, <2>1 DEF SamplesOK
    <2> QED
      BY <1>1, <1>3, <2>1, <2>2
  <1> QED
    BY <1>3, <1>4, <1>5 DEF SamplesOK

LEMMA BodySaves ==
    ASSUME NEW r \in MuType, NEW l \in State, NEW rq, NEW sv, SavesOK(r, l, sv),
           \A g \in DOMAIN sv : sv[g] \in State,
           NEW n \in MuType, NEW p2 \in State, NEW q2, NEW sv2, NEW f \in Nat,
           SameGuesses(r, n), n.predicting => n.ss + Horizon >= f + 1,
           n.predicting => n.stableFinalized < n.ss \/ n.stableFinalized < f,
           Moved(n, l, rq, sv, p2, q2, sv2, f)
    PROVE  SavesOK(n, p2, sv2) /\ \A g \in DOMAIN sv2 : sv2[g] \in State
  <1>1. PICK b \in Nat, z \in Nat : b = n.ss /\ z = n.stableFinalized
    BY MuFields
  <1>2. /\ Len(l) = f /\ Len(p2) = f + 1 /\ l = SubSeq(p2, 1, f)
        /\ IF n.predicting /\ f > z THEN sv2 = Capture(sv, f, l) ELSE sv2 = sv
        /\ r.predicting = n.predicting /\ r.ss = b
        /\ n.predicting => (z < b \/ z < f) /\ b + Horizon >= f + 1
    BY <1>1 DEF Moved, OneMore, Prefix, SameGuesses
  <1>3. /\ DOMAIN sv \subseteq 0 .. f - 1 /\ Cardinality(DOMAIN sv) <= Slots
        /\ n.predicting => \A g \in b .. f - 1 : g \in DOMAIN sv /\ sv[g] = SubSeq(l, 1, g)
    BY <1>1, <1>2 DEF SavesOK
  <1>4. ASSUME NEW g \in 0 .. f - 1
        PROVE  SubSeq(l, 1, g) = SubSeq(p2, 1, g)
    BY <1>2 DEF State
  <1>5. CASE ~n.predicting
    <2>1. sv2 = sv /\ DOMAIN sv \subseteq 0 .. f + 1 - 1
      BY <1>2, <1>3, <1>5
    <2> QED
      BY <1>2, <1>3, <1>5, <2>1 DEF SavesOK
  <1>6. CASE n.predicting /\ ~(f > z)
    <2>1. sv2 = sv /\ DOMAIN sv \subseteq 0 .. f + 1 - 1
      BY <1>2, <1>3, <1>6
    <2>2. \A g \in b .. f + 1 - 1 : FALSE
      BY <1>1, <1>2, <1>6
    <2> QED
      BY <1>1, <1>2, <1>3, <1>6, <2>1, <2>2 DEF SavesOK
  <1>7. CASE n.predicting /\ f > z
    <2>1. sv2 = Capture(sv, f, l)
      BY <1>2, <1>7
    <2>2. Keeps(sv, sv2, f, l, b)
      BY <1>1, <1>2, <1>3, <1>7, <2>1, CaptureFacts
    <2>3. \A g \in DOMAIN sv2 : sv2[g] \in State
      BY <2>2 DEF Keeps
    <2>4. ASSUME NEW g \in b .. f + 1 - 1
          PROVE  g \in DOMAIN sv2 /\ sv2[g] = SubSeq(p2, 1, g)
      <3>1. CASE g = f
        BY <1>2, <2>2, <3>1 DEF Keeps
      <3>2. CASE g # f
        <4>1. g \in b .. f - 1 /\ g \in 0 .. f - 1
          BY <1>1, <3>2
        <4>2. g \in DOMAIN sv2 /\ sv2[g] = sv[g] /\ sv[g] = SubSeq(l, 1, g)
          BY <1>3, <1>7, <2>2, <3>2, <4>1 DEF Keeps
        <4> QED
          BY <1>4, <4>1, <4>2
      <3> QED
        BY <3>1, <3>2
    <2>5. DOMAIN sv2 \subseteq 0 .. f + 1 - 1 /\ Cardinality(DOMAIN sv2) <= Slots
      BY <2>2 DEF Keeps
    <2> QED
      BY <1>1, <1>2, <2>3, <2>4, <2>5 DEF SavesOK
  <1> QED
    BY <1>5, <1>6, <1>7

\* A body leaves the invariant as it was.
LEMMA BodyKeeps ==
    ASSUME NEW r, NEW l, NEW rq, NEW sv, NEW h, Core(r, l, rq, sv, h), Len(rq) >= 1,
           r.shouldLoad => Len(l) # r.ss \/ r.rx.latest < r.ss,
           NEW n, NEW p2, NEW q2, NEW sv2, Ran(r, l, rq, sv, n, p2, q2, sv2)
    PROVE  /\ Core(n, p2, q2, sv2, h) /\ SameFrame(r, n) /\ SameRoll(r, n)
           /\ Len(q2) = Len(rq) - 1 /\ Stepped(r, n, Len(l), l)
           /\ Len(p2) = Len(l) + 1 /\ Settled(n, p2)
  <1>1. /\ r \in MuType /\ l \in State /\ rq \in State /\ h \in Pads
        /\ \A g \in DOMAIN sv : sv[g] \in State
        /\ SamplesOK(r, l, rq, h) /\ Order(r, l, rq) /\ RxOK(r, h) /\ HeldOK(h)
        /\ FinOK(r, l) /\ RingOK(r, l) /\ TxOK(r, h) /\ SavesOK(r, l, sv)
        /\ LocalAt(r, Asked(r))
    BY CoreParts DEF Core
  <1>2. /\ n \in MuType /\ p2 \in State /\ q2 \in State
        /\ Stepped(r, n, Len(l), l) /\ Moved(n, l, rq, sv, p2, q2, sv2, Len(l))
    BY <1>1, RanFields
  <1>3. PICK f \in Nat, c \in Nat, k \in Nat, z \in Nat, x \in Nat, y \in Nat :
            /\ f = Len(l) /\ c = Len(rq) /\ k = Known(l, rq)
            /\ z = r.stableFinalized /\ x = r.finalized /\ y = r.ringLast
    BY <1>1, MuFields, Numbers
  <1>4. k = f + c /\ c >= 1
    BY <1>3 DEF Known
  <1>5. /\ Stepped(r, n, f, l) /\ Moved(n, l, rq, sv, p2, q2, sv2, f)
    BY <1>2, <1>3
  <1>6. /\ n.started = TRUE /\ n.force = r.force /\ n.finalized = x
        /\ n.stableFinalized = Larger(z, Smaller(f, x))
        /\ n.frame = r.frame /\ n.predicting = r.predicting /\ n.ss = r.ss
        /\ n.guesses = r.guesses /\ n.active = r.active /\ n.shouldLoad = r.shouldLoad
        /\ n.endFrame = r.endFrame /\ n.stable = r.stable /\ n.rx = r.rx /\ n.tx = r.tx
        /\ SameGuesses(r, n) /\ SameLocal(r, n) /\ SameFrame(r, n) /\ SameRoll(r, n)
        /\ n.ringLast = Larger(y, f) /\ Written(r, n, f, l)
    BY <1>3, <1>5 DEF Stepped, SameFrame, SameGuesses, SameRoll, SameReply, Written
  <1>7. Asked(n) = Asked(r) /\ SureTo(n) = SureTo(r) /\ Asked(r) \in Nat /\ SureTo(r) \in Nat
    <2>1. Asked(n) = Asked(r) /\ SureTo(n) = SureTo(r)
      BY <1>6 DEF Asked, SureTo
    <2> QED
      BY <1>1, <2>1, Numbers
  <1>8. /\ Len(p2) = f + 1 /\ Len(q2) = c - 1 /\ Known(p2, q2) = k /\ OneMore(l, p2, f)
    <2>1. Len(p2) = f + 1 /\ Len(q2) = c - 1 /\ OneMore(l, p2, f)
      BY <1>3, <1>5 DEF Moved, OneMore
    <2>2. f + 1 + (c - 1) = k
      BY <1>4
    <2> QED
      BY <2>1, <2>2 DEF Known
  <1>9. k <= Asked(r) /\ x + Horizon >= f
    <2>1. PICK a \in Nat, e \in Nat : a = r.frame /\ e = r.endFrame
      BY <1>1, MuFields
    <2>2. CASE ~r.active
      <3>1. ~r.shouldLoad /\ a = k /\ Asked(r) = a
        BY <1>1, <1>3, <1>4, <2>1, <2>2 DEF Order, Asked
      <3>2. x + Horizon + 1 >= a
        BY <1>1, <1>3, <2>1, <3>1 DEF FinOK
      <3>3. a >= f + 1
        BY <1>4, <3>1
      <3> QED
        BY <3>1, <3>2, <3>3, Sizes
    <2>3. CASE r.active /\ ~r.shouldLoad
      <3>1. a = k /\ a <= e + 1 /\ Asked(r) = e + 1
        BY <1>1, <1>3, <2>1, <2>3 DEF Order, Asked
      <3>2. x + Horizon + 1 >= a
        BY <1>1, <1>3, <2>1, <2>3 DEF FinOK
      <3>3. a >= f + 1
        BY <1>4, <3>1
      <3>4. x + Horizon >= f
        BY <3>2, <3>3, HorizonNat
      <3> QED
        BY <3>1, <3>4
    <2>4. CASE r.active /\ r.shouldLoad
      <3>1. e \in {k, k + 1} /\ Asked(r) = e + 1
        BY <1>1, <1>3, <2>1, <2>4 DEF Order, Asked
      <3>2. x + Horizon + 1 >= e
        BY <1>1, <1>3, <2>1, <2>4 DEF FinOK
      <3>3. e >= f + 1 /\ k <= e + 1
        BY <1>4, <3>1
      <3>4. x + Horizon >= f
        BY <3>2, <3>3, HorizonNat
      <3> QED
        BY <3>1, <3>3, <3>4
    <2> QED
      BY <2>2, <2>3, <2>4
  <1>10. PICK z2 \in Nat : z2 = n.stableFinalized
    BY <1>2, MuFields
  <1>11. z2 = Larger(z, Smaller(f, x)) /\ z2 >= z /\ (z2 = z \/ z2 = Smaller(f, x))
    BY <1>6, <1>10 DEF Larger, Smaller
  <1>22. PICK t \in Nat, come \in Nat : t = r.ss /\ come = r.rx.latest
    BY <1>1, MuFields, Numbers
  <1>12. /\ z2 <= f /\ z2 + Horizon >= f
         /\ ~r.shouldLoad => z2 < SureTo(n)
         /\ r.shouldLoad => z2 <= t /\ (come < t => z2 < t)
    <2>1. PICK v \in Nat : v = Smaller(f, x)
      BY DEF Smaller
    <2>2. v <= f /\ v <= x /\ v + Horizon >= f /\ (z2 = z \/ z2 = v) /\ z2 >= v
      BY <1>9, <1>11, <2>1, Sizes DEF Smaller, Larger
    <2>3. z <= f
      BY <1>1, <1>3 DEF FinOK
    <2>4. CASE r.shouldLoad
      <3>1. /\ z <= t /\ (come < t => z < t)
            /\ x <= t /\ x <= come
        BY <1>1, <1>3, <1>22, <2>4 DEF FinOK
      <3> QED
        BY <2>2, <2>3, <2>4, <3>1, Sizes
    <2>5. CASE ~r.shouldLoad
      <3>1. z < SureTo(r) /\ x < SureTo(r)
        BY <1>1, <1>3, <2>5 DEF FinOK
      <3> QED
        BY <1>7, <2>2, <2>3, <2>5, <3>1, Sizes
    <2> QED
      BY <2>4, <2>5
  <1>13. SamplesOK(n, p2, q2, h)
    BY <1>1, <1>2, <1>5, <1>6, <1>7, BodySamples
  <1>14. Order(n, p2, q2)
    <2>1. Len(q2) <= MaxQueue + 1
      <3>1. c <= MaxQueue + 1
        BY <1>1, <1>3 DEF Order
      <3> QED
        BY <1>8, <3>1, Sizes
    <2>2. Len(p2) >= 1 /\ n.started
      BY <1>6, <1>8
    <2> QED
      BY <1>1, <1>3, <1>6, <1>7, <1>8, <2>1, <2>2 DEF Order
  <1>15. RxOK(n, h)
    <2>1. Shown(r.rx, h, z) /\ DOMAIN r.rx.pads \subseteq Nat
      BY <1>1, <1>3, MuFields, ReplyFields DEF RxOK
    <2>2. Shown(r.rx, h, z2)
      <3>1. \A j \in 1 .. r.rx.latest : j >= z2 => j >= z
        BY <1>11
      <3> QED
        BY <2>1, <3>1 DEF Shown
    <2> QED
      BY <1>1, <1>6, <1>7, <1>10, <2>2 DEF RxOK
  <1>16. FinOK(n, p2)
    <2>1. z2 < Len(p2)
      BY <1>8, <1>12
    <2> QED
      BY <1>1, <1>3, <1>6, <1>7, <1>10, <1>12, <1>22, <2>1 DEF FinOK
  <1>17. RingOK(n, p2)
    <2>1. /\ y <= z + Horizon /\ y < Asked(r) /\ f <= y + 1
          /\ \A i \in RingSlots : EntryOK(r, l, i)
          /\ \A g \in 0 .. r.ringLast :
                g > r.ringLast - Checksums => r.ring[RingSlot(r, g)].frame = g
      BY <1>1, <1>3 DEF RingOK
    <2>2. RingIs(r, l)
      BY <2>1 DEF RingIs
    <2>3. Fits(f, r)
      <3>1. z <= f
        BY <1>1, <1>3 DEF FinOK
      <3>2. f > y - Checksums
        <4>1. y <= z + Horizon /\ y \in Nat /\ z \in Nat /\ f \in Nat
          BY <1>3, <2>1
        <4>2. Checksums > Horizon /\ Checksums \in Nat /\ Horizon \in Nat
          BY Sizes
        <4> QED
          BY <3>1, <4>1, <4>2
      <3> QED
        BY <1>3, <2>1, <3>2 DEF Fits
    <2>4. RingIs(n, p2)
      BY <1>1, <1>2, <1>6, <1>8, <2>2, <2>3, RingKeeps
    <2>5. PICK y2 \in Nat : y2 = n.ringLast
      BY <1>2, MuFields
    <2>6. y2 = IF y < f THEN f ELSE y
      BY <1>6, <2>5 DEF Larger
    <2>7. y2 <= z2 + Horizon
      BY <1>11, <1>12, <2>1, <2>6, Sizes
    <2>8. y2 < Asked(n)
      <3>1. f < Asked(r)
        BY <1>4, <1>7, <1>9
      <3> QED
        BY <1>7, <2>1, <2>6, <3>1
    <2>9. Len(p2) <= y2 + 1
      BY <1>8, <2>6
    <2> QED
      BY <1>10, <2>4, <2>5, <2>7, <2>8, <2>9 DEF RingOK, RingIs
  <1>18. TxOK(n, h)
    BY <1>1, <1>6 DEF TxOK
  <1>19. SavesOK(n, p2, sv2) /\ \A g \in DOMAIN sv2 : sv2[g] \in State
    <2>1. n.predicting => n.ss + Horizon >= f + 1
      <3> SUFFICES ASSUME n.predicting
                   PROVE  n.ss + Horizon >= f + 1
        OBVIOUS
      <3>1. n.ss \in Nat /\ n.ss + Horizon >= k
        BY <1>1, <1>2, <1>3, <1>6, MuFields DEF Order
      <3>2. PICK j \in Nat : j = n.ss /\ j + Horizon >= k
        BY <3>1
      <3> QED
        BY <1>4, <3>2, Sizes
    <2>2. n.predicting => n.stableFinalized < n.ss \/ n.stableFinalized < f
      <3>1. CASE r.shouldLoad
        <4>1. f # t \/ come < t
          BY <1>3, <1>22, <3>1
        <4>2. z2 < t \/ z2 < f
          BY <1>12, <3>1, <4>1
        <4> QED
          BY <1>6, <1>10, <1>22, <4>2
      <3>2. CASE ~r.shouldLoad
        BY <1>10, <1>12, <3>2 DEF SureTo
      <3> QED
        BY <3>1, <3>2
    <2> QED
      BY <1>1, <1>2, <1>5, <1>6, <2>1, <2>2, BodySaves
  <1>20. LocalAt(n, Asked(n))
    BY <1>1, <1>6, <1>7 DEF LocalAt, SameLocal
  <1>21. Len(q2) = Len(rq) - 1 /\ Len(p2) = Len(l) + 1 /\ Settled(n, p2)
    BY <1>3, <1>8, <1>10, <1>12 DEF Settled
  <1> QED
    BY <1>1, <1>2, <1>6, <1>13, <1>14, <1>15, <1>16, <1>17, <1>18, <1>19, <1>20, <1>21
    DEF Core, Body, CoreTypes

-----------------------------------------------------------------------------
(* FrameBegin *)

\* What a body starts from: the samples rq in the state l, with the states sv kept.
Ready(r, l, rq, sv) ==
    /\ Core(r, l, rq, sv, held) /\ Len(rq) >= 1
    /\ r.shouldLoad => Len(l) # r.ss \/ r.rx.latest < r.ss
    /\ SameRest(mu, r) /\ r.stable = mu.stable /\ (Within(mu) => Within(r))
    /\ r.active /\ ~r.shouldLoad => Len(rq) = 1
    /\ ~mu.stable => at.left >= 1 /\ Len(rq) >= at.left

\* A body outside of a rollback starts from what waits.
LEMMA ReadyAsIs ==
    ASSUME Core(mu, past, queue, saves, held), Loop(mu, queue, at), at.where = "begin",
           ~Outruns, ~mu.stable \/ (mu.shouldLoad /\ Len(past) < mu.ss)
    PROVE  Ready(RollbackPads.mu, Loaded, RollbackPads.queue, Freed)
  <1>1. /\ mu \in MuType /\ past \in State /\ queue \in State /\ held \in Pads
        /\ Order(mu, past, queue)
    BY CoreParts DEF Core
  <1>2. mu.ss \in Nat /\ Len(past) \in Nat /\ Len(queue) \in Nat
    BY <1>1, MuFields, Numbers
  <1>3. ~GoesBack /\ (mu.stable => mu.shouldLoad)
    BY <1>2 DEF GoesBack
  <1>4. Loaded = past /\ Freed = saves
    BY <1>3 DEF Loaded, Freed, Restores, Loads
  <1>5. RollbackPads.mu = mu /\ RollbackPads.queue = queue
    BY <1>3 DEF RollbackPads, WentBack
  <1>6. SameRest(mu, mu)
    BY DEF SameRest
  <1>7. CASE ~mu.stable
    <2>1. at.left >= 1 /\ at.left <= Len(queue) /\ at.left \in Nat
      BY <1>7, Sizes DEF Loop
    <2>2. ~(mu.active /\ ~mu.shouldLoad)
      BY <1>1, <1>7 DEF Order
    <2>3. ASSUME mu.shouldLoad, Len(past) = mu.ss
          PROVE  mu.rx.latest < mu.ss
      <3>1. PICK g \in Nat, t \in Nat : g = mu.rx.latest /\ t = mu.ss
        BY <1>1, MuFields, Numbers
      <3>2. ~(t <= g)
        BY <1>7, <2>3, <3>1 DEF Outruns
      <3> QED
        BY <3>1, <3>2
    <2>4. Len(queue) >= 1
      BY <1>2, <2>1
    <2> QED
      BY <1>4, <1>5, <1>6, <2>1, <2>2, <2>3, <2>4 DEF Ready
  <1>8. CASE mu.stable
    <2>1. mu.shouldLoad /\ Len(past) < mu.ss
      BY <1>8
    <2>2. mu.ss + Len(mu.guesses) = Len(past) + Len(queue)
      BY <1>1, <2>1 DEF Order, Known
    <2>3. Len(mu.guesses) \in Nat
      BY <1>1, Numbers
    <2>4. Len(queue) >= 1 /\ Len(past) # mu.ss
      BY <1>2, <2>1, <2>2, <2>3
    <2> QED
      BY <1>4, <1>5, <1>6, <1>8, <2>1, <2>4 DEF Ready
  <1> QED
    BY <1>7, <1>8

\* What a rollback loads is the state of its frame on this timeline.
LEMMA LoadsPrefix ==
    ASSUME Core(mu, past, queue, saves, held), GoesBack
    PROVE  /\ Loads => mu.ss \in DOMAIN saves /\ saves[mu.ss] = Prefix(past, mu.ss)
           /\ Loaded = Prefix(past, mu.ss)
           /\ Freed = <<>> \/ (Freed = saves /\ Len(past) = mu.ss)
  <1>1. /\ mu \in MuType /\ past \in State /\ queue \in State /\ held \in Pads
        /\ Order(mu, past, queue) /\ SavesOK(mu, past, saves)
    BY CoreParts DEF Core
  <1>2. PICK b \in Nat, l \in Nat : b = mu.ss /\ l = Len(past)
    BY <1>1, MuFields, Numbers
  <1>3. mu.predicting /\ b <= l
    BY <1>1, <1>2 DEF GoesBack, Order
  <1>4. CASE Loads
    <2>1. b \in mu.ss .. Len(past) - 1
      BY <1>2, <1>4 DEF Loads
    <2>2. mu.ss \in DOMAIN saves /\ saves[mu.ss] = Prefix(past, mu.ss)
      BY <1>1, <1>2, <1>3, <2>1 DEF SavesOK, Prefix
    <2> QED
      BY <1>4, <2>2 DEF Loaded, Freed, Restores
  <1>5. CASE ~Loads
    <2>1. b = l
      BY <1>2, <1>3, <1>5 DEF Loads
    <2>2. Loaded = past /\ Freed = saves
      BY <1>5 DEF Loaded, Freed, Restores
    <2>3. past = Prefix(past, mu.ss)
      <3>1. PICK u : u = Prefix(past, l)
        OBVIOUS
      <3>2. u \in State /\ Len(u) = l /\ \A i \in 1 .. l : u[i] = past[i]
        BY <1>1, <1>2, <3>1, PrefixFacts
      <3>3. u = past
        BY <1>1, <1>2, <3>2 DEF State
      <3> QED
        BY <1>2, <2>1, <3>1, <3>3
    <2> QED
      BY <1>2, <1>5, <2>1, <2>2, <2>3
  <1> QED
    BY <1>4, <1>5

\* A body of a rollback starts from the frame to run again.
LEMMA ReadyAgain ==
    ASSUME Core(mu, past, queue, saves, held), Loop(mu, queue, at), at.where = "begin",
           mu.stable, ~(mu.shouldLoad /\ Len(past) < mu.ss)
    PROVE  Ready(RollbackPads.mu, Loaded, RollbackPads.queue, Freed)
  <1>1. /\ mu \in MuType /\ past \in State /\ queue \in State /\ held \in Pads
        /\ Order(mu, past, queue)
    BY CoreParts DEF Core
  <1>2. mu.active
    BY <1>1 DEF Order
  <1>3. mu.ss \in Nat /\ Len(past) \in Nat
    BY <1>1, MuFields, Numbers
  <1>4. PICK k, l, sv, r :
            /\ k = WentBack.mu /\ l = Loaded /\ sv = Freed /\ r = RollbackPads
    OBVIOUS
  <1>5. /\ Rerun(k, l, sv, held) /\ SameRest(mu, k) /\ k.stable = mu.stable
        /\ WentBack.queue = <<>> /\ (Within(mu) => Within(k))
    <2>1. CASE mu.shouldLoad
      <3>1. GoesBack /\ mu.ss <= Len(past)
        BY <1>3, <2>1 DEF GoesBack
      <3>2. k = ToGoBack(mu) /\ WentBack.queue = <<>>
        BY <1>4, <3>1 DEF WentBack, ToGoBack
      <3>3. l = Prefix(past, mu.ss) /\ (sv = <<>> \/ (sv = saves /\ Len(past) = mu.ss))
        BY <1>4, <3>1, LoadsPrefix
      <3>4. SameRest(mu, k) /\ k.stable = mu.stable /\ (Within(mu) => Within(k))
        BY <1>1, <3>2, BackFields DEF GoneBack, Within
      <3>5. Rerun(k, l, sv, held)
        BY <1>2, <2>1, <3>1, <3>2, <3>3, ComesBack
      <3> QED
        BY <3>2, <3>4, <3>5
    <2>2. CASE ~mu.shouldLoad
      <3>1. ~GoesBack
        BY <2>2 DEF GoesBack
      <3>2. l = past /\ sv = saves
        BY <1>4, <3>1 DEF Loaded, Freed, Restores, Loads
      <3>3. k = mu /\ WentBack.queue = queue
        BY <1>4, <3>1 DEF WentBack
      <3>4. queue = <<>> /\ mu.frame <= mu.endFrame
        BY <1>2, <2>2 DEF Loop
      <3>5. Core(mu, past, <<>>, saves, held)
        BY <3>4
      <3>6. Rerun(mu, past, saves, held)
        BY <1>2, <2>2, <3>4, <3>5, GoesOn
      <3>7. SameRest(mu, mu)
        BY DEF SameRest
      <3> QED
        BY <3>2, <3>3, <3>4, <3>6, <3>7
    <2> QED
      BY <2>1, <2>2
  <1>6. r = RenewAgain(k, <<>>)
    <2>1. GoesBack \/ ~mu.shouldLoad
      BY <1>3 DEF GoesBack
    <2> QED
      BY <1>4, <1>5, <2>1 DEF RollbackPads
  <1>7. /\ Core(r.mu, l, r.queue, sv, held) /\ SameRest(k, r.mu) /\ SameRoll(k, r.mu)
        /\ Len(r.queue) = 1 /\ (Within(k) => Within(r.mu))
    BY <1>5, <1>6, AgainKeeps
  <1>8. /\ ~r.mu.shouldLoad /\ r.mu.stable = mu.stable /\ SameRest(mu, r.mu)
        /\ Within(mu) => Within(r.mu)
    <2>1. ~k.shouldLoad
      BY <1>5 DEF Rerun
    <2> QED
      BY <1>5, <1>7, <2>1 DEF SameRest, SameRoll
  <1>9. Ready(r.mu, l, r.queue, sv)
    BY <1>7, <1>8 DEF Ready
  <1> QED
    BY <1>4, <1>9

-----------------------------------------------------------------------------
(* The pads a state is made of *)

Real(h, st) == \A i \in 2 .. Len(st) : i - 1 <= Len(h) => st[i].remote = h[i - 1]

\* What is sure is what the other player gave.
LEMMA SureIsReal ==
    ASSUME NEW h \in Pads, HeldOK(h), NEW st \in State, AllSure(h, st)
    PROVE  Real(h, st)
  <1> SUFFICES ASSUME NEW i \in 2 .. Len(st), i - 1 <= Len(h)
               PROVE  st[i].remote = h[i - 1]
    BY DEF Real
  <1>1. PICK f \in Nat : f = i - 1
    OBVIOUS
  <1>2. Sure(h, f, st[i].remote) /\ f >= 1 /\ f <= Len(h)
    BY <1>1 DEF AllSure
  <1>3. CASE f < SyncFrame - Delay /\ st[i].remote = NoPad
    <2>1. f \in 1 .. Len(h) /\ f < SyncFrame
      BY <1>2, <1>3, Sizes DEF Pads
    <2>2. h[f] \in {NoPad}
      BY <2>1 DEF HeldOK, PadOf
    <2> QED
      BY <1>1, <1>3, <2>2
  <1> QED
    BY <1>1, <1>2, <1>3 DEF Sure

\* A state before SureTo is sure.
LEMMA PrefixSure ==
    ASSUME NEW m \in MuType, NEW p \in State, NEW q \in State, NEW h \in Pads,
           SamplesOK(m, p, q, h), NEW n \in Nat, n <= Len(p), n <= SureTo(m),
           NEW st, st = Prefix(p, n)
    PROVE  st \in State /\ Len(st) = n /\ AllSure(h, st)
  <1>1. st \in State /\ Len(st) = n /\ \A i \in 1 .. n : st[i] = p[i]
    BY PrefixFacts
  <1>2. SureTo(m) \in Nat /\ Len(p) \in Nat
    BY Numbers
  <1>3. ASSUME NEW i \in 2 .. n
        PROVE  Sure(h, i - 1, p[i].remote)
    <2>1. i \in 1 .. Len(p) /\ i - 1 >= 1 /\ i - 1 < SureTo(m)
      BY <1>2
    <2> QED
      BY <2>1 DEF SamplesOK, SampleOK
  <1> QED
    BY <1>1, <1>3 DEF AllSure

LEMMA KnownAsked ==
    ASSUME NEW m \in MuType, NEW p \in State, NEW q \in State, Order(m, p, q)
    PROVE  Known(p, q) <= Asked(m) /\ Asked(m) <= MaxFrame + 2 /\ Known(p, q) \in Nat
  <1>1. PICK k \in Nat, f \in Nat, e \in Nat : k = Known(p, q) /\ f = m.frame /\ e = m.endFrame
    <2>1. <<>> \in Pads
      BY DEF Pads
    <2>2. Known(p, q) \in Nat
      BY <2>1, Numbers
    <2> QED
      BY <2>2, MuFields
  <1>2. CASE ~m.active
    BY <1>1, <1>2 DEF Order, Asked
  <1>3. CASE m.active /\ m.shouldLoad
    BY <1>1, <1>3 DEF Order, Asked
  <1>4. CASE m.active /\ ~m.shouldLoad
    BY <1>1, <1>4 DEF Order, Asked
  <1> QED
    BY <1>1, <1>2, <1>3, <1>4 DEF Order

\* A match that a body sees over, long enough ago, is over by pads that came.
LEMMA OverIsReal ==
    ASSUME NEW n, NEW p, NEW q, NEW s, NEW h, Core(n, p, q, s, h),
           NEW f \in Nat, Len(p) = f + 1, f - n.endSeen > Horizon
    PROVE  Len(h) >= n.endSeen - 1 /\ Real(h, Prefix(p, n.endSeen))
  <1>1. /\ n \in MuType /\ p \in State /\ q \in State /\ h \in Pads
        /\ SamplesOK(n, p, q, h) /\ Order(n, p, q) /\ RxOK(n, h) /\ HeldOK(h)
    BY CoreParts DEF Core
  <1>2. PICK e \in Nat, k \in Nat, a \in Nat, c \in Nat :
            e = n.endSeen /\ k = Known(p, q) /\ a = Asked(n) /\ c = Len(h)
    BY <1>1, MuFields, Numbers
  <1>3. f + 1 <= k /\ k <= a /\ c + Horizon >= a - 1
    <2>1. k = Len(p) + Len(q) /\ Len(q) \in Nat
      BY <1>1, <1>2, Numbers
    <2>2. k <= a
      BY <1>1, <1>2, KnownAsked
    <2>3. c + Horizon >= a - 1
      BY <1>1, <1>2 DEF RxOK
    <2> QED
      BY <2>1, <2>2, <2>3
  <1>4. e <= f /\ c >= e - 1 /\ e + Horizon <= k
    <2>1. f - e > Horizon /\ e \in Nat /\ f \in Nat /\ k \in Nat /\ a \in Nat /\ c \in Nat
      BY <1>2
    <2> QED
      BY <1>3, <2>1, HorizonNat
  <1>5. e <= SureTo(n)
    <2>1. CASE n.predicting
      <3>1. n.ss + Horizon >= k /\ SureTo(n) = n.ss /\ n.ss \in Nat
        BY <1>1, <1>2, <2>1, MuFields DEF Order, SureTo
      <3> QED
        BY <1>4, <3>1, Sizes
    <2>2. CASE ~n.predicting
      <3>1. SureTo(n) = n.frame
        BY <2>2 DEF SureTo
      <3>2. k >= 1 /\ k # 0
        BY <1>3
      <3>3. n.frame = k
        <4>1. ~n.shouldLoad
          BY <1>1, <2>2 DEF Order
        <4>2. n.active => n.frame = k
          BY <1>1, <1>2, <4>1 DEF Order
        <4>3. ~n.active => n.frame = k
          BY <1>1, <1>2, <3>2 DEF Order
        <4> QED
          BY <4>2, <4>3
      <3> QED
        BY <1>4, <3>1, <3>3, HorizonNat
    <2> QED
      BY <2>1, <2>2
  <1>6. PICK st : st = Prefix(p, e)
    OBVIOUS
  <1>7. st \in State /\ AllSure(h, st)
    <2>1. e <= Len(p)
      BY <1>4
    <2> QED
      BY <1>1, <1>5, <1>6, <2>1, PrefixSure
  <1> QED
    BY <1>1, <1>2, <1>4, <1>6, <1>7, SureIsReal

LEMMA FrameBeginKeeps ==
    ASSUME EngineInv, Undisturbed, Undisturbed', FrameBegin
    PROVE  EngineInv'
  <1>1. /\ Core(mu, past, queue, saves, held) /\ Loop(mu, queue, at)
        /\ Within(mu) /\ mu.endSeen <= MaxFrame + 1 /\ cut = {}
    BY DEF EngineInv
  <1>2. /\ ~mu.over /\ at.where = "begin" /\ held' = held
        /\ at' = [at EXCEPT !.where = "end"] /\ cut' = Cut /\ ~Outruns
    BY DEF FrameBegin, Playing, Undisturbed
  <1>3. PICK r, l, rq, sv : /\ r = RollbackPads.mu /\ l = Loaded
                            /\ rq = RollbackPads.queue /\ sv = Freed
    OBVIOUS
  <1>4. Ready(r, l, rq, sv)
    <2>1. CASE ~mu.stable \/ (mu.shouldLoad /\ Len(past) < mu.ss)
      BY <1>1, <1>2, <1>3, <2>1, ReadyAsIs
    <2>2. CASE mu.stable /\ ~(mu.shouldLoad /\ Len(past) < mu.ss)
      BY <1>1, <1>2, <1>3, <2>2, ReadyAgain
    <2> QED
      BY <2>1, <2>2
  <1>5. /\ Core(r, l, rq, sv, held) /\ Len(rq) >= 1
        /\ r.shouldLoad => Len(l) # r.ss \/ r.rx.latest < r.ss
        /\ SameRest(mu, r) /\ r.stable = mu.stable /\ Within(r)
        /\ r.active /\ ~r.shouldLoad => Len(rq) = 1
        /\ ~mu.stable => at.left >= 1 /\ Len(rq) >= at.left
    BY <1>1, <1>4 DEF Ready
  <1>6. Ran(r, l, rq, sv, mu', past', queue', saves')
    <2>1. rq # <<>>
      <3>1. rq \in State
        BY <1>5, CoreParts DEF Core
      <3> QED
        BY <1>5, <3>1 DEF State
    <2>2. Taken(rq, l) = Head(rq) /\ Rest(rq) = Tail(rq)
      BY <2>1 DEF Taken, Rest
    <2>3. PICK d \in BOOLEAN : d = mu.disconnected
      BY <1>1, CoreParts, MuFields DEF Core
    <2>4. PICK b, w : /\ b = Settle([r EXCEPT !.started = TRUE, !.displayed = d], Len(l))
                      /\ w = WriteChecksum(b, Len(l), l)
      OBVIOUS
    <2>5. /\ mu' = SeeEnd(w, Len(l), l)
          /\ saves' = IF Captures(w, Len(l)) THEN Capture(sv, Len(l), l) ELSE sv
          /\ past' = Append(l, Taken(rq, l)) /\ queue' = Rest(rq)
      BY <1>3, <2>3, <2>4 DEF FrameBegin
    <2> QED
      BY <2>2, <2>4, <2>5 DEF Ran
  <1>7. /\ Core(mu', past', queue', saves', held)
        /\ SameRoll(r, mu') /\ Len(queue') = Len(rq) - 1
        /\ Stepped(r, mu', Len(l), l) /\ Len(past') = Len(l) + 1 /\ Settled(mu', past')
    BY <1>5, <1>6, BodyKeeps
  <1>8. /\ mu' \in MuType /\ past' \in State /\ queue' \in State /\ held \in Pads
        /\ Order(mu', past', queue') /\ l \in State /\ rq \in State /\ mu \in MuType
    BY <1>1, <1>5, <1>7, CoreParts DEF Core
  <1>9. PICK f \in Nat, c \in Nat : f = Len(l) /\ c = Len(rq)
    BY <1>8 DEF State
  <1>10. Loop(mu', queue', at')
    <2>1. /\ mu'.active = r.active /\ mu'.shouldLoad = r.shouldLoad
          /\ mu'.stable = mu.stable
      BY <1>5, <1>7 DEF SameRoll
    <2>2. /\ at \in [where : {"wait", "begin", "end"}, left : 0 .. MaxQueue + 1]
      BY <1>1 DEF Loop
    <2>3. /\ at' \in [where : {"wait", "begin", "end"}, left : 0 .. MaxQueue + 1]
          /\ at'.where = "end" /\ at'.left = at.left
      BY <1>2, <2>2
    <2>4. ~mu'.stable => Len(queue') >= at'.left - 1
      <3>1. at.left \in Nat /\ Len(rq) = c /\ Len(queue') = c - 1
        BY <1>7, <1>9, <2>2, Sizes
      <3>2. ~mu.stable => c >= at.left
        BY <1>5, <1>9
      <3> QED
        BY <2>1, <2>3, <3>1, <3>2
    <2>5. mu'.active /\ ~mu'.shouldLoad => queue' = <<>>
      <3>1. ASSUME Len(queue') = 0
            PROVE  queue' = <<>>
        BY <1>8, <3>1 DEF State
      <3> QED
        BY <1>5, <1>7, <2>1, <3>1
    <2> QED
      BY <2>3, <2>4, <2>5 DEF Loop
  <1>11. mu'.endSeen \in Nat /\ mu'.endSeen <= MaxFrame + 1
    <2>1. mu'.endSeen \in {0, f, mu.endSeen}
      BY <1>5, <1>7, <1>9 DEF Stepped, SameRest
    <2>2. f <= MaxFrame + 1
      <3>1. Known(past', queue') <= MaxFrame + 2
        <4>1. Known(past', queue') <= Asked(mu') /\ Asked(mu') <= MaxFrame + 2
              /\ Known(past', queue') \in Nat /\ Asked(mu') \in Nat
          BY <1>8, KnownAsked, Numbers
        <4> QED
          BY <4>1, Sizes
      <3>2. Known(past', queue') = (f + 1) + (c - 1) /\ c >= 1
        BY <1>5, <1>7, <1>9 DEF Known
      <3> QED
        BY <3>1, <3>2, Sizes
    <2>3. mu.endSeen \in Nat
      BY <1>8, MuFields
    <2> QED
      BY <1>1, <2>1, <2>2, <2>3, Sizes
  <1>12. mu'.over => /\ Len(held) >= mu'.endSeen - 1
                     /\ Real(held, Prefix(past', mu'.endSeen))
    <2> SUFFICES ASSUME mu'.over
                 PROVE  /\ Len(held) >= mu'.endSeen - 1
                        /\ Real(held, Prefix(past', mu'.endSeen))
      OBVIOUS
    <2>1. ~r.over
      BY <1>2, <1>5 DEF SameRest
    <2>2. f - mu'.endSeen > Horizon
      BY <1>7, <1>9, <2>1 DEF Stepped
    <2>3. Len(past') = f + 1
      BY <1>7, <1>9
    <2> QED
      BY <1>7, <2>2, <2>3, OverIsReal
  <1>13. EndIsReal'
    BY <1>2, <1>12 DEF EndIsReal, IsReal, Real, Prefix
  <1>14. Within(mu')
    <2>1. mu'.ss = r.ss /\ mu'.endFrame = r.endFrame
      BY <1>7 DEF Stepped, SameGuesses, SameRoll
    <2> QED
      BY <1>5, <2>1 DEF Within
  <1>15. cut' = {}
    <2>1. ~Displays
      BY DEF Displays, Undisturbed
    <2> QED
      BY <1>1, <1>2, <2>1 DEF Cut
  <1> QED
    BY <1>2, <1>7, <1>10, <1>11, <1>13, <1>14, <1>15 DEF EngineInv

-----------------------------------------------------------------------------
(* FrameEnd, RunEngine and the alarm *)

\* What a step leaves of mu_online that only leaves a rollback, or notes something.
SameGame(m, n) ==
    /\ SameFrame(m, n) /\ SameFin(m, n) /\ SameGuesses(m, n) /\ SameLocal(m, n)
    /\ SameRing(m, n) /\ SameReply(m, n)
    /\ n.endFrame = m.endFrame /\ n.shouldLoad = m.shouldLoad
    /\ n.endSeen = m.endSeen /\ n.over = m.over /\ n.started = m.started

LEMMA LeaveFields ==
    ASSUME NEW m \in MuType, NEW n, n = [m EXCEPT !.active = FALSE, !.stable = FALSE]
    PROVE  /\ n \in MuType /\ SameGame(m, n) /\ n.active = FALSE /\ n.stable = FALSE
           /\ n.force = m.force
  <1>1. /\ n \in MuType /\ n.active = FALSE /\ n.stable = FALSE /\ n.force = m.force
        /\ n.endFrame = m.endFrame /\ n.shouldLoad = m.shouldLoad
        /\ n.endSeen = m.endSeen /\ n.over = m.over /\ n.started = m.started
    BY DEF MuType
  <1>2. /\ SameFrame(m, n) /\ SameFin(m, n) /\ SameGuesses(m, n) /\ SameLocal(m, n)
        /\ SameRing(m, n) /\ SameReply(m, n)
    BY DEF MuType, SameFrame, SameFin, SameGuesses, SameLocal, SameRing, SameReply
  <1> QED
    BY <1>1, <1>2 DEF SameGame

LEMMA StableFields ==
    ASSUME NEW m \in MuType, NEW b \in {TRUE, FALSE}, NEW n, n = [m EXCEPT !.stable = b]
    PROVE  /\ n \in MuType /\ SameGame(m, n) /\ n.active = m.active /\ n.stable = b
           /\ n.force = m.force
  <1>1. /\ n \in MuType /\ n.active = m.active /\ n.stable = b /\ n.force = m.force
        /\ n.endFrame = m.endFrame /\ n.shouldLoad = m.shouldLoad
        /\ n.endSeen = m.endSeen /\ n.over = m.over /\ n.started = m.started
    BY DEF MuType
  <1>2. /\ SameFrame(m, n) /\ SameFin(m, n) /\ SameGuesses(m, n) /\ SameLocal(m, n)
        /\ SameRing(m, n) /\ SameReply(m, n)
    BY DEF MuType, SameFrame, SameFin, SameGuesses, SameLocal, SameRing, SameReply
  <1> QED
    BY <1>1, <1>2 DEF SameGame

LEMMA ForceFields ==
    ASSUME NEW m \in MuType, NEW b \in {TRUE, FALSE}, NEW n, n = [m EXCEPT !.force = b]
    PROVE  /\ n \in MuType /\ SameGame(m, n) /\ n.active = m.active /\ n.stable = m.stable
           /\ n.force = b
  <1>1. /\ n \in MuType /\ n.active = m.active /\ n.stable = m.stable /\ n.force = b
        /\ n.endFrame = m.endFrame /\ n.shouldLoad = m.shouldLoad
        /\ n.endSeen = m.endSeen /\ n.over = m.over /\ n.started = m.started
    BY DEF MuType
  <1>2. /\ SameFrame(m, n) /\ SameFin(m, n) /\ SameGuesses(m, n) /\ SameLocal(m, n)
        /\ SameRing(m, n) /\ SameReply(m, n)
    BY DEF MuType, SameFrame, SameFin, SameGuesses, SameLocal, SameRing, SameReply
  <1> QED
    BY <1>1, <1>2 DEF SameGame

\* What the steps that change no frame leave of the rest of the invariant.
LEMMA SettledStays ==
    ASSUME NEW m, NEW n, NEW p, Settled(m, p), SameGame(m, n)
    PROVE  Settled(n, p)
  BY DEF Settled, SameGame, SameFin

LEMMA CoreStays ==
    ASSUME NEW m, NEW p, NEW q, NEW s, NEW h, Core(m, p, q, s, h), Settled(m, p),
           NEW n \in MuType, SameGame(m, n), n.active => m.active,
           Asked(n) = Asked(m), Order(n, p, q)
    PROVE  Core(n, p, q, s, h)
  <1>1. /\ m \in MuType /\ p \in State /\ q \in State /\ h \in Pads
        /\ \A g \in DOMAIN s : s[g] \in State
        /\ SamplesOK(m, p, q, h) /\ Order(m, p, q) /\ RxOK(m, h) /\ HeldOK(h)
        /\ FinOK(m, p) /\ RingOK(m, p) /\ TxOK(m, h) /\ SavesOK(m, p, s)
        /\ LocalAt(m, Asked(m))
    BY CoreParts DEF Core
  <1>2. /\ n.frame = m.frame /\ n.predicting = m.predicting /\ n.ss = m.ss
        /\ n.guesses = m.guesses /\ n.shouldLoad = m.shouldLoad
        /\ n.endFrame = m.endFrame /\ n.rx = m.rx /\ n.tx = m.tx
        /\ n.ring = m.ring /\ n.ringIdx = m.ringIdx /\ n.ringLast = m.ringLast
        /\ n.finalized = m.finalized /\ n.stableFinalized = m.stableFinalized
        /\ SameGuesses(m, n) /\ SameLocal(m, n)
    BY DEF SameGame, SameFrame, SameGuesses, SameRing, SameReply, SameFin
  <1>3. SureTo(n) = SureTo(m)
    BY <1>2 DEF SureTo
  <1>4. SamplesOK(n, p, q, h)
    BY <1>1, <1>2, <1>3, SamplesStay
  <1>5. RxOK(n, h) /\ TxOK(n, h)
    BY <1>1, <1>2 DEF RxOK, TxOK
  <1>6. FinOK(n, p)
    BY <1>1, <1>2, <1>3 DEF FinOK, Settled
  <1>7. RingOK(n, p)
    BY <1>1, <1>2 DEF RingOK, EntryOK, RingSlot
  <1>8. SavesOK(n, p, s)
    BY <1>1, <1>2 DEF SavesOK
  <1>9. LocalAt(n, Asked(n))
    BY <1>1, <1>2 DEF LocalAt, SameLocal
  <1> QED
    BY <1>1, <1>4, <1>5, <1>6, <1>7, <1>8, <1>9 DEF Core, Body, CoreTypes

\* A rollback that has run all its frames has come to the next frame to ask for.
LEMMA RunOut ==
    ASSUME NEW m, NEW p, NEW q, NEW s, NEW h, Core(m, p, q, s, h), m.stable,
           ~(Len(p) - 1 < m.endFrame), m.active /\ ~m.shouldLoad => q = <<>>
    PROVE  /\ m.active /\ ~m.shouldLoad /\ q = <<>>
           /\ m.frame = Known(p, q) /\ Known(p, q) >= 1 /\ m.frame = m.endFrame + 1
  <1>1. m \in MuType /\ p \in State /\ q \in State /\ h \in Pads /\ Order(m, p, q)
    BY CoreParts DEF Core
  <1>2. PICK e \in Nat, k \in Nat, l \in Nat, c \in Nat, f \in Nat :
            /\ e = m.endFrame /\ k = Known(p, q) /\ l = Len(p) /\ c = Len(q) /\ f = m.frame
            /\ k = l + c
    <2>1. /\ Known(p, q) \in Nat /\ Len(p) \in Nat /\ Len(q) \in Nat
          /\ Known(p, q) = Len(p) + Len(q)
      BY <1>1, Numbers
    <2>2. m.endFrame \in Nat /\ m.frame \in Nat
      BY <1>1, MuFields
    <2> QED
      BY <2>1, <2>2
  <1>3. m.active
    BY <1>1 DEF Order
  <1>4. ~m.shouldLoad
    <2> SUFFICES ASSUME m.shouldLoad
                 PROVE  FALSE
      OBVIOUS
    <2>1. e \in {k, k + 1}
      BY <1>1, <1>2 DEF Order
    <2> QED
      BY <1>2, <2>1
  <1>5. q = <<>> /\ f = k /\ k >= 1 /\ f <= e + 1
    BY <1>1, <1>2, <1>3, <1>4 DEF Order
  <1>6. c = 0
    BY <1>2, <1>5
  <1>7. f = e + 1
    BY <1>2, <1>5, <1>6
  <1> QED
    BY <1>2, <1>3, <1>4, <1>5, <1>7

LEMMA FrameEndKeeps ==
    ASSUME EngineInv, FrameEnd
    PROVE  EngineInv'
  <1>1. /\ Core(mu, past, queue, saves, held) /\ Loop(mu, queue, at)
        /\ Within(mu) /\ mu.endSeen <= MaxFrame + 1 /\ Settled(mu, past) /\ cut = {}
    BY DEF EngineInv
  <1>2. /\ mu \in MuType /\ past \in State /\ queue \in State /\ held \in Pads
        /\ Order(mu, past, queue)
    BY <1>1, CoreParts DEF Core
  <1>3. PICK again, done, left :
            /\ again = (mu.stable /\ Len(past) - 1 < mu.endFrame)
            /\ done = (mu.stable /\ ~again) /\ left = Larger(at.left - 1, 0)
    OBVIOUS
  <1>4. /\ ~mu.over /\ at.where = "end"
        /\ at' = IF again \/ (~done /\ left > 0)
                 THEN [where |-> "begin", left |-> left] ELSE [where |-> "wait", left |-> 0]
        /\ mu' = IF done THEN [mu EXCEPT !.active = FALSE, !.stable = FALSE] ELSE mu
        /\ past' = past /\ queue' = queue /\ saves' = saves /\ held' = held /\ cut' = cut
    BY <1>3 DEF FrameEnd, Playing
  <1>5. /\ at.left \in Nat /\ at.left <= MaxQueue + 1
        /\ left = IF at.left >= 1 THEN at.left - 1 ELSE 0
        /\ left \in 0 .. MaxQueue + 1
    <2>1. at.left \in Nat /\ at.left <= MaxQueue + 1
      BY <1>1, Sizes DEF Loop
    <2> QED
      BY <1>3, <2>1, Sizes DEF Larger
  <1>6. PICK e \in Nat, k \in Nat, f \in Nat, c \in Nat, l \in Nat :
            /\ e = mu.endFrame /\ k = Known(past, queue) /\ f = mu.frame
            /\ c = Len(queue) /\ l = Len(past) /\ k = l + c
    <2>1. /\ Known(past, queue) \in Nat /\ Len(past) \in Nat /\ Len(queue) \in Nat
          /\ Known(past, queue) = Len(past) + Len(queue)
      BY <1>2, Numbers
    <2>2. mu.endFrame \in Nat /\ mu.frame \in Nat
      BY <1>2, MuFields
    <2> QED
      BY <2>1, <2>2
  <1>7. CASE done
    <2>1. mu.stable /\ ~again /\ ~(Len(past) - 1 < mu.endFrame)
      BY <1>3, <1>7
    <2>2. /\ mu.active /\ ~mu.shouldLoad /\ queue = <<>>
          /\ mu.frame = Known(past, queue) /\ Known(past, queue) >= 1
          /\ mu.frame = mu.endFrame + 1
      <3>1. mu.active /\ ~mu.shouldLoad => queue = <<>>
        BY <1>1 DEF Loop
      <3> QED
        BY <1>1, <2>1, <3>1, RunOut
    <2>3. /\ mu' \in MuType /\ SameGame(mu, mu') /\ mu'.active = FALSE /\ mu'.stable = FALSE
          /\ mu'.force = mu.force
      BY <1>2, <1>4, <1>7, LeaveFields
    <2>4. /\ mu'.frame = mu.frame /\ mu'.started = mu.started
          /\ mu'.shouldLoad = mu.shouldLoad /\ mu'.predicting = mu.predicting
          /\ mu'.ss = mu.ss /\ mu'.guesses = mu.guesses /\ mu'.endFrame = mu.endFrame
          /\ mu'.endSeen = mu.endSeen /\ mu'.over = mu.over
      BY <2>3 DEF SameGame, SameFrame, SameGuesses
    <2>5. Asked(mu') = Asked(mu)
      BY <2>2, <2>3, <2>4 DEF Asked
    <2>6. Order(mu', past, queue)
      <3>1. k >= 1 /\ mu'.frame = k /\ k # 0
        BY <1>6, <2>2, <2>4
      <3> QED
        BY <1>2, <1>6, <2>2, <2>3, <2>4, <2>5, <3>1 DEF Order
    <2>7. Core(mu', past, queue, saves, held)
      BY <1>1, <2>3, <2>5, <2>6, CoreStays
    <2>8. Loop(mu', queue, at')
      <3>1. at' = [where |-> "wait", left |-> 0]
        BY <1>4, <1>7, <2>1
      <3> QED
        BY <2>3, <3>1, Sizes DEF Loop
    <2>9. Within(mu') /\ mu'.endSeen <= MaxFrame + 1 /\ ~mu'.over
      BY <1>1, <1>4, <2>4 DEF Within
    <2>10. Settled(mu', past)
      BY <1>1, <2>3, SettledStays
    <2> QED
      BY <1>1, <1>4, <2>7, <2>8, <2>9, <2>10 DEF EngineInv, EndIsReal
  <1>8. CASE ~done
    <2>1. mu' = mu /\ (mu.stable => again)
      BY <1>3, <1>4, <1>8
    <2>2. CASE mu.stable
      <3>1. at' = [where |-> "begin", left |-> left] /\ Len(past) - 1 < mu.endFrame
        BY <1>3, <1>4, <2>1, <2>2
      <3>2. ASSUME mu.active, ~mu.shouldLoad
            PROVE  queue = <<>> /\ mu.frame <= mu.endFrame
        <4>1. queue = <<>>
          BY <1>1, <3>2 DEF Loop
        <4>2. c = 0 /\ f = k
          BY <1>2, <1>6, <3>2, <4>1 DEF Order
        <4> QED
          BY <1>6, <3>1, <4>1, <4>2
      <3>3. Loop(mu', queue, at')
        BY <1>5, <2>1, <2>2, <3>1, <3>2 DEF Loop
      <3> QED
        BY <1>1, <1>4, <2>1, <3>3 DEF EngineInv, EndIsReal
    <2>3. CASE ~mu.stable
      <3>1. ~again
        BY <1>3, <2>3
      <3>2. mu.active /\ ~mu.shouldLoad => queue = <<>>
        BY <1>1 DEF Loop
      <3>3. CASE left > 0
        <4>1. at' = [where |-> "begin", left |-> left]
          BY <1>4, <1>8, <3>3
        <4>2. left >= 1 /\ left <= c
          <5>1. at.left <= 1 \/ c >= at.left - 1
            BY <1>1, <1>4, <1>6, <2>3 DEF Loop
          <5> QED
            BY <1>5, <1>6, <3>3, <5>1
        <4>4. ~(mu.active /\ ~mu.shouldLoad)
          BY <1>2, <2>3 DEF Order
        <4>3. Loop(mu', queue, at')
          BY <1>5, <1>6, <2>1, <2>3, <4>1, <4>2, <4>4 DEF Loop
        <4> QED
          BY <1>1, <1>4, <2>1, <4>3 DEF EngineInv, EndIsReal
      <3>4. CASE ~(left > 0)
        <4>1. at' = [where |-> "wait", left |-> 0]
          BY <1>4, <1>8, <3>1, <3>4
        <4>2. Loop(mu', queue, at')
          BY <2>1, <2>3, <3>2, <4>1, Sizes DEF Loop
        <4> QED
          BY <1>1, <1>4, <2>1, <4>2 DEF EngineInv, EndIsReal
      <3> QED
        BY <3>3, <3>4
    <2> QED
      BY <2>2, <2>3
  <1> QED
    BY <1>7, <1>8

LEMMA RunEngineKeeps ==
    ASSUME EngineInv, RunEngine
    PROVE  EngineInv'
  <1>1. /\ Core(mu, past, queue, saves, held) /\ Loop(mu, queue, at)
        /\ Within(mu) /\ mu.endSeen <= MaxFrame + 1 /\ Settled(mu, past) /\ cut = {}
    BY DEF EngineInv
  <1>2. /\ mu \in MuType /\ past \in State /\ queue \in State /\ held \in Pads
        /\ Order(mu, past, queue)
    BY <1>1, CoreParts DEF Core
  <1>3. /\ ~mu.over /\ at.where = "wait" /\ (queue # <<>> \/ mu.active)
        /\ at' = [where |-> "begin", left |-> Larger(Len(queue), 1)]
        /\ mu' = [mu EXCEPT !.stable = mu.active]
        /\ past' = past /\ queue' = queue /\ saves' = saves /\ held' = held /\ cut' = cut
    BY DEF RunEngine, Waits, Playing
  <1>4. ~mu.stable /\ (mu.active => mu.shouldLoad)
    BY <1>1, <1>2, <1>3 DEF Loop, Order
  <1>5. /\ mu' \in MuType /\ SameGame(mu, mu') /\ mu'.active = mu.active
        /\ mu'.stable = mu.active /\ mu'.force = mu.force
    <2>1. PICK b : b = mu.active
      OBVIOUS
    <2>2. b \in {TRUE, FALSE} /\ mu' = [mu EXCEPT !.stable = b]
      BY <1>2, <1>3, <2>1, MuFields
    <2> QED
      BY <1>2, <2>1, <2>2, StableFields
  <1>6. /\ mu'.frame = mu.frame /\ mu'.started = mu.started
        /\ mu'.shouldLoad = mu.shouldLoad /\ mu'.predicting = mu.predicting
        /\ mu'.ss = mu.ss /\ mu'.guesses = mu.guesses /\ mu'.endFrame = mu.endFrame
        /\ mu'.endSeen = mu.endSeen /\ mu'.over = mu.over
    BY <1>5 DEF SameGame, SameFrame, SameGuesses
  <1>7. Asked(mu') = Asked(mu)
    BY <1>5, <1>6 DEF Asked
  <1>8. Order(mu', past, queue)
    BY <1>2, <1>4, <1>5, <1>6, <1>7 DEF Order
  <1>9. Core(mu', past, queue, saves, held)
    BY <1>1, <1>5, <1>7, <1>8, CoreStays
  <1>10. Loop(mu', queue, at')
    <2>1. PICK c \in Nat : c = Len(queue)
      BY <1>2, Numbers
    <2>2. c <= MaxQueue + 1 /\ (queue # <<>> => c >= 1)
      BY <1>2, <2>1 DEF Order, State
    <2>3. Larger(c, 1) \in 0 .. MaxQueue + 1 /\ Larger(c, 1) >= 1
          /\ (c >= 1 => Larger(c, 1) = c)
      BY <2>1, <2>2, Sizes DEF Larger
    <2>4. /\ at'.where = "begin" /\ at'.left = Larger(c, 1)
          /\ at' \in [where : {"wait", "begin", "end"}, left : 0 .. MaxQueue + 1]
      BY <1>3, <2>1, <2>3
    <2> QED
      BY <1>3, <1>4, <1>5, <1>6, <2>1, <2>2, <2>3, <2>4 DEF Loop
  <1>11. Within(mu') /\ mu'.endSeen <= MaxFrame + 1 /\ ~mu'.over
    BY <1>1, <1>3, <1>6 DEF Within
  <1>12. Settled(mu', past)
    BY <1>1, <1>5, SettledStays
  <1> QED
    BY <1>1, <1>3, <1>9, <1>10, <1>11, <1>12 DEF EngineInv, EndIsReal

\* A rollback is of frames that are known.
LEMMA ActiveKnown ==
    ASSUME NEW m, NEW p, NEW q, NEW s, NEW h, Core(m, p, q, s, h), m.active \/ m.predicting
    PROVE  Known(p, q) >= 1
  <1>1. m \in MuType /\ p \in State /\ q \in State /\ h \in Pads /\ Order(m, p, q)
    BY CoreParts DEF Core
  <1>2. CASE m.predicting
    <2>1. /\ m.ss >= SyncFrame - Delay /\ m.ss + Len(m.guesses) = Known(p, q)
          /\ m.ss \in Nat /\ Len(m.guesses) \in Nat
      BY <1>1, <1>2, MuFields, Numbers DEF Order
    <2> QED
      BY <2>1, Sizes
  <1>3. CASE m.active /\ ~m.predicting
    BY <1>1, <1>3 DEF Order
  <1> QED
    BY <1>2, <1>3

LEMMA ForceKeeps ==
    ASSUME EngineInv, ~mu.over, mu.active, mu' = [mu EXCEPT !.force = TRUE],
           UNCHANGED <<past, queue, saves, held, at, cut>>
    PROVE  EngineInv'
  <1>1. /\ Core(mu, past, queue, saves, held) /\ Loop(mu, queue, at)
        /\ Within(mu) /\ mu.endSeen <= MaxFrame + 1 /\ Settled(mu, past) /\ cut = {}
    BY DEF EngineInv
  <1>2. /\ mu \in MuType /\ past \in State /\ queue \in State /\ held \in Pads
        /\ Order(mu, past, queue)
    BY <1>1, CoreParts DEF Core
  <1>3. /\ mu' \in MuType /\ SameGame(mu, mu') /\ mu'.active = mu.active
        /\ mu'.stable = mu.stable /\ mu'.force = TRUE
    BY <1>2, ForceFields
  <1>4. /\ mu'.frame = mu.frame /\ mu'.started = mu.started
        /\ mu'.shouldLoad = mu.shouldLoad /\ mu'.predicting = mu.predicting
        /\ mu'.ss = mu.ss /\ mu'.guesses = mu.guesses /\ mu'.endFrame = mu.endFrame
        /\ mu'.endSeen = mu.endSeen /\ mu'.over = mu.over
    BY <1>3 DEF SameGame, SameFrame, SameGuesses
  <1>5. Known(past, queue) >= 1
    BY <1>1, ActiveKnown
  <1>6. Asked(mu') = Asked(mu)
    BY <1>3, <1>4 DEF Asked
  <1>7. Order(mu', past, queue)
    BY <1>2, <1>3, <1>4, <1>5, <1>6 DEF Order
  <1>8. Core(mu', past, queue, saves, held)
    BY <1>1, <1>3, <1>6, <1>7, CoreStays
  <1>9. Loop(mu', queue, at)
    BY <1>1, <1>3, <1>4 DEF Loop
  <1>10. Within(mu') /\ mu'.endSeen <= MaxFrame + 1 /\ ~mu'.over
    BY <1>1, <1>4 DEF Within
  <1>11. Settled(mu', past)
    BY <1>1, <1>3, SettledStays
  <1> QED
    BY <1>1, <1>8, <1>9, <1>10, <1>11 DEF EngineInv, EndIsReal

LEMMA FirstSampleKeeps ==
    ASSUME EngineInv, ~mu.over, ~mu.started, queue = <<>>,
           queue' = <<Sample(0, 0, NoPad)>>,
           UNCHANGED <<mu, past, saves, held, at, cut>>
    PROVE  EngineInv'
  <1>1. /\ Core(mu, past, queue, saves, held) /\ Loop(mu, queue, at)
        /\ Within(mu) /\ mu.endSeen <= MaxFrame + 1 /\ Settled(mu, past) /\ cut = {}
    BY DEF EngineInv
  <1>2. /\ mu \in MuType /\ past \in State /\ queue \in State /\ held \in Pads
        /\ \A g \in DOMAIN saves : saves[g] \in State
        /\ SamplesOK(mu, past, queue, held) /\ Order(mu, past, queue) /\ RxOK(mu, held)
        /\ HeldOK(held) /\ FinOK(mu, past) /\ RingOK(mu, past) /\ TxOK(mu, held)
        /\ SavesOK(mu, past, saves) /\ LocalAt(mu, Asked(mu))
    BY <1>1, CoreParts DEF Core
  <1>3. Len(past) = 0 /\ Len(queue) = 0 /\ Known(past, queue) = 0
    <2>1. Len(past) \in Nat /\ Len(queue) = 0
      BY <1>2, Numbers
    <2>2. ~(Len(past) >= 1)
      BY <1>2 DEF Order
    <2>3. Len(past) = 0
      BY <2>1, <2>2
    <2> QED
      BY <2>1, <2>3 DEF Known
  <1>4. ~mu.active /\ ~mu.predicting
    BY <1>1, <1>3, ActiveKnown
  <1>5. PICK e, q2 : e = Sample(0, 0, NoPad) /\ q2 = <<e>>
    OBVIOUS
  <1>6. e \in SampleType /\ e.frame = 0 /\ e.local = 0
    BY <1>5, Sizes DEF Sample, SampleType
  <1>7. q2 \in State /\ Len(q2) = 1 /\ q2[1] = e
    BY <1>5, <1>6 DEF State
  <1>8. SamplesOK(mu, past, q2, held)
    <2>1. Mine(0) = 0
      BY Sizes DEF Mine
    <2>2. SampleOK(mu, held, e, 0)
      BY <1>4, <1>6, <2>1 DEF SampleOK
    <2>3. \A i \in 1 .. Len(q2) : i = 1 /\ Len(past) + i - 1 = 0
      BY <1>3, <1>7
    <2> QED
      BY <1>2, <1>7, <2>2, <2>3 DEF SamplesOK
  <1>9. Order(mu, past, q2)
    <2>1. Known(past, q2) = 1 /\ 1 <= MaxQueue + 1
      BY <1>3, <1>7, Sizes DEF Known
    <2> QED
      BY <1>2, <1>3, <1>4, <1>7, <2>1 DEF Order
  <1>10. Core(mu, past, q2, saves, held)
    BY <1>2, <1>7, <1>8, <1>9 DEF Core, Body, CoreTypes
  <1>11. Loop(mu, q2, at)
    <2>1. at.left \in Nat
      BY <1>1, Sizes DEF Loop
    <2>2. at.where = "end" /\ ~mu.stable => at.left <= 1
      BY <1>1, <1>3, <2>1 DEF Loop
    <2>3. ~(at.where = "begin" /\ ~mu.stable)
      BY <1>1, <1>3, <2>1 DEF Loop
    <2> QED
      BY <1>1, <1>4, <2>2, <2>3 DEF Loop
  <1> QED
    BY <1>1, <1>5, <1>10, <1>11 DEF EngineInv, EndIsReal

\* A fetch, by the alarm or once a rollback is done.
LEMMA FetchStep ==
    ASSUME EngineInv, ~mu.over, NEW m, Core(m, past, queue, saves, held), Within(m),
           SameGame(mu, m), m.stable = mu.stable, ~m.active, Known(past, queue) >= 1, MayAsk,
           Fetch(m), ~mu'.disconnected, UNCHANGED <<past, saves, at, cut>>
    PROVE  EngineInv'
  <1>1. Loop(mu, queue, at) /\ mu.endSeen <= MaxFrame + 1 /\ Settled(mu, past) /\ cut = {}
    BY DEF EngineInv
  <1>2. PICK c \in Fetched(m) : mu' = c.mu /\ queue' = c.queue /\ held' = c.held
    BY DEF Fetch
  <1>3. /\ m.frame = mu.frame /\ m.over = mu.over /\ m.endSeen = mu.endSeen
    BY DEF SameGame, SameFrame
  <1>4. AfterCall(m, past, queue, c, saves, c.held)
    BY <1>2, <1>3, FetchKeeps DEF MayAsk
  <1>5. /\ Core(mu', past, queue', saves, held') /\ SameRest(m, mu')
        /\ mu'.stable = mu.stable /\ (mu'.active => mu'.shouldLoad) /\ Within(mu')
        /\ Len(queue') >= Len(queue)
    BY <1>2, <1>4 DEF AfterCall
  <1>6. mu'.endSeen <= MaxFrame + 1 /\ ~mu'.over
    BY <1>1, <1>3, <1>5 DEF SameRest
  <1>7. Loop(mu', queue', at)
    <2>1. PICK a \in Nat, b \in Nat, c2 \in Nat :
              a = at.left /\ b = Len(queue) /\ c2 = Len(queue')
      <3>1. at.left \in Nat
        BY <1>1, Sizes DEF Loop
      <3>2. queue \in State /\ queue' \in State
        BY <1>5, CoreParts DEF EngineInv, Core
      <3> QED
        BY <3>1, <3>2 DEF State
    <2>2. /\ a <= b => a <= c2
          /\ b >= a - 1 => c2 >= a - 1
      BY <1>5, <2>1
    <2> QED
      BY <1>1, <1>5, <2>1, <2>2 DEF Loop
  <1>8. Settled(mu', past)
    <2>1. FinOK(mu', past)
      BY <1>5, CoreParts DEF Core
    <2> QED
      BY <1>5, <2>1 DEF FinOK, Settled
  <1> QED
    BY <1>1, <1>5, <1>6, <1>7, <1>8 DEF EngineInv, EndIsReal

LEMMA AlarmKeeps ==
    ASSUME EngineInv, Undisturbed', Alarm
    PROVE  EngineInv'
  <1>1. Core(mu, past, queue, saves, held) /\ Loop(mu, queue, at) /\ Within(mu)
    BY DEF EngineInv
  <1>2. ~mu.over /\ ~mu'.disconnected /\ UNCHANGED <<past, saves, at, cut>>
    BY DEF Alarm, Playing, Undisturbed
  <1>3. CASE mu.active /\ mu' = [mu EXCEPT !.force = TRUE] /\ UNCHANGED <<queue, held>>
    BY <1>2, <1>3, ForceKeeps
  <1>4. CASE ~mu.started /\ queue = <<>> /\ queue' = <<Sample(0, 0, NoPad)>>
             /\ UNCHANGED <<mu, held>>
    BY <1>2, <1>4, FirstSampleKeeps
  <1>5. CASE ~mu.active /\ (mu.started \/ queue # <<>>) /\ MayAsk /\ Fetch(mu)
    <2>1. Known(past, queue) >= 1
      <3>1. /\ mu \in MuType /\ past \in State /\ queue \in State /\ held \in Pads
            /\ Order(mu, past, queue)
        BY <1>1, CoreParts DEF Core
      <3>2. Len(past) >= 1 \/ Len(queue) >= 1
        BY <1>5, <3>1 DEF Order, State
      <3> QED
        BY <3>1, <3>2, Numbers
    <2>2. SameGame(mu, mu)
      BY DEF SameGame, SameFrame, SameFin, SameGuesses, SameLocal, SameRing, SameReply
    <2> QED
      BY <1>1, <1>2, <1>5, <2>1, <2>2, FetchStep
  <1> QED
    BY <1>3, <1>4, <1>5 DEF Alarm

LEMMA AskLateKeeps ==
    ASSUME EngineInv, Undisturbed', AskLate
    PROVE  EngineInv'
  <1>1. /\ Core(mu, past, queue, saves, held) /\ Loop(mu, queue, at) /\ Within(mu)
        /\ Settled(mu, past)
    BY DEF EngineInv
  <1>2. PICK m : m = [mu EXCEPT !.force = FALSE]
    OBVIOUS
  <1>3. /\ ~mu.over /\ at.where = "wait" /\ ~mu.active /\ mu.force /\ MayAsk /\ Fetch(m)
        /\ ~mu'.disconnected /\ UNCHANGED <<past, saves, at, cut>>
    BY <1>2 DEF AskLate, Waits, Playing, Undisturbed
  <1>4. /\ mu \in MuType /\ Order(mu, past, queue)
    BY <1>1, CoreParts DEF Core
  <1>5. /\ m \in MuType /\ SameGame(mu, m) /\ m.active = mu.active /\ m.stable = mu.stable
        /\ m.force = FALSE
    BY <1>2, <1>4, ForceFields
  <1>6. /\ m.frame = mu.frame /\ m.started = mu.started
        /\ m.shouldLoad = mu.shouldLoad /\ m.predicting = mu.predicting
        /\ m.ss = mu.ss /\ m.guesses = mu.guesses /\ m.endFrame = mu.endFrame
    BY <1>5 DEF SameGame, SameFrame, SameGuesses
  <1>7. Asked(m) = Asked(mu)
    BY <1>5, <1>6 DEF Asked
  <1>8. Order(m, past, queue)
    BY <1>4, <1>5, <1>6, <1>7 DEF Order
  <1>9. Core(m, past, queue, saves, held)
    BY <1>1, <1>5, <1>7, <1>8, CoreStays
  <1>10. Within(m) /\ Known(past, queue) >= 1
    BY <1>1, <1>3, <1>4, <1>6 DEF Within, Order
  <1> QED
    BY <1>3, <1>5, <1>9, <1>10, FetchStep

-----------------------------------------------------------------------------
(* The invariant *)

LEMMA NewMuType == NewMu \in MuType
  <1>1. NoReply \in Reply
    <2>1. <<>> \in [{} -> Pad] /\ {} \in SUBSET Nat
      OBVIOUS
    <2>2. <<>> \in Window
      BY <2>1 DEF Window
    <2> QED
      BY <2>2, Sizes DEF NoReply, Reply
  <1>2. [frame |-> 0, checksum |-> <<>>] \in Entry
    BY DEF Entry, State
  <1>3. /\ [i \in 0 .. Delay - 1 |-> 0] \in [DelaySlots -> Nat]
        /\ [i \in 0 .. LocalInputs - 1 |-> 0] \in [LocalSlots -> Nat]
        /\ [i \in 0 .. Checksums - 1 |-> [frame |-> 0, checksum |-> <<>>]]
               \in [RingSlots -> Entry]
    BY <1>2 DEF DelaySlots, LocalSlots, RingSlots
  <1>4. 0 \in DelaySlots /\ 0 \in LocalSlots /\ 0 \in RingSlots
    BY Sizes DEF DelaySlots, LocalSlots, RingSlots
  <1>5. <<>> \in Pads
    BY DEF Pads
  <1> QED
    BY <1>1, <1>2, <1>3, <1>4, <1>5 DEF NewMu, MuType

LEMMA NewMuFields ==
    /\ NewMu.disconnected = FALSE /\ NewMu.displayed = FALSE
    /\ NewMu.started = FALSE /\ NewMu.over = FALSE /\ NewMu.endSeen = 0
    /\ NewMu.force = FALSE /\ NewMu.frame = 1 /\ NewMu.rx = NoReply
    /\ NewMu.delayed = [i \in 0 .. Delay - 1 |-> 0] /\ NewMu.delayIdx = 0
    /\ NewMu.localIdx = 0 /\ NewMu.predicting = FALSE /\ NewMu.ss = 0
    /\ NewMu.guesses = <<>> /\ NewMu.active = FALSE /\ NewMu.shouldLoad = FALSE
    /\ NewMu.endFrame = 0 /\ NewMu.stable = FALSE /\ NewMu.finalized = 0
    /\ NewMu.stableFinalized = 0 /\ NewMu.ringIdx = 0 /\ NewMu.ringLast = 0
    /\ NewMu.ring = [i \in 0 .. Checksums - 1 |-> [frame |-> 0, checksum |-> <<>>]]
    /\ NewMu.tx.frame = 0 /\ NewMu.tx.checksum = <<>>
  BY DEF NewMu

LEMMA InitHolds == Init => EngineInv
  <1> SUFFICES ASSUME Init
               PROVE  EngineInv
    OBVIOUS
  <1>1. PICK e : e = Sample(0, 0, NoPad)
    OBVIOUS
  <1>2. /\ mu = NewMu /\ past = <<>> /\ saves = <<>> /\ held = <<>>
        /\ queue = <<>> \/ queue = <<e>>
        /\ at = [where |-> "wait", left |-> 0] /\ cut = {}
    BY <1>1 DEF Init
  <1>3. e \in SampleType /\ e.frame = 0 /\ e.local = 0
    BY <1>1, Sizes DEF Sample, SampleType
  <1>4. PICK c \in {0, 1} : /\ queue \in State /\ Len(queue) = c
                            /\ \A i \in 1 .. c : i = 1 /\ queue[i] = e
    <2>1. CASE queue = <<>>
      BY <2>1 DEF State
    <2>2. CASE queue = <<e>>
      BY <1>3, <2>2 DEF State
    <2> QED
      BY <1>2, <2>1, <2>2
  <1>5. /\ past \in State /\ Len(past) = 0 /\ held \in Pads /\ Len(held) = 0
        /\ DOMAIN saves = {}
    BY <1>2 DEF State, Pads
  <1>6. Known(past, queue) = c /\ Asked(mu) = 1 /\ SureTo(mu) = 1
    BY <1>2, <1>4, <1>5, NewMuFields DEF Known, Asked, SureTo
  <1>7. mu \in MuType
    BY <1>2, NewMuType
  <1>8. SamplesOK(mu, past, queue, held)
    <2>1. Mine(0) = 0
      BY Sizes DEF Mine
    <2>2. SampleOK(mu, held, e, 0)
      BY <1>2, <1>3, <2>1, NewMuFields DEF SampleOK
    <2>3. ASSUME NEW i \in 1 .. c
          PROVE  SampleOK(mu, held, queue[i], Len(past) + i - 1)
      <3>1. queue[i] = e /\ Len(past) + i - 1 = 0
        BY <1>4, <1>5
      <3> QED
        BY <2>2, <3>1
    <2> QED
      BY <1>4, <1>5, <2>3 DEF SamplesOK
  <1>9. Order(mu, past, queue)
    BY <1>2, <1>4, <1>5, <1>6, NewMuFields, Sizes DEF Order
  <1>10. RxOK(mu, held)
    <2>1. /\ mu.rx.latest = 0 /\ mu.rx.pads = <<>> /\ mu.rx.target = 0
          /\ mu.stableFinalized = 0 /\ ~mu.active
      BY <1>2, NewMuFields DEF NoReply
    <2>2. Shown(mu.rx, held, mu.stableFinalized)
      BY <1>5, <2>1 DEF Shown
    <2> QED
      BY <1>5, <1>6, <2>1, <2>2, Sizes DEF RxOK
  <1>11. HeldOK(held)
    BY <1>5, Sizes DEF HeldOK
  <1>12. FinOK(mu, past)
    BY <1>2, <1>6, NewMuFields, Sizes DEF FinOK
  <1>13. RingOK(mu, past)
    <2>1. /\ mu.ringLast = 0 /\ mu.stableFinalized = 0
          /\ mu.ring = [i \in 0 .. Checksums - 1 |-> [frame |-> 0, checksum |-> <<>>]]
      BY <1>2, NewMuFields
    <2>2. \A i \in RingSlots : mu.ring[i].frame = 0 /\ mu.ring[i].checksum = <<>>
      BY <2>1 DEF RingSlots
    <2>3. ASSUME NEW i \in RingSlots
          PROVE  EntryOK(mu, past, i)
      <3>1. SubSeq(past, 1, 0) = <<>>
        BY <1>2
      <3>2. PICK g, w : g = mu.ring[i].frame /\ w = mu.ring[i].checksum
        BY <2>2
      <3>3. g = 0 /\ w = SubSeq(past, 1, g)
        BY <2>2, <3>1, <3>2
      <3>4. g <= mu.ringLast /\ ~(g >= 1)
        BY <2>1, <3>3
      <3> QED
        BY <3>2, <3>3, <3>4 DEF EntryOK
    <2>4. ASSUME NEW g \in 0 .. 0
          PROVE  mu.ring[RingSlot(mu, g)].frame = g
      <3>1. g = 0 /\ RingSlot(mu, g) \in RingSlots
        BY <1>7, SlotType
      <3> QED
        BY <2>2, <3>1
    <2> QED
      BY <1>5, <1>6, <2>1, <2>3, <2>4, Sizes DEF RingOK
  <1>14. TxOK(mu, held)
    BY <1>2, NewMuFields DEF TxOK, AllSure
  <1>15. SavesOK(mu, past, saves)
    <2>1. Cardinality(DOMAIN saves) = 0
      BY <1>5, FS_EmptySet
    <2> QED
      BY <1>2, <1>5, <2>1, NewMuFields, Sizes DEF SavesOK
  <1>16. LocalAt(mu, Asked(mu))
    <2>1. ASSUME NEW k \in DelaySlots
          PROVE  mu.delayed[Ahead(mu.delayIdx + k, Delay)] = Mine(1 + k)
      <3>1. k \in Nat /\ k < Delay
        BY Sizes DEF DelaySlots
      <3>2. Ahead(0 + k, Delay) = k
        BY <3>1 DEF Ahead
      <3>3. mu.delayed[k] = 0
        BY <1>2, NewMuFields DEF DelaySlots
      <3>4. Mine(1 + k) = 0
        BY <3>1, Sizes DEF Mine
      <3> QED
        BY <1>2, <3>2, <3>3, <3>4, NewMuFields
    <2>2. \A j \in 1 .. LocalInputs : ~(j < 1)
      BY Sizes
    <2> QED
      BY <1>6, <2>1, <2>2 DEF LocalAt
  <1>17. Core(mu, past, queue, saves, held)
    BY <1>4, <1>5, <1>7, <1>8, <1>9, <1>10, <1>11, <1>12, <1>13, <1>14, <1>15, <1>16
    DEF Core, Body, CoreTypes
  <1>18. Loop(mu, queue, at)
    BY <1>2, NewMuFields, Sizes DEF Loop
  <1>19. Within(mu) /\ mu.endSeen <= MaxFrame + 1 /\ EndIsReal /\ Settled(mu, past)
    BY <1>2, NewMuFields, Sizes DEF Within, EndIsReal, Settled
  <1> QED
    BY <1>2, <1>17, <1>18, <1>19 DEF EngineInv

LEMMA NextKeeps ==
    ASSUME EngineInv, Undisturbed, Undisturbed', [Next]_vars
    PROVE  EngineInv'
  <1>1. CASE Alarm
    BY <1>1, AlarmKeeps
  <1>2. CASE AskLate
    BY <1>2, AskLateKeeps
  <1>3. CASE RunEngine
    BY <1>3, RunEngineKeeps
  <1>4. CASE FrameBegin
    BY <1>4, FrameBeginKeeps
  <1>5. CASE FrameEnd
    BY <1>5, FrameEndKeeps
  <1>6. CASE UNCHANGED vars
    BY <1>6 DEF vars, EngineInv, EndIsReal, IsReal, Undisturbed
  <1> QED
    BY <1>1, <1>2, <1>3, <1>4, <1>5, <1>6 DEF Next

\* The invariant the properties below rest on: which frames were asked for, run, waiting or
\* to be run again, and on which pads, through every call, rollback and body.
THEOREM EngineInvariant == Spec => [](Undisturbed => EngineInv)
  <1> DEFINE J == KnowsGone(mu) /\ (Undisturbed => EngineInv)
  <1>1. Init => J
    BY InitHolds DEF Init, NewMu, KnowsGone
  <1>2. J /\ [Next]_vars => J'
    BY StepStays, NextKeeps
  <1>3. J => (Undisturbed => EngineInv)
    OBVIOUS
  <1> QED
    BY <1>1, <1>2, <1>3, PTL DEF Spec

-----------------------------------------------------------------------------
(* The properties *)

LEMMA OutrunType == Spec => [](outrun \in BOOLEAN)
  <1>1. Init => outrun \in BOOLEAN
    BY DEF Init
  <1>2. outrun \in BOOLEAN /\ [Next]_vars => (outrun \in BOOLEAN)'
    BY DEF Next, Alarm, AskLate, RunEngine, FrameBegin, FrameEnd, vars
  <1> QED
    BY <1>1, <1>2, PTL DEF Spec

\* Type correctness and capacities: the guesses fit the ring they are kept in, the states
\* kept fit the host's slots, the frames stay those of the match.
THEOREM EngineTypeCorrect == Spec => [](Undisturbed => TypeOK)
  <1>1. (Undisturbed => EngineInv) /\ outrun \in BOOLEAN => (Undisturbed => TypeOK)
    <2> SUFFICES ASSUME EngineInv, outrun \in BOOLEAN
                 PROVE  TypeOK
      OBVIOUS
    <2>1. /\ Core(mu, past, queue, saves, held) /\ Loop(mu, queue, at) /\ Within(mu)
          /\ mu.endSeen <= MaxFrame + 1 /\ Settled(mu, past) /\ cut = {}
      BY DEF EngineInv
    <2>2. /\ mu \in MuType /\ past \in State /\ queue \in State /\ held \in Pads
          /\ Order(mu, past, queue) /\ HeldOK(held) /\ FinOK(mu, past) /\ RingOK(mu, past)
          /\ SavesOK(mu, past, saves)
      BY <2>1, CoreParts DEF Core
    <2>3. PICK a \in Nat, k \in Nat, l \in Nat, x \in Nat, z \in Nat, y \in Nat, t \in Nat :
              /\ a = Asked(mu) /\ k = Known(past, queue) /\ l = Len(past)
              /\ x = mu.finalized /\ z = mu.stableFinalized /\ y = mu.ringLast /\ t = mu.ss
      BY <2>2, MuFields, Numbers
    <2>4. k <= a /\ a <= MaxFrame + 2 /\ l <= k
      <3>1. k <= a /\ a <= MaxFrame + 2
        BY <2>2, <2>3, KnownAsked
      <3>2. k = l + Len(queue) /\ Len(queue) \in Nat
        BY <2>2, <2>3, Numbers
      <3> QED
        BY <2>3, <3>1, <3>2
    <2>5. y <= MaxFrame + 1 /\ z <= MaxFrame + 1
      <3>1. y < a
        BY <2>2, <2>3 DEF RingOK
      <3>2. z = 0 \/ z < l
        BY <2>1, <2>3 DEF Settled
      <3>3. l <= MaxFrame + 2 /\ MaxFrame \in Nat
        BY <2>4, Sizes
      <3>4. y <= MaxFrame + 1
        BY <2>4, <3>1, <3>3
      <3>5. z <= MaxFrame + 1
        BY <3>2, <3>3
      <3> QED
        BY <3>4, <3>5
    <2>6. t <= MaxFrame + 1
      BY <2>1, <2>3 DEF Within
    <2>7. x <= MaxFrame + 1
      <3>1. CASE mu.shouldLoad
        <4>1. x <= t
          BY <2>2, <2>3, <3>1 DEF FinOK
        <4> QED
          BY <2>3, <2>6, <4>1, Sizes
      <3>2. CASE ~mu.shouldLoad /\ mu.predicting
        <4>1. x < t
          BY <2>2, <2>3, <3>2 DEF FinOK, SureTo
        <4> QED
          BY <2>3, <2>6, <4>1, Sizes
      <3>3. CASE ~mu.shouldLoad /\ ~mu.predicting
        <4>1. x < mu.frame /\ mu.frame \in Nat /\ mu.endFrame \in Nat
          BY <2>2, <2>3, <3>3, MuFields DEF FinOK, SureTo
        <4>2. mu.frame <= a
          <5>1. CASE mu.active
            BY <2>2, <2>3, <3>3, <5>1 DEF Order, Asked
          <5>2. CASE ~mu.active
            BY <2>3, <4>1, <5>2 DEF Asked
          <5> QED
            BY <5>1, <5>2
        <4> QED
          BY <2>3, <2>4, <4>1, <4>2, Sizes
      <3> QED
        BY <3>1, <3>2, <3>3
    <2>8. Len(mu.guesses) < Predictions
      <3>1. CASE mu.predicting
        <4>1. /\ t + Len(mu.guesses) = k /\ t + Horizon >= k /\ Len(mu.guesses) \in Nat
          BY <2>2, <2>3, <3>1, Numbers DEF Order
        <4> QED
          BY <2>3, <4>1, Sizes DEF Predictions
      <3>2. CASE ~mu.predicting
        <4>1. Len(mu.guesses) = 0
          BY <2>2, <3>2 DEF Order
        <4> QED
          BY <4>1, Sizes DEF Predictions
      <3> QED
        BY <3>1, <3>2
    <2>9. {mu.started, mu.disconnected, mu.displayed, mu.over, mu.force, mu.active,
           mu.shouldLoad, mu.stable, mu.predicting, outrun} \subseteq BOOLEAN
      BY <2>2, MuFields
    <2>10. /\ mu.ss \in 0 .. MaxFrame + 1 /\ mu.finalized \in 0 .. MaxFrame + 1
           /\ mu.stableFinalized \in 0 .. MaxFrame + 1 /\ mu.endFrame \in 0 .. MaxFrame + 1
           /\ mu.endSeen \in 0 .. MaxFrame + 1 /\ mu.ringLast \in 0 .. MaxFrame + 1
      <3>1. mu.endFrame \in Nat /\ mu.endSeen \in Nat
        BY <2>2, MuFields
      <3> QED
        BY <2>1, <2>3, <2>5, <2>6, <2>7, <3>1, Sizes DEF Within
    <2>11. Len(past) <= MaxFrame + 2
      BY <2>3, <2>4, Sizes
    <2>12. /\ Len(queue) <= MaxQueue + 1 /\ Len(held) <= MaxFrame
           /\ Cardinality(DOMAIN saves) <= Slots
           /\ at \in [where : {"wait", "begin", "end"}, left : 0 .. MaxQueue + 1]
      BY <2>1, <2>2 DEF Order, HeldOK, SavesOK, Loop
    <2>13. Len(mu.guesses) <= Predictions /\ cut \subseteq 0 .. MaxFrame + 1
      <3>1. Len(mu.guesses) \in Nat
        BY <2>2, Numbers
      <3> QED
        BY <2>1, <2>8, <3>1, Sizes DEF Predictions
    <2> QED
      BY <2>8, <2>9, <2>10, <2>11, <2>12, <2>13 DEF TypeOK
  <1> QED
    BY <1>1, EngineInvariant, OutrunType, PTL

\* Body N takes pad N, however often the frame is run: no sample is lost, taken twice or
\* left behind a rollback, and the local pad in it is the one of the delay.
THEOREM PadsRight == Spec => []RightPads
  <1>1. (Undisturbed => EngineInv) => RightPads
    <2> SUFFICES ASSUME EngineInv
                 PROVE  RightPads
      BY DEF RightPads
    <2>1. SamplesOK(mu, past, queue, held)
      BY CoreParts DEF EngineInv, Core
    <2> QED
      BY <2>1 DEF SamplesOK, SampleOK, RightPads
  <1> QED
    BY <1>1, EngineInvariant, PTL

\* No checksum that is compared or sent as finalized holds a guess: each is of a state made
\* of the pads the other player gave.
THEOREM ChecksumsAreReal == Spec => []ChecksumsReal
  <1>1. (Undisturbed => EngineInv) => ChecksumsReal
    <2> SUFFICES ASSUME EngineInv
                 PROVE  ChecksumsReal
      BY DEF ChecksumsReal
    <2>1. /\ mu \in MuType /\ past \in State /\ queue \in State /\ held \in Pads
          /\ SamplesOK(mu, past, queue, held) /\ HeldOK(held) /\ FinOK(mu, past)
          /\ RingOK(mu, past) /\ TxOK(mu, held) /\ Order(mu, past, queue)
          /\ Settled(mu, past)
      BY CoreParts DEF EngineInv, Core
    <2>2. PICK z \in Nat, l \in Nat, u \in Nat :
              z = mu.stableFinalized /\ l = Len(past) /\ u = SureTo(mu)
      BY <2>1, MuFields, Numbers
    <2>3. z <= u /\ (z = 0 \/ z < l)
      <3>1. z = 0 \/ z < l
        BY <2>1, <2>2 DEF Settled
      <3>2. CASE mu.shouldLoad
        BY <2>1, <2>2, <3>1, <3>2 DEF FinOK, Order, SureTo
      <3>3. CASE ~mu.shouldLoad
        BY <2>1, <2>2, <3>1, <3>3 DEF FinOK
      <3> QED
        BY <3>2, <3>3
    <2>4. ASSUME NEW i \in RingSlots, mu.ring[i].frame <= z
          PROVE  IsReal(mu.ring[i].checksum)
      <3>1. PICK g \in Nat : g = mu.ring[i].frame
        BY <2>1, MuFields, EntryFields
      <3>2. PICK st : st = mu.ring[i].checksum
        OBVIOUS
      <3>3. (g < l \/ g = 0) /\ g <= l /\ g <= u
        BY <2>2, <2>3, <2>4, <3>1
      <3>4. st = Prefix(past, g)
        BY <2>1, <2>2, <3>1, <3>2, <3>3 DEF RingOK, EntryOK, Prefix
      <3>5. st \in State /\ AllSure(held, st)
        BY <2>1, <2>2, <3>3, <3>4, PrefixSure
      <3>6. Real(held, st)
        BY <2>1, <3>5, SureIsReal
      <3> QED
        BY <3>2, <3>6 DEF Real, IsReal
    <2>5. IsReal(mu.tx.checksum) /\ Len(mu.tx.checksum) = mu.tx.frame
      <3>1. PICK st : st = mu.tx.checksum
        OBVIOUS
      <3>2. st \in State /\ AllSure(held, st) /\ Len(st) = mu.tx.frame
        BY <2>1, <3>1, MuFields, EntryFields DEF TxOK
      <3>3. Real(held, st)
        BY <2>1, <3>2, SureIsReal
      <3> QED
        BY <3>1, <3>2, <3>3 DEF Real, IsReal
    <2> QED
      BY <2>2, <2>4, <2>5 DEF ChecksumsReal, RingSlots
  <1> QED
    BY <1>1, EngineInvariant, PTL

\* A rollback finds the state it loads: kept, of its frame, on this timeline, and with no
\* guess in it that turned out wrong.
THEOREM LoadFinds == Spec => []LoadFindsState
  <1>1. (Undisturbed => EngineInv) => LoadFindsState
    <2> SUFFICES ASSUME EngineInv, Undisturbed, at.where = "begin", Loads
                 PROVE  /\ mu.ss \in DOMAIN saves /\ saves[mu.ss] = SubSeq(past, 1, mu.ss)
                        /\ IsReal(saves[mu.ss])
      BY DEF LoadFindsState
    <2>1. Core(mu, past, queue, saves, held)
      BY DEF EngineInv
    <2>2. /\ mu \in MuType /\ past \in State /\ queue \in State /\ held \in Pads
          /\ SamplesOK(mu, past, queue, held) /\ HeldOK(held) /\ Order(mu, past, queue)
      BY <2>1, CoreParts DEF Core
    <2>3. PICK t \in Nat, l \in Nat : t = mu.ss /\ l = Len(past)
      BY <2>2, MuFields, Numbers
    <2>4. GoesBack /\ mu.shouldLoad /\ t <= l
      BY <2>3 DEF Loads, GoesBack
    <2>5. SureTo(mu) = t
      BY <2>2, <2>3, <2>4 DEF Order, SureTo
    <2>6. PICK st : st = Prefix(past, t)
      OBVIOUS
    <2>7. mu.ss \in DOMAIN saves /\ saves[mu.ss] = st
      BY <2>1, <2>3, <2>4, <2>6, LoadsPrefix
    <2>8. st \in State /\ AllSure(held, st)
      <3>1. t <= SureTo(mu) /\ t <= Len(past)
        BY <2>3, <2>4, <2>5
      <3> QED
        BY <2>2, <2>6, <3>1, PrefixSure
    <2>9. Real(held, st)
      BY <2>2, <2>8, SureIsReal
    <2> QED
      BY <2>3, <2>6, <2>7, <2>9 DEF Real, IsReal, Prefix
  <1> QED
    BY <1>1, EngineInvariant, PTL

\* No guess of what the other player pressed ends a match.
THEOREM EndsAreReal == Spec => []EndIsReal
  <1>1. (Undisturbed => EngineInv) => EndIsReal
    BY DEF EngineInv, EndIsReal
  <1> QED
    BY <1>1, EngineInvariant, PTL

=============================================================================
