-------------------------- MODULE SavestatesProofs --------------------------
(***************************************************************************)
(* Proofs about the savestates (Savestates), for any memory, frames, slots *)
(* and block size: no page is lost, and differences are as good as full    *)
(* copies, step by step of SlotPool.                                       *)
(*                                                                         *)
(* The argument.  The memory at a checkpoint is read off the differences   *)
(* after it and the shadow (StateIn), so each step is a fact about a       *)
(* timeline and a shadow: what a capture, a drop, an undone checkpoint and *)
(* a cut leave of the states of the others.  The invariant says how far    *)
(* the loop under way has come (LoopInv), and where the shadow may differ  *)
(* from the game (ShadowInv).                                              *)
(***************************************************************************)
EXTENDS Savestates, FunctionTheorems, FiniteSetTheorems, WellFoundedInduction, TLAPS

Memory     == [Chunk -> Content]
Undo       == UNION {[D -> Content] : D \in SUBSET Chunk}
Checkpoint == [frame : Frame, alive : BOOLEAN, undo : Undo]
Line       == Seq(Checkpoint)

LoopType ==
    {Idle} \cup [loop : {"dropping"}, i : Nat \ {0}]
    \cup [loop : {"walking"}, k : Nat \ {0}, target : Nat \ {0}, keep : BOOLEAN,
          dirty : SUBSET Chunk]

SavesTypeOK ==
    /\ live \in Memory
    /\ written \subseteq Watched
    /\ on \in BOOLEAN
    /\ timeline \in Line
    /\ at \in LoopType
    /\ on => shadow \in Memory
    /\ ~on => shadow = None /\ timeline = <<>> /\ at = Idle

\* The checkpoints a load can find have different frames, and a slot each.
NamesOnce(line) ==
    \A i, j \in DOMAIN line :
        line[i].alive /\ line[j].alive /\ line[i].frame = line[j].frame => i = j

LiveOf(line) == {i \in DOMAIN line : line[i].alive}

\* A capture gives up one checkpoint at most, and the loop after it drops it.  A load
\* undoes the differences from the newest one down.
LoopInv ==
    /\ NamesOnce(timeline) /\ Cardinality(LiveOf(timeline)) <= Slots
    /\ at.loop # "dropping" =>
          /\ \A i \in DOMAIN timeline : timeline[i].alive
          /\ timeline # <<>> => timeline[1].undo = None
    /\ at.loop = "dropping" =>
          /\ at.i <= Len(timeline) /\ timeline[Len(timeline)].alive
          /\ \A i \in DOMAIN timeline : i < at.i => timeline[i].alive
          /\ \A i, j \in DOMAIN timeline : timeline[i].alive \/ timeline[j].alive \/ i = j
          /\ at.i > 1 => timeline[1].undo = None
    /\ at.loop = "walking" =>
          /\ at.target <= at.k /\ at.k <= Len(timeline)
          /\ \A j \in DOMAIN timeline : j > at.k => timeline[j].undo = None

\* Where the shadow is not the game's memory, the engine knows.
ShadowInv ==
    /\ on /\ at.loop # "walking" => \A c \in Watched \ written : live[c] = shadow[c]
    /\ at.loop # "none" => written = {}
    /\ at.loop = "walking" => \A c \in Chunk \ at.dirty : live[c] = shadow[c]

SavesInv == SavesTypeOK /\ LoopInv /\ ShadowInv

\* A number of pages in whole blocks.
Blocks(p) == \E m \in Nat : p = m * Block

\* The pool grows by whole blocks, and only when it is empty.
PagesInv ==
    /\ pages \in Nat /\ spare \in Nat
    /\ ~on => pages = 0 /\ spare = 0
    /\ pages = spare + Size + HeldBy(timeline)
    /\ Blocks(pages)
    /\ pages <= RoundUp((Slots + 1) * Cardinality(Chunk))

USE SavestatesAssumption

-----------------------------------------------------------------------------
(* The memory at a checkpoint *)

\* StateAt, of any timeline and shadow.
Later(line, i, c) == {k \in i + 1 .. Len(line) : c \in DOMAIN line[k].undo}

ContentIn(line, sh, i, c) ==
    IF Later(line, i, c) = {} THEN sh[c]
    ELSE line[CHOOSE k \in Later(line, i, c) : \A l \in Later(line, i, c) : k <= l].undo[c]

StateIn(line, sh, i) == [c \in Chunk |-> ContentIn(line, sh, i, c)]

\* What a chunk was at checkpoint i: v.
Was(line, sh, i, c, v) ==
    \/ \E k \in i + 1 .. Len(line) :
          /\ c \in DOMAIN line[k].undo /\ v = line[k].undo[c]
          /\ \A l \in i + 1 .. Len(line) : l < k => c \notin DOMAIN line[l].undo
    \/ (\A k \in i + 1 .. Len(line) : c \notin DOMAIN line[k].undo) /\ v = sh[c]

LEMMA StateAtIs == \A i : StateAt(i) = StateIn(timeline, shadow, i)
  BY DEF StateAt, StateIn, ContentIn, Later

LEMMA LineFacts ==
    ASSUME NEW line \in Line
    PROVE  /\ Len(line) \in Nat /\ DOMAIN line = 1 .. Len(line)
           /\ \A k \in 1 .. Len(line) :
                 /\ line[k] \in Checkpoint /\ line[k].frame \in Frame
                 /\ line[k].alive \in BOOLEAN /\ line[k].undo \in Undo
                 /\ DOMAIN line[k].undo \subseteq Chunk
                 /\ \A c \in DOMAIN line[k].undo : line[k].undo[c] \in Content
  <1>1. /\ Len(line) \in Nat /\ DOMAIN line = 1 .. Len(line)
        /\ \A k \in 1 .. Len(line) : line[k] \in Checkpoint
    BY DEF Line
  <1>2. \A cp \in Checkpoint :
            /\ cp.frame \in Frame /\ cp.alive \in BOOLEAN /\ cp.undo \in Undo
    BY DEF Checkpoint
  <1>3. \A u \in Undo : DOMAIN u \subseteq Chunk /\ \A c \in DOMAIN u : u[c] \in Content
    BY DEF Undo
  <1> QED
    BY <1>1, <1>2, <1>3

\* A set of numbers has a least one.
LEMMA Least ==
    ASSUME NEW T \in SUBSET Nat, T # {}
    PROVE  \E t \in T : \A s \in T : t <= s
  <1>1. PICK F : F = {0 .. t : t \in T}
    OBVIOUS
  <1>2. F \subseteq FiniteSubsetsOf(Nat)
    <2>1. \A t \in T : IsFiniteSet(0 .. t) /\ 0 .. t \subseteq Nat
      BY FS_Interval
    <2> QED
      BY <1>1, <2>1 DEF FiniteSubsetsOf
  <1>3. F # {}
    BY <1>1
  <1>4. PICK x \in F : \A y \in F : ~ (<<y, x>> \in StrictSubsetOrdering(Nat))
    BY <1>2, <1>3, FS_StrictSubsetOrderingWellFounded, WFMin
  <1>5. PICK t \in T : x = 0 .. t
    BY <1>1
  <1>6. ASSUME NEW s \in T, s < t
        PROVE  FALSE
    <2>1. PICK y : y = 0 .. s
      OBVIOUS
    <2>2. y \in F
      BY <1>1, <2>1
    <2>3. y \subseteq x /\ y # x /\ x \in SUBSET Nat /\ y \in SUBSET Nat
      BY <1>5, <1>6, <2>1
    <2> QED
      BY <1>4, <2>2, <2>3 DEF StrictSubsetOrdering
  <1> QED
    BY <1>6

LEMMA WasContent ==
    ASSUME NEW line \in Line, NEW sh, NEW i \in Nat, NEW c
    PROVE  /\ Was(line, sh, i, c, ContentIn(line, sh, i, c))
           /\ \A v : Was(line, sh, i, c, v) => v = ContentIn(line, sh, i, c)
  <1>1. PICK T : T = Later(line, i, c)
    OBVIOUS
  <1>2. T \subseteq Nat /\ Len(line) \in Nat
    BY <1>1, LineFacts DEF Later
  <1>3. CASE T = {}
    BY <1>1, <1>2, <1>3 DEF Was, ContentIn, Later
  <1>4. CASE T # {}
    <2>1. PICK k \in T : \A l \in T : k <= l
      BY <1>2, <1>4, Least
    <2>2. (CHOOSE n \in T : \A l \in T : n <= l) = k
      <3>1. \A n \in T : (\A l \in T : n <= l) => n = k
        BY <1>2, <2>1
      <3> QED
        BY <2>1, <3>1
    <2>3. ContentIn(line, sh, i, c) = line[k].undo[c]
      BY <1>1, <1>4, <2>2 DEF ContentIn
    <2>4. Was(line, sh, i, c, line[k].undo[c])
      BY <1>1, <1>2, <2>1 DEF Was, Later
    <2>5. ASSUME NEW v, Was(line, sh, i, c, v)
          PROVE  v = line[k].undo[c]
      <3>1. PICK n \in i + 1 .. Len(line) :
                /\ c \in DOMAIN line[n].undo /\ v = line[n].undo[c]
                /\ \A l \in i + 1 .. Len(line) : l < n => c \notin DOMAIN line[l].undo
        BY <1>1, <2>1, <2>5 DEF Was, Later
      <3>2. n \in T /\ k \in i + 1 .. Len(line) /\ c \in DOMAIN line[k].undo
        BY <1>1, <2>1, <3>1 DEF Later
      <3>3. n = k
        BY <1>2, <2>1, <3>1, <3>2
      <3> QED
        BY <3>1, <3>3
    <2> QED
      BY <2>3, <2>4, <2>5
  <1> QED
    BY <1>3, <1>4

LEMMA SameState ==
    ASSUME NEW line \in Line, NEW sh, NEW i \in Nat,
           NEW line2 \in Line, NEW sh2, NEW j \in Nat,
           \A c \in Chunk : \A v : Was(line, sh, i, c, v) => Was(line2, sh2, j, c, v)
    PROVE  StateIn(line2, sh2, j) = StateIn(line, sh, i)
  <1>1. ASSUME NEW c \in Chunk
        PROVE  ContentIn(line2, sh2, j, c) = ContentIn(line, sh, i, c)
    BY WasContent
  <1> QED
    BY <1>1 DEF StateIn

\* The newest checkpoint is the shadow.
LEMMA NewestState ==
    ASSUME NEW line \in Line, NEW sh \in Memory
    PROVE  StateIn(line, sh, Len(line)) = sh
  <1>1. ASSUME NEW c \in Chunk
        PROVE  ContentIn(line, sh, Len(line), c) = sh[c]
    <2>1. Later(line, Len(line), c) = {}
      BY LineFacts DEF Later
    <2> QED
      BY <2>1 DEF ContentIn
  <1> QED
    BY <1>1 DEF StateIn, Memory

\* Nothing but the differences, from a checkpoint on, says what it was.
LEMMA SameUndos ==
    ASSUME NEW line \in Line, NEW sh, NEW line2 \in Line, NEW i \in Nat,
           Len(line2) = Len(line),
           \A k \in 1 .. Len(line) : k > i => line2[k].undo = line[k].undo
    PROVE  StateIn(line2, sh, i) = StateIn(line, sh, i)
  <1>1. Len(line) \in Nat
    BY LineFacts
  <1>2. \A k \in i + 1 .. Len(line) : line2[k].undo = line[k].undo
    BY <1>1
  <1>3. ASSUME NEW c \in Chunk, NEW v, Was(line, sh, i, c, v)
        PROVE  Was(line2, sh, i, c, v)
    BY <1>2, <1>3 DEF Was
  <1> QED
    BY <1>3, SameState

\* A capture keeps, for each chunk it copies, what the shadow held.
LEMMA CaptureStates ==
    ASSUME NEW line \in Line, NEW sh \in Memory, NEW sh2, NEW D \in SUBSET Chunk,
           \A c \in Chunk \ D : sh2[c] = sh[c],
           NEW cp \in Checkpoint, cp.undo = [c \in D |-> sh[c]],
           NEW i \in 1 .. Len(line)
    PROVE  StateIn(Append(line, cp), sh2, i) = StateIn(line, sh, i)
  <1>1. PICK line2 : line2 = Append(line, cp)
    OBVIOUS
  <1>2. /\ line2 \in Line /\ Len(line) \in Nat /\ Len(line2) = Len(line) + 1
        /\ \A k \in 1 .. Len(line) : line2[k] = line[k]
        /\ line2[Len(line) + 1] = cp
    BY <1>1 DEF Line
  <1>3. /\ i \in Nat /\ Len(line) + 1 \in i + 1 .. Len(line2)
        /\ \A k \in i + 1 .. Len(line) : k \in i + 1 .. Len(line2) /\ line2[k] = line[k]
        /\ \A k \in i + 1 .. Len(line2) : k = Len(line) + 1 \/ k \in i + 1 .. Len(line)
    BY <1>2
  <1>4. ASSUME NEW c \in Chunk, NEW v, Was(line, sh, i, c, v)
        PROVE  Was(line2, sh2, i, c, v)
    <2>1. CASE \E k \in i + 1 .. Len(line) :
                  /\ c \in DOMAIN line[k].undo /\ v = line[k].undo[c]
                  /\ \A l \in i + 1 .. Len(line) : l < k => c \notin DOMAIN line[l].undo
      <3>1. PICK k \in i + 1 .. Len(line) :
                  /\ c \in DOMAIN line[k].undo /\ v = line[k].undo[c]
                  /\ \A l \in i + 1 .. Len(line) : l < k => c \notin DOMAIN line[l].undo
        BY <2>1
      <3>2. k \in i + 1 .. Len(line2) /\ line2[k] = line[k]
        BY <1>3
      <3>3. \A l \in i + 1 .. Len(line2) : l < k => c \notin DOMAIN line2[l].undo
        BY <1>2, <1>3, <3>1
      <3> QED
        BY <3>1, <3>2, <3>3 DEF Was
    <2>2. CASE (\A k \in i + 1 .. Len(line) : c \notin DOMAIN line[k].undo) /\ v = sh[c]
      <3>1. CASE c \in D
        <4>1. /\ c \in DOMAIN line2[Len(line) + 1].undo
              /\ line2[Len(line) + 1].undo[c] = v
          BY <1>2, <2>2, <3>1
        <4>2. \A l \in i + 1 .. Len(line2) : l < Len(line) + 1 => c \notin DOMAIN line2[l].undo
          BY <1>3, <2>2
        <4> QED
          BY <1>3, <4>1, <4>2 DEF Was
      <3>2. CASE c \notin D
        <4>1. \A k \in i + 1 .. Len(line2) : c \notin DOMAIN line2[k].undo
          BY <1>2, <1>3, <2>2, <3>2
        <4>2. v = sh2[c]
          BY <2>2, <3>2
        <4> QED
          BY <4>1, <4>2 DEF Was
      <3> QED
        BY <3>1, <3>2
    <2> QED
      BY <1>4, <2>1, <2>2 DEF Was
  <1> QED
    BY <1>1, <1>2, <1>3, <1>4, SameState

\* A timeline without checkpoint i, whose differences have gone to the next.
Without(line, i, line2) ==
    /\ Len(line2) = Len(line) - 1
    /\ \A j \in 1 .. Len(line2) :
          /\ j < i => line2[j] = line[j]
          /\ j = i => /\ line2[j].frame = line[i + 1].frame
                      /\ line2[j].alive = line[i + 1].alive
                      /\ line2[j].undo = Over(line[i].undo, line[i + 1].undo)
          /\ j > i => line2[j] = line[j + 1]

\* The other checkpoints are what they were.
LEMMA DropBefore ==
    ASSUME NEW line \in Line, NEW sh, NEW i \in 1 .. Len(line), i < Len(line),
           NEW line2 \in Line, Without(line, i, line2), NEW j \in 1 .. i - 1
    PROVE  StateIn(line2, sh, j) = StateIn(line, sh, j)
  <1>1. PICK n \in Nat : n = Len(line) /\ Len(line2) = n - 1 /\ i < n
    BY LineFacts DEF Without
  <1>2. /\ \A k \in j + 1 .. i - 1 : line2[k] = line[k]
        /\ \A k \in i + 1 .. n - 1 : line2[k] = line[k + 1]
        /\ line2[i].undo = Over(line[i].undo, line[i + 1].undo)
    BY <1>1 DEF Without
  <1>3. PICK u, w : u = line[i].undo /\ w = line[i + 1].undo
    OBVIOUS
  <1>4. /\ DOMAIN line2[i].undo = DOMAIN u \cup DOMAIN w
        /\ \A c \in DOMAIN u : line2[i].undo[c] = u[c]
        /\ \A c \in DOMAIN w \ DOMAIN u : line2[i].undo[c] = w[c]
    <2>1. line2[i].undo = Over(u, w)
      BY <1>2, <1>3
    <2> QED
      BY <2>1 DEF Over
  <1>5. \A l \in j + 1 .. n - 1 : l \in j + 1 .. i - 1 \/ l = i \/ l \in i + 1 .. n - 1
    BY <1>1
  <1>6. ASSUME NEW c \in Chunk, NEW v, Was(line, sh, j, c, v)
        PROVE  Was(line2, sh, j, c, v)
    <2>1. ASSUME NEW k \in j + 1 .. n,
                 c \in DOMAIN line[k].undo, v = line[k].undo[c],
                 \A l \in j + 1 .. n : l < k => c \notin DOMAIN line[l].undo
          PROVE  Was(line2, sh, j, c, v)
      <3> DEFINE r == IF k <= i THEN k ELSE k - 1
      <3>1. r \in j + 1 .. n - 1
        BY <1>1
      <3>2. c \in DOMAIN line2[r].undo /\ line2[r].undo[c] = v
        <4>1. CASE k < i
          BY <1>1, <1>2, <2>1, <4>1
        <4>2. CASE k = i
          BY <1>3, <1>4, <2>1, <4>2
        <4>3. CASE k = i + 1
          <5>1. c \notin DOMAIN u
            BY <1>1, <1>3, <2>1, <4>3
          <5>2. c \in DOMAIN w /\ v = w[c] /\ r = i
            BY <1>3, <2>1, <4>3
          <5> QED
            BY <1>4, <5>1, <5>2
        <4>4. CASE k > i + 1
          <5>1. r = k - 1 /\ k - 1 \in i + 1 .. n - 1 /\ line2[k - 1] = line[k]
            BY <1>1, <1>2, <4>4
          <5> QED
            BY <2>1, <5>1
        <4> QED
          BY <1>1, <4>1, <4>2, <4>3, <4>4
      <3>3. ASSUME NEW l \in j + 1 .. n - 1, l < r
            PROVE  c \notin DOMAIN line2[l].undo
        <4>1. CASE l < i
          <5>1. l \in j + 1 .. i - 1 /\ l \in j + 1 .. n /\ l < k
            BY <1>1, <3>3, <4>1
          <5> QED
            BY <1>2, <2>1, <5>1
        <4>2. CASE l = i
          <5>1. i \in j + 1 .. n /\ i + 1 \in j + 1 .. n /\ i + 1 < k
            BY <1>1, <3>3, <4>2
          <5>2. c \notin DOMAIN u /\ c \notin DOMAIN w
            BY <1>1, <1>3, <2>1, <5>1
          <5> QED
            BY <1>4, <4>2, <5>2
        <4>3. CASE l > i
          <5>1. l \in i + 1 .. n - 1 /\ l + 1 \in j + 1 .. n /\ l + 1 < k
            BY <1>1, <3>3, <4>3
          <5> QED
            BY <1>2, <2>1, <5>1
        <4> QED
          BY <1>1, <4>1, <4>2, <4>3
      <3> HIDE DEF r
      <3> QED
        BY <1>1, <3>1, <3>2, <3>3 DEF Was
    <2>2. ASSUME \A k \in j + 1 .. n : c \notin DOMAIN line[k].undo, v = sh[c]
          PROVE  Was(line2, sh, j, c, v)
      <3>1. i \in j + 1 .. n /\ i + 1 \in j + 1 .. n
        BY <1>1
      <3>2. c \notin DOMAIN u /\ c \notin DOMAIN w
        BY <1>3, <2>2, <3>1
      <3>3. ASSUME NEW l \in j + 1 .. n - 1
            PROVE  c \notin DOMAIN line2[l].undo
        <4>1. /\ l \in j + 1 .. i - 1 => l \in j + 1 .. n
              /\ l \in i + 1 .. n - 1 => l + 1 \in j + 1 .. n
          BY <1>1
        <4> QED
          BY <1>2, <1>4, <1>5, <2>2, <3>2, <4>1
      <3> QED
        BY <1>1, <2>2, <3>3 DEF Was
    <2> QED
      BY <1>1, <1>6, <2>1, <2>2 DEF Was
  <1> QED
    BY <1>6, SameState

LEMMA DropAfter ==
    ASSUME NEW line \in Line, NEW sh, NEW i \in 1 .. Len(line), i < Len(line),
           NEW line2 \in Line, Without(line, i, line2), NEW j \in i + 1 .. Len(line)
    PROVE  StateIn(line2, sh, j - 1) = StateIn(line, sh, j)
  <1>1. PICK n \in Nat : n = Len(line) /\ Len(line2) = n - 1 /\ i < n
    BY LineFacts DEF Without
  <1>2. \A k \in j + 1 .. n : k - 1 \in j .. n - 1 /\ line2[k - 1] = line[k]
    BY <1>1 DEF Without
  <1>3. \A l \in j .. n - 1 : l + 1 \in j + 1 .. n /\ line2[l] = line[l + 1]
    BY <1>1 DEF Without
  <1>4. j - 1 \in Nat /\ (j - 1) + 1 = j
    OBVIOUS
  <1>5. ASSUME NEW c \in Chunk, NEW v, Was(line, sh, j, c, v)
        PROVE  Was(line2, sh, j - 1, c, v)
    <2>1. ASSUME NEW k \in j + 1 .. n,
                 c \in DOMAIN line[k].undo, v = line[k].undo[c],
                 \A l \in j + 1 .. n : l < k => c \notin DOMAIN line[l].undo
          PROVE  Was(line2, sh, j - 1, c, v)
      <3>1. \A l \in j .. n - 1 : l < k - 1 => c \notin DOMAIN line2[l].undo
        <4>1. \A l \in j .. n - 1 : l < k - 1 => l + 1 < k
          OBVIOUS
        <4> QED
          BY <1>3, <2>1, <4>1
      <3> QED
        BY <1>1, <1>2, <1>4, <2>1, <3>1 DEF Was
    <2>2. ASSUME \A k \in j + 1 .. n : c \notin DOMAIN line[k].undo, v = sh[c]
          PROVE  Was(line2, sh, j - 1, c, v)
      BY <1>1, <1>3, <1>4, <2>2 DEF Was
    <2> QED
      BY <1>1, <1>5, <2>1, <2>2 DEF Was
  <1> QED
    BY <1>4, <1>5, SameState

\* Undoing the newest differences leaves the others what they were.
LEMMA WalkStates ==
    ASSUME NEW line \in Line, NEW sh \in Memory, NEW k \in 1 .. Len(line),
           \A j \in 1 .. Len(line) : j > k => line[j].undo = None,
           NEW line2 \in Line, Len(line2) = Len(line),
           \A j \in 1 .. Len(line) : line2[j].undo = IF j = k THEN None ELSE line[j].undo,
           NEW i \in Nat, i < k
    PROVE  StateIn(line2, Over(line[k].undo, sh), i) = StateIn(line, sh, i)
  <1>1. Len(line) \in Nat /\ \E n \in Nat : n = Len(line)
    BY LineFacts
  <1> DEFINE n == Len(line)
             u == line[k].undo
             sh2 == Over(u, sh)
  <1>2. /\ \A c \in DOMAIN u : sh2[c] = u[c]
        /\ \A c \in Chunk \ DOMAIN u : sh2[c] = sh[c]
    <2>1. DOMAIN sh = Chunk
      BY DEF Memory
    <2> QED
      BY <2>1 DEF Over
  <1>3. DOMAIN None = {}
    BY DEF None
  <1>4. \A j \in i + 1 .. n : /\ j >= k => DOMAIN line2[j].undo = {}
                              /\ j > k => DOMAIN line[j].undo = {}
                              /\ j < k => line2[j].undo = line[j].undo
    BY <1>1, <1>3
  <1>5. k \in i + 1 .. n
    BY <1>1
  <1>6. ASSUME NEW c \in Chunk, NEW v, Was(line, sh, i, c, v)
        PROVE  Was(line2, sh2, i, c, v)
    <2>1. ASSUME NEW m \in i + 1 .. n,
                 c \in DOMAIN line[m].undo, v = line[m].undo[c],
                 \A l \in i + 1 .. n : l < m => c \notin DOMAIN line[l].undo
          PROVE  Was(line2, sh2, i, c, v)
      <3>1. m <= k
        BY <1>4, <2>1
      <3>2. CASE m < k
        <4>1. \A l \in i + 1 .. n : l < m => c \notin DOMAIN line2[l].undo
          BY <1>4, <2>1, <3>2
        <4> QED
          BY <1>1, <1>4, <2>1, <3>2, <4>1 DEF Was
      <3>3. CASE m = k
        <4>1. v = sh2[c]
          BY <1>1, <1>2, <2>1, <3>3
        <4>2. \A l \in i + 1 .. n : c \notin DOMAIN line2[l].undo
          BY <1>4, <2>1, <3>3
        <4> QED
          BY <1>1, <4>1, <4>2 DEF Was
      <3> QED
        BY <3>1, <3>2, <3>3
    <2>2. ASSUME \A m \in i + 1 .. n : c \notin DOMAIN line[m].undo, v = sh[c]
          PROVE  Was(line2, sh2, i, c, v)
      <3>1. v = sh2[c]
        BY <1>1, <1>2, <1>5, <2>2
      <3>2. \A l \in i + 1 .. n : c \notin DOMAIN line2[l].undo
        BY <1>4, <2>2
      <3> QED
        BY <1>1, <3>1, <3>2 DEF Was
    <2> QED
      BY <1>1, <1>6, <2>1, <2>2 DEF Was
  <1> QED
    BY <1>1, <1>6, SameState

\* Cutting off checkpoints without differences, too.
LEMMA CutStates ==
    ASSUME NEW line \in Line, NEW sh, NEW t \in 1 .. Len(line),
           \A j \in 1 .. Len(line) : j > t => line[j].undo = None,
           NEW i \in 1 .. t
    PROVE  StateIn(SubSeq(line, 1, t), sh, i) = StateIn(line, sh, i)
  <1>1. PICK n \in Nat : n = Len(line)
    BY LineFacts
  <1> DEFINE line2 == SubSeq(line, 1, t)
  <1>2. line2 \in Line /\ Len(line2) = t /\ \A j \in 1 .. t : line2[j] = line[j]
    BY <1>1 DEF Line
  <1>3. \A j \in i + 1 .. n : DOMAIN line[j].undo # {} => j \in i + 1 .. t
    BY <1>1 DEF None
  <1>4. \A j \in i + 1 .. t : j \in i + 1 .. n /\ line2[j] = line[j]
    BY <1>1, <1>2
  <1>5. ASSUME NEW c \in Chunk, NEW v, Was(line, sh, i, c, v)
        PROVE  Was(line2, sh, i, c, v)
    <2>1. ASSUME NEW m \in i + 1 .. n,
                 c \in DOMAIN line[m].undo, v = line[m].undo[c],
                 \A l \in i + 1 .. n : l < m => c \notin DOMAIN line[l].undo
          PROVE  Was(line2, sh, i, c, v)
      BY <1>1, <1>2, <1>3, <1>4, <2>1 DEF Was
    <2>2. ASSUME \A m \in i + 1 .. n : c \notin DOMAIN line[m].undo, v = sh[c]
          PROVE  Was(line2, sh, i, c, v)
      BY <1>1, <1>2, <1>4, <2>2 DEF Was
    <2> QED
      BY <1>1, <1>5, <2>1, <2>2 DEF Was
  <1> QED
    BY <1>1, <1>2, <1>5, SameState

-----------------------------------------------------------------------------
(* The copies kept, of any timeline and shadow *)

LiveTo(line, n)  == {i \in DOMAIN line : line[i].alive /\ i <= n}
NamesOf(line, n) == {line[i].frame : i \in LiveTo(line, n)}
FramesIn(line, S) == {line[i].frame : i \in S}
Place(line, f)   == CHOOSE i \in LiveOf(line) : line[i].frame = f

KeptOf(line, sh, n) == [f \in NamesOf(line, n) |-> StateIn(line, sh, Place(line, f))]
OlderOf(line, n) ==
    {fg \in NamesOf(line, n) \X NamesOf(line, n) : Place(line, fg[1]) < Place(line, fg[2])}

LEMMA PoolIs ==
    /\ PoolKept = KeptOf(timeline, shadow, LastKept)
    /\ PoolOlder = OlderOf(timeline, LastKept)
  <1>1. Alive = LiveOf(timeline)
    BY DEF Alive, LiveOf
  <1>2. /\ FramesTo(LastKept) = NamesOf(timeline, LastKept)
        /\ \A f : IndexOf(f) = Place(timeline, f)
    BY <1>1 DEF FramesTo, NamesOf, AliveTo, LiveTo, LiveOf, IndexOf, Place
  <1> QED
    BY <1>2, StateAtIs DEF PoolKept, PoolOlder, OlderTo, KeptOf, OlderOf

LEMMA PlaceOf ==
    ASSUME NEW line \in Line, NamesOnce(line), NEW i \in LiveOf(line)
    PROVE  Place(line, line[i].frame) = i
  <1>1. \A j \in LiveOf(line) : line[j].frame = line[i].frame => j = i
    BY DEF NamesOnce, LiveOf
  <1> QED
    BY <1>1 DEF Place

LEMMA PlaceIn ==
    ASSUME NEW line \in Line, NamesOnce(line), NEW n, NEW f \in NamesOf(line, n)
    PROVE  Place(line, f) \in LiveTo(line, n) /\ line[Place(line, f)].frame = f
  <1>1. PICK i \in LiveTo(line, n) : line[i].frame = f
    BY DEF NamesOf
  <1>2. i \in LiveOf(line)
    BY DEF LiveTo, LiveOf
  <1>3. Place(line, f) = i
    BY <1>1, <1>2, PlaceOf
  <1> QED
    BY <1>1, <1>3

\* The checkpoints S of a timeline are T of another, in their order, with their states.
Renames(line, sh, S, line2, sh2, T, r) ==
    /\ r \in [S -> T]
    /\ \A j \in T : \E i \in S : r[i] = j
    /\ \A i, j \in S : i < j => r[i] < r[j]
    /\ \A i \in S : /\ line2[r[i]].frame = line[i].frame
                    /\ StateIn(line2, sh2, r[i]) = StateIn(line, sh, i)

\* Then their copies are what is left in the pool.
LEMMA Renamed ==
    ASSUME NEW line \in Line, NamesOnce(line), NEW sh, NEW n,
           NEW line2 \in Line, NamesOnce(line2), NEW sh2, NEW n2,
           NEW S \in SUBSET LiveTo(line, n), NEW r,
           Renames(line, sh, S, line2, sh2, LiveTo(line2, n2), r),
           NEW F, F = FramesIn(line, S)
    PROVE  /\ F \subseteq NamesOf(line, n) /\ NamesOf(line2, n2) = F
           /\ KeptOf(line2, sh2, n2) = [f \in F |-> KeptOf(line, sh, n)[f]]
           /\ OlderOf(line2, n2) = OlderOf(line, n) \cap (F \X F)
  <1> USE DEF Renames, FramesIn
  <1>1. F \subseteq NamesOf(line, n)
    BY DEF NamesOf
  <1>2. NamesOf(line2, n2) = F
    <2>1. ASSUME NEW f \in NamesOf(line2, n2)
          PROVE  f \in F
      <3>1. PICK j \in LiveTo(line2, n2) : f = line2[j].frame
        BY DEF NamesOf
      <3>2. PICK i \in S : r[i] = j
        BY <3>1
      <3> QED
        BY <3>1, <3>2
    <2>2. ASSUME NEW f \in F
          PROVE  f \in NamesOf(line2, n2)
      <3>1. PICK i \in S : f = line[i].frame
        OBVIOUS
      <3>2. r[i] \in LiveTo(line2, n2) /\ f = line2[r[i]].frame
        BY <3>1
      <3> QED
        BY <3>2 DEF NamesOf
    <2> QED
      BY <2>1, <2>2
  <1>3. ASSUME NEW i \in S
        PROVE  /\ Place(line, line[i].frame) = i
               /\ Place(line2, line[i].frame) = r[i]
    <2>1. i \in LiveOf(line) /\ r[i] \in LiveOf(line2)
      BY DEF LiveTo, LiveOf
    <2> QED
      BY <2>1, PlaceOf
  <1>4. ASSUME NEW f \in F
        PROVE  StateIn(line2, sh2, Place(line2, f)) = KeptOf(line, sh, n)[f]
    <2>1. PICK i \in S : f = line[i].frame
      OBVIOUS
    <2>2. KeptOf(line, sh, n)[f] = StateIn(line, sh, Place(line, f))
      BY <1>1 DEF KeptOf
    <2> QED
      BY <1>3, <2>1, <2>2
  <1>5. KeptOf(line2, sh2, n2) = [f \in F |-> KeptOf(line, sh, n)[f]]
    BY <1>2, <1>4 DEF KeptOf
  <1>6. ASSUME NEW f \in F, NEW g \in F
        PROVE  Place(line2, f) < Place(line2, g) <=> Place(line, f) < Place(line, g)
    <2>1. PICK i \in S, j \in S : f = line[i].frame /\ g = line[j].frame
      OBVIOUS
    <2>2. i \in Nat /\ j \in Nat /\ r[i] \in Nat /\ r[j] \in Nat
      BY LineFacts DEF LiveTo
    <2>3. i < j <=> r[i] < r[j]
      BY <2>2
    <2> QED
      BY <1>3, <2>1, <2>3
  <1>7. OlderOf(line2, n2) = OlderOf(line, n) \cap (F \X F)
    BY <1>1, <1>2, <1>6 DEF OlderOf
  <1> QED
    BY <1>1, <1>2, <1>5, <1>7

\* All of them renamed, the pool is the same.
LEMMA AllRenamed ==
    ASSUME NEW line \in Line, NamesOnce(line), NEW sh, NEW n,
           NEW line2 \in Line, NamesOnce(line2), NEW sh2, NEW n2, NEW r,
           Renames(line, sh, LiveTo(line, n), line2, sh2, LiveTo(line2, n2), r)
    PROVE  /\ KeptOf(line2, sh2, n2) = KeptOf(line, sh, n)
           /\ OlderOf(line2, n2) = OlderOf(line, n)
  <1>1. PICK S, F : S = LiveTo(line, n) /\ F = FramesIn(line, S)
    OBVIOUS
  <1>2. NamesOf(line, n) = F
    BY <1>1 DEF NamesOf, FramesIn
  <1>3. /\ S \in SUBSET LiveTo(line, n) /\ F = FramesIn(line, S)
        /\ Renames(line, sh, S, line2, sh2, LiveTo(line2, n2), r)
    BY <1>1
  <1>4. /\ KeptOf(line2, sh2, n2) = [f \in F |-> KeptOf(line, sh, n)[f]]
        /\ OlderOf(line2, n2) = OlderOf(line, n) \cap (F \X F)
    BY <1>3, Renamed
  <1>5. KeptOf(line, sh, n) = [f \in F |-> KeptOf(line, sh, n)[f]]
    BY <1>2 DEF KeptOf
  <1>6. OlderOf(line, n) \subseteq F \X F
    BY <1>2 DEF OlderOf
  <1> QED
    BY <1>4, <1>5, <1>6

\* A step of the loops that changes no state of a checkpoint is none of the pool's.
LEMMA SameKept ==
    ASSUME NEW line \in Line, NamesOnce(line), NEW sh, NEW n,
           NEW line2 \in Line, NamesOnce(line2), NEW sh2, NEW n2,
           LiveTo(line2, n2) = LiveTo(line, n),
           \A i \in LiveTo(line, n) :
               /\ line2[i].frame = line[i].frame
               /\ StateIn(line2, sh2, i) = StateIn(line, sh, i)
    PROVE  /\ KeptOf(line2, sh2, n2) = KeptOf(line, sh, n)
           /\ OlderOf(line2, n2) = OlderOf(line, n)
  <1>1. PICK r : r = [i \in LiveTo(line, n) |-> i]
    OBVIOUS
  <1>2. r \in [LiveTo(line, n) -> LiveTo(line2, n2)] /\ \A i \in LiveTo(line, n) : r[i] = i
    BY <1>1
  <1>3. Renames(line, sh, LiveTo(line, n), line2, sh2, LiveTo(line2, n2), r)
    BY <1>2 DEF Renames
  <1> QED
    BY <1>3, AllRenamed

-----------------------------------------------------------------------------
(* What the invariant says of each loop *)

LEMMA Shapes ==
    ASSUME NEW a \in LoopType
    PROVE  /\ a.loop \in {"none", "dropping", "walking"}
           /\ a.loop = "none" <=> a = Idle
           /\ a.loop = "dropping" => a.i \in Nat \ {0} /\ a = [loop |-> "dropping", i |-> a.i]
           /\ a.loop = "walking" =>
                 /\ a.k \in Nat \ {0} /\ a.target \in Nat \ {0} /\ a.keep \in BOOLEAN
                 /\ a.dirty \in SUBSET Chunk
                 /\ a = [loop |-> "walking", k |-> a.k, target |-> a.target,
                         keep |-> a.keep, dirty |-> a.dirty]
  BY DEF LoopType, Idle

LEMMA TypeFacts ==
    ASSUME SavesInv
    PROVE  /\ live \in Memory /\ written \subseteq Watched /\ on \in BOOLEAN
           /\ timeline \in Line /\ at \in LoopType
           /\ on => shadow \in Memory
           /\ ~on => shadow = None /\ timeline = <<>> /\ at = Idle
           /\ NamesOnce(timeline) /\ Cardinality(LiveOf(timeline)) <= Slots
  BY DEF SavesInv, SavesTypeOK, LoopInv

LEMMA EmptyLine ==
    /\ <<>> \in Line /\ NamesOnce(<<>>) /\ LiveOf(<<>>) = {}
    /\ Cardinality(LiveOf(<<>>)) <= Slots
    /\ \A n : LiveTo(<<>>, n) = {}
  BY FS_EmptySet DEF Line, NamesOnce, LiveOf, LiveTo

LEMMA EmptyPool ==
    ASSUME NEW sh, NEW n, NEW line, LiveTo(line, n) = {}
    PROVE  /\ OlderOf(line, n) = {} /\ NamesOf(line, n) = {}
           /\ \A h : KeptOf(line, sh, n) = [f \in {} |-> h[f]]
  BY DEF KeptOf, OlderOf, NamesOf

\* The pool between two calls.
LEMMA IdlePool ==
    at.loop # "walking" =>
        /\ PoolLive = live
        /\ PoolKept = KeptOf(timeline, shadow, Len(timeline))
        /\ PoolOlder = OlderOf(timeline, Len(timeline))
  BY PoolIs DEF PoolLive, LastKept

LEMMA InitSaves == Init => SavesInv /\ Pool!Init
  <1> SUFFICES ASSUME Init
               PROVE  SavesInv /\ Pool!Init
    OBVIOUS
  <1>1. at.loop = "none" /\ timeline = <<>> /\ on = FALSE /\ written = {}
    BY DEF Init, Idle
  <1>2. SavesTypeOK
    BY <1>1, EmptyLine DEF Init, SavesTypeOK, LoopType, Memory
  <1>3. LoopInv
    BY <1>1, EmptyLine DEF LoopInv
  <1>4. ShadowInv
    BY <1>1 DEF ShadowInv
  <1>5. /\ PoolLive = live /\ PoolOlder = {}
        /\ PoolKept = [f \in {} |-> PoolLive]
    <2>1. LiveTo(timeline, Len(timeline)) = {}
      BY <1>1, EmptyLine
    <2>2. NamesOf(timeline, Len(timeline)) = {}
      BY <2>1 DEF NamesOf
    <2> QED
      BY <1>1, <2>2, IdlePool DEF KeptOf, OlderOf
  <1> QED
    BY <1>1, <1>2, <1>3, <1>4, <1>5 DEF SavesInv, Pool!Init, Pool!Memory, Init

LEMMA BeginSaves ==
    ASSUME SavesInv, Begin
    PROVE  SavesInv' /\ Pool!Begin
  <1>1. /\ at.loop = "none" /\ at = Idle /\ at' = at /\ timeline' = <<>> /\ on' = TRUE
        /\ written' = {} /\ shadow' = live /\ live' = live
    BY DEF Begin, Idle
  <1>3. SavesTypeOK'
    BY <1>1, TypeFacts, EmptyLine DEF SavesTypeOK
  <1>4. LoopInv'
    BY <1>1, EmptyLine DEF LoopInv
  <1>5. ShadowInv'
    BY <1>1 DEF ShadowInv
  <1>6. PoolLive' = PoolLive /\ PoolOlder' = {} /\ PoolKept' = [f \in {} |-> PoolKept[f]]
    <2>1. /\ PoolLive' = live' /\ PoolLive = live
          /\ PoolKept' = KeptOf(timeline', shadow', Len(timeline'))
          /\ PoolOlder' = OlderOf(timeline', Len(timeline'))
      <3>1. (at.loop # "walking" =>
                /\ PoolLive = live
                /\ PoolKept = KeptOf(timeline, shadow, Len(timeline))
                /\ PoolOlder = OlderOf(timeline, Len(timeline)))'
        BY IdlePool, PTL
      <3> QED
        BY <1>1, <3>1, IdlePool
    <2>2. LiveTo(timeline', Len(timeline')) = {}
      BY <1>1, EmptyLine
    <2> QED
      BY <1>1, <2>1, <2>2, EmptyPool
  <1> QED
    BY <1>1, <1>3, <1>4, <1>5, <1>6 DEF SavesInv, Pool!Begin, Pool!Keep

LEMMA IdlePoolNext ==
    ASSUME at'.loop # "walking"
    PROVE  /\ PoolLive' = live'
           /\ PoolKept' = KeptOf(timeline', shadow', Len(timeline'))
           /\ PoolOlder' = OlderOf(timeline', Len(timeline'))
  <1>1. (at.loop # "walking" =>
            /\ PoolLive = live
            /\ PoolKept = KeptOf(timeline, shadow, Len(timeline))
            /\ PoolOlder = OlderOf(timeline, Len(timeline)))'
    BY IdlePool, PTL
  <1> QED
    BY <1>1

LEMMA EndSaves ==
    ASSUME SavesInv, End
    PROVE  SavesInv' /\ Pool!End
  <1>1. /\ at.loop = "none" /\ at = Idle /\ at' = at /\ timeline' = <<>> /\ on' = FALSE
        /\ written' = written /\ shadow' = None /\ live' = live
    BY DEF End, Idle
  <1>2. SavesTypeOK'
    BY <1>1, TypeFacts, EmptyLine DEF SavesTypeOK
  <1>3. LoopInv'
    BY <1>1, EmptyLine DEF LoopInv
  <1>4. ShadowInv'
    BY <1>1 DEF ShadowInv
  <1>5. PoolLive' = PoolLive /\ PoolOlder' = {} /\ PoolKept' = [f \in {} |-> PoolKept[f]]
    <2>1. LiveTo(timeline', Len(timeline')) = {}
      BY <1>1, EmptyLine
    <2> QED
      BY <1>1, <2>1, EmptyPool, IdlePool, IdlePoolNext
  <1> QED
    BY <1>1, <1>2, <1>3, <1>4, <1>5 DEF SavesInv, Pool!End, Pool!Keep

LEMMA WriteSaves ==
    ASSUME SavesInv, Write
    PROVE  SavesInv' /\ Pool!Write
  <1>1. PICK c \in Chunk, v \in Content :
            /\ live' = [live EXCEPT ![c] = v]
            /\ written' = written \cup ({c} \cap Watched)
    BY DEF Write
  <1>2. /\ at.loop = "none" /\ at' = at /\ timeline' = timeline /\ on' = on
        /\ shadow' = shadow
    BY DEF Write, Idle
  <1>3. live' \in Memory /\ \A d \in Chunk \ {c} : live'[d] = live[d]
    BY <1>1, TypeFacts DEF Memory
  <1>4. written' \subseteq Watched
    BY <1>1, TypeFacts
  <1>5. SavesTypeOK'
    BY <1>2, <1>3, <1>4, TypeFacts DEF SavesTypeOK
  <1>6. LoopInv'
    BY <1>2 DEF SavesInv, LoopInv
  <1>7. ShadowInv'
    <2>1. ASSUME on, NEW d \in Watched \ written'
          PROVE  live'[d] = shadow'[d]
      <3>1. d \in Watched \ written /\ d # c /\ d \in Chunk
        BY <1>1
      <3>2. live[d] = shadow[d]
        BY <1>2, <2>1, <3>1 DEF SavesInv, ShadowInv
      <3> QED
        BY <1>2, <1>3, <3>1, <3>2
    <2> QED
      BY <1>2, <2>1 DEF ShadowInv
  <1>8. PoolLive' = live' /\ PoolKept' = PoolKept /\ PoolOlder' = PoolOlder
    BY <1>2, IdlePool, IdlePoolNext
  <1> QED
    BY <1>2, <1>3, <1>5, <1>6, <1>7, <1>8 DEF SavesInv, Pool!Write, Pool!Memory, Memory

-----------------------------------------------------------------------------
(* A capture *)

\* The checkpoint of the lowest frame.
LEMMA Lowest ==
    ASSUME NEW line \in Line, NEW A \in SUBSET DOMAIN line, A # {}
    PROVE  \E i \in A : \A j \in A : line[i].frame <= line[j].frame
  <1> DEFINE Below(i) == {j \in A : line[j].frame < line[i].frame}
  <1>1. PICK B : B = {Below(i) : i \in A}
    OBVIOUS
  <1>0. Len(line) \in Nat /\ DOMAIN line = 1 .. Len(line) /\ A \subseteq 1 .. Len(line)
    BY LineFacts
  <1>2. \A i \in A : line[i].frame \in Int /\ i \in Nat
    <2>1. \A i \in A : line[i].frame \in Frame /\ i \in Nat
      BY <1>0, LineFacts
    <2> QED
      BY <2>1
  <1>3. B \subseteq FiniteSubsetsOf(Nat) /\ B # {}
    <2>0. IsFiniteSet(1 .. Len(line))
      <3>1. 1 \in Int /\ Len(line) \in Int
        BY <1>0
      <3> QED
        BY <3>1, FS_Interval
    <2>1. IsFiniteSet(1 .. Len(line)) /\ 1 .. Len(line) \subseteq Nat /\ A \subseteq 1 .. Len(line)
      BY <1>0, <2>0
    <2>2. \A i \in A : Below(i) \in SUBSET (1 .. Len(line))
      BY <2>1
    <2>3. \A i \in A : IsFiniteSet(Below(i))
      BY <2>1, <2>2, FS_Subset
    <2> QED
      BY <1>1, <2>1, <2>2, <2>3 DEF FiniteSubsetsOf
  <1>4. PICK x \in B : \A y \in B : ~ (<<y, x>> \in StrictSubsetOrdering(Nat))
    BY <1>3, FS_StrictSubsetOrderingWellFounded, WFMin
  <1>5. PICK i \in A : x = Below(i)
    BY <1>1
  <1>6. ASSUME NEW j \in A, line[j].frame < line[i].frame
        PROVE  FALSE
    <2>1. Below(j) \subseteq x
      BY <1>2, <1>5, <1>6
    <2>2. j \in x /\ j \notin Below(j)
      BY <1>2, <1>5, <1>6
    <2>3. Below(j) \in B /\ Below(j) \in SUBSET Nat /\ x \in SUBSET Nat
      BY <1>1, <1>2, <1>5
    <2> QED
      BY <1>4, <2>1, <2>2, <2>3 DEF StrictSubsetOrdering
  <1> QED
    BY <1>2, <1>6

\* A capture gives up one checkpoint at most: its own frame's, or for want of a slot the
\* one of the lowest frame.
LEMMA GivesUp ==
    ASSUME SavesInv, NEW f \in Frame
    PROVE  LET A == LiveOf(timeline)
               G == GivenUp(f)
               frames == FramesIn(timeline, A)
           IN  /\ G \subseteq A /\ \A i, j \in G : i = j
               /\ \A i \in A \ G : timeline[i].frame # f
               /\ IsFiniteSet(A) /\ Cardinality(A) \in Nat /\ Cardinality(A \ G) < Slots
               /\ FramesIn(timeline, A \ G) =
                     IF f \in frames THEN frames \ {f}
                     ELSE IF Cardinality(A) >= Slots
                          THEN {g \in frames : \E h \in frames : h < g}
                     ELSE frames
  <1>0. PICK G, A : G = GivenUp(f) /\ A = LiveOf(timeline)
    OBVIOUS
  <1> SUFFICES /\ G \subseteq A /\ \A i, j \in G : i = j
               /\ \A i \in A \ G : timeline[i].frame # f
               /\ IsFiniteSet(A) /\ Cardinality(A) \in Nat /\ Cardinality(A \ G) < Slots
               /\ FramesIn(timeline, A \ G) =
                     LET frames == FramesIn(timeline, A) IN
                     IF f \in frames THEN frames \ {f}
                     ELSE IF Cardinality(A) >= Slots
                          THEN {g \in frames : \E h \in frames : h < g}
                     ELSE frames
    BY <1>0
  <1>1. A = Alive /\ A \subseteq 1 .. Len(timeline)
    BY <1>0, TypeFacts, LineFacts DEF Alive, LiveOf
  <1>2. IsFiniteSet(A) /\ Cardinality(A) \in Nat /\ Cardinality(A) <= Slots
    <2>1. IsFiniteSet(1 .. Len(timeline))
      BY TypeFacts, LineFacts, FS_Interval
    <2>2. IsFiniteSet(A)
      BY <1>1, <2>1, FS_Subset
    <2> QED
      BY <1>0, <2>2, FS_CardinalityType, TypeFacts
  <1>3. \A i, j \in A : timeline[i].frame = timeline[j].frame => i = j
    BY <1>0, TypeFacts DEF NamesOnce, LiveOf
  <1>4. \A i \in A : timeline[i].frame \in Int
    BY <1>1, TypeFacts, LineFacts
  <1>5. Slots \in Nat \ {0}
    OBVIOUS
  <1>6. ASSUME NEW i \in A, timeline[i].frame = f
        PROVE  /\ G = {i} /\ \A j \in A \ G : timeline[j].frame # f
               /\ f \in FramesIn(timeline, A)
               /\ FramesIn(timeline, A \ G) = FramesIn(timeline, A) \ {f}
    <2>1. G = {j \in A : timeline[j].frame = f}
      BY <1>0, <1>1, <1>6 DEF GivenUp
    <2>2. G = {i}
      BY <1>3, <1>6, <2>1
    <2> QED
      BY <1>6, <2>1, <2>2 DEF FramesIn
  <1>7. ASSUME \A i \in A : timeline[i].frame # f, Cardinality(A) < Slots
        PROVE  G = {} /\ f \notin FramesIn(timeline, A)
    BY <1>0, <1>1, <1>7 DEF GivenUp, FramesIn
  <1>8. ASSUME \A i \in A : timeline[i].frame # f, ~(Cardinality(A) < Slots)
        PROVE  /\ \E i \in A : G = {i}
               /\ f \notin FramesIn(timeline, A)
               /\ FramesIn(timeline, A \ G) =
                    {g \in FramesIn(timeline, A) : \E h \in FramesIn(timeline, A) : h < g}
    <2>1. G = {i \in A : \A j \in A : timeline[i].frame <= timeline[j].frame}
      BY <1>0, <1>1, <1>8 DEF GivenUp
    <2>2. A # {}
      BY <1>2, <1>5, <1>8, FS_EmptySet
    <2>3. A \in SUBSET DOMAIN timeline
      BY <1>1, TypeFacts, LineFacts
    <2>4. PICK i \in A : \A j \in A : timeline[i].frame <= timeline[j].frame
      BY <2>2, <2>3, TypeFacts, Lowest
    <2>5. G = {i}
      BY <1>3, <1>4, <2>1, <2>4
    <2>6. \A j \in A \ G : timeline[i].frame < timeline[j].frame
      BY <1>3, <1>4, <2>4, <2>5
    <2>7. FramesIn(timeline, A \ G) \subseteq
            {g \in FramesIn(timeline, A) : \E h \in FramesIn(timeline, A) : h < g}
      BY <2>6 DEF FramesIn
    <2>8. ASSUME NEW g \in FramesIn(timeline, A), NEW h \in FramesIn(timeline, A), h < g
          PROVE  g \in FramesIn(timeline, A \ G)
      <3>1. PICK j \in A, k \in A : g = timeline[j].frame /\ h = timeline[k].frame
        BY DEF FramesIn
      <3>2. j \notin G
        BY <1>4, <2>1, <2>8, <3>1
      <3> QED
        BY <3>1, <3>2 DEF FramesIn
    <2>9. f \notin FramesIn(timeline, A)
      BY <1>8 DEF FramesIn
    <2> QED
      BY <2>5, <2>7, <2>8, <2>9
  <1>9. \A i \in A : /\ IsFiniteSet(A \ {i})
                     /\ Cardinality(A \ {i}) = Cardinality(A) - 1
    BY <1>2, FS_RemoveElement
  <1>10. CASE \E i \in A : timeline[i].frame = f
    <2>1. PICK i \in A : timeline[i].frame = f
      BY <1>10
    <2>2. /\ G = {i} /\ \A j \in A \ G : timeline[j].frame # f
          /\ f \in FramesIn(timeline, A)
          /\ FramesIn(timeline, A \ G) = FramesIn(timeline, A) \ {f}
      BY <1>6, <2>1
    <2>3. Cardinality(A \ G) < Slots
      BY <1>2, <1>5, <1>9, <2>2
    <2> QED
      BY <1>2, <2>2, <2>3
  <1>11. CASE \A i \in A : timeline[i].frame # f
    <2>1. CASE Cardinality(A) < Slots
      <3>1. G = {} /\ f \notin FramesIn(timeline, A) /\ A \ G = A
        BY <1>7, <1>11, <2>1
      <3>2. ~(Cardinality(A) >= Slots)
        BY <1>2, <1>5, <2>1
      <3> QED
        BY <1>2, <1>11, <2>1, <3>1, <3>2
    <2>2. CASE ~(Cardinality(A) < Slots)
      <3>1. PICK i \in A : G = {i}
        BY <1>8, <1>11, <2>2
      <3>2. Cardinality(A) >= Slots /\ Cardinality(A \ G) < Slots
        BY <1>2, <1>5, <1>9, <2>2, <3>1
      <3> QED
        BY <1>2, <1>8, <1>11, <2>2, <3>1, <3>2
    <2> QED
      BY <2>1, <2>2
  <1> QED
    BY <1>0, <1>10, <1>11

\* A slot per frame.
LEMMA FramesCount ==
    ASSUME NEW line \in Line, NamesOnce(line), NEW A, A = LiveOf(line), IsFiniteSet(A)
    PROVE  Cardinality(FramesIn(line, A)) = Cardinality(A)
  <1> DEFINE h == [i \in A |-> line[i].frame]
  <1>1. h \in [A -> FramesIn(line, A)]
    BY DEF FramesIn
  <1>2. \A i, j \in A : h[i] = h[j] => i = j
    BY DEF NamesOnce, LiveOf
  <1>3. \A f \in FramesIn(line, A) : \E i \in A : h[i] = f
    BY DEF FramesIn
  <1>4. h \in Bijection(A, FramesIn(line, A))
    BY <1>1, <1>2, <1>3 DEF Bijection, Injection, Surjection, IsInjective
  <1>5. ExistsBijection(A, FramesIn(line, A))
    BY <1>4 DEF ExistsBijection
  <1> QED
    BY <1>5, FS_Bijection

\* The newest checkpoint adds its copy to those of the others.
LEMMA NewestKept ==
    ASSUME NEW line \in Line, NamesOnce(line), NEW sh \in Memory, NEW n \in Nat,
           Len(line) = n + 1, line[n + 1].alive
    PROVE  LET f == line[n + 1].frame
               F == NamesOf(line, n) IN
           /\ KeptOf(line, sh, n + 1) =
                [g \in F \cup {f} |-> IF g = f THEN sh ELSE KeptOf(line, sh, n)[g]]
           /\ OlderOf(line, n + 1) = OlderOf(line, n) \cup (F \X {f})
  <1>0. PICK f, F : f = line[n + 1].frame /\ F = NamesOf(line, n)
    OBVIOUS
  <1>1. n + 1 \in DOMAIN line /\ n + 1 \in LiveOf(line)
    BY LineFacts DEF LiveOf
  <1>2. LiveTo(line, n + 1) = LiveTo(line, n) \cup {n + 1}
    <2>1. \A i \in DOMAIN line : i <= n + 1 <=> i <= n \/ i = n + 1
      BY LineFacts
    <2> QED
      BY <1>1, <2>1 DEF LiveTo, LiveOf
  <1>3. NamesOf(line, n + 1) = F \cup {f}
    BY <1>0, <1>2 DEF NamesOf
  <1>4. Place(line, f) = n + 1
    BY <1>0, <1>1, PlaceOf
  <1>5. \A g \in F : Place(line, g) \in LiveTo(line, n) /\ line[Place(line, g)].frame = g
    BY <1>0, PlaceIn
  <1>6. \A g \in F : Place(line, g) \in Nat /\ Place(line, g) <= n /\ g # f
    <2>1. \A i \in LiveTo(line, n) : i \in Nat /\ i <= n
      BY LineFacts DEF LiveTo
    <2> QED
      BY <1>4, <1>5, <2>1
  <1>7. StateIn(line, sh, n + 1) = sh
    BY NewestState
  <1>8. KeptOf(line, sh, n + 1) =
          [g \in F \cup {f} |-> IF g = f THEN sh ELSE KeptOf(line, sh, n)[g]]
    <2>1. \A g \in F : KeptOf(line, sh, n)[g] = StateIn(line, sh, Place(line, g))
      BY <1>0 DEF KeptOf
    <2> QED
      BY <1>3, <1>4, <1>6, <1>7, <2>1 DEF KeptOf
  <1>9. OlderOf(line, n + 1) = OlderOf(line, n) \cup (F \X {f})
    <2>1. ASSUME NEW g \in F \cup {f}, NEW h \in F \cup {f}
          PROVE  Place(line, g) < Place(line, h) <=>
                    \/ g \in F /\ h = f
                    \/ g \in F /\ h \in F /\ Place(line, g) < Place(line, h)
      BY <1>4, <1>6
    <2>2. OlderOf(line, n + 1) =
             {fg \in (F \cup {f}) \X (F \cup {f}) : Place(line, fg[1]) < Place(line, fg[2])}
      BY <1>3 DEF OlderOf
    <2>3. OlderOf(line, n) = {fg \in F \X F : Place(line, fg[1]) < Place(line, fg[2])}
      BY <1>0 DEF OlderOf
    <2> QED
      BY <2>1, <2>2, <2>3
  <1> QED
    BY <1>0, <1>8, <1>9

\* What the shadow becomes is the memory of the game.
LEMMA CaptureShadow ==
    ASSUME SavesInv, on, at = Idle
    PROVE  /\ Dirty \in SUBSET Chunk
           /\ [c \in Chunk |-> IF c \in Dirty THEN live[c] ELSE shadow[c]] = live
           /\ \A c \in Chunk \ Dirty : live[c] = shadow[c]
  <1>1. \A c \in Chunk \ Dirty : live[c] = shadow[c]
    <2>1. \A c \in Watched \ written : live[c] = shadow[c]
      BY DEF SavesInv, ShadowInv, Idle
    <2> QED
      BY <2>1 DEF Dirty
  <1>2. Dirty \in SUBSET Chunk
    BY TypeFacts DEF Dirty
  <1> QED
    BY <1>1, <1>2, TypeFacts DEF Memory

LEMMA CaptureLine ==
    ASSUME SavesInv, NEW f \in Frame, Capture(f)
    PROVE  LET n == Len(timeline)
               B == LiveOf(timeline) \ GivenUp(f) IN
           /\ n \in Nat /\ timeline' \in Line /\ Len(timeline') = n + 1
           /\ \A k \in 1 .. n : /\ timeline'[k].frame = timeline[k].frame
                                /\ timeline'[k].undo = timeline[k].undo
                                /\ timeline'[k].alive <=> k \in B
           /\ timeline'[n + 1].frame = f /\ timeline'[n + 1].alive
           /\ timeline'[n + 1].undo = IF n = 0 THEN None ELSE [c \in Dirty |-> shadow[c]]
           /\ \A i \in 1 .. n :
                 StateIn(timeline', shadow', i) = StateIn(timeline, shadow, i)
           /\ shadow' = live
  <1>0. PICK n, B : n = Len(timeline) /\ B = LiveOf(timeline) \ GivenUp(f)
    OBVIOUS
  <1>1. on /\ at = Idle
    BY DEF Capture
  <1>2. PICK cp : cp = [frame |-> f, alive |-> TRUE,
               undo |-> IF timeline = <<>> THEN None ELSE [c \in Dirty |-> shadow[c]]]
    OBVIOUS
  <1>3. PICK line1 : line1 = Marked(f)
    OBVIOUS
  <1>4. timeline' = Append(line1, cp) /\ shadow' = live
    BY <1>1, <1>2, <1>3, CaptureShadow DEF Capture
  <1>5. /\ timeline \in Line /\ n \in Nat /\ DOMAIN timeline = 1 .. n /\ shadow \in Memory
        /\ timeline = <<>> <=> n = 0
    <2>1. timeline \in Seq(Checkpoint)
      BY TypeFacts DEF Line
    <2> QED
      BY <1>0, <1>1, <2>1, TypeFacts, LineFacts
  <1>6. /\ None \in Undo /\ [c \in Dirty |-> shadow[c]] \in Undo
    <2>1. [c \in Dirty |-> shadow[c]] \in [Dirty -> Content]
      BY <1>1, <1>5, CaptureShadow DEF Memory
    <2>2. None \in [{} -> Content]
      BY DEF None
    <2> QED
      BY <1>1, <2>1, <2>2, CaptureShadow DEF Undo
  <1>7. /\ cp \in Checkpoint /\ cp.frame = f /\ cp.alive = TRUE
        /\ cp.undo = IF n = 0 THEN None ELSE [c \in Dirty |-> shadow[c]]
    BY <1>2, <1>5, <1>6 DEF Checkpoint
  <1>8. \A k \in 1 .. n :
           /\ line1[k] \in Checkpoint /\ line1[k].frame = timeline[k].frame
           /\ line1[k].undo = timeline[k].undo
           /\ line1[k].alive <=> k \in B
    <2>1. ASSUME NEW k \in 1 .. n
          PROVE  /\ line1[k] \in Checkpoint /\ line1[k].frame = timeline[k].frame
                 /\ line1[k].undo = timeline[k].undo
                 /\ line1[k].alive <=> k \in B
      <3>1. line1[k] = IF k \in GivenUp(f) THEN [timeline[k] EXCEPT !.alive = FALSE]
                       ELSE timeline[k]
        BY <1>3, <1>5 DEF Marked
      <3>2. timeline[k] \in Checkpoint
        BY <1>5, LineFacts
      <3>3. k \in LiveOf(timeline) <=> timeline[k].alive
        BY <1>5 DEF LiveOf
      <3> QED
        BY <1>0, <3>1, <3>2, <3>3 DEF Checkpoint
    <2> QED
      BY <2>1
  <1>9. line1 \in Line /\ Len(line1) = n
    <2>1. line1 = [k \in 1 .. n |-> line1[k]]
      BY <1>3, <1>5 DEF Marked
    <2> QED
      BY <1>5, <1>8, <2>1 DEF Line
  <1>10. /\ timeline' \in Line /\ Len(timeline') = n + 1
         /\ \A k \in 1 .. n : timeline'[k] = line1[k]
         /\ timeline'[n + 1] = cp
    BY <1>4, <1>5, <1>7, <1>9 DEF Line
  <1>11. ASSUME NEW i \in 1 .. n
         PROVE  StateIn(timeline', shadow', i) = StateIn(timeline, shadow, i)
    <2>1. StateIn(line1, shadow, i) = StateIn(timeline, shadow, i)
      BY <1>0, <1>5, <1>8, <1>9, SameUndos
    <2>2. cp.undo = [c \in Dirty |-> shadow[c]]
      BY <1>5, <1>7
    <2>3. \A c \in Chunk \ Dirty : live[c] = shadow[c]
      BY <1>1, CaptureShadow
    <2>4. StateIn(Append(line1, cp), live, i) = StateIn(line1, shadow, i)
      <3>1. PICK D : D = Dirty
        OBVIOUS
      <3>2. /\ line1 \in Line /\ shadow \in Memory /\ D \in SUBSET Chunk
            /\ \A c \in Chunk \ D : live[c] = shadow[c]
            /\ cp \in Checkpoint /\ cp.undo = [c \in D |-> shadow[c]]
            /\ i \in 1 .. Len(line1)
        BY <1>1, <1>5, <1>7, <1>9, <2>2, <2>3, <3>1, CaptureShadow
      <3> QED
        BY ONLY <3>2, CaptureStates
    <2> QED
      BY <1>4, <2>1, <2>4
  <1> QED
    BY <1>0, <1>4, <1>5, <1>7, <1>8, <1>10, <1>11

LEMMA CaptureSaves ==
    ASSUME SavesInv, NEW f \in Frame, Capture(f)
    PROVE  SavesInv' /\ Pool!Capture(f)
  <1>1. /\ on /\ at = Idle /\ at.loop = "none" /\ at' = [loop |-> "dropping", i |-> 1]
        /\ written' = {} /\ live' = live /\ on' = on
    BY DEF Capture, Idle
  <1>2. PICK n, G, A : n = Len(timeline) /\ G = GivenUp(f) /\ A = LiveOf(timeline)
    OBVIOUS
  <1>3. /\ n \in Nat /\ timeline' \in Line /\ Len(timeline') = n + 1
        /\ \A k \in 1 .. n : /\ timeline'[k].frame = timeline[k].frame
                             /\ timeline'[k].undo = timeline[k].undo
                             /\ timeline'[k].alive <=> k \in A \ G
        /\ timeline'[n + 1].frame = f /\ timeline'[n + 1].alive
        /\ \A i \in 1 .. n :
              StateIn(timeline', shadow', i) = StateIn(timeline, shadow, i)
        /\ shadow' = live
    BY <1>2, CaptureLine
  <1>4. /\ G \subseteq A /\ \A i, j \in G : i = j
        /\ \A i \in A \ G : timeline[i].frame # f
        /\ IsFiniteSet(A) /\ Cardinality(A) \in Nat /\ Cardinality(A \ G) < Slots
        /\ FramesIn(timeline, A \ G) =
             LET frames == FramesIn(timeline, A) IN
             IF f \in frames THEN frames \ {f}
             ELSE IF Cardinality(A) >= Slots
                  THEN {g \in frames : \E h \in frames : h < g}
             ELSE frames
    BY <1>2, GivesUp
  <1>5. A \subseteq 1 .. n /\ DOMAIN timeline = 1 .. n /\ DOMAIN timeline' = 1 .. n + 1
    BY <1>2, <1>3, TypeFacts, LineFacts DEF LiveOf
  <1>6. LiveOf(timeline') = (A \ G) \cup {n + 1}
    <2>1. \A k \in 1 .. n + 1 : k \in 1 .. n \/ k = n + 1
      BY <1>3
    <2>2. n + 1 \in 1 .. n + 1 /\ n + 1 \notin 1 .. n /\ \A k \in 1 .. n : k \in 1 .. n + 1
      BY <1>3
    <2> QED
      BY <1>3, <1>5, <2>1, <2>2 DEF LiveOf
  <1>7. NamesOnce(timeline')
    <2>1. \A i, j \in A : timeline[i].frame = timeline[j].frame => i = j
      BY <1>2, TypeFacts DEF NamesOnce, LiveOf
    <2>2. \A i \in A \ G : timeline'[i].frame = timeline[i].frame /\ timeline'[i].frame # f
      BY <1>3, <1>4, <1>5
    <2>3. \A i, j \in LiveOf(timeline') :
             timeline'[i].frame = timeline'[j].frame => i = j
      BY <1>3, <1>6, <2>1, <2>2
    <2> QED
      BY <2>3 DEF NamesOnce, LiveOf
  <1>8. Cardinality(LiveOf(timeline')) <= Slots
    <2>1. IsFiniteSet(A \ G) /\ Cardinality(A \ G) \in Nat
      BY <1>4, FS_Difference, FS_CardinalityType
    <2>2. n + 1 \notin A \ G
      BY <1>3, <1>5
    <2>3. Cardinality(LiveOf(timeline')) = Cardinality(A \ G) + 1
      BY <1>6, <2>1, <2>2, FS_AddElement
    <2> QED
      BY <1>4, <2>1, <2>3
  <1>9. SavesTypeOK'
    BY <1>1, <1>3, TypeFacts DEF SavesTypeOK, LoopType
  <1>10. LoopInv'
    <2>1. \A i \in DOMAIN timeline : timeline[i].alive
      BY <1>1 DEF SavesInv, LoopInv
    <2>2. \A i \in 1 .. n + 1 : i \in 1 .. n \/ i = n + 1
      BY <1>3
    <2>3. \A i \in DOMAIN timeline' : timeline'[i].alive \/ i \in G
      BY <1>2, <1>3, <1>5, <2>1, <2>2 DEF LiveOf
    <2>4. \A i, j \in DOMAIN timeline' : timeline'[i].alive \/ timeline'[j].alive \/ i = j
      BY <1>4, <2>3
    <2> QED
      BY <1>1, <1>3, <1>5, <1>7, <1>8, <2>4 DEF LoopInv
  <1>11. ShadowInv'
    BY <1>1, <1>3 DEF ShadowInv
  <1>12. PICK F : F = FramesIn(timeline, A \ G)
    OBVIOUS
  <1>13. LiveTo(timeline, n) = A /\ LiveTo(timeline', n) = A \ G
    <2>1. \A k \in 1 .. n + 1 : k \in 1 .. n <=> k <= n
      BY <1>3
    <2> QED
      BY <1>2, <1>3, <1>5, <2>1 DEF LiveTo, LiveOf
  <1>14. /\ NamesOf(timeline', n) = F
         /\ KeptOf(timeline', shadow', n) = [g \in F |-> KeptOf(timeline, shadow, n)[g]]
         /\ OlderOf(timeline', n) = OlderOf(timeline, n) \cap (F \X F)
    <2>1. PICK S, r : S = A \ G /\ r = [i \in S |-> i]
      OBVIOUS
    <2>2. Renames(timeline, shadow, S, timeline', shadow', LiveTo(timeline', n), r)
      <3>1. r \in [S -> S] /\ \A i \in S : r[i] = i /\ i \in 1 .. n
        BY <1>5, <2>1
      <3> QED
        BY <1>3, <1>13, <2>1, <3>1 DEF Renames
    <2>3. S \in SUBSET LiveTo(timeline, n) /\ F = FramesIn(timeline, S)
      BY <1>12, <1>13, <2>1
    <2>4. timeline \in Line /\ NamesOnce(timeline)
      BY TypeFacts
    <2>5. timeline' \in Line /\ NamesOnce(timeline')
      BY <1>3, <1>7
    <2>6. PICK line, sh, line2, sh2 :
             line = timeline /\ sh = shadow /\ line2 = timeline' /\ sh2 = shadow'
      OBVIOUS
    <2>7. /\ line \in Line /\ NamesOnce(line) /\ line2 \in Line /\ NamesOnce(line2)
          /\ S \in SUBSET LiveTo(line, n) /\ F = FramesIn(line, S)
          /\ Renames(line, sh, S, line2, sh2, LiveTo(line2, n), r)
      BY <2>2, <2>3, <2>4, <2>5, <2>6
    <2>8. /\ NamesOf(line2, n) = F
          /\ KeptOf(line2, sh2, n) = [g \in F |-> KeptOf(line, sh, n)[g]]
          /\ OlderOf(line2, n) = OlderOf(line, n) \cap (F \X F)
      BY <2>7, Renamed
    <2> QED
      BY <2>6, <2>8
  <1>15. /\ PoolKept' = [g \in F \cup {f} |-> IF g = f THEN live
                                             ELSE KeptOf(timeline, shadow, n)[g]]
         /\ PoolOlder' = (OlderOf(timeline, n) \cap (F \X F)) \cup (F \X {f})
         /\ PoolLive' = live'
    <2>1. at'.loop # "walking"
      BY <1>1
    <2>2. shadow' \in Memory
      BY <1>3, TypeFacts
    <2>3. /\ KeptOf(timeline', shadow', n + 1) =
               [g \in F \cup {f} |-> IF g = f THEN shadow' ELSE KeptOf(timeline', shadow', n)[g]]
          /\ OlderOf(timeline', n + 1) = OlderOf(timeline', n) \cup (F \X {f})
      <3>1. PICK line2, sh2 : line2 = timeline' /\ sh2 = shadow'
        OBVIOUS
      <3>2. /\ line2 \in Line /\ NamesOnce(line2) /\ sh2 \in Memory /\ n \in Nat
            /\ Len(line2) = n + 1 /\ line2[n + 1].alive
            /\ line2[n + 1].frame = f /\ NamesOf(line2, n) = F
        BY <1>3, <1>7, <1>14, <2>2, <3>1
      <3>3. /\ KeptOf(line2, sh2, n + 1) =
                 [g \in F \cup {f} |-> IF g = f THEN sh2 ELSE KeptOf(line2, sh2, n)[g]]
            /\ OlderOf(line2, n + 1) = OlderOf(line2, n) \cup (F \X {f})
        BY <3>2, NewestKept
      <3> QED
        BY <3>1, <3>3
    <2>4. \A g \in F : KeptOf(timeline', shadow', n)[g] = KeptOf(timeline, shadow, n)[g]
      BY <1>14
    <2>5. /\ PoolLive' = live' /\ PoolKept' = KeptOf(timeline', shadow', n + 1)
          /\ PoolOlder' = OlderOf(timeline', n + 1)
      BY <1>3, <2>1, IdlePoolNext
    <2>6. KeptOf(timeline', shadow', n + 1) =
            [g \in F \cup {f} |-> IF g = f THEN live ELSE KeptOf(timeline, shadow, n)[g]]
      BY <1>3, <2>3, <2>4
    <2> QED
      BY <1>14, <2>3, <2>5, <2>6
  <1>16. /\ PoolLive = live /\ PoolKept = KeptOf(timeline, shadow, n)
         /\ PoolOlder = OlderOf(timeline, n)
    BY <1>1, <1>2, IdlePool
  <1>17. F = Pool!Spared(f)
    <2>0. \A X : Pool!Cardinality(X) = Cardinality(X)
      BY DEF Pool!Cardinality, Cardinality
    <2>1. Pool!Frames = FramesIn(timeline, A)
      BY <1>13, <1>16 DEF Pool!Frames, KeptOf, NamesOf, FramesIn
    <2>2. Cardinality(FramesIn(timeline, A)) = Cardinality(A)
      BY <1>2, <1>4, TypeFacts, FramesCount
    <2> QED
      BY <1>4, <1>12, <2>0, <2>1, <2>2 DEF Pool!Spared
  <1> QED
    BY <1>1, <1>9, <1>10, <1>11, <1>15, <1>16, <1>17 DEF SavesInv, Pool!Capture

-----------------------------------------------------------------------------
(* The two loops and the load *)

\* The pool during a load.
LEMMA WalkPool ==
    at.loop = "walking" =>
        /\ PoolLive = StateIn(timeline, shadow, at.target)
        /\ PoolKept = KeptOf(timeline, shadow, IF at.keep THEN at.target ELSE 0)
        /\ PoolOlder = OlderOf(timeline, IF at.keep THEN at.target ELSE 0)
  BY PoolIs, StateAtIs DEF PoolLive, LastKept

LEMMA WalkPoolNext ==
    ASSUME at'.loop = "walking"
    PROVE  /\ PoolLive' = StateIn(timeline', shadow', at'.target)
           /\ PoolKept' = KeptOf(timeline', shadow', IF at'.keep THEN at'.target ELSE 0)
           /\ PoolOlder' = OlderOf(timeline', IF at'.keep THEN at'.target ELSE 0)
  <1>1. (at.loop = "walking" =>
            /\ PoolLive = StateIn(timeline, shadow, at.target)
            /\ PoolKept = KeptOf(timeline, shadow, IF at.keep THEN at.target ELSE 0)
            /\ PoolOlder = OlderOf(timeline, IF at.keep THEN at.target ELSE 0))'
    BY WalkPool, PTL
  <1> QED
    BY <1>1

LEMMA OverUndo ==
    ASSUME NEW u \in Undo, NEW w \in Undo
    PROVE  Over(u, w) \in Undo
  <1>1. PICK D \in SUBSET Chunk, E \in SUBSET Chunk : u \in [D -> Content] /\ w \in [E -> Content]
    BY DEF Undo
  <1>2. Over(u, w) \in [D \cup E -> Content] /\ D \cup E \in SUBSET Chunk
    BY <1>1 DEF Over
  <1> QED
    BY <1>2 DEF Undo

\* What drop_dead() leaves, dropping checkpoint i.
LEMMA DropLine ==
    ASSUME SavesInv, at.loop = "dropping", Drop
    PROVE  LET n == Len(timeline)
               i == at.i IN
           /\ on /\ shadow \in Memory
           /\ n \in Nat /\ i \in 1 .. n - 1 /\ timeline' \in Line /\ Len(timeline') = n - 1
           /\ Without(timeline, i, timeline')
           /\ ~timeline[i].alive /\ \A k \in 1 .. n : k # i => timeline[k].alive
           /\ \A k \in 1 .. n : k < i => timeline'[k] = timeline[k]
           /\ \A k \in 1 .. n :
                 k > i => /\ timeline'[k - 1].frame = timeline[k].frame
                          /\ timeline'[k - 1].alive = timeline[k].alive
  <1>0. PICK n, i : n = Len(timeline) /\ i = at.i
    OBVIOUS
  <1>1. /\ n \in Nat /\ DOMAIN timeline = 1 .. n /\ timeline \in Line
        /\ \A k \in 1 .. n : timeline[k] \in Checkpoint /\ timeline[k].undo \in Undo
    BY <1>0, TypeFacts, LineFacts
  <1>2. i \in Nat \ {0} /\ i < n /\ ~timeline[i].alive
    BY <1>0, TypeFacts, Shapes DEF Drop
  <1>3. on /\ shadow \in Memory
    BY TypeFacts DEF Idle
  <1>4. timeline' = [j \in 1 .. n - 1 |->
               IF j < i THEN timeline[j]
               ELSE IF j = i THEN [timeline[i + 1] EXCEPT
                                      !.undo = Over(timeline[i].undo, timeline[i + 1].undo)]
               ELSE timeline[j + 1]]
    BY <1>0 DEF Drop, Merged
  <1>5. i \in 1 .. n /\ i + 1 \in 1 .. n /\ i \in 1 .. n - 1
    BY <1>1, <1>2
  <1>6. PICK cp : cp = [timeline[i + 1] EXCEPT
                           !.undo = Over(timeline[i].undo, timeline[i + 1].undo)]
    OBVIOUS
  <1>7. /\ cp \in Checkpoint /\ cp.frame = timeline[i + 1].frame
        /\ cp.alive = timeline[i + 1].alive
        /\ cp.undo = Over(timeline[i].undo, timeline[i + 1].undo)
    <2>1. Over(timeline[i].undo, timeline[i + 1].undo) \in Undo
      BY <1>1, <1>5, OverUndo
    <2>2. timeline[i + 1] \in Checkpoint
      BY <1>1, <1>5
    <2> QED
      BY <1>6, <2>1, <2>2 DEF Checkpoint
  <1>8. /\ \A j \in 1 .. n - 1 : timeline'[j] = IF j < i THEN timeline[j]
                                               ELSE IF j = i THEN cp ELSE timeline[j + 1]
        /\ timeline' = [j \in 1 .. n - 1 |-> timeline'[j]]
    BY <1>4, <1>6
  <1>9. \A j \in 1 .. n - 1 : timeline'[j] \in Checkpoint /\ j \in 1 .. n /\ j + 1 \in 1 .. n
    BY <1>1, <1>7, <1>8
  <1>10. timeline' \in Line /\ Len(timeline') = n - 1
    <2>1. n - 1 \in Nat
      BY <1>1, <1>2
    <2> QED
      BY <1>8, <1>9, <2>1 DEF Line
  <1>11. Without(timeline, i, timeline')
    <2>1. ASSUME NEW j \in 1 .. n - 1
          PROVE  /\ j < i => timeline'[j] = timeline[j]
                 /\ j = i => timeline'[j] = cp
                 /\ j > i => timeline'[j] = timeline[j + 1]
      BY <1>2, <1>8
    <2> QED
      BY <1>0, <1>7, <1>10, <2>1 DEF Without
  <1>12. \A k \in 1 .. n : k # i => timeline[k].alive
    BY <1>1, <1>2, <1>5 DEF SavesInv, LoopInv
  <1>13. \A k \in 1 .. n : k < i => timeline'[k] = timeline[k]
    BY <1>1, <1>2, <1>8
  <1>14. ASSUME NEW k \in 1 .. n, k > i
         PROVE  /\ timeline'[k - 1].frame = timeline[k].frame
                /\ timeline'[k - 1].alive = timeline[k].alive
    <2>1. k - 1 \in 1 .. n - 1 /\ ~(k - 1 < i) /\ (k - 1) + 1 = k
      BY <1>1, <1>2, <1>14
    <2>2. timeline'[k - 1] = IF k - 1 = i THEN cp ELSE timeline[k]
      BY <1>8, <2>1
    <2> QED
      BY <1>7, <2>1, <2>2
  <1> QED
    BY <1>0, <1>1, <1>2, <1>3, <1>5, <1>10, <1>11, <1>12, <1>13, <1>14

\* The checkpoint is gone, and the pool the same.
LEMMA DropSaves ==
    ASSUME SavesInv, at.loop = "dropping", Drop, UNCHANGED <<live, written, on, shadow>>
    PROVE  SavesInv' /\ UNCHANGED <<PoolLive, PoolKept, PoolOlder, on>>
  <1>1. PICK n, i : n = Len(timeline) /\ i = at.i
    OBVIOUS
  <1>2. /\ on /\ shadow \in Memory
        /\ n \in Nat /\ i \in 1 .. n - 1 /\ timeline' \in Line /\ Len(timeline') = n - 1
        /\ Without(timeline, i, timeline')
        /\ ~timeline[i].alive /\ \A k \in 1 .. n : k # i => timeline[k].alive
        /\ \A k \in 1 .. n : k < i => timeline'[k] = timeline[k]
        /\ \A k \in 1 .. n :
              k > i => /\ timeline'[k - 1].frame = timeline[k].frame
                       /\ timeline'[k - 1].alive = timeline[k].alive
    BY <1>1, DropLine
  <1>3. /\ at' = at /\ live' = live /\ written' = written /\ on' = on /\ shadow' = shadow
    BY DEF Drop
  <1>4. DOMAIN timeline = 1 .. n /\ DOMAIN timeline' = 1 .. n - 1 /\ timeline \in Line
    BY <1>1, <1>2, TypeFacts, LineFacts
  <1>5. PICK q : q = [j \in 1 .. n - 1 |-> IF j < i THEN j ELSE j + 1]
    OBVIOUS
  <1>6. /\ \A j \in 1 .. n - 1 :
              /\ q[j] = IF j < i THEN j ELSE j + 1
              /\ q[j] \in 1 .. n /\ q[j] # i
              /\ timeline'[j].frame = timeline[q[j]].frame
              /\ timeline'[j].alive
        /\ \A j, k \in 1 .. n - 1 : q[j] = q[k] => j = k
    <2>1. \A j \in 1 .. n - 1 : q[j] = IF j < i THEN j ELSE j + 1
      BY <1>5
    <2>2. \A j \in 1 .. n - 1 : q[j] \in 1 .. n /\ q[j] # i
      BY <1>2, <2>1
    <2>3. ASSUME NEW j \in 1 .. n - 1
          PROVE  timeline'[j].frame = timeline[q[j]].frame /\ timeline'[j].alive
      <3>1. CASE j < i
        <4>1. q[j] = j /\ j \in 1 .. n /\ timeline'[j] = timeline[j] /\ timeline[j].alive
          BY <1>2, <2>1, <3>1
        <4> QED
          BY <4>1
      <3>2. CASE ~(j < i)
        <4>1. j + 1 \in 1 .. n /\ j + 1 > i /\ j + 1 # i /\ (j + 1) - 1 = j /\ q[j] = j + 1
          BY <1>2, <2>1, <3>2
        <4> QED
          BY <1>2, <4>1
      <3> QED
        BY <3>1, <3>2
    <2>4. \A j, k \in 1 .. n - 1 : q[j] = q[k] => j = k
      BY <1>2, <2>1
    <2> QED
      BY <2>1, <2>2, <2>3, <2>4
  <1>7. LiveOf(timeline) = (1 .. n) \ {i} /\ LiveOf(timeline') = 1 .. n - 1
    BY <1>2, <1>4, <1>6 DEF LiveOf
  <1>8. Cardinality(LiveOf(timeline')) <= Slots
    <2>1. IsFiniteSet(1 .. n) /\ Cardinality(1 .. n) = n
      BY <1>2, FS_Interval
    <2>2. Cardinality(1 .. n - 1) = n - 1
      <3>1. 1 \in Int /\ n - 1 \in Int /\ (IF 1 > n - 1 THEN 0 ELSE (n - 1) - 1 + 1) = n - 1
        BY <1>2
      <3> QED
        BY <3>1, FS_Interval
    <2>3. i \in 1 .. n
      BY <1>2
    <2>4. Cardinality((1 .. n) \ {i}) = n - 1
      <3>1. Cardinality((1 .. n) \ {i}) = Cardinality(1 .. n) - 1
        BY <2>1, <2>3, FS_RemoveElement
      <3> QED
        BY <2>1, <3>1
    <2> QED
      BY <1>7, <2>2, <2>4, TypeFacts
  <1>9. NamesOnce(timeline')
    <2>1. ASSUME NEW j \in 1 .. n - 1, NEW k \in 1 .. n - 1,
                 timeline'[j].frame = timeline'[k].frame
          PROVE  j = k
      <3>1. /\ timeline[q[j]].alive /\ timeline[q[k]].alive
            /\ timeline[q[j]].frame = timeline[q[k]].frame
            /\ q[j] \in DOMAIN timeline /\ q[k] \in DOMAIN timeline
        BY <1>2, <1>4, <1>6, <2>1
      <3>2. q[j] = q[k]
        BY <3>1, TypeFacts DEF NamesOnce
      <3> QED
        BY <1>6, <3>2
    <2> QED
      BY <1>4, <2>1 DEF NamesOnce
  <1>10. SavesTypeOK'
    <2>1. at # Idle
      BY DEF Idle
    <2> QED
      BY <1>2, <1>3, <2>1, TypeFacts DEF SavesTypeOK
  <1>11. LoopInv'
    <2>1. i > 1 => timeline'[1].undo = None
      <3>1. i > 1 => timeline[1].undo = None /\ 1 \in 1 .. n /\ 1 < i
        BY <1>1, <1>2 DEF SavesInv, LoopInv
      <3> QED
        BY <1>2, <3>1
    <2>2. n - 1 \in 1 .. n - 1 /\ i <= n - 1
      BY <1>2
    <2>3. \A k \in DOMAIN timeline' : timeline'[k].alive
      BY <1>4, <1>6
    <2> QED
      BY <1>1, <1>2, <1>3, <1>4, <1>8, <1>9, <2>1, <2>2, <2>3 DEF LoopInv
  <1>12. ShadowInv'
    BY <1>3 DEF SavesInv, ShadowInv
  <1>13. PICK S, r : S = LiveTo(timeline, n) /\ r = [k \in S |-> IF k < i THEN k ELSE k - 1]
    OBVIOUS
  <1>14. S = (1 .. n) \ {i} /\ LiveTo(timeline', n - 1) = 1 .. n - 1
    <2>1. \A k \in 1 .. n : k <= n
      BY <1>2
    <2>2. \A k \in 1 .. n - 1 : k <= n - 1
      BY <1>2
    <2> QED
      BY <1>4, <1>7, <1>13, <2>1, <2>2 DEF LiveTo, LiveOf
  <1>15. Renames(timeline, shadow, S, timeline', shadow', LiveTo(timeline', n - 1), r)
    <2>1. \A k \in S : r[k] = IF k < i THEN k ELSE k - 1
      BY <1>13
    <2>2. r \in [S -> 1 .. n - 1]
      BY <1>2, <1>13, <1>14
    <2>3. \A j \in 1 .. n - 1 : q[j] \in S /\ r[q[j]] = j
      BY <1>2, <1>6, <1>14, <2>1
    <2>4. \A j, k \in S : j < k => r[j] < r[k]
      BY <1>2, <1>14, <2>1
    <2>5. ASSUME NEW k \in S
          PROVE  /\ timeline'[r[k]].frame = timeline[k].frame
                 /\ StateIn(timeline', shadow, r[k]) = StateIn(timeline, shadow, k)
      <3>1. k \in 1 .. n /\ k # i
        BY <1>14
      <3>2. i \in 1 .. Len(timeline) /\ i < Len(timeline)
        BY <1>1, <1>2
      <3>3. CASE k < i
        <4>1. r[k] = k /\ k \in 1 .. i - 1 /\ timeline'[k] = timeline[k]
          BY <1>2, <2>1, <3>1, <3>3
        <4> QED
          BY <1>2, <1>4, <3>2, <4>1, DropBefore
      <3>4. CASE ~(k < i)
        <4>1. r[k] = k - 1 /\ k > i /\ k \in i + 1 .. Len(timeline)
          BY <1>1, <1>2, <2>1, <3>1, <3>4
        <4> QED
          BY <1>2, <1>4, <3>1, <3>2, <4>1, DropAfter
      <3> QED
        BY <3>3, <3>4
    <2> QED
      BY <1>3, <1>14, <2>2, <2>3, <2>4, <2>5 DEF Renames
  <1>16. /\ KeptOf(timeline', shadow', n - 1) = KeptOf(timeline, shadow, n)
         /\ OlderOf(timeline', n - 1) = OlderOf(timeline, n)
    <2>1. Renames(timeline, shadow, LiveTo(timeline, n), timeline', shadow',
                  LiveTo(timeline', n - 1), r)
      BY <1>13, <1>15
    <2>2. NamesOnce(timeline)
      BY TypeFacts
    <2>3. PICK line2, sh2 : line2 = timeline' /\ sh2 = shadow'
      OBVIOUS
    <2>4. /\ timeline \in Line /\ NamesOnce(timeline) /\ line2 \in Line /\ NamesOnce(line2)
          /\ Renames(timeline, shadow, LiveTo(timeline, n), line2, sh2, LiveTo(line2, n - 1), r)
      BY <1>2, <1>4, <1>9, <2>1, <2>2, <2>3
    <2>5. /\ KeptOf(line2, sh2, n - 1) = KeptOf(timeline, shadow, n)
          /\ OlderOf(line2, n - 1) = OlderOf(timeline, n)
      BY <2>4, AllRenamed
    <2> QED
      BY <2>3, <2>5
  <1>17. UNCHANGED <<PoolLive, PoolKept, PoolOlder>>
    BY <1>1, <1>2, <1>3, <1>16, IdlePool, IdlePoolNext
  <1> QED
    BY <1>3, <1>10, <1>11, <1>12, <1>17 DEF SavesInv

\* The checkpoint stays, without the differences when it is the oldest.
LEMMA StaySaves ==
    ASSUME SavesInv, at.loop = "dropping", Stay, UNCHANGED <<live, written, on, shadow>>
    PROVE  SavesInv' /\ UNCHANGED <<PoolLive, PoolKept, PoolOlder, on>>
  <1>1. PICK n, i : n = Len(timeline) /\ i = at.i
    OBVIOUS
  <1>2. /\ n \in Nat /\ timeline \in Line /\ DOMAIN timeline = 1 .. n
        /\ \A k \in 1 .. n : timeline[k] \in Checkpoint
    BY <1>1, TypeFacts, LineFacts
  <1>3. /\ i \in 1 .. n /\ on
        /\ \A k \in 1 .. n : k < i => timeline[k].alive
        /\ timeline[n].alive
        /\ \A j, k \in 1 .. n : timeline[j].alive \/ timeline[k].alive \/ j = k
        /\ i > 1 => timeline[1].undo = None
    <2>1. i \in Nat \ {0} /\ i <= n
      BY <1>1, TypeFacts, Shapes DEF SavesInv, LoopInv
    <2> QED
      BY <1>1, <1>2, <2>1, TypeFacts DEF SavesInv, LoopInv, Idle
  <1>4. timeline[i].alive
    BY <1>1, <1>3 DEF Stay
  <1>5. /\ live' = live /\ written' = written /\ on' = on /\ shadow' = shadow
        /\ at' = IF i < n THEN [loop |-> "dropping", i |-> i + 1] ELSE Idle
    <2>1. at = [loop |-> "dropping", i |-> i]
      BY <1>1, TypeFacts, Shapes
    <2> QED
      BY <1>1, <2>1 DEF Stay
  <1>6. /\ timeline' \in Line /\ Len(timeline') = n
        /\ \A k \in 1 .. n : /\ timeline'[k].frame = timeline[k].frame
                             /\ timeline'[k].alive = timeline[k].alive
                             /\ k > 1 => timeline'[k].undo = timeline[k].undo
        /\ timeline'[1].undo = None
    <2>1. CASE i = 1
      <3>1. timeline' = [timeline EXCEPT ![1].undo = None]
        BY <1>1, <2>1 DEF Stay
      <3>2. None \in Undo
        <4>1. None \in [{} -> Content] /\ {} \in SUBSET Chunk
          BY DEF None
        <4> QED
          BY <4>1 DEF Undo
      <3>3. PICK cp : cp = [timeline[1] EXCEPT !.undo = None]
        OBVIOUS
      <3>4. /\ cp \in Checkpoint /\ cp.frame = timeline[1].frame
            /\ cp.alive = timeline[1].alive /\ cp.undo = None
        BY <1>2, <1>3, <2>1, <3>2, <3>3 DEF Checkpoint
      <3>5. timeline' = [timeline EXCEPT ![1] = cp]
        BY <3>1, <3>3
      <3>7. /\ \A k \in 1 .. n : timeline'[k] = IF k = 1 THEN cp ELSE timeline[k]
            /\ timeline' = [k \in 1 .. n |-> timeline'[k]]
        BY <1>2, <3>5
      <3>8. \A k \in 1 .. n : timeline'[k] \in Checkpoint
        BY <1>2, <3>4, <3>7
      <3>6. timeline' \in Line /\ Len(timeline') = n
        BY <1>2, <3>7, <3>8 DEF Line
      <3> QED
        BY <1>3, <2>1, <3>4, <3>6, <3>7
    <2>2. CASE i # 1
      <3>1. timeline' = timeline /\ i > 1
        BY <1>1, <1>3, <2>2 DEF Stay
      <3> QED
        BY <1>1, <1>2, <1>3, <3>1
    <2> QED
      BY <2>1, <2>2
  <1>7. DOMAIN timeline' = 1 .. n
    BY <1>6, LineFacts
  <1>8. /\ NamesOnce(timeline') /\ LiveOf(timeline') = LiveOf(timeline)
        /\ LiveTo(timeline', n) = LiveTo(timeline, n)
    BY <1>2, <1>6, <1>7, TypeFacts DEF NamesOnce, LiveOf, LiveTo
  <1>9. SavesTypeOK'
    BY <1>3, <1>5, <1>6, TypeFacts DEF SavesTypeOK, LoopType
  <1>10. LoopInv'
    <2>1. Cardinality(LiveOf(timeline')) <= Slots
      BY <1>8, TypeFacts
    <2>2. CASE i < n
      <3>1. at'.loop = "dropping" /\ at'.i = i + 1 /\ i + 1 <= n
        BY <1>2, <1>3, <1>5, <2>2
      <3>2. \A k \in 1 .. n : k < i + 1 => timeline'[k].alive
        BY <1>3, <1>4, <1>6
      <3>3. n \in 1 .. n /\ timeline'[n].alive
        BY <1>3, <1>6
      <3>4. \A j, k \in 1 .. n : timeline'[j].alive \/ timeline'[k].alive \/ j = k
        BY <1>3, <1>6
      <3> QED
        BY <1>6, <1>7, <1>8, <2>1, <3>1, <3>2, <3>3, <3>4 DEF LoopInv
    <2>3. CASE ~(i < n)
      <3>1. at'.loop = "none"
        BY <1>5, <2>3 DEF Idle
      <3>2. \A k \in 1 .. n : timeline'[k].alive
        <4>1. \A k \in 1 .. n : k < i \/ k = i
          BY <1>2, <1>3, <2>3
        <4> QED
          BY <1>3, <1>4, <1>6, <4>1
      <3> QED
        BY <1>6, <1>7, <1>8, <2>1, <3>1, <3>2 DEF LoopInv
    <2> QED
      BY <2>2, <2>3
  <1>11. ShadowInv'
    BY <1>3, <1>5 DEF SavesInv, ShadowInv, Idle
  <1>12. UNCHANGED <<PoolLive, PoolKept, PoolOlder>>
    <2>1. PICK line2 : line2 = timeline'
      OBVIOUS
    <2>2. \A k \in LiveTo(timeline, n) :
              /\ line2[k].frame = timeline[k].frame
              /\ StateIn(line2, shadow, k) = StateIn(timeline, shadow, k)
      <3>1. ASSUME NEW k \in 1 .. n
            PROVE  /\ line2[k].frame = timeline[k].frame
                   /\ StateIn(line2, shadow, k) = StateIn(timeline, shadow, k)
        <4>1. /\ line2 \in Line /\ k \in Nat /\ Len(line2) = Len(timeline)
              /\ \A m \in 1 .. Len(timeline) : m > k => line2[m].undo = timeline[m].undo
          BY <1>1, <1>2, <1>6, <2>1
        <4>2. StateIn(line2, shadow, k) = StateIn(timeline, shadow, k)
          BY <1>2, <4>1, SameUndos
        <4> QED
          BY <1>6, <2>1, <4>2
      <3> QED
        BY <1>2, <3>1 DEF LiveTo
    <2>3. /\ timeline \in Line /\ NamesOnce(timeline) /\ line2 \in Line /\ NamesOnce(line2)
          /\ LiveTo(line2, n) = LiveTo(timeline, n)
      BY <1>2, <1>6, <1>8, <2>1, TypeFacts
    <2>4. /\ KeptOf(line2, shadow, n) = KeptOf(timeline, shadow, n)
          /\ OlderOf(line2, n) = OlderOf(timeline, n)
      BY <2>2, <2>3, SameKept
    <2>5. at.loop # "walking" /\ at'.loop # "walking"
      BY <1>5 DEF Idle
    <2> QED
      BY <1>1, <1>5, <1>6, <2>1, <2>4, <2>5, IdlePool, IdlePoolNext
  <1> QED
    BY <1>5, <1>9, <1>10, <1>11, <1>12 DEF SavesInv

\* A load under way is, to the pool, done.
LEMMA LoadSaves ==
    ASSUME SavesInv, NEW f \in Frame, NEW keep \in BOOLEAN, Load(f, keep)
    PROVE  SavesInv' /\ Pool!Load(f, keep)
  <1>1. PICK t \in Alive :
            /\ timeline[t].frame = f
            /\ at' = [loop |-> "walking", k |-> Len(timeline), target |-> t, keep |-> keep,
                      dirty |-> Touched]
    BY DEF Load
  <1>2. /\ at = Idle /\ at.loop = "none" /\ written' = {} /\ live' = live /\ on' = on
        /\ shadow' = shadow /\ timeline' = timeline
    BY DEF Load, Idle
  <1>3. PICK n : n = Len(timeline)
    OBVIOUS
  <1>4. /\ n \in Nat /\ timeline \in Line /\ DOMAIN timeline = 1 .. n
        /\ t \in 1 .. n /\ timeline[t].alive /\ t \in LiveOf(timeline) /\ n >= 1
    BY <1>1, <1>3, TypeFacts, LineFacts DEF Alive, LiveOf
  <1>5. on /\ shadow \in Memory
    BY <1>3, <1>4, TypeFacts
  <1>6. /\ Dirty \in SUBSET Chunk /\ \A c \in Chunk \ Dirty : live[c] = shadow[c]
    BY <1>2, <1>5, CaptureShadow
  <1>7. /\ at'.loop = "walking" /\ at'.k = n /\ at'.target = t /\ at'.keep = keep
        /\ at'.dirty = Dirty
    BY <1>1, <1>3 DEF Touched
  <1>8. at' \in LoopType
    BY <1>1, <1>3, <1>4, <1>6 DEF LoopType, Touched
  <1>9. SavesTypeOK'
    BY <1>2, <1>5, <1>8, TypeFacts DEF SavesTypeOK
  <1>10. LoopInv'
    BY <1>2, <1>3, <1>4, <1>7 DEF SavesInv, LoopInv
  <1>11. ShadowInv'
    BY <1>2, <1>6, <1>7 DEF ShadowInv
  <1>12. /\ PoolLive = live /\ PoolKept = KeptOf(timeline, shadow, n)
         /\ PoolOlder = OlderOf(timeline, n)
    BY <1>2, <1>3, IdlePool
  <1>13. PICK m : m = IF keep THEN t ELSE 0
    OBVIOUS
  <1>14. /\ PoolLive' = StateIn(timeline, shadow, t)
         /\ PoolKept' = KeptOf(timeline, shadow, m)
         /\ PoolOlder' = OlderOf(timeline, m)
    BY <1>2, <1>7, <1>13, WalkPoolNext
  <1>15. NamesOnce(timeline) /\ Place(timeline, f) = t
    BY <1>1, <1>4, TypeFacts, PlaceOf
  <1>16. Pool!Frames = NamesOf(timeline, n)
    BY <1>12 DEF Pool!Frames, KeptOf
  <1>17. \A i \in 1 .. n : i \in LiveTo(timeline, n) <=> timeline[i].alive
    BY <1>4 DEF LiveTo
  <1>18. f \in NamesOf(timeline, n)
    BY <1>1, <1>4, <1>17 DEF NamesOf
  <1>19. PoolLive' = PoolKept[f]
    BY <1>12, <1>14, <1>15, <1>18 DEF KeptOf
  <1>20. PICK S, F : S = LiveTo(timeline, m) /\ F = FramesIn(timeline, S)
    OBVIOUS
  <1>21. /\ PoolKept' = [g \in F |-> PoolKept[g]]
         /\ PoolOlder' = PoolOlder \cap (F \X F)
    <2>1. PICK r : r = [i \in S |-> i]
      OBVIOUS
    <2>2. S \in SUBSET LiveTo(timeline, n)
      <3>1. \A i \in 1 .. n : i <= n
        BY <1>4
      <3> QED
        BY <1>4, <1>20, <3>1 DEF LiveTo
    <2>3. r \in [S -> S] /\ \A i \in S : r[i] = i
      BY <2>1
    <2>4. Renames(timeline, shadow, S, timeline, shadow, LiveTo(timeline, m), r)
      BY <1>20, <2>3 DEF Renames
    <2>5. /\ KeptOf(timeline, shadow, m) = [g \in F |-> KeptOf(timeline, shadow, n)[g]]
          /\ OlderOf(timeline, m) = OlderOf(timeline, n) \cap (F \X F)
      BY <1>4, <1>15, <1>20, <2>2, <2>4, Renamed
    <2> QED
      BY <1>12, <1>14, <2>5
  <1>22. F = IF keep THEN {g \in Pool!Frames : g = f \/ <<g, f>> \in PoolOlder} ELSE {}
    <2>1. CASE ~keep
      <3>1. S = {}
        BY <1>4, <1>13, <1>20, <2>1 DEF LiveTo
      <3> QED
        BY <1>20, <2>1, <3>1 DEF FramesIn
    <2>2. CASE keep
      <3>1. F = {timeline[i].frame : i \in {j \in LiveTo(timeline, n) : j <= t}}
        <4>1. \A j \in 1 .. n : j <= t => j <= n
          BY <1>4
        <4>2. S = {j \in LiveTo(timeline, n) : j <= t}
          BY <1>4, <1>13, <1>20, <2>2, <4>1 DEF LiveTo
        <4> QED
          BY <1>20, <4>2 DEF FramesIn
      <3>2. \A g \in NamesOf(timeline, n) :
               Place(timeline, g) \in LiveTo(timeline, n) /\ timeline[Place(timeline, g)].frame = g
        BY <1>4, <1>15, PlaceIn
      <3>3. \A i \in LiveTo(timeline, n) :
               /\ i \in 1 .. n /\ timeline[i].frame \in NamesOf(timeline, n)
               /\ Place(timeline, timeline[i].frame) = i
        <4>1. \A i \in LiveTo(timeline, n) : i \in 1 .. n /\ i \in LiveOf(timeline)
          BY <1>4 DEF LiveTo, LiveOf
        <4> QED
          BY <1>4, <1>15, <4>1, PlaceOf DEF NamesOf
      <3>4. ASSUME NEW g \in NamesOf(timeline, n)
            PROVE  g \in F <=> Place(timeline, g) <= t
        BY <3>1, <3>2, <3>3
      <3>5. ASSUME NEW g \in NamesOf(timeline, n)
            PROVE  Place(timeline, g) <= t <=> g = f \/ <<g, f>> \in OlderOf(timeline, n)
        <4>1. <<g, f>> \in OlderOf(timeline, n) <=> Place(timeline, g) < t
          BY <1>15, <1>18 DEF OlderOf
        <4>2. g = f <=> Place(timeline, g) = t
          BY <1>1, <1>15, <3>2
        <4>3. Place(timeline, g) \in Nat /\ t \in Nat
          BY <1>4, <3>2, <3>3
        <4> QED
          BY <4>1, <4>2, <4>3
      <3>6. F \subseteq NamesOf(timeline, n)
        BY <3>1, <3>3
      <3> QED
        BY <1>12, <1>16, <2>2, <3>4, <3>5, <3>6
    <2> QED
      BY <2>1, <2>2
  <1>23. Pool!Keep(IF keep THEN {g \in Pool!Frames : g = f \/ <<g, f>> \in PoolOlder} ELSE {})
    BY <1>21, <1>22 DEF Pool!Keep
  <1> QED
    BY <1>2, <1>9, <1>10, <1>11, <1>16, <1>18, <1>19, <1>23 DEF SavesInv, Pool!Load

\* What is undone is in the shadow.
LEMMA WalkSaves ==
    ASSUME SavesInv, Walk
    PROVE  SavesInv' /\ UNCHANGED <<PoolLive, PoolKept, PoolOlder, on>>
  <1>1. PICK n, k, t, u : n = Len(timeline) /\ k = at.k /\ t = at.target /\ u = timeline[k].undo
    OBVIOUS
  <1>2. /\ at.loop = "walking" /\ k > t /\ shadow' = Over(u, shadow)
        /\ timeline' = [timeline EXCEPT ![k].undo = None]
        /\ at' = [at EXCEPT !.k = k - 1, !.dirty = at.dirty \cup DOMAIN u]
        /\ live' = live /\ written' = written /\ on' = on
    BY <1>1 DEF Walk
  <1>3. /\ n \in Nat /\ timeline \in Line /\ DOMAIN timeline = 1 .. n
        /\ \A j \in 1 .. n : timeline[j] \in Checkpoint
        /\ \A j \in 1 .. n : timeline[j].alive
        /\ NamesOnce(timeline)
        /\ timeline # <<>> => timeline[1].undo = None
    BY <1>1, <1>2, TypeFacts, LineFacts DEF SavesInv, LoopInv
  <1>4. /\ t \in Nat \ {0} /\ k \in Nat \ {0} /\ k <= n /\ k \in 1 .. n
        /\ \A j \in 1 .. n : j > k => timeline[j].undo = None
        /\ at.keep \in BOOLEAN /\ at.dirty \in SUBSET Chunk
        /\ at = [loop |-> "walking", k |-> k, target |-> t, keep |-> at.keep,
                 dirty |-> at.dirty]
    <2>1. t \in Nat \ {0} /\ k \in Nat \ {0} /\ k <= n
      BY <1>1, <1>2, TypeFacts, Shapes DEF SavesInv, LoopInv
    <2>2. k \in 1 .. n
      BY <1>3, <2>1
    <2> QED
      BY <1>1, <1>2, <1>3, <2>1, <2>2, TypeFacts, Shapes DEF SavesInv, LoopInv
  <1>5. on /\ shadow \in Memory
    BY <1>2, TypeFacts DEF Idle
  <1>6. DOMAIN u \subseteq Chunk /\ \A c \in DOMAIN u : u[c] \in Content
    BY <1>1, <1>3, <1>4, LineFacts
  <1>7. /\ shadow' \in Memory
        /\ \A c \in Chunk \ DOMAIN u : shadow'[c] = shadow[c]
    BY <1>2, <1>5, <1>6 DEF Over, Memory
  <1>8. /\ timeline' \in Line /\ Len(timeline') = n
        /\ \A j \in 1 .. n :
              /\ timeline'[j].frame = timeline[j].frame
              /\ timeline'[j].alive
              /\ timeline'[j].undo = IF j = k THEN None ELSE timeline[j].undo
    <2>1. None \in Undo
      <3>1. None \in [{} -> Content] /\ {} \in SUBSET Chunk
        BY DEF None
      <3> QED
        BY <3>1 DEF Undo
    <2>2. PICK cp : cp = [timeline[k] EXCEPT !.undo = None]
      OBVIOUS
    <2>3. /\ cp \in Checkpoint /\ cp.frame = timeline[k].frame
          /\ cp.alive = timeline[k].alive /\ cp.undo = None
      BY <1>3, <1>4, <2>1, <2>2 DEF Checkpoint
    <2>4. /\ \A j \in 1 .. n : timeline'[j] = IF j = k THEN cp ELSE timeline[j]
          /\ timeline' = [j \in 1 .. n |-> timeline'[j]]
      BY <1>2, <1>3, <2>2
    <2>5. \A j \in 1 .. n : timeline'[j] \in Checkpoint
      BY <1>3, <2>3, <2>4
    <2>6. timeline' \in Line /\ Len(timeline') = n
      BY <1>3, <2>4, <2>5 DEF Line
    <2> QED
      BY <1>3, <2>3, <2>4, <2>6
  <1>9. DOMAIN timeline' = 1 .. n
    BY <1>8, LineFacts
  <1>10. /\ NamesOnce(timeline') /\ LiveOf(timeline') = LiveOf(timeline)
         /\ \A m : LiveTo(timeline', m) = LiveTo(timeline, m)
    BY <1>3, <1>8, <1>9 DEF NamesOnce, LiveOf, LiveTo
  <1>11. /\ at'.loop = "walking" /\ at'.k = k - 1 /\ at'.target = t /\ at'.keep = at.keep
         /\ at'.dirty = at.dirty \cup DOMAIN u
         /\ at' \in LoopType
    <2>1. at' = [loop |-> "walking", k |-> k - 1, target |-> t, keep |-> at.keep,
                 dirty |-> at.dirty \cup DOMAIN u]
      <3>1. PICK kp, d, e : kp = at.keep /\ d = at.dirty /\ e = at.dirty \cup DOMAIN u
        OBVIOUS
      <3>2. at = [loop |-> "walking", k |-> k, target |-> t, keep |-> kp, dirty |-> d]
        BY <1>4, <3>1
      <3>3. at' = [at EXCEPT !.k = k - 1, !.dirty = e]
        BY <1>2, <3>1
      <3>4. at' = [loop |-> "walking", k |-> k - 1, target |-> t, keep |-> kp, dirty |-> e]
        BY ONLY <3>2, <3>3
      <3> QED
        BY <3>1, <3>4
    <2>2. k - 1 \in Nat \ {0} /\ at.dirty \cup DOMAIN u \in SUBSET Chunk
      BY <1>2, <1>4, <1>6
    <2> QED
      BY <1>4, <2>1, <2>2 DEF LoopType
  <1>12. SavesTypeOK'
    BY <1>2, <1>5, <1>7, <1>8, <1>11, TypeFacts DEF SavesTypeOK
  <1>13. LoopInv'
    <2>1. Cardinality(LiveOf(timeline')) <= Slots
      BY <1>10, TypeFacts
    <2>2. timeline' # <<>> => timeline'[1].undo = None
      <3>1. 1 \in 1 .. n /\ k # 1 /\ timeline # <<>>
        BY <1>1, <1>2, <1>3, <1>4
      <3> QED
        BY <1>3, <1>8, <3>1
    <2>3. t <= k - 1 /\ k - 1 <= n
      BY <1>2, <1>3, <1>4
    <2>4. \A j \in 1 .. n : j > k - 1 => timeline'[j].undo = None
      <3>1. \A j \in 1 .. n : j > k - 1 => j = k \/ j > k
        BY <1>4
      <3> QED
        BY <1>4, <1>8, <3>1
    <2> QED
      BY <1>8, <1>9, <1>10, <1>11, <2>1, <2>2, <2>3, <2>4 DEF LoopInv
  <1>14. ShadowInv'
    <2>1. written' = {}
      BY <1>2 DEF SavesInv, ShadowInv
    <2>2. \A c \in Chunk \ at'.dirty : live'[c] = shadow'[c]
      BY <1>2, <1>7, <1>11 DEF SavesInv, ShadowInv
    <2> QED
      BY <1>11, <2>1, <2>2 DEF ShadowInv
  <1>15. UNCHANGED <<PoolLive, PoolKept, PoolOlder>>
    <2>1. PICK line2, sh2 : line2 = timeline' /\ sh2 = Over(timeline[k].undo, shadow)
      OBVIOUS
    <2>2. sh2 = shadow'
      BY <1>1, <1>2, <2>1
    <2>3. ASSUME NEW j \in Nat, j < k
          PROVE  StateIn(line2, sh2, j) = StateIn(timeline, shadow, j)
      <3>1. /\ timeline \in Line /\ shadow \in Memory /\ k \in 1 .. Len(timeline)
            /\ \A i \in 1 .. Len(timeline) : i > k => timeline[i].undo = None
            /\ line2 \in Line /\ Len(line2) = Len(timeline)
            /\ \A i \in 1 .. Len(timeline) :
                  line2[i].undo = IF i = k THEN None ELSE timeline[i].undo
        BY <1>1, <1>3, <1>4, <1>5, <1>8, <2>1
      <3>2. StateIn(line2, Over(timeline[k].undo, shadow), j) = StateIn(timeline, shadow, j)
        BY <2>3, <3>1, WalkStates
      <3> QED
        BY <2>1, <3>2
    <2>4. PICK m : m = IF at.keep THEN t ELSE 0
      OBVIOUS
    <2>5. m \in Nat /\ m < k
      BY <1>2, <1>4, <2>4
    <2>6. \A j \in LiveTo(timeline, m) :
              /\ line2[j].frame = timeline[j].frame
              /\ StateIn(line2, sh2, j) = StateIn(timeline, shadow, j)
      <3>1. \A j \in LiveTo(timeline, m) : j \in 1 .. n /\ j \in Nat /\ j < k
        BY <1>3, <1>4, <2>5 DEF LiveTo
      <3> QED
        BY <1>8, <2>1, <2>3, <3>1
    <2>7. /\ timeline \in Line /\ NamesOnce(timeline) /\ line2 \in Line /\ NamesOnce(line2)
          /\ LiveTo(line2, m) = LiveTo(timeline, m)
      BY <1>3, <1>8, <1>10, <2>1
    <2>8. /\ KeptOf(line2, sh2, m) = KeptOf(timeline, shadow, m)
          /\ OlderOf(line2, m) = OlderOf(timeline, m)
      BY <2>6, <2>7, SameKept
    <2>9. StateIn(line2, sh2, t) = StateIn(timeline, shadow, t)
      BY <1>2, <1>4, <2>3
    <2> QED
      BY <1>1, <1>2, <1>11, <2>1, <2>2, <2>4, <2>8, <2>9, WalkPool, WalkPoolNext
  <1> QED
    BY <1>2, <1>12, <1>13, <1>14, <1>15 DEF SavesInv

\* The shadow is the memory at the checkpoint loaded, and the game's from here on.
LEMMA RestoreSaves ==
    ASSUME SavesInv, Restore
    PROVE  SavesInv' /\ UNCHANGED <<PoolLive, PoolKept, PoolOlder, on>>
  <1>1. PICK n, t : n = Len(timeline) /\ t = at.target
    OBVIOUS
  <1>2. /\ at.loop = "walking" /\ at.k = t
        /\ live' = [c \in Chunk |-> IF c \in at.dirty THEN shadow[c] ELSE live[c]]
        /\ timeline' = IF at.keep THEN SubSeq(timeline, 1, t) ELSE <<>>
        /\ written' = {} /\ at' = Idle /\ at'.loop = "none" /\ on' = on /\ shadow' = shadow
    BY <1>1 DEF Restore, Idle
  <1>3. /\ n \in Nat /\ timeline \in Line /\ DOMAIN timeline = 1 .. n
        /\ \A j \in 1 .. n : timeline[j].alive
        /\ NamesOnce(timeline)
        /\ timeline # <<>> => timeline[1].undo = None
    BY <1>1, <1>2, TypeFacts, LineFacts DEF SavesInv, LoopInv
  <1>4. /\ t \in Nat \ {0} /\ t \in 1 .. n
        /\ \A j \in 1 .. n : j > t => timeline[j].undo = None
        /\ at.keep \in BOOLEAN
    <2>1. t \in Nat \ {0} /\ t <= n /\ at.keep \in BOOLEAN
      BY <1>1, <1>2, TypeFacts, Shapes DEF SavesInv, LoopInv
    <2>2. t \in 1 .. n
      BY <1>3, <2>1
    <2> QED
      BY <1>1, <1>2, <1>3, <2>1, <2>2 DEF SavesInv, LoopInv
  <1>5. on /\ shadow \in Memory
    BY <1>2, TypeFacts DEF Idle
  <1>6. live' = shadow
    <2>1. \A c \in Chunk \ at.dirty : live[c] = shadow[c]
      BY <1>2 DEF SavesInv, ShadowInv
    <2> QED
      BY <1>2, <1>5, <2>1 DEF Memory
  <1>7. PICK line2 : line2 = SubSeq(timeline, 1, t)
    OBVIOUS
  <1>8. line2 \in Line /\ Len(line2) = t /\ \A j \in 1 .. t : line2[j] = timeline[j] /\ j \in 1 .. n
    <2>1. \A j \in 1 .. t : line2[j] = timeline[j] /\ j \in 1 .. n
      BY <1>3, <1>4, <1>7 DEF Line
    <2>2. line2 \in Line /\ Len(line2) = t
      BY <1>3, <1>4, <1>7 DEF Line
    <2> QED
      BY <2>1, <2>2
  <1>9. \A i \in 1 .. t : StateIn(line2, shadow, i) = StateIn(timeline, shadow, i)
    BY <1>1, <1>3, <1>4, <1>7, CutStates
  <1>10. DOMAIN line2 = 1 .. t
    BY <1>8, LineFacts
  <1>11. NamesOnce(line2) /\ LiveOf(line2) \subseteq LiveOf(timeline)
    BY <1>3, <1>8, <1>10 DEF NamesOnce, LiveOf
  <1>12. Cardinality(LiveOf(line2)) <= Slots
    <2>1. IsFiniteSet(1 .. n)
      BY <1>3, FS_Interval
    <2>2. IsFiniteSet(LiveOf(timeline))
      BY <1>3, <2>1, FS_Subset DEF LiveOf
    <2>3. IsFiniteSet(LiveOf(line2)) /\ Cardinality(LiveOf(line2)) <= Cardinality(LiveOf(timeline))
      BY <1>11, <2>2, FS_Subset
    <2>4. Cardinality(LiveOf(line2)) \in Nat /\ Cardinality(LiveOf(timeline)) \in Nat
      BY <2>2, <2>3, FS_CardinalityType
    <2> QED
      BY <2>3, <2>4, TypeFacts
  <1>13. timeline' \in Line /\ NamesOnce(timeline') /\ Cardinality(LiveOf(timeline')) <= Slots
    BY <1>2, <1>7, <1>8, <1>11, <1>12, EmptyLine
  <1>14. SavesTypeOK'
    BY <1>2, <1>5, <1>6, <1>13 DEF SavesTypeOK, LoopType
  <1>15. LoopInv'
    <2>1. \A i \in DOMAIN timeline' : timeline'[i].alive
      <3>1. \A i \in DOMAIN line2 : line2[i].alive
        BY <1>3, <1>8, <1>10
      <3>2. DOMAIN <<>> = {}
        OBVIOUS
      <3> QED
        BY <1>2, <1>7, <3>1, <3>2
    <2>2. timeline' # <<>> => timeline'[1].undo = None
      <3>1. 1 \in 1 .. t /\ timeline # <<>>
        BY <1>1, <1>3, <1>4
      <3> QED
        BY <1>2, <1>3, <1>7, <1>8, <3>1
    <2> QED
      BY <1>2, <1>13, <2>1, <2>2 DEF LoopInv
  <1>16. ShadowInv'
    BY <1>2, <1>6 DEF ShadowInv
  <1>17. PoolLive = shadow
    <2>1. StateIn(timeline, shadow, t) = StateIn(line2, shadow, t)
      BY <1>4, <1>9
    <2>2. StateIn(line2, shadow, t) = shadow
      BY <1>5, <1>8, NewestState
    <2> QED
      BY <1>1, <1>2, <2>1, <2>2, WalkPool
  <1>18. PoolLive' = PoolLive
    BY <1>2, <1>6, <1>17, IdlePoolNext
  <1>19. PoolKept' = PoolKept /\ PoolOlder' = PoolOlder
    <2>1. CASE at.keep
      <3>1. LiveTo(line2, t) = LiveTo(timeline, t)
        <4>1. \A j \in 1 .. n : j <= t <=> j \in 1 .. t
          BY <1>4
        <4> QED
          BY <1>3, <1>8, <1>10, <4>1 DEF LiveTo
      <3>2. \A j \in LiveTo(timeline, t) :
                /\ line2[j].frame = timeline[j].frame
                /\ StateIn(line2, shadow, j) = StateIn(timeline, shadow, j)
        <4>1. \A j \in LiveTo(timeline, t) : j \in 1 .. t
          BY <1>10, <3>1 DEF LiveTo
        <4> QED
          BY <1>8, <1>9, <4>1
      <3>3. /\ KeptOf(line2, shadow, t) = KeptOf(timeline, shadow, t)
            /\ OlderOf(line2, t) = OlderOf(timeline, t)
        BY <1>3, <1>8, <1>11, <3>1, <3>2, SameKept
      <3>4. timeline' = line2 /\ Len(timeline') = t
        BY <1>2, <1>7, <1>8, <2>1
      <3> QED
        BY <1>1, <1>2, <2>1, <3>3, <3>4, WalkPool, IdlePoolNext
    <2>2. CASE ~at.keep
      <3>1. LiveTo(timeline, 0) = {} /\ LiveTo(timeline', Len(timeline')) = {}
        <4>1. LiveTo(timeline, 0) = {}
          BY <1>3 DEF LiveTo
        <4> QED
          BY <1>2, <2>2, <4>1, EmptyLine
      <3>2. /\ OlderOf(timeline, 0) = {} /\ NamesOf(timeline, 0) = {}
            /\ OlderOf(timeline', Len(timeline')) = {} /\ NamesOf(timeline', Len(timeline')) = {}
        BY <3>1 DEF OlderOf, NamesOf
      <3>3. KeptOf(timeline, shadow, 0) = KeptOf(timeline', shadow', Len(timeline'))
        BY <3>2 DEF KeptOf
      <3> QED
        BY <1>2, <2>2, <3>2, <3>3, WalkPool, IdlePoolNext
    <2> QED
      BY <2>1, <2>2
  <1> QED
    BY <1>2, <1>14, <1>15, <1>16, <1>18, <1>19 DEF SavesInv

-----------------------------------------------------------------------------
(* The refinement *)

\* Every step of the engine is one of the pool's, or none.
LEMMA StepSaves ==
    ASSUME SavesInv, [Next]_vars
    PROVE  SavesInv' /\ [Pool!Next]_<<PoolLive, PoolKept, PoolOlder, on>>
  <1>1. CASE Begin
    BY <1>1, BeginSaves DEF Pool!Next
  <1>2. CASE End
    BY <1>2, EndSaves DEF Pool!Next
  <1>3. CASE Write
    BY <1>3, WriteSaves DEF Pool!Next
  <1>4. CASE DropDead
    BY <1>4, DropSaves, StaySaves DEF DropDead
  <1>5. CASE Walk
    BY <1>5, WalkSaves
  <1>6. CASE Restore
    BY <1>6, RestoreSaves
  <1>7. ASSUME NEW f \in Frame, Capture(f)
        PROVE  SavesInv' /\ Pool!Next
    BY <1>7, CaptureSaves DEF Pool!Next
  <1>8. ASSUME NEW f \in Frame, NEW keep \in BOOLEAN, Load(f, keep)
        PROVE  SavesInv' /\ Pool!Next
    BY <1>8, LoadSaves DEF Pool!Next
  <1>9. CASE UNCHANGED vars
    <2>1. SavesInv'
      BY <1>9 DEF SavesInv, SavesTypeOK, LoopInv, ShadowInv, vars
    <2>2. UNCHANGED <<PoolLive, PoolKept, PoolOlder, on>>
      <3>1. CASE at.loop = "walking"
        BY <1>9, <3>1, WalkPool, WalkPoolNext DEF vars
      <3>2. CASE at.loop # "walking"
        BY <1>9, <3>2, IdlePool, IdlePoolNext DEF vars
      <3> QED
        BY <1>9, <3>1, <3>2 DEF vars
    <2> QED
      BY <2>1, <2>2
  <1> QED
    BY <1>1, <1>2, <1>3, <1>4, <1>5, <1>6, <1>7, <1>8, <1>9 DEF Next

\* The shape of the timeline and the loops, and where the shadow is not the game's memory:
\* what every capture, drop and load relies on.
THEOREM SavesInvariant == Spec => []SavesInv
  <1>1. Init => SavesInv
    BY InitSaves
  <1>2. SavesInv /\ [Next]_vars => SavesInv'
    BY StepSaves
  <1> QED
    BY <1>1, <1>2, PTL DEF Spec

\* Differences are as good as a full copy per slot: whatever is written, captured, dropped
\* and loaded, a load brings back the whole memory of the capture.
THEOREM SavesImplementPool == Spec => ImplementsSlotPool
  <1>1. Init => Pool!Init
    BY InitSaves
  <1>2. SavesInv /\ [Next]_vars => [Pool!Next]_<<PoolLive, PoolKept, PoolOlder, on>>
    BY StepSaves
  <1> QED
    BY <1>1, <1>2, SavesInvariant, PTL DEF Spec, ImplementsSlotPool, Pool!Spec

-----------------------------------------------------------------------------
(* The pages *)

Pairs(line) == {d \in (DOMAIN line) \X Chunk : d[2] \in DOMAIN line[d[1]].undo}

LEMMA PairFacts ==
    ASSUME NEW line \in Line
    PROVE  /\ HeldBy(line) = Cardinality(Pairs(line))
           /\ IsFiniteSet(Pairs(line)) /\ HeldBy(line) \in Nat
           /\ \A k, c : <<k, c>> \in Pairs(line) <=>
                           k \in 1 .. Len(line) /\ c \in DOMAIN line[k].undo
           /\ \A d \in Pairs(line) : d = <<d[1], d[2]>>
  <1>1. HeldBy(line) = Cardinality(Pairs(line))
    BY DEF HeldBy, Pairs
  <1>2. Len(line) \in Nat /\ DOMAIN line = 1 .. Len(line)
    BY LineFacts
  <1>3. IsFiniteSet(1 .. Len(line))
    BY <1>2, FS_Interval
  <1>4. IsFiniteSet((DOMAIN line) \X Chunk)
    BY <1>2, <1>3, FS_Product
  <1>5. IsFiniteSet(Pairs(line))
    BY <1>4, FS_Subset DEF Pairs
  <1>6. \A k \in 1 .. Len(line) : DOMAIN line[k].undo \subseteq Chunk
    BY LineFacts
  <1>7. \A k, c : <<k, c>> \in Pairs(line) <=>
                     k \in 1 .. Len(line) /\ c \in DOMAIN line[k].undo
    BY <1>2, <1>6 DEF Pairs
  <1>8. \A d \in Pairs(line) : d = <<d[1], d[2]>>
    BY DEF Pairs
  <1> QED
    BY <1>1, <1>5, <1>7, <1>8, FS_CardinalityType

\* The pages of one checkpoint.
Column(k, C) == {k} \X C

LEMMA ColumnSize ==
    ASSUME NEW k, NEW C, IsFiniteSet(C)
    PROVE  /\ IsFiniteSet(Column(k, C)) /\ Cardinality(Column(k, C)) = Cardinality(C)
           /\ \A j, c : <<j, c>> \in Column(k, C) <=> j = k /\ c \in C
           /\ \A d \in Column(k, C) : d = <<d[1], d[2]>>
  <1>1. IsFiniteSet({k}) /\ Cardinality({k}) = 1
    BY FS_Singleton
  <1>2. /\ IsFiniteSet({k} \X C)
        /\ Cardinality({k} \X C) = Cardinality({k}) * Cardinality(C)
    BY <1>1, FS_Product
  <1>3. Cardinality(C) \in Nat
    BY FS_CardinalityType
  <1> QED
    BY <1>1, <1>2, <1>3 DEF Column

LEMMA UndoFinite ==
    ASSUME NEW line \in Line, NEW k \in 1 .. Len(line)
    PROVE  IsFiniteSet(DOMAIN line[k].undo) /\ Cardinality(DOMAIN line[k].undo) \in Nat
  <1>1. DOMAIN line[k].undo \in SUBSET Chunk
    BY LineFacts
  <1> QED
    BY <1>1, FS_Subset, FS_CardinalityType

\* The same differences are the same pages.
LEMMA SamePages ==
    ASSUME NEW line \in Line, NEW line2 \in Line,
           \A k, c : k \in 1 .. Len(line2) /\ c \in DOMAIN line2[k].undo
                        <=> k \in 1 .. Len(line) /\ c \in DOMAIN line[k].undo
    PROVE  HeldBy(line2) = HeldBy(line)
  <1>1. PICK P, Q : P = Pairs(line) /\ Q = Pairs(line2)
    OBVIOUS
  <1>2. /\ \A k, c : <<k, c>> \in Q <=> <<k, c>> \in P
        /\ \A d \in P : d = <<d[1], d[2]>>
        /\ \A d \in Q : d = <<d[1], d[2]>>
    BY <1>1, PairFacts
  <1>3. P = Q
    <2>1. \A d \in P : <<d[1], d[2]>> \in Q /\ d = <<d[1], d[2]>>
      BY <1>2
    <2>2. \A d \in Q : <<d[1], d[2]>> \in P /\ d = <<d[1], d[2]>>
      BY <1>2
    <2>3. P \subseteq Q /\ Q \subseteq P
      BY <2>1, <2>2
    <2> QED
      BY <2>3
  <1> QED
    BY <1>1, <1>3, PairFacts

\* One checkpoint's differences are given back.
LEMMA ClearedPages ==
    ASSUME NEW line \in Line, NEW k \in 1 .. Len(line), NEW line2 \in Line,
           Len(line2) = Len(line),
           \A j \in 1 .. Len(line) : line2[j].undo = IF j = k THEN None ELSE line[j].undo
    PROVE  HeldBy(line2) + Held(line[k]) = HeldBy(line)
  <1>1. PICK C, P, Q : C = Column(k, DOMAIN line[k].undo) /\ P = Pairs(line) /\ Q = Pairs(line2)
    OBVIOUS
  <1>2. DOMAIN None = {}
    BY DEF None
  <1>3. /\ IsFiniteSet(C) /\ Cardinality(C) = Held(line[k]) /\ Held(line[k]) \in Nat
        /\ \A j, c : <<j, c>> \in C <=> j = k /\ c \in DOMAIN line[k].undo
        /\ \A d \in C : d = <<d[1], d[2]>>
    BY <1>1, UndoFinite, ColumnSize DEF Held
  <1>4. /\ \A j, c : <<j, c>> \in P <=> j \in 1 .. Len(line) /\ c \in DOMAIN line[j].undo
        /\ \A d \in P : d = <<d[1], d[2]>>
        /\ IsFiniteSet(P) /\ Cardinality(P) = HeldBy(line) /\ HeldBy(line) \in Nat
    BY <1>1, PairFacts
  <1>5. /\ \A j, c : <<j, c>> \in Q <=> j \in 1 .. Len(line) /\ c \in DOMAIN line2[j].undo
        /\ \A d \in Q : d = <<d[1], d[2]>>
        /\ Cardinality(Q) = HeldBy(line2)
    BY <1>1, PairFacts
  <1>6. Q = P \ C
    <2>1. \A j, c : <<j, c>> \in Q <=> <<j, c>> \in P /\ <<j, c>> \notin C
      BY <1>2, <1>3, <1>4, <1>5
    <2> QED
      BY <1>3, <1>4, <1>5, <2>1
  <1>7. P \cap C = C
    <2>1. \A j, c : <<j, c>> \in C => <<j, c>> \in P
      BY <1>3, <1>4
    <2> QED
      BY <1>3, <2>1
  <1>8. Cardinality(P \ C) = Cardinality(P) - Cardinality(C)
    BY <1>4, <1>7, FS_Difference
  <1> QED
    BY <1>3, <1>4, <1>5, <1>6, <1>8

\* A capture takes a page for each chunk it copies.
LEMMA CapturedPages ==
    ASSUME NEW line \in Line, NEW D \in SUBSET Chunk, NEW line2 \in Line,
           Len(line2) = Len(line) + 1,
           \A j \in 1 .. Len(line) : line2[j].undo = line[j].undo,
           DOMAIN line2[Len(line) + 1].undo = D
    PROVE  HeldBy(line2) = HeldBy(line) + Cardinality(D) /\ Cardinality(D) \in Nat
  <1>1. PICK n, C, P, Q :
            n = Len(line) /\ C = Column(n + 1, D) /\ P = Pairs(line) /\ Q = Pairs(line2)
    OBVIOUS
  <1>2. IsFiniteSet(D) /\ n \in Nat
    BY <1>1, FS_Subset, LineFacts
  <1>3. /\ IsFiniteSet(C) /\ Cardinality(C) = Cardinality(D) /\ Cardinality(D) \in Nat
        /\ \A j, c : <<j, c>> \in C <=> j = n + 1 /\ c \in D
        /\ \A d \in C : d = <<d[1], d[2]>>
    BY <1>1, <1>2, ColumnSize, FS_CardinalityType
  <1>4. /\ \A j, c : <<j, c>> \in P <=> j \in 1 .. n /\ c \in DOMAIN line[j].undo
        /\ \A d \in P : d = <<d[1], d[2]>>
        /\ IsFiniteSet(P) /\ Cardinality(P) = HeldBy(line) /\ HeldBy(line) \in Nat
    BY <1>1, PairFacts
  <1>5. /\ \A j, c : <<j, c>> \in Q <=> j \in 1 .. n + 1 /\ c \in DOMAIN line2[j].undo
        /\ \A d \in Q : d = <<d[1], d[2]>>
        /\ Cardinality(Q) = HeldBy(line2)
    BY <1>1, PairFacts
  <1>6. \A j : j \in 1 .. n + 1 <=> j \in 1 .. n \/ j = n + 1
    BY <1>2
  <1>7. Q = P \cup C
    <2>0. /\ \A j \in 1 .. n : DOMAIN line2[j].undo = DOMAIN line[j].undo
          /\ DOMAIN line2[n + 1].undo = D
      BY <1>1
    <2>1. \A j, c : <<j, c>> \in Q <=> <<j, c>> \in P \/ <<j, c>> \in C
      BY <1>3, <1>4, <1>5, <1>6, <2>0
    <2> QED
      BY <1>3, <1>4, <1>5, <2>1
  <1>8. P \cap C = {}
    <2>0. n + 1 \notin 1 .. n
      BY <1>2
    <2>1. \A j, c : ~(<<j, c>> \in C /\ <<j, c>> \in P)
      BY <1>3, <1>4, <2>0
    <2> QED
      BY <1>3, <2>1
  <1>9. Cardinality(P \cup C) = Cardinality(P) + Cardinality(C) - 0
    BY <1>3, <1>4, <1>8, FS_Union, FS_EmptySet
  <1> QED
    BY <1>3, <1>4, <1>5, <1>7, <1>9

\* A drop gives back the pages of the chunks the next checkpoint has too.
LEMMA DroppedPages ==
    ASSUME NEW line \in Line, NEW i \in 1 .. Len(line), i < Len(line),
           NEW line2 \in Line, Without(line, i, line2)
    PROVE  /\ HeldBy(line2) + Duplicates(line[i].undo, line[i + 1].undo) = HeldBy(line)
           /\ Duplicates(line[i].undo, line[i + 1].undo) \in Nat
  <1>1. PICK n, u, w, B, C, P, Q :
            /\ n = Len(line) /\ u = DOMAIN line[i].undo /\ w = DOMAIN line[i + 1].undo
            /\ B = u \cap w /\ C = Column(i + 1, B)
            /\ P = Pairs(line) /\ Q = Pairs(line2)
    OBVIOUS
  <1>2. /\ n \in Nat /\ i < n /\ i + 1 \in 1 .. n /\ Len(line2) = n - 1
        /\ \A j \in 1 .. n - 1 : /\ j < i => DOMAIN line2[j].undo = DOMAIN line[j].undo
                                 /\ j > i => DOMAIN line2[j].undo = DOMAIN line[j + 1].undo
        /\ DOMAIN line2[i].undo = u \cup w
    <2>1. n \in Nat /\ i < n /\ i + 1 \in 1 .. n /\ i \in 1 .. n - 1 /\ Len(line2) = n - 1
      BY <1>1, LineFacts DEF Without
    <2>2. line2[i].undo = Over(line[i].undo, line[i + 1].undo)
      BY <1>1, <2>1 DEF Without
    <2>3. DOMAIN line2[i].undo = u \cup w
      BY <1>1, <2>2 DEF Over
    <2>4. \A j \in 1 .. n - 1 : /\ j < i => line2[j] = line[j]
                                /\ j > i => line2[j] = line[j + 1]
      BY <1>1, <2>1 DEF Without
    <2> QED
      BY <2>1, <2>3, <2>4
  <1>3. /\ IsFiniteSet(C) /\ Cardinality(C) = Cardinality(B) /\ Cardinality(B) \in Nat
        /\ \A j, c : <<j, c>> \in C <=> j = i + 1 /\ c \in B
        /\ \A d \in C : d = <<d[1], d[2]>>
    <2>1. IsFiniteSet(u)
      BY <1>1, UndoFinite
    <2>2. IsFiniteSet(B)
      BY <1>1, <2>1, FS_Intersection
    <2>3. PICK k : k = i + 1
      OBVIOUS
    <2>4. /\ IsFiniteSet(Column(k, B)) /\ Cardinality(Column(k, B)) = Cardinality(B)
          /\ Cardinality(B) \in Nat
          /\ \A j, c : <<j, c>> \in Column(k, B) <=> j = k /\ c \in B
          /\ \A d \in Column(k, B) : d = <<d[1], d[2]>>
      BY <2>2, ColumnSize, FS_CardinalityType
    <2> QED
      BY <1>1, <2>3, <2>4
  <1>4. /\ \A j, c : <<j, c>> \in P <=> j \in 1 .. n /\ c \in DOMAIN line[j].undo
        /\ \A d \in P : d = <<d[1], d[2]>>
        /\ IsFiniteSet(P) /\ Cardinality(P) = HeldBy(line) /\ HeldBy(line) \in Nat
    BY <1>1, PairFacts
  <1>5. /\ \A j, c : <<j, c>> \in Q <=> j \in 1 .. n - 1 /\ c \in DOMAIN line2[j].undo
        /\ \A d \in Q : d = <<d[1], d[2]>>
        /\ Cardinality(Q) = HeldBy(line2)
    BY <1>1, <1>2, PairFacts
  <1>6. P \cap C = C
    <2>1. \A j, c : <<j, c>> \in C => <<j, c>> \in P
      BY <1>1, <1>2, <1>3, <1>4
    <2> QED
      BY <1>3, <2>1
  <1>7. IsFiniteSet(P \ C) /\ Cardinality(P \ C) = Cardinality(P) - Cardinality(C)
    BY <1>4, <1>6, FS_Difference
  <1>8. PICK h : h = [d \in P \ C |-> <<IF d[1] <= i THEN d[1] ELSE d[1] - 1, d[2]>>]
    OBVIOUS
  <1>9. \A d \in P \ C : /\ d[1] \in 1 .. n /\ d[2] \in DOMAIN line[d[1]].undo
                         /\ d = <<d[1], d[2]>>
                         /\ ~(d[1] = i + 1 /\ d[2] \in B)
    BY <1>3, <1>4
  <1>10. ASSUME NEW d \in P \ C
         PROVE  h[d] \in Q
    <2>1. PICK j, c : d = <<j, c>> /\ j \in 1 .. n /\ c \in DOMAIN line[j].undo
      BY <1>9
    <2>2. h[d] = <<IF j <= i THEN j ELSE j - 1, c>>
      BY <1>8, <2>1
    <2>3. CASE j < i
      BY <1>2, <1>5, <2>1, <2>2, <2>3
    <2>4. CASE j = i
      <3>1. j \in 1 .. n - 1 /\ c \in DOMAIN line2[j].undo
        BY <1>1, <1>2, <2>1, <2>4
      <3> QED
        BY <1>5, <2>2, <2>4, <3>1
    <2>5. CASE j = i + 1
      <3>1. ~(j <= i) /\ j - 1 = i /\ i \in 1 .. n - 1 /\ c \in DOMAIN line2[i].undo
        BY <1>1, <1>2, <2>1, <2>5
      <3> QED
        BY <1>5, <2>2, <3>1
    <2>6. CASE j > i + 1
      <3>1. /\ ~(j <= i) /\ j - 1 \in 1 .. n - 1 /\ j - 1 > i /\ (j - 1) + 1 = j
        BY <1>2, <2>1, <2>6
      <3>2. c \in DOMAIN line2[j - 1].undo
        BY <1>2, <2>1, <3>1
      <3> QED
        BY <1>5, <2>2, <3>1, <3>2
    <2> QED
      BY <2>1, <2>3, <2>4, <2>5, <2>6
  <1>11. ASSUME NEW d \in P \ C, NEW e \in P \ C, h[d] = h[e]
         PROVE  d = e
    <2>1. PICK j, c : /\ d = <<j, c>> /\ j \in 1 .. n /\ c \in DOMAIN line[j].undo
                      /\ ~(j = i + 1 /\ c \in B)
      BY <1>9
    <2>2. PICK k, b : /\ e = <<k, b>> /\ k \in 1 .. n /\ b \in DOMAIN line[k].undo
                      /\ ~(k = i + 1 /\ b \in B)
      BY <1>9
    <2>3. /\ h[d] = <<IF j <= i THEN j ELSE j - 1, c>>
          /\ h[e] = <<IF k <= i THEN k ELSE k - 1, b>>
      BY <1>8, <2>1, <2>2
    <2>4. b = c /\ (IF j <= i THEN j ELSE j - 1) = (IF k <= i THEN k ELSE k - 1)
      <3>1. PICK x, y : /\ x = (IF j <= i THEN j ELSE j - 1)
                        /\ y = (IF k <= i THEN k ELSE k - 1)
        OBVIOUS
      <3>2. <<x, c>> = <<y, b>>
        BY <1>11, <2>3, <3>1
      <3>3. x = y /\ b = c
        BY <3>2
      <3> QED
        BY <3>1, <3>3
    <2>5. j = k \/ (j = i /\ k = i + 1) \/ (j = i + 1 /\ k = i)
      BY <1>2, <2>1, <2>2, <2>4
    <2>6. ~(j = i /\ k = i + 1) /\ ~(j = i + 1 /\ k = i)
      BY <1>1, <2>1, <2>2, <2>4
    <2> QED
      BY <2>1, <2>2, <2>4, <2>5, <2>6
  <1>12. ASSUME NEW e \in Q
         PROVE  \E d \in P \ C : h[d] = e
    <2>1. PICK j, c : e = <<j, c>> /\ j \in 1 .. n - 1 /\ c \in DOMAIN line2[j].undo
      BY <1>5
    <2>2. ASSUME NEW k \in 1 .. n, c \in DOMAIN line[k].undo, ~(k = i + 1 /\ c \in B),
                 (IF k <= i THEN k ELSE k - 1) = j
          PROVE  \E d \in P \ C : h[d] = e
      <3>1. <<k, c>> \in P \ C
        BY <1>3, <1>4, <2>2
      <3>2. h[<<k, c>>] = <<j, c>>
        BY <1>8, <2>2, <3>1
      <3> QED
        BY <2>1, <3>1, <3>2
    <2>3. CASE j < i
      <3>1. j \in 1 .. n /\ c \in DOMAIN line[j].undo /\ j # i + 1 /\ j <= i
        BY <1>2, <2>1, <2>3
      <3> QED
        BY <2>2, <3>1
    <2>4. CASE j = i /\ c \in u
      <3>1. i \in 1 .. n /\ c \in DOMAIN line[i].undo /\ i # i + 1 /\ i <= i
        BY <1>1, <2>4
      <3> QED
        BY <2>2, <2>4, <3>1
    <2>5. CASE j = i /\ c \notin u
      <3>1. /\ c \in DOMAIN line[i + 1].undo /\ c \notin B
            /\ ~(i + 1 <= i) /\ (i + 1) - 1 = j
        BY <1>1, <1>2, <2>1, <2>5
      <3> QED
        BY <1>2, <2>2, <3>1
    <2>6. CASE j > i
      <3>1. /\ j + 1 \in 1 .. n /\ c \in DOMAIN line[j + 1].undo
            /\ j + 1 # i + 1 /\ ~(j + 1 <= i) /\ (j + 1) - 1 = j
        BY <1>2, <2>1, <2>6
      <3> QED
        BY <2>2, <3>1
    <2> QED
      BY <2>1, <2>3, <2>4, <2>5, <2>6
  <1>13. h \in [P \ C -> Q]
    BY <1>8, <1>10
  <1>14. ExistsBijection(P \ C, Q)
    BY <1>11, <1>12, <1>13, Fun_IsBij DEF ExistsBijection
  <1>15. Cardinality(Q) = Cardinality(P \ C)
    BY <1>7, <1>14, FS_Bijection
  <1>16. Duplicates(line[i].undo, line[i + 1].undo) = Cardinality(B)
    BY <1>1 DEF Duplicates
  <1> QED
    BY <1>3, <1>4, <1>5, <1>7, <1>15, <1>16

LEMMA RoundUpFacts ==
    ASSUME NEW n \in Nat
    PROVE  /\ RoundUp(n) \in Nat /\ Blocks(RoundUp(n))
           /\ n <= RoundUp(n) /\ RoundUp(n) < n + Block
  <1>1. PICK b \in Nat \ {0} : b = Block
    OBVIOUS
  <1>2. PICK q : q = (n + b - 1) \div b
    OBVIOUS
  <1>3. q \in Nat /\ q * b <= n + b - 1 /\ n + b - 1 < q * b + b
    BY <1>2
  <1>4. q * b \in Nat
    BY <1>3
  <1>5. RoundUp(n) = q * b
    BY <1>1, <1>2 DEF RoundUp
  <1> QED
    BY <1>1, <1>3, <1>4, <1>5 DEF Blocks

\* Whole blocks that exceed what is needed by less than one are what it rounds up to.
LEMMA BlocksBound ==
    ASSUME NEW p \in Nat, Blocks(p), NEW n \in Nat, p < n + Block
    PROVE  p <= RoundUp(n)
  <1>1. PICK b \in Nat \ {0} : b = Block
    OBVIOUS
  <1>2. PICK m \in Nat : p = m * b
    BY <1>1 DEF Blocks
  <1>3. PICK q : q = (n + b - 1) \div b
    OBVIOUS
  <1>4. q \in Nat /\ n + b - 1 < q * b + b
    BY <1>3
  <1>5. m * b < q * b + b
    BY <1>1, <1>2, <1>4
  <1>6. m <= q
    <2>1. ASSUME m > q
          PROVE  FALSE
      <3>1. PICK d \in Nat : m = q + 1 + d
        <4>1. m - q - 1 \in Nat /\ m = q + 1 + (m - q - 1)
          BY <1>4, <2>1
        <4> QED
          BY <4>1
      <3>2. m * b = q * b + b + d * b /\ d * b >= 0 /\ q * b \in Nat
        BY <1>4, <3>1
      <3> QED
        BY <1>5, <3>2
    <2> QED
      BY <1>4, <2>1
  <1>7. m * b <= q * b
    BY <1>4, <1>6
  <1> QED
    BY <1>1, <1>2, <1>3, <1>7 DEF RoundUp

LEMMA BlocksAdd ==
    ASSUME NEW p \in Nat, NEW n \in Nat, Blocks(p), Blocks(n)
    PROVE  Blocks(p + n)
  <1>1. PICK b \in Nat \ {0} : b = Block
    OBVIOUS
  <1>2. PICK m \in Nat, k \in Nat : p = m * b /\ n = k * b
    BY <1>1 DEF Blocks
  <1>3. p + n = (m + k) * b /\ m + k \in Nat
    BY <1>2
  <1> QED
    BY <1>1, <1>3 DEF Blocks

LEMMA RoundUpMonotone ==
    ASSUME NEW n \in Nat, NEW m \in Nat, n <= m
    PROVE  RoundUp(n) <= RoundUp(m)
  <1>1. RoundUp(n) \in Nat /\ Blocks(RoundUp(n)) /\ RoundUp(n) < n + Block
    BY RoundUpFacts
  <1>2. RoundUp(n) < m + Block
    BY <1>1
  <1> QED
    BY <1>1, <1>2, BlocksBound

\* What alloc_page() leaves: the pool never goes below nothing, and holds a whole block
\* more than what is taken at most.
LEMMA Allocated ==
    ASSUME NEW taken \in Nat, NEW n \in Nat, NEW freed \in Nat, Alloc(n, freed),
           spare \in Nat, pages = spare + taken, Blocks(pages),
           NEW most \in Nat, pages <= RoundUp(most), taken + n <= most
    PROVE  /\ pages' \in Nat /\ spare' \in Nat /\ Blocks(pages')
           /\ pages' = spare' + taken + n - freed /\ pages' <= RoundUp(most)
  <1>1. PICK grown : grown = IF n > spare THEN RoundUp(n - spare) ELSE 0
    OBVIOUS
  <1>2. pages' = pages + grown /\ spare' = spare + grown - n + freed
    BY <1>1 DEF Alloc
  <1>3. CASE n > spare
    <2>1. PICK k \in Nat : k = n - spare
      BY <1>3
    <2>2. grown \in Nat /\ Blocks(grown) /\ k <= grown /\ grown < k + Block
      BY <1>1, <1>3, <2>1, RoundUpFacts
    <2>3. pages' \in Nat /\ Blocks(pages')
      BY <1>2, <2>2, BlocksAdd
    <2>4. pages' < most + Block
      BY <1>2, <2>1, <2>2
    <2>5. pages' <= RoundUp(most)
      BY <2>3, <2>4, BlocksBound
    <2> QED
      BY <1>2, <2>1, <2>2, <2>3, <2>5
  <1>4. CASE ~(n > spare)
    BY <1>1, <1>2, <1>4
  <1> QED
    BY <1>3, <1>4

\* A checkpoint per slot, and one more only while it is being dropped.
LEMMA LineLength ==
    ASSUME SavesInv
    PROVE  /\ Len(timeline) \in Nat /\ Len(timeline) <= Slots + 1
           /\ at.loop # "dropping" => Len(timeline) <= Slots
  <1>1. PICK n, A : n = Len(timeline) /\ A = LiveOf(timeline)
    OBVIOUS
  <1>2. n \in Nat /\ DOMAIN timeline = 1 .. n /\ A \subseteq 1 .. n /\ Cardinality(A) <= Slots
    BY <1>1, TypeFacts, LineFacts DEF LiveOf
  <1>3. IsFiniteSet(1 .. n) /\ Cardinality(1 .. n) = n
    BY <1>2, FS_Interval
  <1>4. IsFiniteSet(A) /\ Cardinality(A) \in Nat
    BY <1>2, <1>3, FS_Subset, FS_CardinalityType
  <1>5. CASE A = 1 .. n
    BY <1>1, <1>2, <1>3, <1>5
  <1>6. CASE A # 1 .. n
    <2>1. PICK i \in 1 .. n : i \notin A
      BY <1>2, <1>6
    <2>2. at.loop = "dropping"
      BY <1>1, <1>2, <2>1 DEF SavesInv, LoopInv, LiveOf
    <2>3. \A j \in 1 .. n : j \in A \/ j = i
      BY <1>1, <1>2, <2>1, <2>2 DEF SavesInv, LoopInv, LiveOf
    <2>4. A = (1 .. n) \ {i}
      BY <1>2, <2>1, <2>3
    <2>5. Cardinality(A) = n - 1
      <3>1. Cardinality((1 .. n) \ {i}) = Cardinality(1 .. n) - 1
        BY <1>3, <2>1, FS_RemoveElement
      <3> QED
        BY <1>3, <2>4, <3>1
    <2> QED
      BY <1>1, <1>2, <1>4, <2>2, <2>5
  <1> QED
    BY <1>5, <1>6

\* What the differences and the copy of a capture come to.
LEMMA HeldBound ==
    ASSUME SavesInv, at = Idle, timeline # <<>>
    PROVE  HeldBy(timeline) <= (Slots - 1) * Cardinality(Chunk)
  <1>1. PICK n, P, C : n = Len(timeline) /\ P = Pairs(timeline) /\ C = Cardinality(Chunk)
    OBVIOUS
  <1>2. /\ n \in Nat /\ n <= Slots /\ timeline \in Line /\ C \in Nat
        /\ timeline[1].undo = None
    <2>1. at.loop = "none"
      BY DEF Idle
    <2>2. n \in Nat /\ n <= Slots
      BY <1>1, <2>1, LineLength
    <2>3. C \in Nat
      BY <1>1, FS_CardinalityType
    <2> QED
      BY <2>1, <2>2, <2>3, TypeFacts DEF SavesInv, LoopInv
  <1>3. n >= 1
    <2>1. timeline \in Seq(Checkpoint)
      BY <1>2 DEF Line
    <2>2. n # 0
      BY <1>1, <2>1
    <2> QED
      BY <1>2, <2>2
  <1>4. P \subseteq (2 .. n) \X Chunk
    <2>1. ASSUME NEW d \in P
          PROVE  d \in (2 .. n) \X Chunk
      <3>1. /\ d = <<d[1], d[2]>> /\ d[1] \in 1 .. n /\ d[2] \in DOMAIN timeline[d[1]].undo
        BY <1>1, <1>2, PairFacts
      <3>2. d[1] # 1
        BY <1>2, <3>1 DEF None
      <3>3. d[1] \in 2 .. n
        BY <1>2, <3>1, <3>2
      <3>4. d[2] \in Chunk
        BY <1>1, <1>2, <3>1, LineFacts
      <3> QED
        BY <3>1, <3>3, <3>4
    <2> QED
      BY <2>1
  <1>5. IsFiniteSet(2 .. n) /\ Cardinality(2 .. n) = n - 1
    <2>1. 2 \in Int /\ n \in Int /\ (IF 2 > n THEN 0 ELSE n - 2 + 1) = n - 1
      BY <1>2, <1>3
    <2> QED
      BY <2>1, FS_Interval
  <1>6. IsFiniteSet((2 .. n) \X Chunk) /\ Cardinality((2 .. n) \X Chunk) = (n - 1) * C
    BY <1>1, <1>5, FS_Product
  <1>7. HeldBy(timeline) <= (n - 1) * C
    <2>1. Cardinality(P) <= Cardinality((2 .. n) \X Chunk)
      BY <1>4, <1>6, FS_Subset
    <2> QED
      BY <1>1, <1>2, <1>6, <2>1, PairFacts
  <1>8. HeldBy(timeline) \in Nat
    BY <1>2, PairFacts
  <1>9. (n - 1) * C <= (Slots - 1) * C
    <2>1. PICK a \in Nat, d \in Nat : n - 1 = a /\ Slots - 1 = a + d
      <3>1. n - 1 \in Nat /\ Slots - n \in Nat /\ Slots - 1 = (n - 1) + (Slots - n)
        BY <1>2, <1>3
      <3> QED
        BY <3>1
    <2>2. (a + d) * C = a * C + d * C /\ d * C >= 0 /\ a * C \in Nat /\ d * C \in Nat
      BY <1>2
    <2> QED
      BY <2>1, <2>2
  <1>10. (n - 1) * C \in Int /\ (Slots - 1) * C \in Int
    BY <1>2
  <1> QED
    BY <1>1, <1>7, <1>8, <1>9, <1>10

LEMMA SizeIs ==
    ASSUME SavesInv
    PROVE  /\ Cardinality(Chunk) \in Nat /\ Cardinality(Chunk) >= 1
           /\ Size = IF on THEN Cardinality(Chunk) ELSE 0
  <1>1. Cardinality(Chunk) \in Nat /\ Cardinality(Chunk) # 0
    BY FS_CardinalityType, FS_EmptySet
  <1>2. on => DOMAIN shadow = Chunk
    BY TypeFacts DEF Memory
  <1>3. ~on => DOMAIN shadow = {}
    BY TypeFacts DEF None
  <1>4. on \in BOOLEAN
    BY TypeFacts
  <1> QED
    BY <1>1, <1>2, <1>3, <1>4, FS_EmptySet DEF Size

LEMMA SizeOf == SavesInv => Size = IF on THEN Cardinality(Chunk) ELSE 0
  BY SizeIs

LEMMA SizeNext ==
    ASSUME SavesInv'
    PROVE  Size' = IF on' THEN Cardinality(Chunk) ELSE 0
  <1>1. (SavesInv => Size = IF on THEN Cardinality(Chunk) ELSE 0)'
    BY SizeOf, PTL
  <1> QED
    BY <1>1

\* The most that is held: a copy of the memory per slot and one more.
LEMMA MostIs ==
    ASSUME NEW C \in Nat, C >= 1, NEW most, most = (Slots + 1) * C
    PROVE  /\ most \in Nat /\ (Slots - 1) * C + C + C = most /\ C + 1 <= most /\ C <= most
           /\ (Slots - 1) * C \in Nat
  <1>1. PICK a \in Nat : Slots = a + 1
    <2>1. Slots - 1 \in Nat /\ Slots = (Slots - 1) + 1
      OBVIOUS
    <2> QED
      BY <2>1
  <1>2. PICK x \in Nat : x = a * C
    BY <1>1
  <1>3. (a + 2) * C = a * C + C + C
    BY <1>1
  <1>4. Slots + 1 = a + 2 /\ Slots - 1 = a
    BY <1>1
  <1> QED
    BY <1>2, <1>3, <1>4

LEMMA EmptyHeld == HeldBy(<<>>) = 0
  <1>1. Pairs(<<>>) = {}
    BY DEF Pairs
  <1> QED
    BY <1>1, PairFacts, EmptyLine, FS_EmptySet

\* Steps that only give pages back.
LEMMA PagesFreed ==
    ASSUME SavesInv, SavesInv', PagesInv, on, on', NEW n \in Nat, Free(n),
           HeldBy(timeline') + n = HeldBy(timeline)
    PROVE  PagesInv'
  <1>1. pages' = pages /\ spare' = spare + n
    BY DEF Free
  <1>2. Size' = Size
    BY SizeIs, SizeNext
  <1>3. HeldBy(timeline') \in Nat /\ HeldBy(timeline) \in Nat
    <2>1. timeline \in Line /\ timeline' \in Line
      BY TypeFacts DEF SavesInv, SavesTypeOK
    <2> QED
      BY <2>1, PairFacts
  <1>4. Size \in Nat
    BY SizeIs
  <1> QED
    BY <1>1, <1>2, <1>3, <1>4 DEF PagesInv

LEMMA BeginPages ==
    ASSUME SavesInv, SavesInv', Begin
    PROVE  PagesInv'
  <1>1. PICK C, most : C = Cardinality(Chunk) /\ most = (Slots + 1) * C
    OBVIOUS
  <1>2. /\ pages' = RoundUp(C) /\ spare' = RoundUp(C) - C /\ timeline' = <<>> /\ on'
    BY <1>1 DEF Begin
  <1>3. C \in Nat /\ C >= 1 /\ Size' = C
    BY <1>1, <1>2, SizeIs, SizeNext
  <1>4. most \in Nat /\ C <= most
    BY <1>1, <1>3, MostIs
  <1>5. RoundUp(C) \in Nat /\ Blocks(RoundUp(C)) /\ C <= RoundUp(C)
    BY <1>3, RoundUpFacts
  <1>6. RoundUp(C) <= RoundUp(most)
    BY <1>3, <1>4, RoundUpMonotone
  <1>7. HeldBy(timeline') = 0
    BY <1>2, EmptyHeld
  <1> QED
    BY <1>1, <1>2, <1>3, <1>5, <1>6, <1>7 DEF PagesInv

LEMMA EndPages ==
    ASSUME SavesInv, SavesInv', End
    PROVE  PagesInv'
  <1>1. PICK C, most : C = Cardinality(Chunk) /\ most = (Slots + 1) * C
    OBVIOUS
  <1>2. pages' = 0 /\ spare' = 0 /\ timeline' = <<>> /\ ~on'
    BY DEF End
  <1>3. Size' = 0 /\ C \in Nat /\ C >= 1
    BY <1>1, <1>2, SizeIs, SizeNext
  <1>4. RoundUp(most) \in Nat
    BY <1>1, <1>3, MostIs, RoundUpFacts
  <1>5. HeldBy(timeline') = 0
    BY <1>2, EmptyHeld
  <1>6. Blocks(0)
    <2>1. 0 = 0 * Block
      OBVIOUS
    <2> QED
      BY <2>1 DEF Blocks
  <1> QED
    BY <1>1, <1>2, <1>3, <1>4, <1>5, <1>6 DEF PagesInv

LEMMA CapturePages ==
    ASSUME SavesInv, SavesInv', PagesInv, NEW f \in Frame, Capture(f)
    PROVE  PagesInv'
  <1>1. PICK C, most, h, D :
            /\ C = Cardinality(Chunk) /\ most = (Slots + 1) * C
            /\ h = HeldBy(timeline) /\ D = Dirty
    OBVIOUS
  <1>2. on /\ on' = on /\ at = Idle
    BY DEF Capture
  <1>3. C \in Nat /\ C >= 1 /\ Size = C /\ Size' = C
    BY <1>1, <1>2, SizeIs, SizeNext
  <1>4. /\ most \in Nat /\ (Slots - 1) * C + C + C = most /\ C + 1 <= most
        /\ (Slots - 1) * C \in Nat
    BY <1>1, <1>3, MostIs
  <1>5. /\ pages \in Nat /\ spare \in Nat /\ pages = spare + C + h /\ Blocks(pages)
        /\ pages <= RoundUp(most)
    BY <1>1, <1>3 DEF PagesInv
  <1>6. timeline \in Line /\ h \in Nat /\ D \in SUBSET Chunk
    BY <1>1, <1>2, TypeFacts, PairFacts, CaptureShadow
  <1>7. Cardinality(D) \in Nat /\ Cardinality(D) <= C
    BY <1>1, <1>3, <1>6, FS_Subset, FS_CardinalityType
  <1>8. PICK n : n = Len(timeline)
    OBVIOUS
  <1>9. /\ n \in Nat /\ timeline' \in Line /\ Len(timeline') = n + 1
        /\ \A j \in 1 .. n : timeline'[j].undo = timeline[j].undo
        /\ timeline'[n + 1].undo = IF n = 0 THEN None ELSE [c \in Dirty |-> shadow[c]]
    BY <1>8, CaptureLine
  <1>10. timeline = <<>> <=> n = 0
    <2>1. timeline \in Seq(Checkpoint)
      BY <1>6 DEF Line
    <2> QED
      BY <1>8, <2>1
  <1>11. CASE n = 0
    <2>1. DOMAIN timeline'[n + 1].undo = {}
      BY <1>9, <1>11 DEF None
    <2>2. HeldBy(timeline') = h + Cardinality({})
      BY <1>1, <1>6, <1>8, <1>9, <2>1, CapturedPages
    <2>3. h = 0 /\ HeldBy(timeline') = 0
      BY <1>1, <1>6, <1>10, <1>11, <2>2, EmptyHeld, FS_EmptySet
    <2>4. PICK k \in {0, 1} : Alloc(k, k)
      <3>1. Alloc(IF Cardinality(D) = 0 THEN 0 ELSE 1, IF Cardinality(D) = 0 THEN 0 ELSE 1)
        BY <1>1, <1>10, <1>11 DEF Capture
      <3> QED
        BY <3>1
    <2>5. /\ C \in Nat /\ k \in Nat /\ Alloc(k, k) /\ spare \in Nat /\ pages = spare + C
          /\ Blocks(pages) /\ most \in Nat /\ pages <= RoundUp(most) /\ C + k <= most
      BY <1>3, <1>4, <1>5, <2>3, <2>4
    <2>6. /\ pages' \in Nat /\ spare' \in Nat /\ Blocks(pages')
          /\ pages' = spare' + C + k - k /\ pages' <= RoundUp(most)
      BY <2>5, Allocated
    <2> QED
      BY <1>1, <1>2, <1>3, <2>3, <2>5, <2>6 DEF PagesInv
  <1>12. CASE n # 0
    <2>1. DOMAIN timeline'[n + 1].undo = D
      BY <1>1, <1>9, <1>12
    <2>2. HeldBy(timeline') = h + Cardinality(D)
      BY <1>1, <1>6, <1>8, <1>9, <2>1, CapturedPages
    <2>3. Alloc(Cardinality(D), 0)
      BY <1>1, <1>10, <1>12 DEF Capture
    <2>4. h <= (Slots - 1) * C
      BY <1>1, <1>2, <1>10, <1>12, HeldBound
    <2>5. PICK taken \in Nat : taken = C + h
      BY <1>3, <1>6
    <2>6. taken + Cardinality(D) <= most /\ pages = spare + taken
      BY <1>3, <1>4, <1>5, <1>6, <1>7, <2>4, <2>5
    <2>7. /\ pages' \in Nat /\ spare' \in Nat /\ Blocks(pages')
          /\ pages' = spare' + taken + Cardinality(D) - 0 /\ pages' <= RoundUp(most)
      BY <1>4, <1>5, <1>7, <2>3, <2>5, <2>6, Allocated
    <2>8. pages' = spare' + C + HeldBy(timeline')
      BY <1>3, <1>6, <1>7, <2>2, <2>5, <2>7
    <2> QED
      BY <1>1, <1>2, <1>3, <2>7, <2>8 DEF PagesInv
  <1> QED
    BY <1>11, <1>12

LEMMA DropPages ==
    ASSUME SavesInv, SavesInv', PagesInv, at.loop = "dropping", Drop, UNCHANGED on
    PROVE  PagesInv'
  <1>1. PICK n, i, m :
            /\ n = Len(timeline) /\ i = at.i
            /\ m = Duplicates(timeline[i].undo, timeline[i + 1].undo)
    OBVIOUS
  <1>2. /\ on /\ on' /\ n \in Nat /\ i \in 1 .. n - 1 /\ timeline' \in Line
        /\ Without(timeline, i, timeline')
    BY <1>1, DropLine
  <1>3. i \in 1 .. n /\ i < n /\ timeline \in Line
    BY <1>2, TypeFacts
  <1>4. HeldBy(timeline') + m = HeldBy(timeline) /\ m \in Nat
    BY <1>1, <1>2, <1>3, DroppedPages
  <1>5. Free(m)
    BY <1>1 DEF Drop
  <1> QED
    BY <1>2, <1>4, <1>5, PagesFreed

LEMMA StayPages ==
    ASSUME SavesInv, SavesInv', PagesInv, at.loop = "dropping", Stay,
           UNCHANGED <<on, shadow>>
    PROVE  PagesInv'
  <1>1. PICK n, i : n = Len(timeline) /\ i = at.i
    OBVIOUS
  <1>2. /\ on /\ on' /\ n \in Nat /\ timeline \in Line /\ DOMAIN timeline = 1 .. n
        /\ i \in Nat \ {0} /\ i <= n /\ timeline' \in Line
    <2>1. i \in Nat \ {0} /\ i <= n
      BY <1>1, TypeFacts, Shapes DEF SavesInv, LoopInv
    <2>2. timeline' \in Line
      BY DEF SavesInv, SavesTypeOK
    <2>3. on
      BY TypeFacts DEF Idle
    <2> QED
      BY <1>1, <2>1, <2>2, <2>3, TypeFacts, LineFacts
  <1>3. CASE i = 1
    <2>1. timeline' = [timeline EXCEPT ![1].undo = None] /\ Free(Held(timeline[1]))
      BY <1>1, <1>3 DEF Stay
    <2>2. 1 \in 1 .. n /\ timeline[1] \in Checkpoint
      BY <1>1, <1>2, <1>3, LineFacts
    <2>3. /\ Len(timeline') = n
          /\ \A j \in 1 .. n : timeline'[j].undo = IF j = 1 THEN None ELSE timeline[j].undo
      <3>1. DOMAIN timeline' = 1 .. n
        BY <1>2, <2>1
      <3>2. Len(timeline') = n
        <4>1. Len(timeline') \in Nat /\ DOMAIN timeline' = 1 .. Len(timeline')
          BY <1>2, LineFacts
        <4> QED
          BY <1>2, <3>1, <4>1
      <3>3. timeline'[1] = [timeline[1] EXCEPT !.undo = None]
        BY <1>2, <2>1, <2>2
      <3>4. timeline'[1].undo = None
        BY <2>2, <3>3 DEF Checkpoint
      <3> QED
        BY <1>2, <2>1, <3>2, <3>4
    <2>4. HeldBy(timeline') + Held(timeline[1]) = HeldBy(timeline)
      BY <1>1, <1>2, <2>2, <2>3, ClearedPages
    <2>5. Held(timeline[1]) \in Nat
      BY <1>1, <1>2, <2>2, UndoFinite DEF Held
    <2> QED
      BY <1>2, <2>1, <2>4, <2>5, PagesFreed
  <1>4. CASE i # 1
    <2>1. timeline' = timeline /\ pages' = pages /\ spare' = spare
      BY <1>1, <1>4 DEF Stay
    <2>2. HeldBy(timeline) \in Nat
      BY <1>2, PairFacts
    <2>3. Free(0) /\ HeldBy(timeline') + 0 = HeldBy(timeline)
      BY <2>1, <2>2 DEF Free, PagesInv
    <2> QED
      BY <1>2, <2>3, PagesFreed
  <1> QED
    BY <1>3, <1>4

LEMMA WalkPages ==
    ASSUME SavesInv, SavesInv', PagesInv, Walk
    PROVE  PagesInv'
  <1>1. PICK n, k : n = Len(timeline) /\ k = at.k
    OBVIOUS
  <1>2. /\ at.loop = "walking" /\ on' = on
        /\ timeline' = [timeline EXCEPT ![k].undo = None] /\ Free(Held(timeline[k]))
    BY <1>1 DEF Walk
  <1>3. /\ on /\ on' /\ n \in Nat /\ timeline \in Line /\ DOMAIN timeline = 1 .. n
        /\ k \in 1 .. n /\ timeline' \in Line /\ timeline[k] \in Checkpoint
    <2>1. k \in Nat \ {0} /\ k <= n
      BY <1>1, <1>2, TypeFacts, Shapes DEF SavesInv, LoopInv
    <2>2. timeline' \in Line
      BY DEF SavesInv, SavesTypeOK
    <2>3. on
      BY <1>2, TypeFacts DEF Idle
    <2>4. n \in Nat /\ timeline \in Line /\ DOMAIN timeline = 1 .. n
      BY <1>1, TypeFacts, LineFacts
    <2>5. k \in 1 .. n
      BY <2>1, <2>4
    <2> QED
      BY <1>1, <1>2, <2>2, <2>3, <2>4, <2>5, LineFacts
  <1>4. /\ Len(timeline') = n
        /\ \A j \in 1 .. n : timeline'[j].undo = IF j = k THEN None ELSE timeline[j].undo
    <2>1. DOMAIN timeline' = 1 .. n
      BY <1>2, <1>3
    <2>2. Len(timeline') = n
      <3>1. Len(timeline') \in Nat /\ DOMAIN timeline' = 1 .. Len(timeline')
        BY <1>3, LineFacts
      <3> QED
        BY <1>3, <2>1, <3>1
    <2>3. timeline'[k] = [timeline[k] EXCEPT !.undo = None]
      BY <1>2, <1>3
    <2>4. timeline'[k].undo = None
      BY <1>3, <2>3 DEF Checkpoint
    <2> QED
      BY <1>2, <1>3, <2>2, <2>4
  <1>5. HeldBy(timeline') + Held(timeline[k]) = HeldBy(timeline)
    BY <1>1, <1>3, <1>4, ClearedPages
  <1>6. Held(timeline[k]) \in Nat
    BY <1>1, <1>3, UndoFinite DEF Held
  <1> QED
    BY <1>2, <1>3, <1>5, <1>6, PagesFreed

LEMMA RestorePages ==
    ASSUME SavesInv, SavesInv', PagesInv, Restore
    PROVE  PagesInv'
  <1>1. PICK n, t : n = Len(timeline) /\ t = at.target
    OBVIOUS
  <1>2. at.loop = "walking" /\ at.k = t /\ on' = on
    BY <1>1 DEF Restore
  <1>3. /\ n \in Nat /\ timeline \in Line /\ DOMAIN timeline = 1 .. n
        /\ t \in 1 .. n /\ \A j \in 1 .. n : j > t => timeline[j].undo = None
        /\ on /\ on' /\ timeline' \in Line /\ HeldBy(timeline) \in Nat
    <2>1. n \in Nat /\ timeline \in Line /\ DOMAIN timeline = 1 .. n /\ HeldBy(timeline) \in Nat
      BY <1>1, TypeFacts, LineFacts, PairFacts
    <2>2. t \in Nat \ {0} /\ t <= n
      BY <1>1, <1>2, TypeFacts, Shapes DEF SavesInv, LoopInv
    <2>3. t \in 1 .. n
      BY <2>1, <2>2
    <2>4. \A j \in 1 .. n : j > t => timeline[j].undo = None
      BY <1>1, <1>2, <2>1 DEF SavesInv, LoopInv
    <2>5. on
      BY <1>2, TypeFacts DEF Idle
    <2>6. timeline' \in Line
      BY DEF SavesInv, SavesTypeOK
    <2> QED
      BY <1>2, <2>1, <2>3, <2>4, <2>5, <2>6
  <1>4. CASE at.keep
    <2>1. timeline' = SubSeq(timeline, 1, t) /\ Free(0)
      BY <1>1, <1>4 DEF Restore
    <2>2. \A j \in 1 .. t : timeline'[j] = timeline[j] /\ j \in 1 .. n
      BY <1>3, <2>1 DEF Line
    <2>3. Len(timeline') = t
      BY <1>3, <2>1 DEF Line
    <2>4. \A j, c : j \in 1 .. Len(timeline') /\ c \in DOMAIN timeline'[j].undo
                      <=> j \in 1 .. Len(timeline) /\ c \in DOMAIN timeline[j].undo
      <3>1. \A j \in 1 .. n : j \in 1 .. t \/ DOMAIN timeline[j].undo = {}
        <4>1. \A j \in 1 .. n : j \in 1 .. t \/ j > t
          BY <1>3
        <4> QED
          BY <1>3, <4>1 DEF None
      <3> QED
        BY <1>1, <2>2, <2>3, <3>1
    <2>5. HeldBy(timeline') = HeldBy(timeline)
      BY <1>3, <2>4, SamePages
    <2> QED
      BY <1>3, <2>1, <2>5, PagesFreed
  <1>5. CASE ~at.keep
    <2>1. timeline' = <<>> /\ Free(HeldBy(timeline))
      BY <1>5 DEF Restore
    <2>2. HeldBy(timeline') + HeldBy(timeline) = HeldBy(timeline)
      BY <1>3, <2>1, EmptyHeld
    <2> QED
      BY <1>3, <2>1, <2>2, PagesFreed
  <1> QED
    BY <1>4, <1>5

LEMMA StepPages ==
    ASSUME SavesInv, SavesInv', PagesInv, [Next]_vars
    PROVE  PagesInv'
  <1>1. CASE Begin
    BY <1>1, BeginPages
  <1>2. CASE End
    BY <1>2, EndPages
  <1>3. CASE Write
    BY <1>3 DEF Write, PagesInv, Size, HeldBy
  <1>4. CASE DropDead
    BY <1>4, DropPages, StayPages DEF DropDead
  <1>5. CASE Walk
    BY <1>5, WalkPages
  <1>6. CASE Restore
    BY <1>6, RestorePages
  <1>7. ASSUME NEW f \in Frame, Capture(f)
        PROVE  PagesInv'
    BY <1>7, CapturePages
  <1>8. ASSUME NEW f \in Frame, NEW keep \in BOOLEAN, Load(f, keep)
        PROVE  PagesInv'
    BY <1>8 DEF Load, PagesInv, Size, HeldBy
  <1>9. CASE UNCHANGED vars
    BY <1>9 DEF vars, PagesInv, Size, HeldBy
  <1> QED
    BY <1>1, <1>2, <1>3, <1>4, <1>5, <1>6, <1>7, <1>8, <1>9 DEF Next

\* No page is lost or given back twice, and what is held is bounded: a copy of the memory
\* per slot and one more, in whole blocks.
THEOREM PagesKept == Spec => []PagesAccounted
  <1>1. Init => SavesInv
    BY InitSaves
  <1>2. Init => PagesInv
    <2> SUFFICES ASSUME Init
                 PROVE  PagesInv
      OBVIOUS
    <2>1. pages = 0 /\ spare = 0 /\ timeline = <<>> /\ on = FALSE
      BY DEF Init
    <2>2. Size = 0 /\ Cardinality(Chunk) \in Nat /\ Cardinality(Chunk) >= 1
      BY <1>1, <2>1, SizeIs
    <2>3. RoundUp((Slots + 1) * Cardinality(Chunk)) \in Nat
      <3>1. PICK C, most : C = Cardinality(Chunk) /\ most = (Slots + 1) * C
        OBVIOUS
      <3>2. most \in Nat
        BY <2>2, <3>1, MostIs
      <3> QED
        BY <3>1, <3>2, RoundUpFacts
    <2>4. Blocks(0)
      <3>1. 0 = 0 * Block
        OBVIOUS
      <3> QED
        BY <3>1 DEF Blocks
    <2> QED
      BY <2>1, <2>2, <2>3, <2>4, EmptyHeld DEF PagesInv
  <1>3. SavesInv /\ PagesInv /\ [Next]_vars => SavesInv' /\ PagesInv'
    BY StepSaves, StepPages
  <1>4. SavesInv /\ PagesInv => PagesAccounted
    BY LineLength DEF PagesInv, PagesAccounted
  <1> QED
    BY <1>1, <1>2, <1>3, <1>4, PTL DEF Spec

=============================================================================
