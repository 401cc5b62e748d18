----------------------------- MODULE Savestates -----------------------------
(***************************************************************************)
(* The host's savestates (runtime/hle/native_savestate.cpp, class Engine): *)
(* the slots of SlotPool, stored as differences.  The memory of the game   *)
(* is a set of chunks.  A shadow holds every chunk as of the last capture  *)
(* or load; a checkpoint holds, for the chunks written between the one     *)
(* before it and itself, what they were at the one before it.              *)
(*                                                                         *)
(* One thread calls the engine.  The two loops that go over the checkpoints*)
(* are a step per checkpoint; the copying that run() splits between worker *)
(* threads is whole here, and is the subject of WorkerPool.                *)
(*                                                                         *)
(* A definition marked "a mutant" is wrong on purpose: a slip the code     *)
(* could have, which one of the properties must catch.  No action uses it. *)
(***************************************************************************)
EXTENDS Integers, Sequences, FiniteSets

CONSTANTS
    Chunk,    \* the page chunks of the spans
    Watched,  \* those the system reports writes of; the others are compared
    Content,  \* what a chunk can hold
    Frame,    \* the frames captured
    Slots,    \* the slots begin() is given
    Block     \* pages one allocation adds to the pool (256)

ASSUME SavestatesAssumption ==
    /\ IsFiniteSet(Chunk) /\ Chunk # {} /\ Watched \subseteq Chunk
    /\ Content # {} /\ Frame \subseteq Int
    /\ Slots \in Nat \ {0} /\ Block \in Nat \ {0}

VARIABLES
    live,      \* the game's memory
    written,   \* the watched chunks written since the watches were reset
    on,        \* between begin() and end()
    shadow,    \* the chunks as of the last capture or load
    timeline,  \* the checkpoints, oldest first
    at,        \* the loop the engine is in
    pages,     \* pages allocated
    spare      \* those of them in the pool

vars == <<live, written, on, shadow, timeline, at, pages, spare>>

None == [c \in {} |-> c]

\* What undo has, and what memory has otherwise.
Over(undo, memory) == [c \in DOMAIN undo \cup DOMAIN memory |->
                          IF c \in DOMAIN undo THEN undo[c] ELSE memory[c]]

Idle == [loop |-> "none"]

Size == Cardinality(DOMAIN shadow)
Held(cp) == Cardinality(DOMAIN cp.undo)

RoundUp(n) == ((n + Block - 1) \div Block) * Block

\* alloc_page(), n times: the pool grows by a block whenever it is empty.
Alloc(n, freed) ==
    LET grown == IF n > spare THEN RoundUp(n - spare) ELSE 0
    IN  pages' = pages + grown /\ spare' = spare + grown - n + freed

Free(n) == spare' = spare + n /\ UNCHANGED pages

-----------------------------------------------------------------------------
(* begin(), end(), and the game *)

\* The shadow takes its pages from blocks allocated for it.
Begin ==
    /\ at = Idle
    /\ on' = TRUE /\ shadow' = live /\ timeline' = <<>> /\ written' = {}
    /\ pages' = RoundUp(Cardinality(Chunk))
    /\ spare' = RoundUp(Cardinality(Chunk)) - Cardinality(Chunk)
    /\ UNCHANGED <<live, at>>

End ==
    /\ at = Idle /\ on
    /\ on' = FALSE /\ shadow' = None /\ timeline' = <<>> /\ pages' = 0 /\ spare' = 0
    /\ UNCHANGED <<live, written, at>>

\* The game writes a chunk; what it writes may be what was there.
Write ==
    /\ at = Idle
    /\ \E c \in Chunk, v \in Content :
          /\ live' = [live EXCEPT ![c] = v]
          /\ written' = written \cup ({c} \cap Watched)
    /\ UNCHANGED <<on, shadow, timeline, at, pages, spare>>

\* collect_dirty(), which resets the watches too
Dirty == written \cup {c \in Chunk \ Watched : live[c] # shadow[c]}

-----------------------------------------------------------------------------
(* capture() *)

Alive == {i \in DOMAIN timeline : timeline[i].alive}

\* The checkpoint of frame f; without one and with no slot free, that of the lowest frame.
GivenUp(f) ==
    LET same == {i \in Alive : timeline[i].frame = f}
    IN  IF same # {} THEN same
        ELSE IF Cardinality(Alive) < Slots THEN {}
        ELSE {i \in Alive : \A j \in Alive : timeline[i].frame <= timeline[j].frame}

Marked(f) == [i \in DOMAIN timeline |->
                 IF i \in GivenUp(f) THEN [timeline[i] EXCEPT !.alive = FALSE] ELSE timeline[i]]

\* The first checkpoint keeps no differences, and gives each old page back at once.
Capture(f) ==
    LET first == timeline = <<>>
        n     == Cardinality(Dirty)
    IN  /\ at = Idle /\ on
        /\ timeline' = Append(Marked(f), [frame |-> f, alive |-> TRUE,
               undo |-> IF first THEN None ELSE [c \in Dirty |-> shadow[c]]])
        /\ shadow' = [c \in Chunk |-> IF c \in Dirty THEN live[c] ELSE shadow[c]]
        /\ IF first THEN Alloc(IF n = 0 THEN 0 ELSE 1, IF n = 0 THEN 0 ELSE 1) ELSE Alloc(n, 0)
        /\ written' = {}
        /\ at' = [loop |-> "dropping", i |-> 1]
        /\ UNCHANGED <<live, on>>

\* What a dropped checkpoint's differences become in its successor: the older content wins.
NewerWins(older, newer) == Over(newer, older)                 \* a mutant
Merged(older, newer) == Over(older, newer)

\* A page of the successor whose chunk the dropped one holds too is given back.
KeepsBoth(older, newer) == 0                                  \* a mutant
Duplicates(older, newer) == Cardinality(DOMAIN older \cap DOMAIN newer)

\* drop_dead() at one checkpoint: it goes, or it stays, and the oldest that stays needs no
\* differences.
Drop ==
    LET i  == at.i
        cp == timeline[i]
    IN  /\ ~cp.alive /\ i < Len(timeline)
        /\ timeline' = [j \in 1 .. Len(timeline) - 1 |->
               IF j < i THEN timeline[j]
               ELSE IF j = i THEN [timeline[i + 1] EXCEPT !.undo = Merged(cp.undo, @)]
               ELSE timeline[j + 1]]
        /\ Free(Duplicates(cp.undo, timeline[i + 1].undo))
        /\ UNCHANGED at

Stay ==
    LET i  == at.i
        cp == timeline[i]
    IN  /\ cp.alive \/ i = Len(timeline)
        /\ IF i = 1 THEN timeline' = [timeline EXCEPT ![1].undo = None] /\ Free(Held(cp))
           ELSE UNCHANGED <<timeline, pages, spare>>
        /\ at' = IF i < Len(timeline) THEN [at EXCEPT !.i = i + 1] ELSE Idle

DropDead == /\ at.loop = "dropping"
            /\ Drop \/ Stay
            /\ UNCHANGED <<live, written, on, shadow>>

-----------------------------------------------------------------------------
(* load() and load_keep(), which is load() with keep *)

\* What the restore copies to the game, to begin with.
Touched == Dirty

\* A frame that is not kept changes nothing: no step of the model.
Load(f, keep) ==
    /\ at = Idle
    /\ \E i \in Alive :
          /\ timeline[i].frame = f
          /\ at' = [loop |-> "walking", k |-> Len(timeline), target |-> i, keep |-> keep,
                    dirty |-> Touched]
    /\ written' = {}
    /\ UNCHANGED <<live, on, shadow, timeline, pages, spare>>

\* The newest checkpoint left is undone.
Walk ==
    LET undo == timeline[at.k].undo
    IN  /\ at.loop = "walking" /\ at.k > at.target
        /\ shadow' = Over(undo, shadow)
        /\ Free(Held(timeline[at.k]))
        /\ timeline' = [timeline EXCEPT ![at.k].undo = None]
        /\ at' = [at EXCEPT !.k = @ - 1, !.dirty = @ \cup DOMAIN undo]
        /\ UNCHANGED <<live, written, on>>

\* The pages of all the differences.
HeldBy(line) ==
    Cardinality({d \in (DOMAIN line) \X Chunk : d[2] \in DOMAIN line[d[1]].undo})

Restore ==
    /\ at.loop = "walking" /\ at.k = at.target
    /\ live' = [c \in Chunk |-> IF c \in at.dirty THEN shadow[c] ELSE live[c]]
    /\ IF at.keep THEN timeline' = SubSeq(timeline, 1, at.target) /\ Free(0)
       ELSE timeline' = <<>> /\ Free(HeldBy(timeline))
    /\ written' = {}
    /\ at' = Idle
    /\ UNCHANGED <<on, shadow>>

-----------------------------------------------------------------------------

Init == /\ live \in [Chunk -> Content]
        /\ written = {} /\ on = FALSE /\ shadow = None /\ timeline = <<>> /\ at = Idle
        /\ pages = 0 /\ spare = 0

Next == \/ Begin \/ End \/ Write \/ DropDead \/ Walk \/ Restore
        \/ \E f \in Frame : Capture(f) \/ \E keep \in BOOLEAN : Load(f, keep)

Spec == Init /\ [][Next]_vars

-----------------------------------------------------------------------------
(* Properties *)

\* No page is lost or given back twice, and what is held is bounded: a copy of the
\* memory per slot and one more, in whole blocks (native_savestate.h, lines 46-53).
PagesAccounted ==
    /\ pages = spare + Size + HeldBy(timeline)
    /\ spare >= 0
    /\ pages <= RoundUp((Slots + 1) * Cardinality(Chunk))
    /\ Len(timeline) <= Slots + 1

\* The memory as it was at checkpoint i: for a chunk, what the next checkpoint that
\* has it holds.
StateAt(i) ==
    [c \in Chunk |->
        LET later == {k \in i + 1 .. Len(timeline) : c \in DOMAIN timeline[k].undo}
        IN  IF later = {} THEN shadow[c]
            ELSE timeline[CHOOSE k \in later : \A l \in later : k <= l].undo[c]]

\* The checkpoints up to n that are alive, their frames, and which was captured before which.
AliveTo(n)  == {i \in Alive : i <= n}
FramesTo(n) == {timeline[i].frame : i \in AliveTo(n)}
IndexOf(f)  == CHOOSE i \in Alive : timeline[i].frame = f
OlderTo(n)  == {fg \in FramesTo(n) \X FramesTo(n) : IndexOf(fg[1]) < IndexOf(fg[2])}

\* A call of the engine happens, to the game, when it is made: of a load under way, only
\* what it leaves is kept.
LastKept == IF at.loop # "walking" THEN Len(timeline) ELSE IF at.keep THEN at.target ELSE 0

PoolLive  == IF at.loop = "walking" THEN StateAt(at.target) ELSE live
PoolKept  == [f \in FramesTo(LastKept) |-> StateAt(IndexOf(f))]
PoolOlder == OlderTo(LastKept)

Pool == INSTANCE SlotPool WITH live <- PoolLive, kept <- PoolKept, older <- PoolOlder

\* The differences are "exactly equivalent to a full copy per slot": whatever is
\* written, captured, dropped and loaded, a load brings back the whole memory of the
\* capture, and a frame is kept just when SlotPool keeps it (native_savestate.h, line 46).
ImplementsSlotPool == Pool!Spec

=============================================================================
