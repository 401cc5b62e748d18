------------------------------ MODULE SlotPool ------------------------------
(***************************************************************************)
(* What the host's savestates promise the game, with no storage in it: a   *)
(* pool of slots, each a full copy of the game's memory kept under a frame *)
(* number (native_savestate.h).  A capture takes a free slot, the slot of  *)
(* its own frame, or the one of the lowest frame; a load brings one copy   *)
(* back and frees every slot, or only those captured after it.             *)
(***************************************************************************)
EXTENDS Integers, FiniteSets

CONSTANTS Chunk, Content, Frame, Slots

VARIABLES
    live,   \* the game's memory
    kept,   \* the copies kept, by frame
    older,  \* the pairs of frames kept of which the first was captured before the second
    on      \* between begin() and end()

Memory == [Chunk -> Content]

Frames == DOMAIN kept

\* Only the copies of these frames are left.
Keep(frames) ==
    /\ kept' = [f \in frames |-> kept[f]]
    /\ older' = older \cap (frames \X frames)

\* The frames whose copies a capture of frame f leaves.
Spared(f) == IF f \in Frames THEN Frames \ {f}
             ELSE IF Cardinality(Frames) >= Slots THEN {g \in Frames : \E h \in Frames : h < g}
             ELSE Frames

Init == live \in Memory /\ kept = [f \in {} |-> live] /\ older = {} /\ on = FALSE

Begin == on' = TRUE /\ Keep({}) /\ UNCHANGED live

End == on' = FALSE /\ Keep({}) /\ UNCHANGED live

Write == live' \in Memory /\ UNCHANGED <<kept, older, on>>

Capture(f) ==
    /\ on
    /\ kept' = [g \in Spared(f) \cup {f} |-> IF g = f THEN live ELSE kept[g]]
    /\ older' = (older \cap (Spared(f) \X Spared(f))) \cup (Spared(f) \X {f})
    /\ UNCHANGED <<live, on>>

Load(f, keep) ==
    /\ f \in Frames
    /\ live' = kept[f]
    /\ Keep(IF keep THEN {g \in Frames : g = f \/ <<g, f>> \in older} ELSE {})
    /\ UNCHANGED on

Next == \/ Begin \/ End \/ Write
        \/ \E f \in Frame : Capture(f) \/ \E keep \in BOOLEAN : Load(f, keep)

Spec == Init /\ [][Next]_<<live, kept, older, on>>

=============================================================================
