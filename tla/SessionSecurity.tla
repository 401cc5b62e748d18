--------------------------- MODULE SessionSecurity ---------------------------
(***************************************************************************)
(* SessionSecurity after the handshake: seal() numbers the packets of one  *)
(* side, open() decides on the other side which of them are taken.  The    *)
(* two directions have keys and numbers of their own, so one is modelled.  *)
(* PeerPaths models what comes before.                                     *)
(*                                                                         *)
(* One counter numbers both channels.  Control packets arrive in order,    *)
(* and again when they were sent over several paths; input packets arrive  *)
(* in any order, any number of times or never, for the window is all that  *)
(* deals with repeats.  A packet that was damaged carries any number.      *)
(*                                                                         *)
(* A definition marked "a mutant" is wrong on purpose: a slip the code     *)
(* could have, which one of the properties must catch.  No action uses it. *)
(***************************************************************************)
EXTENDS Integers, Sequences

CONSTANTS
    Window,     \* kReplayWindow, 64 in the code: the bits of the mask
    MaxSeq      \* the packets sealed in a run (2^64 in the code)

ASSUME SecurityAssumption == Window \in Nat \ {0} /\ MaxSeq \in Nat

Channel == {"control", "input"}

VARIABLES
    next,       \* send_seq_
    sent,       \* the numbers sealed on each channel
    recv,       \* the receiver: controlSeen, controlLast, inputSeen, inputTop, inputMask
    handed,     \* what open() has handed on, on each channel
    refused     \* the sealed packets it has refused

vars == <<next, sent, recv, handed, refused>>

Handed(c)  == {handed[c][i] : i \in 1 .. Len(handed[c])}
Arrived(c) == Handed(c) \cup refused[c]

-----------------------------------------------------------------------------
(* The replay decision, made before a packet is verified *)

LastAgain(r, s) == r.controlSeen /\ s < r.controlLast          \* a mutant
ControlReplay(r, s) == r.controlSeen /\ s <= r.controlLast

BeyondByOne(r, s) ==                                           \* a mutant
    /\ r.inputSeen /\ s <= r.inputTop
    /\ r.inputTop - s > Window \/ r.inputTop - s \in r.inputMask
InputReplay(r, s) ==
    /\ r.inputSeen /\ s <= r.inputTop
    /\ r.inputTop - s >= Window \/ r.inputTop - s \in r.inputMask

Replay(r, c, s) == IF c = "control" THEN ControlReplay(r, s) ELSE InputReplay(r, s)

-----------------------------------------------------------------------------
(* What is recorded of a packet that verified *)

\* The mask, a word of Window bits, moved up.
NotCut(mask, ahead) == {0} \cup {n + ahead : n \in mask}       \* a mutant
Shifted(mask, ahead) ==
    {0} \cup {n \in 0 .. Window - 1 : ahead < Window /\ n - ahead \in mask}

RecordInput(r, s) ==
    IF ~r.inputSeen THEN [r EXCEPT !.inputSeen = TRUE, !.inputTop = s, !.inputMask = {0}]
    ELSE IF s > r.inputTop
    THEN [r EXCEPT !.inputTop = s, !.inputMask = Shifted(@, s - r.inputTop)]
    ELSE [r EXCEPT !.inputMask = @ \cup {r.inputTop - s}]

Record(r, c, s) ==
    IF c = "control" THEN [r EXCEPT !.controlSeen = TRUE, !.controlLast = s]
    ELSE RecordInput(r, s)

\* A damaged packet moves nothing.
AfterAnyway(c, s, genuine) == Record(recv, c, s)               \* a mutant
AfterOpen(c, s, genuine)   == IF genuine THEN Record(recv, c, s) ELSE recv

-----------------------------------------------------------------------------
(* The operations *)

Seal(c) ==
    /\ next < MaxSeq
    /\ next' = next + 1
    /\ sent' = [sent EXCEPT ![c] = @ \cup {next}]
    /\ UNCHANGED <<recv, handed, refused>>

\* Control is reliable and ordered: nothing sealed before is still to come.
MayArrive(c, s) ==
    /\ s \in sent[c]
    /\ c = "control" => \A t \in sent[c] : t < s => t \in Arrived(c)

Refuse(c, s) ==
    /\ MayArrive(c, s) /\ Replay(recv, c, s)
    /\ refused' = [refused EXCEPT ![c] = @ \cup {s}]
    /\ UNCHANGED <<next, sent, recv, handed>>

Take(c, s) ==
    /\ MayArrive(c, s) /\ ~Replay(recv, c, s)
    /\ recv' = AfterOpen(c, s, TRUE)
    /\ handed' = [handed EXCEPT ![c] = Append(@, s)]
    /\ UNCHANGED <<next, sent, refused>>

\* A packet whose tag does not verify, whatever number it carries.
OpenDamaged(c, s) ==
    /\ recv' = IF Replay(recv, c, s) THEN recv ELSE AfterOpen(c, s, FALSE)
    /\ UNCHANGED <<next, sent, handed, refused>>

\* begin() clears it all.
Init ==
    /\ next = 0
    /\ sent = [c \in Channel |-> {}]
    /\ recv = [controlSeen |-> FALSE, controlLast |-> 0,
               inputSeen |-> FALSE, inputTop |-> 0, inputMask |-> {}]
    /\ handed = [c \in Channel |-> <<>>]
    /\ refused = [c \in Channel |-> {}]

Next ==
    \E c \in Channel :
        \/ Seal(c)
        \/ \E s \in 0 .. MaxSeq : Refuse(c, s) \/ Take(c, s) \/ OpenDamaged(c, s)

Spec == Init /\ [][Next]_vars

-----------------------------------------------------------------------------
(* Properties *)

\* The only property that is about types.
TypeOK ==
    /\ next \in 0 .. MaxSeq
    /\ sent \in [Channel -> SUBSET (0 .. MaxSeq)]
    /\ recv \in [controlSeen : BOOLEAN, controlLast : Nat,
                 inputSeen : BOOLEAN, inputTop : Nat, inputMask : SUBSET (0 .. Window - 1)]
    /\ handed \in [Channel -> Seq(Nat)]
    /\ refused \in [Channel -> SUBSET (0 .. MaxSeq)]

\* No packet is handed on twice, however often and late it arrives: a mask bit that
\* is lost when the window moves, or a window one too wide, lets one through.
OnceOnly ==
    \A c \in Channel : \A i, j \in 1 .. Len(handed[c]) :
        handed[c][i] = handed[c][j] => i = j

\* A packet is refused for nothing but having been handed on, or being further
\* behind than the window: none that is only late is lost, whatever damaged
\* packets came in between (the state moves only after the tag verified).
NoneLost ==
    \A s \in refused["input"] :
        s \in Handed("input") \/ (recv.inputSeen /\ recv.inputTop - s >= Window)

\* The control channel hands on all that arrives, once and in the order sealed,
\* although its numbers have gaps where input packets were sealed between.
ControlInOrder ==
    /\ \A i, j \in 1 .. Len(handed["control"]) :
          i < j => handed["control"][i] < handed["control"][j]
    /\ refused["control"] \subseteq Handed("control")

=============================================================================
