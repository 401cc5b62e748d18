------------------------ MODULE SessionSecurityProofs ------------------------
(***************************************************************************)
(* Proofs about SessionSecurity, for every window and every number of      *)
(* packets.  The invariant says what the receiver's state stands for: the  *)
(* mask holds exactly the packets handed on that are still in the window,  *)
(* and the last control number stands for all of control up to it.         *)
(***************************************************************************)
EXTENDS SessionSecurity, TLAPS

-----------------------------------------------------------------------------
(* The inductive invariant *)

\* The mask and the top stand for what was handed on.
MaskExact ==
    /\ ~recv.inputSeen => Handed("input") = {} /\ refused["input"] = {}
    /\ recv.inputSeen =>
          /\ recv.inputTop \in Handed("input")
          /\ \A s \in Handed("input") : s <= recv.inputTop
          /\ \A n \in 0 .. Window - 1 :
                n \in recv.inputMask <=> recv.inputTop - n \in Handed("input")

\* Control up to the last number is handed on, without a hole.
ControlWhole ==
    /\ \A c \in Channel : \A s \in sent[c] : s < next
    /\ Handed("control") \subseteq sent["control"]
    /\ ~recv.controlSeen => Handed("control") = {}
    /\ recv.controlSeen =>
          /\ recv.controlLast \in Handed("control")
          /\ \A s \in Handed("control") : s <= recv.controlLast
          /\ \A s \in sent["control"] : s <= recv.controlLast => s \in Handed("control")

SecurityInv == TypeOK /\ MaskExact /\ ControlWhole /\ OnceOnly /\ NoneLost /\ ControlInOrder

-----------------------------------------------------------------------------
(* Lemmas *)

\* Appending adds one element to what a sequence holds and moves no other.
LEMMA AppendHolds ==
    ASSUME NEW q \in Seq(Nat), NEW s \in Nat
    PROVE  /\ Append(q, s) \in Seq(Nat)
           /\ Len(Append(q, s)) = Len(q) + 1
           /\ Len(q) \in Nat
           /\ \A i \in 1 .. Len(q) : Append(q, s)[i] = q[i] /\ q[i] \in Nat
           /\ Append(q, s)[Len(q) + 1] = s
           /\ {Append(q, s)[i] : i \in 1 .. Len(Append(q, s))} = {q[i] : i \in 1 .. Len(q)} \cup {s}
<1>1. /\ Append(q, s) \in Seq(Nat)
      /\ Len(Append(q, s)) = Len(q) + 1
      /\ Len(q) \in Nat
      /\ \A i \in 1 .. Len(q) : Append(q, s)[i] = q[i] /\ q[i] \in Nat
      /\ Append(q, s)[Len(q) + 1] = s
  OBVIOUS
<1>2. 1 .. Len(Append(q, s)) = (1 .. Len(q)) \cup {Len(q) + 1}
  BY <1>1
<1>3. {Append(q, s)[i] : i \in 1 .. Len(Append(q, s))} = {q[i] : i \in 1 .. Len(q)} \cup {s}
  BY <1>1, <1>2
<1> QED
  BY <1>1, <1>3

\* What is held on a channel is numbers.
LEMMA HandedTyped ==
    ASSUME TypeOK
    PROVE  /\ \A c \in Channel : Handed(c) \subseteq Nat /\ handed[c] \in Seq(Nat)
           /\ "control" \in Channel /\ "input" \in Channel
           /\ recv.inputTop \in Nat /\ recv.controlLast \in Nat
           /\ recv.inputMask \subseteq 0 .. Window - 1
  BY DEF TypeOK, Handed, Channel

\* Taking a packet hands on that one and no other.
LEMMA TakeHolds ==
    ASSUME TypeOK, NEW c \in Channel, NEW s \in Nat,
           handed' = [handed EXCEPT ![c] = Append(@, s)]
    PROVE  /\ Handed(c)' = Handed(c) \cup {s}
           /\ \A d \in Channel \ {c} : Handed(d)' = Handed(d) /\ handed'[d] = handed[d]
           /\ handed' \in [Channel -> Seq(Nat)]
           /\ handed'[c] = Append(handed[c], s)
<1>1. handed[c] \in Seq(Nat)
  BY DEF TypeOK
<1>2. handed'[c] = Append(handed[c], s) /\ \A d \in Channel \ {c} : handed'[d] = handed[d]
  BY DEF TypeOK
<1>3. Handed(c)' = Handed(c) \cup {s}
  BY <1>1, <1>2, AppendHolds DEF Handed
<1>4. handed' \in [Channel -> Seq(Nat)]
  BY <1>1, AppendHolds DEF TypeOK
<1> QED
  BY <1>2, <1>3, <1>4 DEF Handed

-----------------------------------------------------------------------------
(* The steps *)

LEMMA SealKeeps == ASSUME SecurityInv, NEW c \in Channel, Seal(c) PROVE SecurityInv'
<1> USE SecurityAssumption
<1>1. handed' = handed /\ refused' = refused /\ recv' = recv
  BY DEF Seal
<1>2. \A d \in Channel : Handed(d)' = Handed(d)
  BY <1>1 DEF Handed
<1>3. TypeOK'
  <2>1. next \in 0 .. MaxSeq /\ next + 1 \in 0 .. MaxSeq
    BY DEF SecurityInv, TypeOK, Seal
  <2> QED BY <1>1, <2>1 DEF SecurityInv, TypeOK, Seal
<1>4. MaskExact'
  BY <1>1, <1>2 DEF SecurityInv, MaskExact, Channel
<1>5. ControlWhole'
  <2>1. \A d \in Channel : \A s \in sent'[d] : s \in sent[d] \/ s = next
    BY DEF SecurityInv, TypeOK, Seal
  <2>2. \A d \in Channel : sent[d] \subseteq sent'[d] /\ sent'[d] \subseteq Nat
    BY DEF SecurityInv, TypeOK, Seal
  <2>3. next \in Nat /\ next' = next + 1
    BY DEF SecurityInv, TypeOK, Seal
  <2>4. \A d \in Channel : \A s \in sent'[d] : s < next'
    BY <2>1, <2>2, <2>3 DEF SecurityInv, ControlWhole
  <2>5. recv.controlSeen => recv.controlLast < next
    BY DEF SecurityInv, ControlWhole, Channel
  <2>6. recv.controlLast \in Nat
    BY DEF SecurityInv, TypeOK
  <2>7. ASSUME recv.controlSeen, NEW s \in sent'["control"], s <= recv.controlLast
        PROVE  s \in Handed("control")
    <3>1. s # next
      BY <2>2, <2>3, <2>5, <2>6, <2>7 DEF Channel
    <3> QED BY <2>1, <2>7, <3>1 DEF SecurityInv, ControlWhole, Channel
  <2> QED BY <1>1, <1>2, <2>2, <2>4, <2>7 DEF SecurityInv, ControlWhole, Channel
<1>6. OnceOnly' /\ ControlInOrder'
  BY <1>1, <1>2 DEF SecurityInv, OnceOnly, ControlInOrder, Channel
<1>7. NoneLost'
  BY <1>1, <1>2 DEF SecurityInv, NoneLost, Channel
<1> QED BY <1>3, <1>4, <1>5, <1>6, <1>7 DEF SecurityInv

LEMMA RefuseKeeps == ASSUME SecurityInv, NEW c \in Channel, NEW s \in 0 .. MaxSeq, Refuse(c, s)
                     PROVE  SecurityInv'
<1> USE SecurityAssumption
<1>1. handed' = handed /\ recv' = recv /\ sent' = sent /\ next' = next
  BY DEF Refuse
<1>2. \A d \in Channel : Handed(d)' = Handed(d)
  BY <1>1 DEF Handed
<1>3. TypeOK'
  BY <1>1 DEF SecurityInv, TypeOK, Refuse
<1>4. refused'[c] = refused[c] \cup {s} /\ \A d \in Channel \ {c} : refused'[d] = refused[d]
  BY DEF SecurityInv, TypeOK, Refuse
<1>5. s \in Nat /\ s \in sent[c] /\ Replay(recv, c, s)
  BY DEF Refuse, MayArrive
<1>6. MaskExact'
  <2>1. c = "input" => recv.inputSeen
    BY <1>5 DEF Replay, InputReplay
  <2> QED BY <1>1, <1>2, <1>4, <2>1 DEF SecurityInv, MaskExact, Channel
<1>7. ControlWhole' /\ OnceOnly'
  BY <1>1, <1>2 DEF SecurityInv, ControlWhole, OnceOnly, Channel
<1>8. NoneLost'
  <2>1. ASSUME c = "input"
        PROVE  s \in Handed("input") \/ (recv.inputSeen /\ recv.inputTop - s >= Window)
    <3>1. recv.inputSeen /\ s <= recv.inputTop
          /\ (recv.inputTop - s >= Window \/ recv.inputTop - s \in recv.inputMask)
      BY <1>5, <2>1 DEF Replay, InputReplay
    <3>2. CASE recv.inputTop - s \in recv.inputMask
      <4>1. recv.inputTop - s \in 0 .. Window - 1
        BY <3>2, HandedTyped DEF SecurityInv
      <4>2. recv.inputTop - (recv.inputTop - s) \in Handed("input")
        BY <3>1, <3>2, <4>1 DEF SecurityInv, MaskExact
      <4>3. recv.inputTop - (recv.inputTop - s) = s
        BY <1>5, HandedTyped DEF SecurityInv
      <4> QED BY <4>2, <4>3
    <3> QED BY <3>1, <3>2
  <2> QED BY <1>1, <1>2, <1>4, <2>1 DEF SecurityInv, NoneLost, Channel
<1>9. ControlInOrder'
  <2>1. c = "control" => s \in Handed("control")
    BY <1>5 DEF Replay, ControlReplay, SecurityInv, ControlWhole
  <2> QED BY <1>1, <1>2, <1>4, <2>1 DEF SecurityInv, ControlInOrder, Channel
<1> QED BY <1>3, <1>6, <1>7, <1>8, <1>9 DEF SecurityInv

LEMMA UnchangedKeeps == ASSUME SecurityInv, UNCHANGED vars PROVE SecurityInv'
<1>1. /\ next' = next /\ sent' = sent /\ recv' = recv
      /\ handed' = handed /\ refused' = refused
  BY DEF vars
<1>2. \A d \in Channel : Handed(d)' = Handed(d)
  BY <1>1 DEF Handed
<1>3. TypeOK' /\ OnceOnly'
  BY <1>1 DEF SecurityInv, TypeOK, OnceOnly
<1>4. MaskExact' /\ ControlWhole' /\ NoneLost' /\ ControlInOrder'
  BY <1>1, <1>2 DEF SecurityInv, MaskExact, ControlWhole, NoneLost, ControlInOrder, Channel
<1> QED BY <1>3, <1>4 DEF SecurityInv

LEMMA DamagedKeeps == ASSUME SecurityInv, NEW c \in Channel, NEW s \in 0 .. MaxSeq, OpenDamaged(c, s)
                      PROVE  SecurityInv'
<1>1. UNCHANGED vars
  BY DEF OpenDamaged, AfterOpen, vars
<1> QED BY <1>1, UnchangedKeeps

\* A packet appended to a channel that does not hold it keeps the others distinct.
LEMMA AppendOnce ==
    ASSUME NEW q \in Seq(Nat), NEW s \in Nat, s \notin {q[i] : i \in 1 .. Len(q)},
           \A i, j \in 1 .. Len(q) : q[i] = q[j] => i = j
    PROVE  \A i, j \in 1 .. Len(Append(q, s)) : Append(q, s)[i] = Append(q, s)[j] => i = j
<1>1. \A i \in 1 .. Len(Append(q, s)) :
          \/ i \in 1 .. Len(q) /\ Append(q, s)[i] = q[i] /\ q[i] # s
          \/ i = Len(q) + 1 /\ Append(q, s)[i] = s
  BY AppendHolds
<1> QED BY <1>1

LEMMA TakeControlKeeps ==
    ASSUME SecurityInv, NEW s \in 0 .. MaxSeq, Take("control", s) PROVE SecurityInv'
<1> USE SecurityAssumption
<1>1. /\ next' = next /\ sent' = sent /\ refused' = refused
      /\ recv' = [recv EXCEPT !.controlSeen = TRUE, !.controlLast = s]
      /\ handed' = [handed EXCEPT !["control"] = Append(@, s)]
      /\ s \in sent["control"] /\ ~ControlReplay(recv, s)
      /\ \A t \in sent["control"] : t < s => t \in Arrived("control")
  BY DEF Take, AfterOpen, Record, Replay, MayArrive
<1>2. /\ Handed("control")' = Handed("control") \cup {s}
      /\ Handed("input")' = Handed("input") /\ handed'["input"] = handed["input"]
      /\ handed' \in [Channel -> Seq(Nat)]
      /\ handed'["control"] = Append(handed["control"], s)
  <2>1. TypeOK /\ s \in Nat /\ "control" \in Channel /\ "input" \in Channel \ {"control"}
    BY DEF SecurityInv, Channel
  <2> QED BY <1>1, <2>1, TakeHolds
<1>3. /\ recv'.controlSeen = TRUE /\ recv'.controlLast = s
      /\ recv'.inputSeen = recv.inputSeen /\ recv'.inputTop = recv.inputTop
      /\ recv'.inputMask = recv.inputMask
      /\ s \in Nat
  BY <1>1 DEF SecurityInv, TypeOK
<1>4. TypeOK'
  BY <1>1, <1>2, <1>3 DEF SecurityInv, TypeOK
<1>5. MaskExact' /\ NoneLost'
  BY <1>1, <1>2, <1>3 DEF SecurityInv, MaskExact, NoneLost
<1>6. \A t \in Handed("control") : t < s
  <2>1. recv.controlSeen => recv.controlLast < s
    BY <1>1, <1>3, HandedTyped DEF ControlReplay, SecurityInv
  <2> QED BY <1>3, <2>1, HandedTyped DEF SecurityInv, ControlWhole
<1>7. refused["control"] \subseteq Handed("control")
  BY DEF SecurityInv, ControlInOrder
<1>8. ControlWhole'
  <2>1. \A t \in sent["control"] : t <= s => t \in Handed("control") \cup {s}
    <3>1. ASSUME NEW t \in sent["control"], t <= s PROVE t \in Handed("control") \cup {s}
      <4>1. t \in Nat
        BY DEF SecurityInv, TypeOK, Channel
      <4>2. CASE t < s
        BY <1>1, <1>7, <4>2 DEF Arrived
      <4> QED BY <1>3, <3>1, <4>1, <4>2
    <3> QED BY <3>1
  <2>2. Handed("control")' \subseteq sent'["control"]
    BY <1>1, <1>2 DEF SecurityInv, ControlWhole
  <2>3. \A t \in Handed("control")' : t <= s
    BY <1>2, <1>3, <1>6, HandedTyped DEF SecurityInv
  <2> QED BY <1>1, <1>2, <1>3, <2>1, <2>2, <2>3 DEF SecurityInv, ControlWhole
<1>9. OnceOnly'
  <2>1. handed["control"] \in Seq(Nat) /\ s \notin Handed("control")
    BY <1>3, <1>6, HandedTyped DEF SecurityInv
  <2>2. \A i, j \in 1 .. Len(handed["control"]) : handed["control"][i] = handed["control"][j] => i = j
    BY DEF SecurityInv, OnceOnly, Channel
  <2>3. \A i, j \in 1 .. Len(handed'["control"]) : handed'["control"][i] = handed'["control"][j] => i = j
    BY <1>2, <1>3, <2>1, <2>2, AppendOnce DEF Handed
  <2> QED BY <1>2, <2>3 DEF SecurityInv, OnceOnly, Channel
<1>10. ControlInOrder'
  <2>1. handed["control"] \in Seq(Nat)
    BY HandedTyped DEF SecurityInv
  <2>2. \A i \in 1 .. Len(handed'["control"]) :
            \/ i \in 1 .. Len(handed["control"]) /\ handed'["control"][i] = handed["control"][i]
               /\ handed["control"][i] < s
            \/ i = Len(handed["control"]) + 1 /\ handed'["control"][i] = s
    BY <1>2, <1>3, <1>6, <2>1, AppendHolds DEF Handed
  <2>3. \A i, j \in 1 .. Len(handed'["control"]) :
            i < j => handed'["control"][i] < handed'["control"][j]
    <3>1. \A i, j \in 1 .. Len(handed["control"]) :
              i < j => handed["control"][i] < handed["control"][j]
      BY DEF SecurityInv, ControlInOrder
    <3>2. Len(handed["control"]) \in Nat
      BY <2>1
    <3> QED BY <2>2, <3>1, <3>2
  <2> QED BY <1>1, <1>2, <1>7, <2>3 DEF ControlInOrder
<1> QED BY <1>4, <1>5, <1>8, <1>9, <1>10 DEF SecurityInv

\* What the mask says after a packet was recorded: bit n stands for the packet n
\* behind the top, whichever way the top moved.
LEMMA MaskAfter ==
    ASSUME TypeOK, MaskExact, NEW s \in Nat, ~InputReplay(recv, s),
           NEW r, r = RecordInput(recv, s)
    PROVE  /\ r.inputSeen = TRUE
           /\ r.inputTop \in Nat
           /\ r.inputMask \subseteq 0 .. Window - 1
           /\ r.inputTop \in Handed("input") \cup {s}
           /\ \A t \in Handed("input") \cup {s} : t <= r.inputTop
           /\ recv.inputSeen => recv.inputTop <= r.inputTop
           /\ \A n \in 0 .. Window - 1 :
                 n \in r.inputMask <=> r.inputTop - n \in Handed("input") \cup {s}
           /\ r.controlSeen = recv.controlSeen /\ r.controlLast = recv.controlLast
           /\ r \in [controlSeen : BOOLEAN, controlLast : Nat,
                     inputSeen : BOOLEAN, inputTop : Nat, inputMask : SUBSET (0 .. Window - 1)]
<1> USE SecurityAssumption
<1>0. /\ Handed("input") \subseteq Nat
      /\ recv \in [controlSeen : BOOLEAN, controlLast : Nat,
                   inputSeen : BOOLEAN, inputTop : Nat, inputMask : SUBSET (0 .. Window - 1)]
  BY HandedTyped DEF TypeOK
<1>1. CASE ~recv.inputSeen
  <2>1. r = [recv EXCEPT !.inputSeen = TRUE, !.inputTop = s, !.inputMask = {0}]
    BY <1>1 DEF RecordInput
  <2>2. Handed("input") = {}
    BY <1>1 DEF MaskExact
  <2>3. r.inputSeen = TRUE /\ r.inputTop = s /\ r.inputMask = {0}
        /\ r.controlSeen = recv.controlSeen /\ r.controlLast = recv.controlLast
    BY <1>0, <2>1
  <2>4. \A n \in 0 .. Window - 1 : n = 0 <=> s - n = s
    OBVIOUS
  <2>5. {0} \subseteq 0 .. Window - 1
    OBVIOUS
  <2>6. r \in [controlSeen : BOOLEAN, controlLast : Nat,
               inputSeen : BOOLEAN, inputTop : Nat, inputMask : SUBSET (0 .. Window - 1)]
    BY <1>0, <2>1, <2>5
  <2> QED BY <1>1, <2>2, <2>3, <2>4, <2>5, <2>6
<1>2. CASE recv.inputSeen /\ s > recv.inputTop
  <2> DEFINE ahead == s - recv.inputTop
  <2>1. r = [recv EXCEPT !.inputTop = s, !.inputMask = Shifted(@, ahead)]
    BY <1>2 DEF RecordInput
  <2>2. r.inputSeen = TRUE /\ r.inputTop = s /\ r.inputMask = Shifted(recv.inputMask, ahead)
        /\ r.controlSeen = recv.controlSeen /\ r.controlLast = recv.controlLast
    BY <1>0, <1>2, <2>1
  <2>3. Shifted(recv.inputMask, ahead) \subseteq 0 .. Window - 1
    BY DEF Shifted
  <2>4. \A t \in Handed("input") \cup {s} : t <= s
    BY <1>0, <1>2 DEF MaskExact
  <2>5. ASSUME NEW n \in 0 .. Window - 1
        PROVE  n \in Shifted(recv.inputMask, ahead) <=> s - n \in Handed("input") \cup {s}
    <3>1. ahead \in Nat \ {0} /\ recv.inputTop \in Nat
      BY <1>0, <1>2
    <3>2. n \in Shifted(recv.inputMask, ahead)
             <=> n = 0 \/ (ahead < Window /\ n - ahead \in recv.inputMask)
      BY <1>0, <2>5, <3>1 DEF Shifted
    <3>3. CASE n = 0
      BY <3>2, <3>3
    <3>4. CASE n # 0 /\ n < ahead
      <4>1. n - ahead \notin recv.inputMask
        BY <1>0, <3>1, <3>4
      <4>2. s - n > recv.inputTop /\ s - n # s
        BY <3>1, <3>4
      <4>3. s - n \notin Handed("input")
        BY <1>0, <1>2, <3>1, <4>2 DEF MaskExact
      <4> QED BY <3>2, <3>4, <4>1, <4>2, <4>3
    <3>5. CASE n # 0 /\ n >= ahead
      <4>1. n - ahead \in 0 .. Window - 1 /\ ahead < Window
        BY <3>1, <3>5
      <4>2. recv.inputTop - (n - ahead) = s - n /\ s - n # s
        BY <3>1, <3>5
      <4>3. n - ahead \in recv.inputMask <=> recv.inputTop - (n - ahead) \in Handed("input")
        BY <1>2, <4>1 DEF MaskExact
      <4> QED BY <3>2, <3>5, <4>1, <4>2, <4>3
    <3> QED BY <3>1, <3>3, <3>4, <3>5
  <2>6. r \in [controlSeen : BOOLEAN, controlLast : Nat,
               inputSeen : BOOLEAN, inputTop : Nat, inputMask : SUBSET (0 .. Window - 1)]
    BY <1>0, <2>1, <2>3
  <2>7. recv.inputTop <= s
    BY <1>0, <1>2
  <2> QED BY <2>2, <2>3, <2>4, <2>5, <2>6, <2>7
<1>3. CASE recv.inputSeen /\ ~(s > recv.inputTop)
  <2> DEFINE behind == recv.inputTop - s
  <2>1. r = [recv EXCEPT !.inputMask = @ \cup {behind}]
    BY <1>3 DEF RecordInput
  <2>2. r.inputSeen = TRUE /\ r.inputTop = recv.inputTop /\ r.inputMask = recv.inputMask \cup {behind}
        /\ r.controlSeen = recv.controlSeen /\ r.controlLast = recv.controlLast
    BY <1>0, <1>3, <2>1
  <2>3. s <= recv.inputTop /\ recv.inputTop \in Nat
    BY <1>0, <1>3
  <2>4. behind \in 0 .. Window - 1
    BY <1>3, <2>3 DEF InputReplay
  <2>5. ASSUME NEW n \in 0 .. Window - 1
        PROVE  n \in recv.inputMask \cup {behind} <=> recv.inputTop - n \in Handed("input") \cup {s}
    <3>1. n = behind <=> recv.inputTop - n = s
      BY <2>3
    <3>2. n \in recv.inputMask <=> recv.inputTop - n \in Handed("input")
      BY <1>3 DEF MaskExact
    <3> QED BY <3>1, <3>2
  <2>6. r \in [controlSeen : BOOLEAN, controlLast : Nat,
               inputSeen : BOOLEAN, inputTop : Nat, inputMask : SUBSET (0 .. Window - 1)]
    BY <1>0, <2>1, <2>4
  <2>7. /\ recv.inputTop \in Handed("input")
        /\ \A t \in Handed("input") \cup {s} : t <= recv.inputTop
    BY <1>3, <2>3 DEF MaskExact
  <2> QED BY <2>2, <2>3, <2>5, <2>6, <2>7
<1> QED BY <1>1, <1>2, <1>3

LEMMA TakeInputKeeps ==
    ASSUME SecurityInv, NEW s \in 0 .. MaxSeq, Take("input", s) PROVE SecurityInv'
<1> USE SecurityAssumption
<1>1. /\ next' = next /\ sent' = sent /\ refused' = refused
      /\ recv' = RecordInput(recv, s)
      /\ handed' = [handed EXCEPT !["input"] = Append(@, s)]
      /\ ~InputReplay(recv, s) /\ s \in Nat
  BY DEF Take, AfterOpen, Record, Replay
<1>2. /\ Handed("input")' = Handed("input") \cup {s}
      /\ Handed("control")' = Handed("control") /\ handed'["control"] = handed["control"]
      /\ handed' \in [Channel -> Seq(Nat)]
      /\ handed'["input"] = Append(handed["input"], s)
  <2>1. TypeOK /\ s \in Nat /\ "input" \in Channel /\ "control" \in Channel \ {"input"}
    BY DEF SecurityInv, Channel
  <2> QED BY <1>1, <2>1, TakeHolds
<1>3. /\ recv'.inputSeen = TRUE
      /\ recv'.inputTop \in Nat
      /\ recv'.inputTop \in Handed("input") \cup {s}
      /\ \A t \in Handed("input") \cup {s} : t <= recv'.inputTop
      /\ recv.inputSeen => recv.inputTop <= recv'.inputTop
      /\ \A n \in 0 .. Window - 1 :
            n \in recv'.inputMask <=> recv'.inputTop - n \in Handed("input") \cup {s}
      /\ recv'.controlSeen = recv.controlSeen /\ recv'.controlLast = recv.controlLast
      /\ recv' \in [controlSeen : BOOLEAN, controlLast : Nat,
                    inputSeen : BOOLEAN, inputTop : Nat, inputMask : SUBSET (0 .. Window - 1)]
  BY <1>1, MaskAfter DEF SecurityInv
<1>4. TypeOK'
  BY <1>1, <1>2, <1>3 DEF SecurityInv, TypeOK
<1>5. MaskExact'
  BY <1>2, <1>3 DEF MaskExact
<1>6. ControlWhole' /\ ControlInOrder'
  BY <1>1, <1>2, <1>3 DEF SecurityInv, ControlWhole, ControlInOrder
<1>7. OnceOnly'
  <2>1. s \notin Handed("input")
    <3>1. ASSUME s \in Handed("input") PROVE FALSE
      <4>1. recv.inputSeen /\ s <= recv.inputTop /\ recv.inputTop \in Nat
        BY <3>1, HandedTyped DEF SecurityInv, MaskExact
      <4>2. recv.inputTop - s < Window /\ recv.inputTop - s \notin recv.inputMask
        BY <1>1, <4>1 DEF InputReplay
      <4>3. recv.inputTop - s \in 0 .. Window - 1 /\ recv.inputTop - (recv.inputTop - s) = s
        BY <1>1, <4>1, <4>2
      <4> QED BY <3>1, <4>1, <4>2, <4>3 DEF SecurityInv, MaskExact
    <3> QED BY <3>1
  <2>2. handed["input"] \in Seq(Nat)
    BY HandedTyped DEF SecurityInv
  <2>3. \A i, j \in 1 .. Len(handed["input"]) : handed["input"][i] = handed["input"][j] => i = j
    BY DEF SecurityInv, OnceOnly, Channel
  <2>4. \A i, j \in 1 .. Len(handed'["input"]) : handed'["input"][i] = handed'["input"][j] => i = j
    BY <1>1, <1>2, <2>1, <2>2, <2>3, AppendOnce DEF Handed
  <2> QED BY <1>2, <2>4 DEF SecurityInv, OnceOnly, Channel
<1>8. NoneLost'
  <2>1. ASSUME NEW t \in refused["input"]
        PROVE  t \in Handed("input") \cup {s} \/ recv'.inputTop - t >= Window
    <3>1. t \in Nat
      BY DEF SecurityInv, TypeOK, Channel
    <3>2. t \in Handed("input") \/ (recv.inputSeen /\ recv.inputTop - t >= Window)
      BY DEF SecurityInv, NoneLost
    <3>3. recv.inputTop \in Nat
      BY HandedTyped DEF SecurityInv
    <3> QED BY <1>3, <3>1, <3>2, <3>3
  <2> QED BY <1>1, <1>2, <1>3, <2>1 DEF NoneLost
<1> QED BY <1>4, <1>5, <1>6, <1>7, <1>8 DEF SecurityInv

-----------------------------------------------------------------------------
(* The theorems *)

LEMMA SecurityInvInit == Init => SecurityInv
<1> SUFFICES ASSUME Init PROVE SecurityInv
  OBVIOUS
<1> USE SecurityAssumption
<1>1. \A c \in Channel : handed[c] = <<>> /\ refused[c] = {} /\ sent[c] = {}
  BY DEF Init
<1>2. \A c \in Channel : Len(handed[c]) = 0 /\ Handed(c) = {}
  BY <1>1 DEF Handed
<1>3. TypeOK
  BY DEF Init, TypeOK
<1> QED BY <1>1, <1>2, <1>3 DEF SecurityInv, MaskExact, ControlWhole, OnceOnly, NoneLost,
                                ControlInOrder, Channel, Init

LEMMA SecurityInvStep == SecurityInv /\ [Next]_vars => SecurityInv'
<1> SUFFICES ASSUME SecurityInv, [Next]_vars PROVE SecurityInv'
  OBVIOUS
<1>1. CASE UNCHANGED vars
  BY <1>1, UnchangedKeeps
<1>2. ASSUME NEW c \in Channel, Seal(c) PROVE SecurityInv'
  BY <1>2, SealKeeps
<1>3. ASSUME NEW c \in Channel, NEW s \in 0 .. MaxSeq, Refuse(c, s) PROVE SecurityInv'
  BY <1>3, RefuseKeeps
<1>4. ASSUME NEW c \in Channel, NEW s \in 0 .. MaxSeq, Take(c, s) PROVE SecurityInv'
  BY <1>4, TakeControlKeeps, TakeInputKeeps DEF Channel
<1>5. ASSUME NEW c \in Channel, NEW s \in 0 .. MaxSeq, OpenDamaged(c, s) PROVE SecurityInv'
  BY <1>5, DamagedKeeps
<1> QED BY <1>1, <1>2, <1>3, <1>4, <1>5 DEF Next

\* The invariant above holds of every reachable state: what the mask, the top and the
\* last control number stand for, whatever arrives (seal and open).
THEOREM SecurityInvariant == Spec => []SecurityInv
<1> QED BY SecurityInvInit, SecurityInvStep, PTL DEF Spec

\* The types of the receiver's state, for every window: the mask never holds a bit
\* outside its word (open lines 227-232).
THEOREM SecurityTypeCorrect == Spec => []TypeOK
<1>1. SecurityInv => TypeOK
  BY DEF SecurityInv
<1> QED BY <1>1, SecurityInvariant, PTL

\* No packet of either channel is ever handed on twice (open lines 200-207, 219-233).
THEOREM PacketsOnce == Spec => []OnceOnly
<1>1. SecurityInv => OnceOnly
  BY DEF SecurityInv
<1> QED BY <1>1, SecurityInvariant, PTL

\* An input packet is refused only if it was handed on or fell out of the window
\* (open lines 202-207), for every window and any packets damaged on the way.
THEOREM LatePacketsTaken == Spec => []NoneLost
<1>1. SecurityInv => NoneLost
  BY DEF SecurityInv
<1> QED BY <1>1, SecurityInvariant, PTL

\* The control channel hands on what arrives once, in the order it was sealed
\* (open lines 200-201, 219-221).
THEOREM ControlOrdered == Spec => []ControlInOrder
<1>1. SecurityInv => ControlInOrder
  BY DEF SecurityInv
<1> QED BY <1>1, SecurityInvariant, PTL

=============================================================================
