------------------------- MODULE RollbackGameProofs -------------------------
(***************************************************************************)
(* Proofs about InputTransport and RollbackGame, for every value of the    *)
(* constants: the transport on its own, under any caller and any network;  *)
(* then the bounds the stall rule gives, what follows for history, lead,   *)
(* window and rings, and the step of the session on InputLog.              *)
(*                                                                         *)
(* The transport.  Its inductive invariant (TransportInv) adds to types,   *)
(* PadAgreement, AckSound and NoFalseFault what a message in flight says   *)
(* about its sender's state.                                               *)
(*                                                                         *)
(* The session.  A game runs at most Horizon frames past what it was shown *)
(* of the peer (Paced), so a peer never commits more than Horizon +        *)
(* MaxDelay frames past what it holds of the other (LagBounded).  Applied  *)
(* on both sides, the other's newest frame is at most twice that past what *)
(* is held of it (PeerLead): the numbers of SizesFit.                      *)
(***************************************************************************)
EXTENDS RollbackGame, Sequences, TLAPS

-----------------------------------------------------------------------------
(* The transport *)

\* A COMMIT that a peer in game g would take names frames its sender has
\* committed in game g, with the pads it committed, and an acknowledgment its
\* sender can vouch for.
CommitMeans(m) ==
    \A g \in Game : InGame(m.frame, g) =>
        /\ m.count <= m.frame - Base(g)
        /\ m.frame - Base(g) <= localLatest[m.from][g]
        /\ \A k \in 0 .. m.count - 1 :
              m.pads[k] = localPad[m.from][g][m.frame - Base(g) - k]
        /\ m.ack >= Base(g)
        /\ m.ack - Base(g) <= remoteLatest[m.from][g]
        /\ m.ckFrame - Base(g) < Span

AckMeans(m) ==
    \A g \in Game : AckInGame(m.ack, g) => m.ack - Base(g) <= remoteLatest[m.from][g]

MessagesSound == /\ \A m \in commits : CommitMeans(m)
                 /\ \A m \in acks : AckMeans(m)

TransportInv == /\ TransportTypeOK
                /\ PadAgreement
                /\ AckSound
                /\ NoFalseFault
                /\ MessagesSound

LEMMA StateTyped == TransportTypeOK => StateTypeOK
  BY DEF TransportTypeOK

-----------------------------------------------------------------------------
(* The frame base separates the games. *)

LEMMA BaseNat == \A g \in Game : Base(g) \in Nat
<1>1. TAKE g \in Game
<1>2. g - 1 \in Nat /\ Span \in Nat
  BY SizeAssumption DEF Game
<1>3. (g - 1) * Span \in Nat
  BY <1>2
<1> QED BY <1>3 DEF Base

LEMMA BaseStep == \A g, h \in Game : g < h => Base(h) >= Base(g) + Span
<1>1. SUFFICES ASSUME NEW g \in Game, NEW h \in Game, g < h
               PROVE  Base(h) >= Base(g) + Span
  OBVIOUS
<1>2. PICK d \in Nat : h = g + 1 + d
  <2>1. h - g - 1 \in Nat /\ h = g + 1 + (h - g - 1)
    BY <1>1, SizeAssumption DEF Game
  <2> QED BY <2>1
<1>3. (h - 1) * Span = (g - 1) * Span + Span + d * Span
  BY <1>2, SizeAssumption DEF Game
<1>4. d * Span \in Nat
  BY <1>2, SizeAssumption
<1>5. (g - 1) * Span \in Int /\ Span \in Int
  BY SizeAssumption DEF Game
<1> QED BY <1>3, <1>4, <1>5 DEF Base

\* A wire number belongs to at most one game.
LEMMA OneGame ==
    \A g, h \in Game : \A w \in Int : AckInGame(w, g) /\ AckInGame(w, h) => g = h
<1>1. SUFFICES ASSUME NEW g \in Game, NEW h \in Game, NEW w \in Int,
                      AckInGame(w, g), AckInGame(w, h), g < h
               PROVE  FALSE
  BY SizeAssumption DEF Game
<1>2. Base(h) >= Base(g) + Span /\ Base(g) \in Int /\ Base(h) \in Int
  BY <1>1, BaseStep, BaseNat
<1> QED BY <1>1, <1>2, SizeAssumption DEF AckInGame

LEMMA InGameIsAckInGame ==
    \A g \in Game : \A w \in Int : InGame(w, g) => AckInGame(w, g)
  BY BaseNat DEF InGame, AckInGame

LEMMA OtherSlot == \A p \in Slot : Other(p) \in Slot /\ Other(Other(p)) = p /\ Other(p) # p
  BY DEF Slot, Other

-----------------------------------------------------------------------------
(* What build_commit() sends. *)

LEMMA OldestCarriedBounds ==
    ASSUME NEW latest \in Nat, latest >= 1, NEW acked \in Nat
    PROVE  /\ OldestCarried(latest, acked) \in 1 .. latest
           /\ latest - OldestCarried(latest, acked) + 1 <= MaxHistory
  BY SizeAssumption DEF OldestCarried, Larger, Smaller

BuiltCommitsSound ==
    \A p \in Slot : Local(p) >= 1 =>
        /\ CommitMessage(p).from = p
        /\ MessageOK(CommitMessage(p))
        /\ CommitMeans(CommitMessage(p))

BuiltAcksSound ==
    \A p \in Slot : /\ AckMessage(p).from = p
                    /\ AckMessage(p).ack \in Nat
                    /\ AckMeans(AckMessage(p))

LEMMA BuildCommitSound == StateTypeOK => BuiltCommitsSound
<1> SUFFICES ASSUME StateTypeOK, NEW p \in Slot, Local(p) >= 1
             PROVE  /\ CommitMessage(p).from = p
                    /\ MessageOK(CommitMessage(p))
                    /\ CommitMeans(CommitMessage(p))
  BY DEF BuiltCommitsSound
<1> DEFINE g      == game[p]
           latest == Local(p)
           count  == latest - OldestCarried(latest, peerAck[p]) + 1
           msg    == CommitMessage(p)
<1>1. /\ g \in Game /\ latest \in 1 .. Span - 1 /\ Remote(p) \in 0 .. Span - 1
      /\ peerAck[p] \in Nat /\ checksumFrame[p] \in 0 .. Span - 1
      /\ localPad[p][g] \in [Frame -> Pad]
  BY SizeAssumption DEF TransportTypeOK, StateTypeOK, Local, Remote
<1>2. count \in 1 .. MaxHistory /\ count <= latest
  <2>1. latest \in Nat /\ latest >= 1 /\ peerAck[p] \in Nat
    BY <1>1, SizeAssumption
  <2>2. /\ OldestCarried(latest, peerAck[p]) \in 1 .. latest
        /\ count <= MaxHistory
    BY <2>1, OldestCarriedBounds
  <2> HIDE DEF latest
  <2> QED BY <2>1, <2>2, SizeAssumption
<1>3. Base(g) \in Nat
  BY <1>1, BaseNat
<1>4. /\ msg.from = p /\ msg.frame = Base(g) + latest /\ msg.count = count
      /\ msg.ckFrame = (IF checksumFrame[p] > 0 THEN Base(g) + checksumFrame[p] ELSE 0)
      /\ msg.ack = Base(g) + Remote(p)
      /\ msg.pads = [k \in 0 .. count - 1 |->
                        IF InRing(latest - k, latest)
                        THEN localPad[p][g][latest - k] ELSE NoPad]
  BY DEF CommitMessage, CarriedPads
<1> HIDE DEF msg, count, latest, g
<1>5. \A k \in 0 .. count - 1 : /\ latest - k \in Frame
                                /\ InRing(latest - k, latest)
  BY <1>1, <1>2, SizeAssumption DEF InRing, Frame
<1>6. msg.pads = [k \in 0 .. count - 1 |-> localPad[p][g][latest - k]]
  BY <1>4, <1>5
<1>7. MessageOK(msg)
  <2>1. msg.pads \in [0 .. count - 1 -> Pad]
    BY <1>1, <1>5, <1>6
  <2>2. msg.frame \in Nat /\ msg.ckFrame \in Nat /\ msg.ack \in Nat
    BY <1>1, <1>3, <1>4, SizeAssumption
  <2> QED BY <1>2, <1>4, <2>1, <2>2 DEF MessageOK
<1>8. CommitMeans(msg)
  <2> SUFFICES ASSUME NEW h \in Game, InGame(msg.frame, h)
               PROVE  /\ msg.count <= msg.frame - Base(h)
                      /\ msg.frame - Base(h) <= localLatest[msg.from][h]
                      /\ \A k \in 0 .. msg.count - 1 :
                            msg.pads[k] = localPad[msg.from][h][msg.frame - Base(h) - k]
                      /\ msg.ack >= Base(h)
                      /\ msg.ack - Base(h) <= remoteLatest[msg.from][h]
                      /\ msg.ckFrame - Base(h) < Span
    BY DEF CommitMeans
  <2>1. AckInGame(msg.frame, g)
    BY <1>1, <1>3, <1>4, SizeAssumption DEF AckInGame
  <2>2. h = g
    <3>1. msg.frame \in Int
      BY <1>1, <1>3, <1>4
    <3>2. AckInGame(msg.frame, h)
      BY <3>1, InGameIsAckInGame
    <3> QED BY <1>1, <2>1, <3>1, <3>2, OneGame
  <2>3. msg.frame - Base(h) = latest /\ msg.ack - Base(h) = Remote(p)
    BY <1>1, <1>3, <1>4, <2>2
  <2>4. localLatest[p][g] = latest /\ remoteLatest[p][g] = Remote(p)
    BY DEF latest, g, Local, Remote
  <2>5. \A k \in 0 .. msg.count - 1 : msg.pads[k] = localPad[p][g][latest - k]
    BY <1>4, <1>6
  <2>6. msg.ckFrame - Base(h) < Span
    BY <1>1, <1>3, <1>4, <2>2, SizeAssumption
  <2> QED BY <1>1, <1>2, <1>3, <1>4, <2>2, <2>3, <2>4, <2>5, <2>6
<1> QED BY <1>4, <1>7, <1>8 DEF msg

LEMMA BuildAckSound == StateTypeOK => BuiltAcksSound
<1> SUFFICES ASSUME StateTypeOK, NEW p \in Slot
             PROVE  /\ AckMessage(p).from = p
                    /\ AckMessage(p).ack \in Nat
                    /\ AckMeans(AckMessage(p))
  BY DEF BuiltAcksSound
<1>1. game[p] \in Game /\ Remote(p) \in 0 .. Span - 1 /\ Base(game[p]) \in Nat
  BY BaseNat, SizeAssumption DEF TransportTypeOK, StateTypeOK, Remote
<1>2. AckMessage(p).from = p /\ AckMessage(p).ack = Base(game[p]) + Remote(p)
  BY DEF AckMessage
<1>3. AckMeans(AckMessage(p))
  <2> SUFFICES ASSUME NEW h \in Game, AckInGame(AckMessage(p).ack, h)
               PROVE  AckMessage(p).ack - Base(h) <= remoteLatest[p][h]
    BY <1>2 DEF AckMeans
  <2>1. AckInGame(AckMessage(p).ack, game[p])
    BY <1>1, <1>2, SizeAssumption DEF AckInGame
  <2>2. h = game[p]
    BY <1>1, <1>2, <2>1, OneGame
  <2> QED BY <1>1, <1>2, <2>2, SizeAssumption DEF Remote
<1> QED BY <1>1, <1>2, <1>3

-----------------------------------------------------------------------------
(* A message is taken: on_commit() and the ACK case of on_message().        *)

\* Neither message is ever refused as malformed.
LEMMA NeverMalformed ==
    ASSUME TransportInv, NEW p \in Slot, NEW m, m.from = Other(p)
    PROVE  /\ (m \in commits /\ CommitIsOurs(p, m)) => ~CommitMalformed(p, m)
           /\ (m \in acks /\ AckInGame(m.ack, game[p])) => m.ack - Base(game[p]) <= Local(p)
<1>1. /\ game[p] \in Game /\ Other(p) \in Slot /\ Other(Other(p)) = p
      /\ Base(game[p]) \in Nat
  BY BaseNat, OtherSlot DEF TransportInv, TransportTypeOK, StateTypeOK
<1>2. remoteLatest[Other(p)][game[p]] <= Local(p)
  BY <1>1 DEF TransportInv, PadAgreement, Local
<1>3. /\ remoteLatest[Other(p)][game[p]] \in Int
      /\ Local(p) \in Int
  BY <1>1, SizeAssumption DEF TransportInv, TransportTypeOK, StateTypeOK, Local
<1>4. ASSUME m \in commits, CommitIsOurs(p, m)
      PROVE  ~CommitMalformed(p, m)
  <2>1. CommitMeans(m) /\ MessageOK(m)
    BY <1>4 DEF TransportInv, MessagesSound, TransportTypeOK, StateTypeOK
  <2>2. /\ m.count <= m.frame - Base(game[p])
        /\ m.ack - Base(game[p]) <= remoteLatest[Other(p)][game[p]]
    BY <1>1, <1>4, <2>1 DEF CommitMeans, CommitIsOurs
  <2>3. m.frame \in Int /\ m.count \in Int /\ m.ack \in Int
    BY <2>1, SizeAssumption DEF MessageOK
  <2> QED BY <1>1, <1>2, <1>3, <2>2, <2>3 DEF CommitMalformed
<1>5. ASSUME m \in acks, AckInGame(m.ack, game[p])
      PROVE  m.ack - Base(game[p]) <= Local(p)
  <2>1. AckMeans(m) /\ m.ack \in Nat
    BY <1>5 DEF TransportInv, MessagesSound, TransportTypeOK, StateTypeOK
  <2>2. m.ack - Base(game[p]) <= remoteLatest[Other(p)][game[p]]
    BY <1>1, <1>5, <2>1 DEF AckMeans
  <2> QED BY <1>1, <1>2, <1>3, <2>1, <2>2
<1> QED BY <1>4, <1>5

LEMMA MeaningStable ==
    ASSUME TransportTypeOK, TransportTypeOK', Grows
    PROVE  /\ \A m \in commits : CommitMeans(m) => CommitMeans(m)'
           /\ \A m \in acks : AckMeans(m) => AckMeans(m)'
<1>1. ASSUME NEW m \in commits, CommitMeans(m)
      PROVE  CommitMeans(m)'
  <2> SUFFICES ASSUME NEW g \in Game, InGame(m.frame, g)
               PROVE  /\ m.count <= m.frame - Base(g)
                      /\ m.frame - Base(g) <= localLatest'[m.from][g]
                      /\ \A k \in 0 .. m.count - 1 :
                            m.pads[k] = localPad'[m.from][g][m.frame - Base(g) - k]
                      /\ m.ack >= Base(g)
                      /\ m.ack - Base(g) <= remoteLatest'[m.from][g]
                      /\ m.ckFrame - Base(g) < Span
    BY DEF CommitMeans
  <2>1. MessageOK(m) /\ Base(g) \in Nat
    BY BaseNat DEF TransportTypeOK, StateTypeOK
  <2>2. /\ m.from \in Slot /\ m.frame \in Int /\ m.count \in Int /\ m.ack \in Int
    BY <2>1, SizeAssumption DEF MessageOK
  <2>3. /\ m.count <= m.frame - Base(g)
        /\ m.frame - Base(g) <= localLatest[m.from][g]
        /\ \A k \in 0 .. m.count - 1 :
              m.pads[k] = localPad[m.from][g][m.frame - Base(g) - k]
        /\ m.ack >= Base(g)
        /\ m.ack - Base(g) <= remoteLatest[m.from][g]
        /\ m.ckFrame - Base(g) < Span
    BY <1>1 DEF CommitMeans
  <2>4. /\ localLatest[m.from][g] \in Int /\ localLatest'[m.from][g] \in Int
        /\ remoteLatest[m.from][g] \in Int /\ remoteLatest'[m.from][g] \in Int
    BY <2>2, SizeAssumption DEF TransportTypeOK, StateTypeOK
  <2>5. \A k \in 0 .. m.count - 1 :
           m.pads[k] = localPad'[m.from][g][m.frame - Base(g) - k]
    <3> SUFFICES ASSUME NEW k \in 0 .. m.count - 1
                 PROVE  m.pads[k] = localPad'[m.from][g][m.frame - Base(g) - k]
      OBVIOUS
    <3>1. /\ m.frame - Base(g) - k \in Frame
          /\ m.frame - Base(g) - k <= localLatest[m.from][g]
      BY <2>1, <2>2, <2>3, <2>4, SizeAssumption DEF Frame, InGame
    <3> QED BY <2>2, <2>3, <3>1 DEF Grows
  <2> QED BY <2>1, <2>2, <2>3, <2>4, <2>5 DEF Grows
<1>2. ASSUME NEW m \in acks, AckMeans(m)
      PROVE  AckMeans(m)'
  <2>1. m.from \in Slot /\ m.ack \in Nat
    BY DEF TransportTypeOK, StateTypeOK
  <2>2. \A g \in Game : /\ remoteLatest[m.from][g] \in Int
                        /\ remoteLatest'[m.from][g] \in Int
                        /\ remoteLatest[m.from][g] <= remoteLatest'[m.from][g]
    BY <2>1, SizeAssumption DEF TransportTypeOK, StateTypeOK, Grows
  <2> QED BY <1>2, <2>1, <2>2, BaseNat DEF AckMeans
<1> QED BY <1>1, <1>2

\* What a COMMIT that is taken does to the frames held.
LEMMA TakenFrames ==
    ASSUME TransportInv, NEW p \in Slot, NEW m \in commits,
           m.from = Other(p), CommitIsOurs(p, m)
    PROVE  /\ TakenThrough(p, m) \in Remote(p) .. (Span - 1)
           /\ TakenThrough(p, m) <= localLatest[Other(p)][game[p]]
           /\ \A h \in Frame : h > Remote(p) /\ h <= TakenThrough(p, m) =>
                 /\ m.frame - Base(game[p]) - h \in 0 .. m.count - 1
                 /\ m.pads[m.frame - Base(game[p]) - h] = localPad[Other(p)][game[p]][h]
           /\ CommitFaults(p, m) \subseteq {"gap", "tooFar"}
           /\ m.frame - Base(game[p]) \in Frame
           /\ m.ack - Base(game[p]) \in 0 .. remoteLatest[Other(p)][game[p]]
           /\ m.ckFrame - Base(game[p]) < Span
<1> DEFINE g == game[p]
           q == Other(p)
           f == m.frame - Base(g)
<1>1. /\ g \in Game /\ q \in Slot /\ Other(q) = p /\ Base(g) \in Nat
      /\ MessageOK(m) /\ CommitMeans(m)
  BY BaseNat, OtherSlot DEF TransportInv, TransportTypeOK, StateTypeOK, MessagesSound
<1>2. /\ m.count <= f /\ f <= localLatest[q][g]
      /\ \A k \in 0 .. m.count - 1 : m.pads[k] = localPad[q][g][f - k]
      /\ m.ack >= Base(g) /\ m.ack - Base(g) <= remoteLatest[q][g]
      /\ m.ckFrame - Base(g) < Span
  BY <1>1 DEF CommitMeans, CommitIsOurs
<1>3. /\ f \in Frame /\ m.count \in 1 .. MaxHistory /\ m.ack \in Nat /\ m.frame \in Nat
  BY <1>1, SizeAssumption DEF MessageOK, CommitIsOurs, InGame, Frame
<1>4. /\ Remote(p) \in 0 .. Span - 1 /\ localLatest[q][g] \in 0 .. Span - 1
      /\ Remote(p) <= localLatest[q][g] /\ remoteLatest[q][g] \in 0 .. Span - 1
      /\ Limit(p) \in Nat
  BY <1>1, SizeAssumption DEF TransportInv, TransportTypeOK, StateTypeOK, PadAgreement, Remote, Limit
<1>5. f \in Int /\ m.count \in Int /\ Span \in Int
  BY <1>3, SizeAssumption DEF Frame
<1>6. /\ TakenThrough(p, m) \in Remote(p) .. (Span - 1)
      /\ TakenThrough(p, m) <= localLatest[q][g]
  BY <1>2, <1>3, <1>4, <1>5 DEF TakenThrough, Larger, Smaller, Frame
<1>7. ASSUME NEW h \in Frame, h > Remote(p), h <= TakenThrough(p, m)
      PROVE  /\ f - h \in 0 .. m.count - 1
             /\ m.pads[f - h] = localPad[q][g][h]
  <2>1. h \in Int /\ Remote(p) \in Int
    BY <1>4, SizeAssumption DEF Frame
  <2>2. f - m.count + 1 <= Remote(p) + 1
    BY <1>4, <1>5, <1>7, <2>1 DEF TakenThrough, CommitGap
  <2>3. h <= f
    BY <1>4, <1>5, <1>7, <2>1, <2>2 DEF TakenThrough, CommitGap, Larger, Smaller
  <2>4. f - h \in 0 .. m.count - 1
    BY <1>5, <1>7, <2>1, <2>2, <2>3
  <2>5. f - (f - h) = h
    BY <1>5, <2>1
  <2> QED BY <1>2, <2>4, <2>5
<1>8. CommitFaults(p, m) \subseteq {"gap", "tooFar"}
  <2>1. ASSUME NEW k \in 0 .. m.count - 1, InRing(f - k, Remote(p))
        PROVE  remotePad[p][g][f - k] = m.pads[k]
    <3>1. f - k \in Frame /\ f - k <= remoteLatest[p][g]
      BY <1>4, <1>5, <2>1, SizeAssumption DEF InRing, Frame, Remote
    <3>2. remotePad[p][g][f - k] = localPad[q][g][f - k]
      BY <1>1, <3>1 DEF TransportInv, PadAgreement
    <3> QED BY <1>2, <3>2
  <2> QED BY <2>1 DEF CommitFaults
<1>9. m.ack - Base(g) \in 0 .. remoteLatest[q][g]
  BY <1>1, <1>2, <1>3, <1>4, SizeAssumption
<1> QED BY <1>2, <1>3, <1>6, <1>7, <1>8, <1>9

LEMMA TakeCommitStep ==
    ASSUME TransportInv, NEW p \in Slot, NEW m \in commits,
           m.from = Other(p), CommitIsOurs(p, m), TakeCommit(p, m)
    PROVE  TransportInv' /\ Grows
<1> DEFINE g == game[p]
           q == Other(p)
           f == m.frame - Base(g)
           through == TakenThrough(p, m)
<1>1. /\ g \in Game /\ q \in Slot /\ Other(q) = p /\ q # p
      /\ Remote(p) \in 0 .. Span - 1 /\ Remote(p) = remoteLatest[p][g]
      /\ peerAck[p] \in 0 .. Span - 1
  BY OtherSlot DEF TransportInv, TransportTypeOK, StateTypeOK, Remote
<1>2. /\ through \in Remote(p) .. (Span - 1) /\ through <= localLatest[q][g]
      /\ \A h \in Frame : h > Remote(p) /\ h <= through =>
            f - h \in 0 .. m.count - 1 /\ m.pads[f - h] = localPad[q][g][h]
      /\ CommitFaults(p, m) \subseteq {"gap", "tooFar"}
      /\ f \in Frame
      /\ m.ack - Base(g) \in 0 .. remoteLatest[q][g]
      /\ m.ckFrame - Base(g) < Span
  BY TakenFrames
<1>3. MessageOK(m) /\ m.ckFrame \in Nat /\ Base(g) \in Nat
  BY <1>1, BaseNat DEF TransportInv, TransportTypeOK, StateTypeOK, MessageOK
<1>4. /\ remoteLatest' = [remoteLatest EXCEPT ![p][g] = through]
      /\ remotePad' = [remotePad EXCEPT ![p][g] =
             [h \in Frame |-> IF h > Remote(p) /\ h <= through
                              THEN m.pads[f - h] ELSE remotePad[p][g][h]]]
      /\ peerAck' = [peerAck EXCEPT ![p] = Larger(peerAck[p], m.ack - Base(g))]
      /\ stats' = [stats EXCEPT ![p] = stats[p] \cup CommitFaults(p, m)]
      /\ UNCHANGED <<game, localLatest, localPad, floor, checksumFrame, commits>>
  BY DEF TakeCommit
<1> HIDE DEF through, f, q
<1>5. /\ \A pp \in Slot : \A gg \in Game :
             remoteLatest'[pp][gg] =
                 IF pp = p /\ gg = g THEN through ELSE remoteLatest[pp][gg]
      /\ \A pp \in Slot : \A gg \in Game : \A h \in Frame :
             remotePad'[pp][gg][h] =
                 IF pp = p /\ gg = g /\ h > Remote(p) /\ h <= through
                 THEN localPad[q][g][h] ELSE remotePad[pp][gg][h]
  BY <1>1, <1>2, <1>4 DEF TransportInv, TransportTypeOK, StateTypeOK
<1>6. Grows
  <2> SUFFICES ASSUME NEW pp \in Slot, NEW gg \in Game
               PROVE  /\ localLatest[pp][gg] <= localLatest'[pp][gg]
                      /\ remoteLatest[pp][gg] <= remoteLatest'[pp][gg]
                      /\ \A h \in Frame :
                            /\ h <= localLatest[pp][gg] =>
                                   localPad'[pp][gg][h] = localPad[pp][gg][h]
                            /\ h <= remoteLatest[pp][gg] =>
                                   remotePad'[pp][gg][h] = remotePad[pp][gg][h]
    BY DEF Grows
  <2>1. /\ localLatest[pp][gg] \in Int /\ remoteLatest[pp][gg] \in Int
        /\ through \in Int /\ Remote(p) \in Int /\ Remote(p) <= through
    BY <1>1, <1>2, SizeAssumption DEF TransportInv, TransportTypeOK, StateTypeOK
  <2>2. remoteLatest[pp][gg] <= remoteLatest'[pp][gg]
    BY <1>1, <1>5, <2>1
  <2>3. ASSUME NEW h \in Frame, h <= remoteLatest[pp][gg]
        PROVE  remotePad'[pp][gg][h] = remotePad[pp][gg][h]
    <3>1. ~(pp = p /\ gg = g /\ h > Remote(p))
      BY <1>1, <2>1, <2>3, SizeAssumption DEF Frame
    <3> QED BY <1>5, <3>1
  <2> QED BY <1>4, <2>1, <2>2, <2>3
<1>7. TransportTypeOK'
  <2>1. remoteLatest' \in [Slot -> [Game -> 0 .. Span - 1]]
    BY <1>1, <1>2, <1>4, SizeAssumption DEF TransportInv, TransportTypeOK, StateTypeOK
  <2>2. remotePad' \in [Slot -> [Game -> [Frame -> Pad]]]
    <3>1. \A h \in Frame : h > Remote(p) /\ h <= through => m.pads[f - h] \in Pad
      BY <1>1, <1>2 DEF TransportInv, TransportTypeOK, StateTypeOK
    <3>2. [h \in Frame |-> IF h > Remote(p) /\ h <= through
                           THEN m.pads[f - h] ELSE remotePad[p][g][h]] \in [Frame -> Pad]
      BY <1>1, <3>1 DEF TransportInv, TransportTypeOK, StateTypeOK
    <3> QED BY <1>1, <1>4, <3>2 DEF TransportInv, TransportTypeOK, StateTypeOK
  <2>3. peerAck' \in [Slot -> 0 .. Span - 1]
    <3>1. remoteLatest[q][g] \in 0 .. Span - 1
      BY <1>1 DEF TransportInv, TransportTypeOK, StateTypeOK
    <3>2. Larger(peerAck[p], m.ack - Base(g)) \in 0 .. Span - 1
      BY <1>1, <1>2, <3>1, SizeAssumption DEF Larger
    <3> QED BY <1>4, <3>2 DEF TransportInv, TransportTypeOK, StateTypeOK
  <2>4. stats' \in [Slot -> SUBSET Fault]
    BY <1>2, <1>4 DEF TransportInv, TransportTypeOK, StateTypeOK, Fault
  <2>5. remoteChecksumFrame' \in [Slot -> 0 .. Span - 1]
    <3>1. (IF m.ckFrame > Base(g) THEN m.ckFrame - Base(g) ELSE 0) \in 0 .. Span - 1
      BY <1>2, <1>3, SizeAssumption
    <3> QED BY <3>1 DEF TransportInv, TransportTypeOK, StateTypeOK, TakeCommit
  <2>6. newestSeen' \in [Slot -> 0 .. Span - 1]
    <3>1. f \in 0 .. Span - 1
      BY <1>2, SizeAssumption DEF Frame
    <3> QED BY <3>1 DEF TransportInv, TransportTypeOK, StateTypeOK, TakeCommit, f
  <2>7. \A a \in acks' : a.from \in Slot /\ a.ack \in Nat
    <3>1. game'[p] = g /\ remoteLatest'[p][g] \in 0 .. Span - 1
      BY <1>1, <1>4, <2>1
    <3>2. AckMessage(p)'.from = p /\ AckMessage(p)'.ack \in Nat
      BY <1>1, <1>3, <3>1, SizeAssumption DEF AckMessage, Remote, Base
    <3> QED BY <3>2 DEF TransportInv, TransportTypeOK, StateTypeOK, TakeCommit, Sending
  <2>8. \A c \in commits' : MessageOK(c)
    BY <1>4 DEF TransportInv, TransportTypeOK, StateTypeOK
  <2>9. /\ game' \in [Slot -> Game]
        /\ localLatest' \in [Slot -> [Game -> 0 .. Span - 1]]
        /\ localPad' \in [Slot -> [Game -> [Frame -> Pad]]]
        /\ floor' \in [Slot -> 0 .. Span - 1]
        /\ checksumFrame' \in [Slot -> 0 .. Span - 1]
    BY <1>4 DEF TransportInv, TransportTypeOK, StateTypeOK
  <2> QED BY <2>1, <2>2, <2>3, <2>4, <2>5, <2>6, <2>7, <2>8, <2>9 DEF TransportTypeOK, StateTypeOK
<1>8. PadAgreement'
  <2> SUFFICES ASSUME NEW pp \in Slot, NEW gg \in Game
               PROVE  /\ remoteLatest'[pp][gg] <= localLatest'[Other(pp)][gg]
                      /\ \A h \in Frame : h <= remoteLatest'[pp][gg] =>
                            remotePad'[pp][gg][h] = localPad'[Other(pp)][gg][h]
    BY DEF PadAgreement
  <2>1. CASE pp = p /\ gg = g
    <3>1. \A h \in Frame : h <= Remote(p) => remotePad[p][g][h] = localPad[q][g][h]
      BY <1>1 DEF TransportInv, PadAgreement, q
    <3>2. \A h \in Frame : h <= Remote(p) \/ h > Remote(p)
      BY <1>1, SizeAssumption DEF Frame
    <3>3. q = Other(pp)
      BY <2>1 DEF q
    <3>4. remoteLatest'[pp][gg] <= localLatest'[q][gg]
      BY <1>2, <1>4, <1>5, <2>1
    <3>5. ASSUME NEW h \in Frame, h <= through
          PROVE  remotePad'[p][g][h] = localPad[q][g][h]
      BY <1>1, <1>5, <3>1, <3>2, <3>5
    <3> QED BY <1>4, <1>5, <2>1, <3>3, <3>4, <3>5
  <2>2. CASE ~(pp = p /\ gg = g)
    BY <1>4, <1>5, <2>2 DEF TransportInv, PadAgreement
  <2> QED BY <2>1, <2>2
<1>9. AckSound'
  <2> SUFFICES ASSUME NEW pp \in Slot
               PROVE  peerAck'[pp] <= remoteLatest'[Other(pp)][game'[pp]]
    BY DEF AckSound
  <2>1. /\ Other(pp) \in Slot /\ game[pp] \in Game /\ game' = game
        /\ peerAck[pp] <= remoteLatest[Other(pp)][game[pp]]
        /\ peerAck[pp] \in Int
        /\ remoteLatest[Other(pp)][game[pp]] \in Int
        /\ remoteLatest'[Other(pp)][game[pp]] \in Int
    BY <1>4, <1>7, OtherSlot, SizeAssumption DEF TransportInv, TransportTypeOK, StateTypeOK, AckSound
  <2>2. remoteLatest[Other(pp)][game[pp]] <= remoteLatest'[Other(pp)][game[pp]]
    BY <1>6, <2>1 DEF Grows
  <2>3. peerAck'[pp] <= remoteLatest[Other(pp)][game[pp]]
    <3>1. CASE pp = p
      <4>1. peerAck'[pp] = Larger(peerAck[p], m.ack - Base(g))
        BY <1>4, <3>1 DEF TransportInv, TransportTypeOK, StateTypeOK
      <4>2. m.ack - Base(g) <= remoteLatest[Other(pp)][game[pp]]
        BY <1>1, <1>2, <3>1, <2>1 DEF q
      <4> QED BY <2>1, <3>1, <4>1, <4>2 DEF Larger
    <3>2. CASE pp # p
      BY <1>4, <2>1, <3>2 DEF TransportInv, TransportTypeOK, StateTypeOK
    <3> QED BY <3>1, <3>2
  <2>4. peerAck'[pp] \in Int
    BY <1>7, SizeAssumption DEF TransportTypeOK, StateTypeOK
  <2> QED BY <2>1, <2>2, <2>3, <2>4
<1>10. NoFalseFault'
  BY <1>2, <1>4 DEF TransportInv, TransportTypeOK, StateTypeOK, NoFalseFault
<1>11. MessagesSound'
  <2>1. \A c \in commits : CommitMeans(c)'
    BY <1>6, <1>7, MeaningStable DEF TransportInv, MessagesSound
  <2>2. \A a \in acks : AckMeans(a)'
    BY <1>6, <1>7, MeaningStable DEF TransportInv, MessagesSound
  <2>3. BuiltAcksSound'
    BY <1>7, StateTyped, BuildAckSound, PTL
  <2>4. AckMeans(AckMessage(p))'
    BY <2>3 DEF BuiltAcksSound
  <2>5. acks' \subseteq acks \cup {AckMessage(p)'}
    BY DEF TakeCommit, Sending
  <2>6. \A a \in acks' : AckMeans(a)'
    BY <2>2, <2>4, <2>5
  <2> QED BY <1>4, <2>1, <2>6 DEF MessagesSound
<1> QED BY <1>6, <1>7, <1>8, <1>9, <1>10, <1>11 DEF TransportInv

LEMMA OnAckStep ==
    ASSUME TransportInv, NEW p \in Slot, NEW m \in acks, OnAck(p, m)
    PROVE  TransportInv' /\ Grows
<1>1. /\ game[p] \in Game /\ Other(p) \in Slot /\ m.ack \in Nat
      /\ Base(game[p]) \in Nat /\ peerAck[p] \in 0 .. Span - 1
      /\ remoteLatest[Other(p)][game[p]] \in 0 .. Span - 1
  BY OtherSlot, BaseNat DEF TransportInv, TransportTypeOK, StateTypeOK
<1>2. ~(m.ack - Base(game[p]) > Local(p))
  <2>1. m.ack - Base(game[p]) <= Local(p)
    BY NeverMalformed DEF OnAck
  <2>2. Local(p) \in Int
    BY <1>1, SizeAssumption DEF Local, TransportInv, TransportTypeOK, StateTypeOK
  <2> QED BY <1>1, <2>1, <2>2
<1>3. /\ peerAck' = [peerAck EXCEPT ![p] = Larger(peerAck[p], m.ack - Base(game[p]))]
      /\ UNCHANGED <<game, localLatest, localPad, remoteLatest, remotePad, floor,
                     newestSeen, checksumFrame, remoteChecksumFrame, stats,
                     commits, acks>>
  BY <1>2 DEF OnAck
<1>4. /\ m.ack - Base(game[p]) <= remoteLatest[Other(p)][game[p]]
      /\ m.ack - Base(game[p]) >= 0
  <2>1. AckMeans(m) /\ m.from = Other(p) /\ AckInGame(m.ack, game[p])
    BY DEF TransportInv, MessagesSound, OnAck
  <2> QED BY <1>1, <2>1 DEF AckMeans, AckInGame
<1>5. Larger(peerAck[p], m.ack - Base(game[p])) \in 0 .. Span - 1
  BY <1>1, <1>4, SizeAssumption DEF Larger
<1>6. TransportTypeOK'
  <2>1. peerAck' \in [Slot -> 0 .. Span - 1]
    BY <1>3, <1>5 DEF TransportInv, TransportTypeOK, StateTypeOK
  <2> QED BY <1>3, <2>1 DEF TransportInv, TransportTypeOK, StateTypeOK
<1>7. Grows
  <2>1. \A pp \in Slot : \A gg \in Game :
            localLatest[pp][gg] \in Int /\ remoteLatest[pp][gg] \in Int
    BY SizeAssumption DEF TransportInv, TransportTypeOK, StateTypeOK
  <2> QED BY <1>3, <2>1 DEF Grows
<1>8. PadAgreement' /\ NoFalseFault'
  BY <1>3 DEF TransportInv, PadAgreement, NoFalseFault
<1>9. AckSound'
  <2> SUFFICES ASSUME NEW pp \in Slot
               PROVE  peerAck'[pp] <= remoteLatest[Other(pp)][game[pp]]
    BY <1>3 DEF AckSound
  <2>1. peerAck[pp] <= remoteLatest[Other(pp)][game[pp]]
    BY DEF TransportInv, AckSound
  <2>2. peerAck'[pp] = IF pp = p THEN Larger(peerAck[p], m.ack - Base(game[p]))
                                 ELSE peerAck[pp]
    BY <1>3 DEF TransportInv, TransportTypeOK, StateTypeOK
  <2> QED BY <1>1, <1>4, <2>1, <2>2 DEF Larger
<1>10. MessagesSound'
  <2>1. /\ \A c \in commits : CommitMeans(c)'
        /\ \A a \in acks : AckMeans(a)'
    BY <1>6, <1>7, MeaningStable DEF TransportInv, MessagesSound
  <2> QED BY <1>3, <2>1 DEF MessagesSound
<1> QED BY <1>6, <1>7, <1>8, <1>9, <1>10 DEF TransportInv

\* A message of any kind is handled.
LEMMA OnMessageStep ==
    ASSUME TransportInv, NEW p \in Slot,
           \/ \E m \in commits : OnCommit(p, m)
           \/ \E m \in acks : OnAck(p, m)
    PROVE  TransportInv' /\ Grows
<1>1. ASSUME NEW m \in commits, OnCommit(p, m)
      PROVE  TransportInv' /\ Grows
  <2>1. m.from = Other(p) /\ CommitIsOurs(p, m)
    BY <1>1 DEF OnCommit
  <2>2. TakeCommit(p, m)
    BY <1>1, <2>1, NeverMalformed DEF OnCommit
  <2> QED BY <2>1, <2>2, TakeCommitStep
<1> QED BY <1>1, OnAckStep

LEMMA ResetStep ==
    ASSUME TransportInv, NEW p \in Slot, Reset(p)
    PROVE  TransportInv' /\ Grows
<1>1. TransportTypeOK'
  <2>1. game[p] + 1 \in Game /\ 0 \in 0 .. Span - 1
    BY SizeAssumption DEF TransportInv, TransportTypeOK, StateTypeOK, Reset, Game
  <2> QED BY <2>1 DEF TransportInv, TransportTypeOK, StateTypeOK, Reset
<1>2. Grows
  <2>1. \A pp \in Slot : \A gg \in Game :
            localLatest[pp][gg] \in Int /\ remoteLatest[pp][gg] \in Int
    BY SizeAssumption DEF TransportInv, TransportTypeOK, StateTypeOK
  <2> QED BY <2>1 DEF Grows, Reset
<1>3. PadAgreement' /\ NoFalseFault'
  BY DEF TransportInv, TransportTypeOK, StateTypeOK, PadAgreement, NoFalseFault, Reset
<1>4. AckSound'
  <2> SUFFICES ASSUME NEW pp \in Slot
               PROVE  peerAck'[pp] <= remoteLatest[Other(pp)][game'[pp]]
    BY DEF AckSound, Reset
  <2>1. CASE pp = p
    <3>1. peerAck'[pp] = 0
      BY <2>1 DEF TransportInv, TransportTypeOK, StateTypeOK, Reset
    <3>2. remoteLatest[Other(pp)][game'[pp]] \in 0 .. Span - 1
      BY <1>1, OtherSlot DEF TransportInv, TransportTypeOK, StateTypeOK
    <3> QED BY <3>1, <3>2, SizeAssumption
  <2>2. CASE pp # p
    BY <2>2 DEF TransportInv, TransportTypeOK, StateTypeOK, AckSound, Reset
  <2> QED BY <2>1, <2>2
<1>5. MessagesSound'
  <2>1. /\ \A c \in commits : CommitMeans(c)'
        /\ \A a \in acks : AckMeans(a)'
    BY <1>1, <1>2, MeaningStable DEF TransportInv, MessagesSound
  <2> QED BY <2>1 DEF MessagesSound, Reset
<1> QED BY <1>1, <1>2, <1>3, <1>4, <1>5 DEF TransportInv

-----------------------------------------------------------------------------
(* A call of the local game: it may commit frames, raise the floor, set the *)
(* checksum that travels and send the COMMIT of the state it leaves.        *)

CallerStep(p) ==
    /\ \E n \in Local(p) .. (Span - 1) : \E pads \in [Frame -> Pad] : StoreLocal(p, n, pads)
    /\ floor' \in [Slot -> 0 .. Span - 1]
    /\ checksumFrame' \in [Slot -> 0 .. Span - 1]
    /\ \A m \in commits' : m \in commits \/ (Local(p)' >= 1 /\ m = CommitMessage(p)')
    /\ UNCHANGED <<game, remoteLatest, remotePad, peerAck, newestSeen,
                   remoteChecksumFrame, stats, acks>>

LEMMA CallerStepInv ==
    ASSUME TransportInv, NEW p \in Slot, CallerStep(p)
    PROVE  TransportInv' /\ Grows
<1>1. PICK n \in Local(p) .. (Span - 1) : \E pads \in [Frame -> Pad] : StoreLocal(p, n, pads)
  BY DEF CallerStep
<1>2. PICK pads \in [Frame -> Pad] : StoreLocal(p, n, pads)
  BY <1>1
<1>3. /\ game[p] \in Game /\ Local(p) = localLatest[p][game[p]]
      /\ Local(p) \in 0 .. Span - 1 /\ n \in 0 .. Span - 1 /\ Local(p) <= n
  BY <1>1, SizeAssumption DEF TransportInv, TransportTypeOK, StateTypeOK, Local
<1>4. /\ \A pp \in Slot : \A gg \in Game :
             localLatest'[pp][gg] =
                 IF pp = p /\ gg = game[p] THEN n ELSE localLatest[pp][gg]
      /\ \A pp \in Slot : \A gg \in Game : \A h \in Frame :
             localPad'[pp][gg][h] =
                 IF pp = p /\ gg = game[p] /\ h > Local(p) /\ h <= n
                 THEN pads[h] ELSE localPad[pp][gg][h]
  BY <1>2, <1>3 DEF StoreLocal, TransportInv, TransportTypeOK, StateTypeOK
<1>5. /\ localLatest' \in [Slot -> [Game -> 0 .. Span - 1]]
      /\ localPad' \in [Slot -> [Game -> [Frame -> Pad]]]
  <2>1. [f \in Frame |-> IF f > Local(p) /\ f <= n THEN pads[f]
                         ELSE localPad[p][game[p]][f]] \in [Frame -> Pad]
    BY <1>3 DEF TransportInv, TransportTypeOK, StateTypeOK
  <2> QED BY <1>2, <1>3, <2>1 DEF StoreLocal, TransportInv, TransportTypeOK, StateTypeOK
<1>6. UNCHANGED <<game, remoteLatest, remotePad, peerAck, newestSeen,
                  remoteChecksumFrame, stats, acks>>
  BY DEF CallerStep
<1>7. Grows
  <2> SUFFICES ASSUME NEW pp \in Slot, NEW gg \in Game
               PROVE  /\ localLatest[pp][gg] <= localLatest'[pp][gg]
                      /\ remoteLatest[pp][gg] <= remoteLatest'[pp][gg]
                      /\ \A h \in Frame :
                            /\ h <= localLatest[pp][gg] =>
                                   localPad'[pp][gg][h] = localPad[pp][gg][h]
                            /\ h <= remoteLatest[pp][gg] =>
                                   remotePad'[pp][gg][h] = remotePad[pp][gg][h]
    BY DEF Grows
  <2>1. localLatest[pp][gg] \in Int /\ remoteLatest[pp][gg] \in Int
    BY SizeAssumption DEF TransportInv, TransportTypeOK, StateTypeOK
  <2>2. \A h \in Frame : h <= localLatest[pp][gg] =>
            localPad'[pp][gg][h] = localPad[pp][gg][h]
    BY <1>3, <1>4, <2>1, SizeAssumption DEF Frame
  <2> QED BY <1>3, <1>4, <1>6, <2>1, <2>2
\* Types, with the message just sent left for later: it is built from the new state.
<1>8. ASSUME TransportTypeOK' PROVE MessagesSound'
  <2>1. /\ \A c \in commits : CommitMeans(c)'
        /\ \A a \in acks : AckMeans(a)'
    BY <1>7, <1>8, MeaningStable DEF TransportInv, MessagesSound
  <2>2. BuiltCommitsSound'
    BY <1>8, StateTyped, BuildCommitSound, PTL
  <2>3. Local(p)' >= 1 => CommitMeans(CommitMessage(p))'
    BY <2>2 DEF BuiltCommitsSound
  <2>4. \A c \in commits' : CommitMeans(c)'
    BY <2>1, <2>3 DEF CallerStep
  <2> QED BY <1>6, <2>1, <2>4 DEF MessagesSound
<1>9. TransportTypeOK'
  <2>1. /\ game' \in [Slot -> Game]
        /\ remoteLatest' \in [Slot -> [Game -> 0 .. Span - 1]]
        /\ remotePad'    \in [Slot -> [Game -> [Frame -> Pad]]]
        /\ peerAck' \in [Slot -> 0 .. Span - 1]
        /\ floor' \in [Slot -> 0 .. Span - 1]
        /\ newestSeen' \in [Slot -> 0 .. Span - 1]
        /\ checksumFrame' \in [Slot -> 0 .. Span - 1]
        /\ remoteChecksumFrame' \in [Slot -> 0 .. Span - 1]
        /\ stats' \in [Slot -> SUBSET Fault]
        /\ \A m \in acks' : m.from \in Slot /\ m.ack \in Nat
    BY <1>6 DEF CallerStep, TransportInv, TransportTypeOK, StateTypeOK
  <2>2. Local(p)' >= 1 => MessageOK(CommitMessage(p)')
    <3>1. StateTypeOK'
      BY <1>5, <2>1 DEF StateTypeOK
    <3>2. BuiltCommitsSound'
      BY <3>1, BuildCommitSound, PTL
    <3> QED BY <3>2 DEF BuiltCommitsSound, MessageOK
  <2>3. \A m \in commits' : MessageOK(m)
    BY <2>2 DEF CallerStep, TransportInv, TransportTypeOK, StateTypeOK
  <2> QED BY <1>5, <2>1, <2>3 DEF TransportTypeOK, StateTypeOK
<1>10. PadAgreement'
  <2> SUFFICES ASSUME NEW pp \in Slot, NEW gg \in Game
               PROVE  /\ remoteLatest[pp][gg] <= localLatest'[Other(pp)][gg]
                      /\ \A h \in Frame : h <= remoteLatest[pp][gg] =>
                            remotePad[pp][gg][h] = localPad'[Other(pp)][gg][h]
    BY <1>6 DEF PadAgreement
  <2>1. /\ remoteLatest[pp][gg] <= localLatest[Other(pp)][gg]
        /\ \A h \in Frame : h <= remoteLatest[pp][gg] =>
              remotePad[pp][gg][h] = localPad[Other(pp)][gg][h]
    BY DEF TransportInv, PadAgreement
  <2>2. /\ Other(pp) \in Slot /\ remoteLatest[pp][gg] \in Int
        /\ localLatest[Other(pp)][gg] \in Int /\ localLatest'[Other(pp)][gg] \in Int
    BY <1>5, OtherSlot, SizeAssumption DEF TransportInv, TransportTypeOK, StateTypeOK
  <2>3. \A h \in Frame : h <= remoteLatest[pp][gg] => h <= localLatest[Other(pp)][gg]
    BY <2>1, <2>2, SizeAssumption DEF Frame
  <2> QED BY <1>7, <2>1, <2>2, <2>3 DEF Grows
<1>11. AckSound' /\ NoFalseFault'
  BY <1>6 DEF TransportInv, AckSound, NoFalseFault
<1> QED BY <1>7, <1>8, <1>9, <1>10, <1>11 DEF TransportInv

-----------------------------------------------------------------------------
(* The transport under a free caller.                                       *)

LEMMA TransportInitInv == TransportInit => TransportInv
<1> SUFFICES ASSUME TransportInit PROVE TransportInv
  OBVIOUS
<1>1. 0 \in 0 .. Span - 1 /\ 1 \in Game
  BY SizeAssumption DEF Game
<1>2. TransportTypeOK
  BY <1>1, PadAssumption DEF TransportInit, TransportTypeOK, StateTypeOK
<1>3. PadAgreement
  <2>1. \A p \in Slot : \A g \in Game :
            remoteLatest[p][g] = 0 /\ localLatest[Other(p)][g] = 0
    BY OtherSlot DEF TransportInit
  <2>2. \A f \in Frame : ~(f <= 0)
    BY SizeAssumption DEF Frame
  <2> QED BY <2>1, <2>2 DEF PadAgreement
<1>4. AckSound
  BY <1>1, OtherSlot DEF TransportInit, AckSound
<1>5. NoFalseFault /\ MessagesSound
  BY DEF TransportInit, NoFalseFault, MessagesSound
<1> QED BY <1>2, <1>3, <1>4, <1>5 DEF TransportInv

LEMMA TransportNextInv ==
    ASSUME TransportInv, TransportNext
    PROVE  TransportInv' /\ Grows
<1>1. PICK p \in Slot : \/ Commit(p)  \/ Send(p)  \/ SetFloor(p)
                        \/ SetChecksum(p) \/ Receive(p) \/ Reset(p)
  BY DEF TransportNext
<1>2. /\ game[p] \in Game /\ Local(p) \in 0 .. Span - 1
      /\ localPad[p][game[p]] \in [Frame -> Pad]
      /\ floor \in [Slot -> 0 .. Span - 1] /\ checksumFrame \in [Slot -> 0 .. Span - 1]
  BY DEF TransportInv, TransportTypeOK, StateTypeOK, Local
\* A call that commits nothing stores the frames already there.
<1>3. ASSUME UNCHANGED <<localLatest, localPad>>
      PROVE  \E n \in Local(p) .. (Span - 1) : \E pads \in [Frame -> Pad] :
                 StoreLocal(p, n, pads)
  <2>1. localPad[p][game[p]] =
            [f \in Frame |-> IF f > Local(p) /\ f <= Local(p)
                             THEN localPad[p][game[p]][f] ELSE localPad[p][game[p]][f]]
    BY <1>2
  <2>2. StoreLocal(p, Local(p), localPad[p][game[p]])
    BY <1>2, <1>3, <2>1 DEF StoreLocal, Local, TransportInv, TransportTypeOK, StateTypeOK
  <2>3. Local(p) \in Local(p) .. (Span - 1)
    BY <1>2, SizeAssumption
  <2> QED BY <1>2, <2>2, <2>3
<1>4. CASE Commit(p)
  <2>1. Local(p) + 1 \in Local(p) .. (Span - 1)
    BY <1>2, <1>4, SizeAssumption DEF Commit, MayCommit
  <2>2. \E pads \in [Frame -> Pad] : StoreLocal(p, Local(p) + 1, pads)
    BY <1>4 DEF Commit
  <2>3. CallerStep(p)
    BY <1>2, <1>4, <2>1, <2>2 DEF Commit, CallerStep
  <2> QED BY <2>3, CallerStepInv
<1>5. CASE Send(p)
  <2>1. CommitMessage(p)' = CommitMessage(p) /\ Local(p)' >= 1
    BY <1>5 DEF Send, CommitMessage, CarriedPads, Local, Remote
  <2>2. CallerStep(p)
    BY <1>2, <1>3, <1>5, <2>1 DEF Send, CallerStep, Sending
  <2> QED BY <2>2, CallerStepInv
<1>6. CASE SetFloor(p)
  <2>1. floor' \in [Slot -> 0 .. Span - 1]
    BY <1>2, <1>6, SizeAssumption DEF SetFloor, Frame
  <2>2. CallerStep(p)
    BY <1>2, <1>3, <1>6, <2>1 DEF SetFloor, CallerStep
  <2> QED BY <2>2, CallerStepInv
<1>7. CASE SetChecksum(p)
  <2>1. checksumFrame' \in [Slot -> 0 .. Span - 1]
    <3>1. floor[p] \in 0 .. Span - 1
      BY <1>2
    <3>2. \A f \in 0 .. floor[p] : f \in 0 .. Span - 1
      BY <3>1, SizeAssumption
    <3> QED BY <1>2, <1>7, <3>2 DEF SetChecksum
  <2>2. CallerStep(p)
    BY <1>2, <1>3, <1>7, <2>1 DEF SetChecksum, CallerStep
  <2> QED BY <2>2, CallerStepInv
<1>8. CASE Receive(p)
  BY <1>8, OnMessageStep DEF Receive
<1>9. CASE Reset(p)
  BY <1>9, ResetStep
<1> QED BY <1>1, <1>4, <1>5, <1>6, <1>7, <1>8, <1>9

LEMMA TransportStutter ==
    TransportInv /\ UNCHANGED transportVars => TransportInv'
<1> SUFFICES ASSUME TransportInv, UNCHANGED transportVars
             PROVE  TransportInv'
  OBVIOUS
<1>1. TransportTypeOK' /\ PadAgreement' /\ AckSound' /\ NoFalseFault'
  BY DEF TransportInv, TransportTypeOK, StateTypeOK, PadAgreement, AckSound, NoFalseFault,
         transportVars
<1>2. MessagesSound'
  BY DEF TransportInv, MessagesSound, CommitMeans, AckMeans, transportVars
<1> QED BY <1>1, <1>2 DEF TransportInv

LEMMA TransportInvariant == TransportSpec => []TransportInv
<1>1. TransportInv /\ [TransportNext]_transportVars => TransportInv'
  BY TransportNextInv, TransportStutter
<1> QED BY <1>1, TransportInitInv, PTL DEF TransportSpec

\* Every member keeps its range whatever the caller and the network do.
THEOREM TransportTypeCorrect == TransportSpec => []TransportTypeOK
<1>1. TransportInv => TransportTypeOK
  BY DEF TransportInv
<1> QED BY <1>1, TransportInvariant, PTL

\* Loss, repetition, reordering and a peer that is a game ahead never make a
\* pad held differ from the pad committed (on_commit).
THEOREM PadsAgree == TransportSpec => []PadAgreement
<1>1. TransportInv => PadAgreement
  BY DEF TransportInv
<1> QED BY <1>1, TransportInvariant, PTL

\* An acknowledgment never claims more than the other side of that game holds.
THEOREM AcksSound == TransportSpec => []AckSound
<1>1. TransportInv => AckSound
  BY DEF TransportInv
<1> QED BY <1>1, TransportInvariant, PTL

\* Two peers that run this code never count a conflict or a malformed message.
THEOREM FaultsReal == TransportSpec => []NoFalseFault
<1>1. TransportInv => NoFalseFault
  BY DEF TransportInv
<1> QED BY <1>1, TransportInvariant, PTL

\* What was committed or confirmed stays, in every step (commit, on_commit).
THEOREM CommitsStand == TransportSpec => FirstCommitStands
<1>1. TransportInv /\ TransportNext => Grows
  BY TransportNextInv
<1>2. TransportInv /\ UNCHANGED transportVars => Grows
  <2> SUFFICES ASSUME TransportInv, UNCHANGED transportVars PROVE Grows
    OBVIOUS
  <2>1. \A p \in Slot : \A g \in Game :
            localLatest[p][g] \in Int /\ remoteLatest[p][g] \in Int
    BY SizeAssumption DEF TransportInv, TransportTypeOK, StateTypeOK
  <2> QED BY <2>1 DEF Grows, transportVars
<1> QED BY <1>1, <1>2, TransportInvariant, PTL DEF FirstCommitStands, TransportSpec

-----------------------------------------------------------------------------
(* The session *)

\* Where a game stands: one commit per frame run and the delay, the finalized
\* frame behind the confirmed one, and that behind what the peer has committed.
PacedPeer(p) ==
    /\ Local(p) = frame[p] - 1 + delay[p]
    /\ floor[p] <= confirmed[p]
    /\ confirmed[p] <= Remote(p)
    /\ confirmed[p] < frame[p]
    /\ frame[p] - 1 - confirmed[p] <= Horizon
    /\ frame[p] - 1 - floor[p] <= Horizon + 1
    /\ phase[p] = "Ready" => frame[p] = 1 /\ delay[p] = 0

Paced == \A p \in Slot : PacedPeer(p)

LagBounded ==
    \A p \in Slot : \A g \in Game :
        localLatest[p][g] - remoteLatest[p][g] <= Horizon + MaxDelay

\* Nothing is there yet of a game that a peer has not begun.
LaterGamesEmpty ==
    \A p \in Slot : \A g \in Game : g > game[p] =>
        localLatest[p][g] = 0 /\ remoteLatest[p][g] = 0 /\ transcriptFrames[p][g] = 0

\* The frame after the newest the receiver holds is among those m carries.
Reaches(m) ==
    \A g \in Game : InGame(m.frame, g) =>
        m.frame - Base(g) - m.count <= remoteLatest[Other(m.from)][g]

CommitsReach == \A m \in commits : Reaches(m)

NoFault == \A p \in Slot : stats[p] = {}

\* The transcript of the game being played is as long as it can be.
TranscriptsCurrent ==
    \A p \in Slot :
        /\ transcriptOk[p]
        /\ transcriptFrames[p][game[p]] = Smaller(Local(p), Remote(p))

\* A transcript has the pads both peers committed, slot 0's first.
TranscriptTrue(p, g) ==
    /\ transcriptFrames[p][g] <= localLatest[p][g]
    /\ transcriptFrames[p][g] <= remoteLatest[p][g]
    /\ \A f \in Frame : f <= transcriptFrames[p][g] =>
           transcriptPad[p][g][f] = <<localPad[0][g][f], localPad[1][g][f]>>

TranscriptsTrue == \A p \in Slot : \A g \in Game : TranscriptTrue(p, g)

\* TypeOK without the transport's part.
RunTypeOK ==
    /\ phase \in [Slot -> Phase]
    /\ frame \in [Slot -> 1 .. MaxFrame + 1]
    /\ confirmed \in [Slot -> 0 .. MaxFrame]
    /\ delay \in [Slot -> 0 .. MaxDelay]
    /\ waiting \in [Slot -> BOOLEAN]
    /\ shedding \in [Slot -> BOOLEAN]
    /\ toShed \in [Slot -> 0 .. MaxShed]
    /\ peerGone \in [Slot -> BOOLEAN]

TranscriptTypeOK ==
    /\ transcriptFrames \in [Slot -> [Game -> 0 .. Span - 1]]
    /\ transcriptPad \in [Slot -> [Game -> [Frame -> Pad \X Pad]]]
    /\ transcriptOk \in [Slot -> BOOLEAN]

RunInv == RunTypeOK /\ Paced /\ LagBounded

TranscriptInv == TranscriptTypeOK /\ TranscriptsCurrent /\ TranscriptsTrue

\* The inductive invariant.
RollbackInv ==
    /\ TransportInv
    /\ RunInv
    /\ LaterGamesEmpty
    /\ CommitsReach
    /\ NoFault
    /\ TranscriptInv

-----------------------------------------------------------------------------
(* Arithmetic of the sizes. *)

LEMMA Sizes ==
    /\ Horizon \in Nat /\ Horizon >= 2
    /\ MaxDelay \in Nat /\ MaxDelay >= 1
    /\ MaxFrame \in Nat /\ MaxFrame + MaxDelay < Span /\ MaxFrame < Span
    /\ MaxHistory \in Nat /\ PadRing \in Nat /\ MaxLead \in Nat /\ Span \in Nat /\ Span > 1
    /\ MaxShed \in Nat
    /\ 2 * Horizon + 2 * MaxDelay <= MaxHistory
    /\ 2 * Horizon + 2 * MaxDelay < MaxLead
    /\ MaxLead <= PadRing
<1>1. /\ Horizon \in Nat /\ Horizon >= 2
      /\ MaxDelay \in Nat /\ MaxDelay >= 1
      /\ MaxFrame \in Nat /\ MaxFrame + MaxDelay < Span
      /\ MaxShed \in Nat
  BY RollbackAssumption
<1>2. MaxHistory \in Nat /\ PadRing \in Nat /\ MaxLead \in Nat /\ Span \in Nat /\ Span > 1
  BY SizeAssumption
<1>3. MaxFrame < Span
  BY <1>1, <1>2
<1>4. 2 * (Horizon + MaxDelay) = 2 * Horizon + 2 * MaxDelay
  BY <1>1
<1> QED BY <1>1, <1>2, <1>3, <1>4, SizesFit

LEMMA GamesAndFrames ==
    ASSUME StateTypeOK
    PROVE  /\ \A p \in Slot : /\ game[p] \in Game /\ Other(p) \in Slot /\ Other(Other(p)) = p
                              /\ Local(p) \in 0 .. Span - 1 /\ Local(p) \in Int
                              /\ Remote(p) \in 0 .. Span - 1 /\ Remote(p) \in Int
                              /\ peerAck[p] \in Nat /\ floor[p] \in Nat
           /\ \A p \in Slot : \A g \in Game :
                  localLatest[p][g] \in Nat /\ remoteLatest[p][g] \in Nat
<1>1. Span - 1 \in Nat
  BY SizeAssumption
<1>2. \A n \in 0 .. Span - 1 : n \in Nat /\ n \in Int
  BY <1>1
<1>3. \A p \in Slot : \A g \in Game :
          localLatest[p][g] \in 0 .. Span - 1 /\ remoteLatest[p][g] \in 0 .. Span - 1
  BY DEF StateTypeOK
<1>4. \A p \in Slot : /\ game[p] \in Game
                      /\ peerAck[p] \in 0 .. Span - 1 /\ floor[p] \in 0 .. Span - 1
  BY DEF StateTypeOK
<1> QED BY <1>2, <1>3, <1>4, OtherSlot DEF Local, Remote

\* How far one peer can be ahead of the other, and of what the other holds of it.
LeadBounded ==
    \A p \in Slot : \A g \in Game :
        /\ localLatest[Other(p)][g] <= localLatest[p][g] + Horizon + MaxDelay
        /\ localLatest[Other(p)][g] <= remoteLatest[p][g] + 2 * Horizon + 2 * MaxDelay

LEMMA PeerLead == TransportInv /\ LagBounded => LeadBounded
<1> SUFFICES ASSUME TransportInv, LagBounded, NEW p \in Slot, NEW g \in Game
             PROVE  /\ localLatest[Other(p)][g] <= localLatest[p][g] + Horizon + MaxDelay
                    /\ localLatest[Other(p)][g] <= remoteLatest[p][g] + 2 * Horizon + 2 * MaxDelay
  BY DEF LeadBounded
<1> DEFINE q == Other(p)
<1>1. /\ q \in Slot /\ Other(q) = p
      /\ localLatest[p][g] \in Nat /\ remoteLatest[p][g] \in Nat
      /\ localLatest[q][g] \in Nat /\ remoteLatest[q][g] \in Nat
  BY OtherSlot, GamesAndFrames DEF TransportInv, TransportTypeOK
<1> HIDE DEF q
<1>2. /\ localLatest[q][g] - remoteLatest[q][g] <= Horizon + MaxDelay
      /\ localLatest[p][g] - remoteLatest[p][g] <= Horizon + MaxDelay
  BY <1>1 DEF LagBounded
<1>3. remoteLatest[q][g] <= localLatest[p][g]
  BY <1>1 DEF TransportInv, PadAgreement
<1>4. /\ localLatest[q][g] <= localLatest[p][g] + Horizon + MaxDelay
      /\ localLatest[q][g] <= remoteLatest[p][g] + 2 * Horizon + 2 * MaxDelay
  BY <1>1, <1>2, <1>3, Sizes
<1> QED BY <1>4 DEF q

\* What a peer is paced by keeps it within reach of what it holds of the other.
LagInGame == \A p \in Slot : Local(p) - Remote(p) <= Horizon + MaxDelay

LEMMA PacedLag == StateTypeOK /\ RunTypeOK /\ Paced => LagInGame
<1> SUFFICES ASSUME StateTypeOK, RunTypeOK, Paced, NEW p \in Slot
             PROVE  Local(p) - Remote(p) <= Horizon + MaxDelay
  BY DEF LagInGame
<1>1. /\ Local(p) \in Int /\ Remote(p) \in Int
      /\ frame[p] \in Int /\ delay[p] \in Int /\ delay[p] <= MaxDelay
      /\ confirmed[p] \in Int
  BY GamesAndFrames, Sizes DEF RunTypeOK
<1>2. /\ Local(p) = frame[p] - 1 + delay[p] /\ confirmed[p] <= Remote(p)
      /\ frame[p] - 1 - confirmed[p] <= Horizon
  BY DEF Paced, PacedPeer
<1> QED BY <1>1, <1>2, Sizes

-----------------------------------------------------------------------------
(* Messages reach back far enough. *)

\* A COMMIT starts after what was acknowledged, or MaxHistory frames back, which
\* is still not past what the receiver holds.
LEMMA BuiltReaches ==
    TransportInv /\ LagBounded =>
        \A p \in Slot : Local(p) >= 1 => Reaches(CommitMessage(p))
<1> SUFFICES ASSUME TransportInv, LagBounded, NEW p \in Slot, Local(p) >= 1,
                    NEW h \in Game, InGame(CommitMessage(p).frame, h)
             PROVE  CommitMessage(p).frame - Base(h) - CommitMessage(p).count
                        <= remoteLatest[Other(p)][h]
  <2>1. \A p \in Slot : CommitMessage(p).from = p
    BY DEF CommitMessage
  <2> QED BY <2>1 DEF Reaches
<1> DEFINE g      == game[p]
           latest == Local(p)
           oldest == OldestCarried(latest, peerAck[p])
<1>1. /\ g \in Game /\ latest \in Nat /\ latest <= Span - 1 /\ Other(p) \in Slot
      /\ Other(Other(p)) = p
      /\ latest = localLatest[p][g] /\ remoteLatest[Other(p)][g] \in Nat
      /\ peerAck[p] \in Nat /\ Base(g) \in Nat
  BY GamesAndFrames, Sizes, BaseNat DEF TransportInv, TransportTypeOK, Local
<1>2. /\ CommitMessage(p).frame = Base(g) + latest
      /\ CommitMessage(p).count = latest - oldest + 1
  BY DEF CommitMessage
<1>3. oldest \in 1 .. latest
  BY <1>1, OldestCarriedBounds
<1>4. oldest - 1 <= remoteLatest[Other(p)][g]
  <2>1. peerAck[p] <= remoteLatest[Other(p)][g]
    BY DEF TransportInv, AckSound
  <2>2. latest <= remoteLatest[Other(p)][g] + 2 * Horizon + 2 * MaxDelay
    BY <1>1, PeerLead DEF LeadBounded
  <2>3. latest - MaxHistory <= remoteLatest[Other(p)][g]
    BY <1>1, <2>2, Sizes
  <2> QED BY <1>1, <2>1, <2>3, Sizes DEF OldestCarried, Larger, Smaller
<1> HIDE DEF g, latest, oldest
<1>5. h = g
  <2>1. AckInGame(CommitMessage(p).frame, g) /\ CommitMessage(p).frame \in Int
    BY <1>1, <1>2, Sizes DEF AckInGame
  <2>2. AckInGame(CommitMessage(p).frame, h)
    BY <2>1, InGameIsAckInGame
  <2> QED BY <1>1, <2>1, <2>2, OneGame
<1>6. CommitMessage(p).frame - Base(h) - CommitMessage(p).count = oldest - 1
  BY <1>1, <1>2, <1>3, <1>5
<1> QED BY <1>4, <1>5, <1>6

\* It goes on reaching: the receiver only ever holds more.
LEMMA ReachesStable ==
    ASSUME TransportTypeOK, TransportTypeOK', Grows, NEW m \in commits, Reaches(m)
    PROVE  Reaches(m)'
<1>1. MessageOK(m)
  BY DEF TransportTypeOK
<1>2. /\ m.from \in Slot /\ Other(m.from) \in Slot
      /\ m.frame \in Int /\ m.count \in Int
  BY <1>1, OtherSlot, Sizes DEF MessageOK
<1>3. \A g \in Game : /\ remoteLatest[Other(m.from)][g] \in Nat
                      /\ remoteLatest'[Other(m.from)][g] \in Nat
                      /\ remoteLatest[Other(m.from)][g] <= remoteLatest'[Other(m.from)][g]
                      /\ Base(g) \in Nat
  <2>1. \A n \in 0 .. Span - 1 : n \in Nat
    BY Sizes
  <2> QED BY <1>2, <2>1, BaseNat DEF TransportTypeOK, StateTypeOK, Grows
<1> QED BY <1>2, <1>3 DEF Reaches

\* A COMMIT that is taken shows neither a gap nor a frame past the limit.
LEMMA NothingToCount ==
    ASSUME RollbackInv, NEW p \in Slot, NEW m \in commits,
           m.from = Other(p), CommitIsOurs(p, m)
    PROVE  CommitFaults(p, m) = {}
<1> DEFINE g == game[p]
           q == Other(p)
           f == m.frame - Base(g)
<1>1. /\ g \in Game /\ q \in Slot /\ Other(q) = p /\ Base(g) \in Nat
      /\ Local(p) = localLatest[p][g] /\ Remote(p) = remoteLatest[p][g]
      /\ Local(p) \in Nat /\ Remote(p) \in Nat /\ localLatest[q][g] \in Nat
      /\ floor[p] \in Nat
  BY GamesAndFrames, BaseNat, Sizes
     DEF RollbackInv, TransportInv, TransportTypeOK, Local, Remote
<1>2. /\ MessageOK(m) /\ CommitMeans(m) /\ Reaches(m) /\ InGame(m.frame, g)
  BY DEF RollbackInv, TransportInv, TransportTypeOK, MessagesSound, CommitsReach, CommitIsOurs
<1>3. /\ m.count \in Nat /\ m.frame \in Nat /\ f \in Int
      /\ f <= localLatest[q][g] /\ f - m.count <= Remote(p)
  <2>1. m.count \in Nat /\ m.frame \in Nat
    BY <1>2, Sizes DEF MessageOK
  <2>2. f <= localLatest[q][g]
    BY <1>1, <1>2 DEF CommitMeans
  <2>3. m.frame - Base(g) - m.count <= remoteLatest[Other(m.from)][g]
    BY <1>1, <1>2 DEF Reaches
  <2> QED BY <1>1, <2>1, <2>2, <2>3
<1>4. ~CommitGap(p, m)
  BY <1>1, <1>3 DEF CommitGap
<1>5. ~(f > Larger(Remote(p), Limit(p)))
  <2>1. localLatest[q][g] <= Local(p) + Horizon + MaxDelay
    BY <1>1, PeerLead DEF RollbackInv, RunInv, LeadBounded
  <2>2. /\ Local(p) = frame[p] - 1 + delay[p] /\ frame[p] - 1 - floor[p] <= Horizon + 1
        /\ delay[p] \in Int /\ delay[p] <= MaxDelay /\ frame[p] \in Int
    BY Sizes DEF RollbackInv, RunInv, RunTypeOK, Paced, PacedPeer
  <2>3. f <= Limit(p) /\ Limit(p) \in Int
    BY <1>1, <1>3, <2>1, <2>2, Sizes DEF Limit
  <2> QED BY <1>1, <1>3, <2>3 DEF Larger
<1>6. CommitFaults(p, m) \subseteq {"gap", "tooFar"}
  BY TakenFrames DEF RollbackInv
<1> QED BY <1>4, <1>5, <1>6 DEF CommitFaults

-----------------------------------------------------------------------------
(* A call of the game: inputs(). *)

LEMMA CommitThroughStores ==
    ASSUME StateTypeOK, NEW p \in Slot, NEW n \in Local(p) .. Span - 1, NEW target,
           NEW pad \in Pad, CommitThrough(p, n, target, pad), game' = game
    PROVE  /\ \E pads \in [Frame -> Pad] : StoreLocal(p, n, pads)
           /\ Local(p)' = n
           /\ \A q \in Slot : q # p => Local(q)' = Local(q)
<1> DEFINE last == IF Local(p) = 0 THEN NoPad ELSE localPad[p][game[p]][Local(p)]
           pads == [f \in Frame |-> IF f = target THEN pad ELSE last]
<1>1. StoreLocal(p, n, pads)
  BY DEF CommitThrough
<1>2. last \in Pad
  <2>1. Local(p) = 0 \/ Local(p) \in Frame
    BY GamesAndFrames, Sizes DEF Frame
  <2>2. localPad[p][game[p]] \in [Frame -> Pad]
    BY GamesAndFrames DEF StateTypeOK
  <2> QED BY <2>1, <2>2, PadAssumption
<1>3. pads \in [Frame -> Pad]
  BY <1>2
<1>4. /\ localLatest' = [localLatest EXCEPT ![p][game[p]] = n]
      /\ game[p] \in Game
  BY <1>1, GamesAndFrames DEF StoreLocal
<1>5. Local(p)' = n
  BY <1>4 DEF Local, StateTypeOK
<1>6. \A q \in Slot : q # p => Local(q)' = Local(q)
  BY <1>4 DEF Local, StateTypeOK
<1> QED BY <1>1, <1>3, <1>5, <1>6

\* What a call leaves: the frame held or run, the commits up to the delay past it,
\* the floor at what was confirmed before, and a frame that could be run.
CallEffect(p) ==
    /\ CallerStep(p)
    /\ floor'[p] = confirmed[p]
    /\ frame'[p] \in {frame[p], frame[p] + 1}
    /\ Local(p)' = frame'[p] - 1 + delay'[p]
    /\ confirmed'[p] \in confirmed[p] .. Remote(p)
    /\ confirmed'[p] < frame'[p]
    /\ frame'[p] - 1 - confirmed'[p] <= Horizon
    /\ phase'[p] # "Ready"
    /\ \A q \in Slot : q # p => /\ Local(q)' = Local(q)
                                /\ floor'[q] = floor[q]
                                /\ frame'[q] = frame[q]
                                /\ confirmed'[q] = confirmed[q]
                                /\ delay'[q] = delay[q]
                                /\ phase'[q] = phase[q]

\* The window shows the game no frame past what is held.
LEMMA WindowHeld ==
    ASSUME NEW held \in Nat, NEW fl \in Nat
    PROVE  WindowLatest(held, fl) \in 0 .. held
  BY Sizes DEF WindowLatest, WindowBase, Larger, Smaller

LEMMA InputsEffect ==
    ASSUME RollbackInv, NEW p \in Slot, Inputs(p)
    PROVE  RunTypeOK' /\ CallEffect(p)
<1> DEFINE F == frame[p]
           C == confirmed[p]
           R == Remote(p)
<1>1. /\ F \in Nat /\ F >= 1 /\ F <= MaxFrame /\ C \in Nat /\ C <= MaxFrame
      /\ delay[p] \in Nat /\ delay[p] <= MaxDelay
      /\ R \in Nat /\ Local(p) \in Nat /\ floor[p] \in Nat
      /\ game[p] \in Game
  BY GamesAndFrames, Sizes
     DEF RollbackInv, RunInv, RunTypeOK, TransportInv, TransportTypeOK, Inputs
<1>2. /\ Local(p) = F - 1 + delay[p] /\ floor[p] <= C /\ C <= R /\ C < F /\ F - 1 - C <= Horizon
      /\ phase[p] = "Ready" => F = 1 /\ delay[p] = 0
  BY DEF RollbackInv, RunInv, Paced, PacedPeer
<1>3. /\ floor' = [floor EXCEPT ![p] = Larger(floor[p], C)]
      /\ phase' = [phase EXCEPT ![p] = IF phase[p] = "Ready" THEN "Playing" ELSE phase[p]]
      /\ UNCHANGED <<game, remoteLatest, remotePad, peerAck, newestSeen,
                     remoteChecksumFrame, stats, acks>>
      /\ SendCommit(p)
  BY DEF Inputs
<1>4. PICK d \in DelayTaken(p), pad \in Pad :
          /\ delay' = [delay EXCEPT ![p] = d]
          /\ IF MustWait(F, WindowLatest(R, floor'[p]))
             THEN HoldFrame(p, d)
             ELSE ShedFrame(p, d) \/ RunFrame(p, d, pad)
  BY DEF Inputs
<1>5. /\ d \in Nat /\ d <= MaxDelay
      /\ Larger(Local(p), d) = F - 1 + d
      /\ Larger(Local(p), F + d) = F + d
      /\ F - 1 + d \in Local(p) .. Span - 1
      /\ F + d \in Local(p) .. Span - 1
  <2>1. \/ phase[p] = "Ready" /\ d \in 1 .. MaxDelay
        \/ phase[p] # "Ready" /\ d = delay[p]
    BY <1>4 DEF DelayTaken
  <2>2. d \in Nat /\ d <= MaxDelay
    BY <1>1, <2>1, Sizes
  <2>3. phase[p] # "Ready" => Local(p) = F - 1 + d
    BY <1>2, <2>1
  <2>4. phase[p] = "Ready" => Local(p) = 0 /\ F = 1
    BY <1>1, <1>2
  <2> QED BY <1>1, <2>2, <2>3, <2>4, Sizes DEF Larger
<1>6. floor' = [floor EXCEPT ![p] = C] /\ floor'[p] = C
  <2>1. Larger(floor[p], C) = C
    BY <1>1, <1>2 DEF Larger
  <2>2. floor' = [floor EXCEPT ![p] = C]
    BY <1>3, <2>1
  <2> QED BY <2>2 DEF RollbackInv, TransportInv, TransportTypeOK, StateTypeOK
<1> DEFINE latest == WindowLatest(R, C)
<1>7. latest \in 0 .. R
  BY <1>1, WindowHeld
<1> HIDE DEF F, C, R, latest
\* The frame is held, by the stall rule or by time sync.
<1>8. ASSUME HoldFrame(p, d) \/ ShedFrame(p, d)
      PROVE  /\ CommitThrough(p, F - 1 + d, 0, NoPad)
             /\ UNCHANGED <<checksumFrame, frame, confirmed>>
             /\ RunTypeOK'
  <2>1. /\ CommitThrough(p, F - 1 + d, 0, NoPad)
        /\ UNCHANGED <<checksumFrame, frame, confirmed>>
    BY <1>5, <1>8 DEF HoldFrame, ShedFrame
  <2>2. waiting' \in [Slot -> BOOLEAN] /\ shedding' \in [Slot -> BOOLEAN]
    BY <1>8 DEF HoldFrame, ShedFrame, RollbackInv, RunInv, RunTypeOK
  <2>3. peerGone' \in [Slot -> BOOLEAN]
    <3>1. (MayLeave /\ waiting[p]) \in BOOLEAN
      BY DEF RollbackInv, RunInv, RunTypeOK
    <3> QED BY <1>8, <3>1 DEF HoldFrame, ShedFrame, RollbackInv, RunInv, RunTypeOK
  <2>4. toShed' \in [Slot -> 0 .. MaxShed]
    <3>1. CASE HoldFrame(p, d)
      BY <3>1 DEF HoldFrame, RollbackInv, RunInv, RunTypeOK
    <3>2. CASE ShedFrame(p, d)
      <4>1. toShed[p] \in 0 .. MaxShed
        BY DEF RollbackInv, RunInv, RunTypeOK
      <4>2. \E n \in 0 .. MaxShed : toShed' = [toShed EXCEPT ![p] = n]
        <5>1. CASE toShed[p] > 0 /\ toShed' = [toShed EXCEPT ![p] = toShed[p] - 1]
          <6>1. toShed[p] - 1 \in 0 .. MaxShed
            BY <4>1, <5>1, Sizes
          <6> QED BY <5>1, <6>1
        <5>2. CASE \E n \in 1 .. MaxShed : toShed' = [toShed EXCEPT ![p] = n - 1]
          <6>1. PICK n \in 1 .. MaxShed : toShed' = [toShed EXCEPT ![p] = n - 1]
            BY <5>2
          <6>2. n - 1 \in 0 .. MaxShed
            BY Sizes
          <6> QED BY <6>1, <6>2
        <5> QED BY <3>2, <5>1, <5>2 DEF ShedFrame
      <4> QED BY <4>2 DEF RollbackInv, RunInv, RunTypeOK
    <3> QED BY <1>8, <3>1, <3>2
  <2>5. phase' \in [Slot -> Phase] /\ delay' \in [Slot -> 0 .. MaxDelay]
    BY <1>3, <1>4, <1>5, Sizes DEF RollbackInv, RunInv, RunTypeOK, Phase
  <2> QED BY <2>1, <2>2, <2>3, <2>4, <2>5 DEF RollbackInv, RunInv, RunTypeOK
\* The frame is run.
<1>9. ASSUME ~MustWait(F, latest), RunFrame(p, d, pad)
      PROVE  /\ CommitThrough(p, F + d, F + d, pad)
             /\ checksumFrame' = [checksumFrame EXCEPT ![p] = C]
             /\ frame' = [frame EXCEPT ![p] = F + 1]
             /\ confirmed' = [confirmed EXCEPT ![p] = Larger(C, Smaller(latest, F))]
             /\ Larger(C, Smaller(latest, F)) \in C .. R
             /\ Larger(C, Smaller(latest, F)) <= F
             /\ F - Larger(C, Smaller(latest, F)) <= Horizon
             /\ RunTypeOK'
  <2>1. /\ CommitThrough(p, F + d, F + d, pad)
        /\ checksumFrame' = [checksumFrame EXCEPT ![p] = C]
        /\ frame' = [frame EXCEPT ![p] = F + 1]
        /\ confirmed' = [confirmed EXCEPT ![p] = Larger(C, Smaller(latest, F))]
        /\ waiting' = [waiting EXCEPT ![p] = FALSE]
        /\ shedding' = [shedding EXCEPT ![p] = FALSE]
        /\ UNCHANGED <<toShed, peerGone>>
    BY <1>5, <1>6, <1>9 DEF RunFrame, F, C, R, latest
  <2>2. latest >= F - Horizon
    BY <1>1, <1>7, <1>9, Sizes DEF MustWait
  <2>3. /\ Larger(C, Smaller(latest, F)) \in C .. R
        /\ Larger(C, Smaller(latest, F)) <= F
        /\ F - Larger(C, Smaller(latest, F)) <= Horizon
    BY <1>1, <1>2, <1>7, <2>2, Sizes DEF Larger, Smaller
  <2>4. F + 1 \in 1 .. MaxFrame + 1 /\ Larger(C, Smaller(latest, F)) \in 0 .. MaxFrame
    BY <1>1, <2>3, Sizes
  <2>5. frame' \in [Slot -> 1 .. MaxFrame + 1] /\ confirmed' \in [Slot -> 0 .. MaxFrame]
    BY <2>1, <2>4 DEF RollbackInv, RunInv, RunTypeOK
  <2>6. phase' \in [Slot -> Phase] /\ delay' \in [Slot -> 0 .. MaxDelay]
    BY <1>3, <1>4, <1>5, Sizes DEF RollbackInv, RunInv, RunTypeOK, Phase
  <2> QED BY <2>1, <2>3, <2>5, <2>6 DEF RollbackInv, RunInv, RunTypeOK
<1>10. \/ HoldFrame(p, d) \/ ShedFrame(p, d)
       \/ ~MustWait(F, latest) /\ RunFrame(p, d, pad)
  BY <1>4, <1>6 DEF F, C, R, latest
\* What both leave.
<1>11. \E n \in Local(p) .. (Span - 1), target \in Int, q \in Pad : CommitThrough(p, n, target, q)
  BY <1>1, <1>5, <1>8, <1>9, <1>10, PadAssumption
<1>12. /\ \E n \in Local(p) .. (Span - 1) : \E pads \in [Frame -> Pad] : StoreLocal(p, n, pads)
       /\ \A q \in Slot : q # p => Local(q)' = Local(q)
  BY <1>3, <1>11, CommitThroughStores DEF RollbackInv, TransportInv, TransportTypeOK
<1>13. CallerStep(p)
  <2>1. floor' \in [Slot -> 0 .. Span - 1] /\ checksumFrame' \in [Slot -> 0 .. Span - 1]
    <3>1. C \in 0 .. Span - 1
      BY <1>1, Sizes
    <3>2. \/ checksumFrame' = checksumFrame
          \/ checksumFrame' = [checksumFrame EXCEPT ![p] = C]
      BY <1>8, <1>9, <1>10
    <3> QED BY <1>6, <3>1, <3>2
            DEF RollbackInv, TransportInv, TransportTypeOK, StateTypeOK
  <2>2. \A m \in commits' : m \in commits \/ (Local(p)' >= 1 /\ m = CommitMessage(p)')
    <3>1. Local(p)' \in Int
      BY <1>1, <1>3, <1>5, <1>8, <1>9, <1>10, CommitThroughStores, PadAssumption
         DEF RollbackInv, TransportInv, TransportTypeOK
    <3> QED BY <1>3, <3>1 DEF SendCommit, Sending
  <2> QED BY <1>3, <1>12, <2>1, <2>2 DEF CallerStep
<1>14. Local(p)' = frame'[p] - 1 + delay'[p]
  <2>1. delay'[p] = d
    BY <1>4 DEF RollbackInv, RunInv, RunTypeOK
  <2>2. CASE HoldFrame(p, d) \/ ShedFrame(p, d)
    <3>1. Local(p)' = F - 1 + d
      BY <1>3, <1>5, <1>8, <2>2, CommitThroughStores, PadAssumption
         DEF RollbackInv, TransportInv, TransportTypeOK
    <3> QED BY <1>8, <2>1, <2>2, <3>1 DEF F
  <2>3. CASE ~MustWait(F, latest) /\ RunFrame(p, d, pad)
    <3>1. Local(p)' = F + d
      BY <1>3, <1>5, <1>9, <2>3, CommitThroughStores
         DEF RollbackInv, TransportInv, TransportTypeOK
    <3>2. frame'[p] = F + 1
      BY <1>9, <2>3 DEF RollbackInv, RunInv, RunTypeOK
    <3> QED BY <1>1, <1>5, <2>1, <3>1, <3>2
  <2> QED BY <1>10, <2>2, <2>3
<1>15. /\ frame'[p] \in {frame[p], frame[p] + 1}
       /\ confirmed'[p] \in confirmed[p] .. Remote(p)
       /\ confirmed'[p] < frame'[p]
       /\ frame'[p] - 1 - confirmed'[p] <= Horizon
  <2>1. CASE HoldFrame(p, d) \/ ShedFrame(p, d)
    BY <1>1, <1>2, <1>8, <2>1 DEF F, C, R
  <2>2. CASE ~MustWait(F, latest) /\ RunFrame(p, d, pad)
    <3>1. frame'[p] = F + 1 /\ confirmed'[p] = Larger(C, Smaller(latest, F))
      BY <1>9, <2>2 DEF RollbackInv, RunInv, RunTypeOK
    <3>2. confirmed'[p] \in C .. R /\ confirmed'[p] <= F /\ F - confirmed'[p] <= Horizon
      BY <1>9, <2>2, <3>1
    <3> QED BY <1>1, <3>1, <3>2, Sizes DEF F, C, R
  <2> QED BY <1>10, <2>1, <2>2
<1>16. phase'[p] # "Ready"
  BY <1>3 DEF RollbackInv, RunInv, RunTypeOK
<1>17. \A q \in Slot : q # p =>
           /\ floor'[q] = floor[q] /\ frame'[q] = frame[q] /\ confirmed'[q] = confirmed[q]
           /\ delay'[q] = delay[q] /\ phase'[q] = phase[q]
  BY <1>3, <1>4, <1>8, <1>9, <1>10
     DEF RollbackInv, RunInv, RunTypeOK, TransportInv, TransportTypeOK, StateTypeOK
<1>18. RunTypeOK'
  BY <1>8, <1>9, <1>10
<1> QED BY <1>6, <1>12, <1>13, <1>14, <1>15, <1>16, <1>17, <1>18 DEF CallEffect, C

-----------------------------------------------------------------------------
(* advance_transcript(), whatever has just moved. *)

\* What is unchanged of a transcript stays true: what was committed stands.
LEMMA TranscriptStable ==
    ASSUME TransportInv, TransportInv', Grows, TranscriptTypeOK,
           NEW p \in Slot, NEW g \in Game, TranscriptTrue(p, g),
           NEW n \in Nat, n <= transcriptFrames[p][g]
    PROVE  /\ n <= localLatest'[p][g] /\ n <= remoteLatest'[p][g]
           /\ \A f \in Frame : f <= n =>
                  transcriptPad[p][g][f] = <<localPad'[0][g][f], localPad'[1][g][f]>>
<1>1. /\ transcriptFrames[p][g] \in Int /\ Other(p) \in Slot
      /\ localLatest[p][g] \in Int /\ remoteLatest[p][g] \in Int
      /\ localLatest[Other(p)][g] \in Int
  <2>1. \A k \in 0 .. Span - 1 : k \in Int
    OBVIOUS
  <2> QED BY <2>1, OtherSlot DEF TransportInv, TransportTypeOK, StateTypeOK, TranscriptTypeOK
<1>2. /\ localLatest'[p][g] \in Int /\ remoteLatest'[p][g] \in Int
  <2>1. \A k \in 0 .. Span - 1 : k \in Int
    OBVIOUS
  <2> QED BY <2>1 DEF TransportInv, TransportTypeOK, StateTypeOK
<1>3. /\ n <= localLatest[p][g] /\ n <= remoteLatest[p][g]
      /\ remoteLatest[p][g] <= localLatest[Other(p)][g]
  BY <1>1 DEF TranscriptTrue, TransportInv, PadAgreement
<1>4. ASSUME NEW f \in Frame, f <= n
      PROVE  transcriptPad[p][g][f] = <<localPad'[0][g][f], localPad'[1][g][f]>>
  <2>1. f \in Int
    BY DEF Frame
  <2>2. f <= localLatest[p][g] /\ f <= localLatest[Other(p)][g] /\ f <= transcriptFrames[p][g]
    BY <1>1, <1>3, <1>4, <2>1
  <2>3. /\ localPad'[p][g][f] = localPad[p][g][f]
        /\ localPad'[Other(p)][g][f] = localPad[Other(p)][g][f]
    BY <1>1, <2>2 DEF Grows
  <2>4. /\ localPad'[0][g][f] = localPad[0][g][f]
        /\ localPad'[1][g][f] = localPad[1][g][f]
    BY <2>3 DEF Slot, Other
  <2> QED BY <2>2, <2>4 DEF TranscriptTrue
<1> QED BY <1>1, <1>2, <1>3, <1>4 DEF Grows

\* The step takes one message, or commits a few frames: not both.
LEMMA TranscriptKept ==
    ASSUME RollbackInv, TransportInv', LagBounded', Grows, NEW p \in Slot,
           AdvanceTranscript(p, Local(p)', Remote(p)'), game' = game,
           phase'[p] = "Ready" => Local(p)' = 0,
           Local(p)' = Local(p) \/ Remote(p)' = Remote(p),
           \A q \in Slot : q # p => Local(q)' = Local(q) /\ Remote(q)' = Remote(q)
    PROVE  /\ TranscriptInv'
           /\ \A q \in Slot : \A g \in Game : ~(q = p /\ g = game[p]) =>
                  /\ transcriptFrames'[q][g] = transcriptFrames[q][g]
                  /\ transcriptPad'[q][g] = transcriptPad[q][g]
<1> DEFINE g == game[p]
           n == transcriptFrames[p][g]
           l == Local(p)'
           r == Remote(p)'
<1>1. /\ g \in Game /\ Other(p) \in Slot
      /\ Local(p) \in Nat /\ Remote(p) \in Nat
      /\ Local(p) = localLatest[p][g] /\ Remote(p) = remoteLatest[p][g]
      /\ localLatest[Other(p)][g] \in Nat
  BY GamesAndFrames, Sizes DEF RollbackInv, TransportInv, TransportTypeOK, Local, Remote
<1>2. /\ l \in 0 .. Span - 1 /\ r \in 0 .. Span - 1 /\ l \in Nat /\ r \in Nat
      /\ l = localLatest'[p][g] /\ r = remoteLatest'[p][g]
      /\ localLatest'[Other(p)][g] \in Nat
  <2>1. \A k \in 0 .. Span - 1 : k \in Nat
    BY Sizes
  <2> QED BY <1>1, <2>1 DEF TransportInv, TransportTypeOK, StateTypeOK, Local, Remote
<1>3. /\ Local(p) <= l /\ Remote(p) <= r
  BY <1>1, <1>2 DEF Grows
<1>4. /\ TranscriptTypeOK /\ TranscriptTrue(p, g) /\ transcriptOk[p]
      /\ n = Smaller(Local(p), Remote(p)) /\ n \in Nat
  BY <1>1 DEF RollbackInv, TranscriptInv, TranscriptsCurrent, TranscriptsTrue, Smaller
<1>5. /\ Remote(p) <= Local(p) + Horizon + MaxDelay
      /\ Local(p) <= Remote(p) + Horizon + MaxDelay
  <2>1. localLatest[Other(p)][g] <= Local(p) + Horizon + MaxDelay
    BY <1>1, PeerLead DEF RollbackInv, RunInv, LeadBounded
  <2>2. Remote(p) <= localLatest[Other(p)][g]
    BY <1>1 DEF RollbackInv, TransportInv, PadAgreement
  <2>3. Local(p) - Remote(p) <= Horizon + MaxDelay
    BY <1>1 DEF RollbackInv, RunInv, LagBounded
  <2> QED BY <1>1, <2>1, <2>2, <2>3, Sizes
<1>6. /\ r <= l + Horizon + MaxDelay
      /\ l <= r + Horizon + MaxDelay
  <2>1. LeadBounded'
    BY PeerLead, PTL
  <2>2. localLatest'[Other(p)][g] <= l + Horizon + MaxDelay
    BY <1>1, <1>2, <2>1 DEF LeadBounded
  <2>3. r <= localLatest'[Other(p)][g]
    BY <1>1, <1>2 DEF TransportInv, PadAgreement
  <2>4. l - r <= Horizon + MaxDelay
    BY <1>1, <1>2 DEF LagBounded
  <2> QED BY <1>2, <2>2, <2>3, <2>4, Sizes
<1>7. AdvanceTranscript(p, l, r) /\ (l = Local(p) \/ r = Remote(p))
      /\ (phase'[p] = "Ready" => l = 0)
  OBVIOUS
<1> HIDE DEF n, l, r
<1>8. l - n <= 2 * Horizon + 2 * MaxDelay /\ r - n <= 2 * Horizon + 2 * MaxDelay
  BY <1>1, <1>2, <1>4, <1>5, <1>6, <1>7, Sizes DEF Smaller
<1>9. ~TranscriptStuck(n, l, r)
  <2>1. ASSUME n < Smaller(l, r)
        PROVE  InRing(n + 1, l) /\ InRing(n + 1, r)
    BY <1>2, <1>4, <1>8, <2>1, Sizes DEF Smaller, InRing
  <2> QED BY <2>1 DEF TranscriptStuck
<1>10. TranscriptThrough(n, l, r) = Smaller(l, r) /\ n <= Smaller(l, r)
  BY <1>1, <1>2, <1>3, <1>4 DEF TranscriptThrough, Smaller, Larger
<1>11. CASE phase'[p] = "Ready"
  <2>1. UNCHANGED transcriptVars
    BY <1>7, <1>11 DEF AdvanceTranscript
  <2>2. n = Smaller(l, r)
    BY <1>1, <1>2, <1>3, <1>4, <1>7, <1>11 DEF Smaller
  <2>3. TranscriptTypeOK'
    BY <1>4, <2>1 DEF TranscriptTypeOK, transcriptVars
  <2>4. TranscriptsCurrent'
    BY <2>1, <2>2 DEF TranscriptsCurrent, transcriptVars, RollbackInv, TranscriptInv, n, l, r
  <2>5. TranscriptsTrue'
    <3> SUFFICES ASSUME NEW q \in Slot, NEW h \in Game PROVE TranscriptTrue(q, h)'
      BY DEF TranscriptsTrue
    <3>1. transcriptFrames[q][h] \in Nat /\ transcriptFrames[q][h] <= transcriptFrames[q][h]
      BY <1>4, Sizes DEF TranscriptTypeOK
    <3>2. TranscriptTrue(q, h)
      BY DEF RollbackInv, TranscriptInv, TranscriptsTrue
    <3> QED BY <1>4, <2>1, <3>1, <3>2, TranscriptStable
            DEF TranscriptTrue, transcriptVars, RollbackInv
  <2> QED BY <2>1, <2>3, <2>4, <2>5 DEF TranscriptInv, transcriptVars
<1>12. CASE phase'[p] # "Ready"
  <2>1. WriteTranscript(p, Smaller(l, r), TRUE)
    BY <1>4, <1>7, <1>9, <1>10, <1>12 DEF AdvanceTranscript, n
  <2>2. Smaller(l, r) \in 0 .. Span - 1 /\ Smaller(l, r) \in Nat
        /\ Smaller(l, r) <= l /\ Smaller(l, r) <= r
    BY <1>2 DEF Smaller
  <2>3. /\ transcriptFrames' = [transcriptFrames EXCEPT ![p][g] = Smaller(l, r)]
        /\ transcriptOk' = [transcriptOk EXCEPT ![p] = TRUE]
        /\ transcriptPad' = [transcriptPad EXCEPT ![p][g] =
               [f \in Frame |-> IF f > n /\ f <= Smaller(l, r)
                                THEN PadPair(p, f)' ELSE transcriptPad[p][g][f]]]
    BY <2>1 DEF WriteTranscript, n
  <2>4. ASSUME NEW f \in Frame, f > n, f <= Smaller(l, r)
        PROVE  /\ PadPair(p, f)' = <<localPad'[0][g][f], localPad'[1][g][f]>>
               /\ PadPair(p, f)' \in Pad \X Pad
    <3>1. f <= r
      BY <1>2, <2>2, <2>4 DEF Frame
    <3>2. remotePad'[p][g][f] = localPad'[Other(p)][g][f]
      BY <1>1, <1>2, <3>1 DEF TransportInv, PadAgreement
    <3>3. game'[p] = g
      OBVIOUS
    <3>4. PadPair(p, f)' = <<localPad'[0][g][f], localPad'[1][g][f]>>
      BY <3>2, <3>3 DEF PadPair, Slot, Other
    <3>5. localPad'[0][g][f] \in Pad /\ localPad'[1][g][f] \in Pad
      BY <1>1 DEF TransportInv, TransportTypeOK, StateTypeOK, Slot
    <3> QED BY <3>4, <3>5
  <2>5. TranscriptTypeOK'
    <3>1. [f \in Frame |-> IF f > n /\ f <= Smaller(l, r)
                           THEN PadPair(p, f)' ELSE transcriptPad[p][g][f]]
              \in [Frame -> Pad \X Pad]
      BY <1>1, <1>4, <2>4 DEF TranscriptTypeOK
    <3> QED BY <1>1, <1>4, <2>2, <2>3, <3>1 DEF TranscriptTypeOK
  <2>6. \A q \in Slot : \A h \in Game : ~(q = p /\ h = g) =>
            /\ transcriptFrames'[q][h] = transcriptFrames[q][h]
            /\ transcriptPad'[q][h] = transcriptPad[q][h]
    BY <1>1, <1>4, <2>3 DEF TranscriptTypeOK
  <2>7. transcriptFrames'[p][g] = Smaller(l, r)
    BY <1>1, <1>4, <2>3 DEF TranscriptTypeOK
  <2>8. TranscriptsCurrent'
    <3> SUFFICES ASSUME NEW q \in Slot
                 PROVE  /\ transcriptOk'[q]
                        /\ transcriptFrames'[q][game'[q]] = Smaller(Local(q)', Remote(q)')
      BY DEF TranscriptsCurrent, Smaller
    <3>1. CASE q = p
      BY <1>4, <2>3, <2>7, <3>1 DEF TranscriptTypeOK, l, r
    <3>2. CASE q # p
      <4>1. game[q] \in Game
        BY DEF RollbackInv, TransportInv, TransportTypeOK, StateTypeOK
      <4>2. transcriptOk[q] /\ transcriptFrames[q][game[q]] = Smaller(Local(q), Remote(q))
        BY DEF RollbackInv, TranscriptInv, TranscriptsCurrent
      <4>3. Local(q)' = Local(q) /\ Remote(q)' = Remote(q)
        BY <3>2
      <4>4. transcriptOk'[q]
        BY <1>4, <2>3, <3>2, <4>2 DEF TranscriptTypeOK
      <4> QED BY <2>6, <3>2, <4>1, <4>2, <4>3, <4>4
    <3> QED BY <3>1, <3>2
  <2>9. TranscriptsTrue'
    <3> SUFFICES ASSUME NEW q \in Slot, NEW h \in Game PROVE TranscriptTrue(q, h)'
      BY DEF TranscriptsTrue
    <3>1. TranscriptTrue(q, h) /\ TransportInv
      BY DEF RollbackInv, TranscriptInv, TranscriptsTrue
    <3>2. transcriptFrames[q][h] \in Nat /\ transcriptFrames[q][h] <= transcriptFrames[q][h]
      BY <1>4, Sizes DEF TranscriptTypeOK
    <3>3. CASE ~(q = p /\ h = g)
      BY <1>4, <2>6, <3>1, <3>2, <3>3, TranscriptStable DEF TranscriptTrue
    <3>4. CASE q = p /\ h = g
      <4>1. \A f \in Frame : f <= n =>
                transcriptPad[p][g][f] = <<localPad'[0][g][f], localPad'[1][g][f]>>
        BY <1>4, <3>1, <3>2, <3>4, TranscriptStable DEF n
      <4>2. \A f \in Frame : transcriptPad'[p][g][f] =
                IF f > n /\ f <= Smaller(l, r) THEN PadPair(p, f)' ELSE transcriptPad[p][g][f]
        BY <1>1, <1>4, <2>3 DEF TranscriptTypeOK
      <4>3. \A f \in Frame : f > n \/ f <= n
        BY <1>4 DEF Frame
      <4>4. \A f \in Frame : f <= Smaller(l, r) =>
                transcriptPad'[p][g][f] = <<localPad'[0][g][f], localPad'[1][g][f]>>
        BY <2>4, <4>1, <4>2, <4>3
      <4> QED BY <1>2, <2>2, <2>7, <3>4, <4>4 DEF TranscriptTrue
    <3> QED BY <3>3, <3>4
  <2> QED BY <2>5, <2>6, <2>8, <2>9 DEF TranscriptInv
<1> QED BY <1>11, <1>12

-----------------------------------------------------------------------------
(* Each action keeps the invariant. *)

\* PacedPeer of a peer whose own members a step leaves as they are.
LEMMA PacedSame ==
    ASSUME NEW q \in Slot, PacedPeer(q),
           Local(q)' = Local(q), Remote(q)' = Remote(q), floor'[q] = floor[q],
           frame'[q] = frame[q], confirmed'[q] = confirmed[q], delay'[q] = delay[q],
           phase'[q] = phase[q]
    PROVE  PacedPeer(q)'
  BY DEF PacedPeer

\* The commits that were under way go on reaching, and a new one does too.
LEMMA CommitsReachKept ==
    ASSUME RollbackInv, TransportInv', LagBounded', Grows,
           \A m \in commits' : m \in commits \/ \E p \in Slot :
               Local(p)' >= 1 /\ m = CommitMessage(p)'
    PROVE  CommitsReach'
<1>1. \A m \in commits : Reaches(m)'
  BY ReachesStable DEF RollbackInv, CommitsReach, TransportInv
<1>2. (\A p \in Slot : Local(p) >= 1 => Reaches(CommitMessage(p)))'
  BY BuiltReaches, PTL
<1>3. ASSUME NEW m \in commits' PROVE Reaches(m)'
  <2>1. CASE m \in commits
    BY <1>1, <2>1
  <2>2. ASSUME NEW p \in Slot, Local(p)' >= 1, m = CommitMessage(p)'
        PROVE  Reaches(m)'
    BY <1>2, <2>2
  <2> QED BY <2>1, <2>2
<1> QED BY <1>3 DEF CommitsReach

\* A call touches the peer's own game only.
LEMMA CallerTouches ==
    ASSUME StateTypeOK, NEW p \in Slot, CallerStep(p)
    PROVE  \A q \in Slot : \A g \in Game : ~(q = p /\ g = game[p]) =>
               /\ localLatest'[q][g] = localLatest[q][g]
               /\ localPad'[q][g] = localPad[q][g]
<1>1. PICK n \in Local(p) .. (Span - 1), pads \in [Frame -> Pad] : StoreLocal(p, n, pads)
  BY DEF CallerStep
<1> QED BY <1>1, GamesAndFrames DEF StoreLocal, StateTypeOK

\* A step that changes the commits and the transcript of one peer's own game only.
OnlyTouches(p) ==
    /\ game' = game
    /\ \A q \in Slot : \A g \in Game : ~(q = p /\ g = game[p]) =>
           /\ localLatest'[q][g] = localLatest[q][g]
           /\ localPad'[q][g] = localPad[q][g]
           /\ transcriptFrames'[q][g] = transcriptFrames[q][g]
           /\ transcriptPad'[q][g] = transcriptPad[q][g]

LEMMA InputsInv ==
    ASSUME RollbackInv, NEW p \in Slot, Inputs(p)
    PROVE  RollbackInv' /\ Grows /\ OnlyTouches(p)
<1>1. RunTypeOK' /\ CallEffect(p)
  BY InputsEffect
<1>2. TransportInv' /\ Grows
  BY <1>1, CallerStepInv DEF CallEffect, RollbackInv
<1>3. /\ UNCHANGED <<game, remoteLatest, remotePad, stats>>
      /\ \A q \in Slot : Remote(q)' = Remote(q)
  BY <1>1 DEF CallEffect, CallerStep, Remote
<1>4. Paced'
  <2> SUFFICES ASSUME NEW q \in Slot PROVE PacedPeer(q)'
    BY DEF Paced
  <2>1. PacedPeer(q)
    BY DEF RollbackInv, RunInv, Paced
  <2>2. CASE q # p
    BY <1>1, <1>3, <2>1, <2>2, PacedSame DEF CallEffect
  <2>3. CASE q = p
    <3>1. /\ frame[p] \in Nat /\ confirmed[p] \in Nat /\ Remote(p) \in Int
          /\ frame[p] - 1 - confirmed[p] <= Horizon
      BY <2>1, <2>3, GamesAndFrames
         DEF PacedPeer, RollbackInv, RunInv, RunTypeOK, TransportInv, TransportTypeOK
    <3>2. /\ Local(p)' = frame'[p] - 1 + delay'[p] /\ floor'[p] = confirmed[p]
          /\ confirmed'[p] \in confirmed[p] .. Remote(p) /\ confirmed'[p] < frame'[p]
          /\ frame'[p] \in {frame[p], frame[p] + 1}
          /\ frame'[p] - 1 - confirmed'[p] <= Horizon
          /\ phase'[p] # "Ready" /\ Remote(p)' = Remote(p)
      BY <1>1, <1>3 DEF CallEffect
    <3>3. floor'[p] <= confirmed'[p] /\ confirmed'[p] <= Remote(p)'
          /\ frame'[p] - 1 - floor'[p] <= Horizon + 1
      BY <3>1, <3>2, Sizes
    <3> QED BY <2>3, <3>2, <3>3 DEF PacedPeer
  <2> QED BY <2>2, <2>3
<1>5. StateTypeOK /\ StateTypeOK'
  BY <1>2 DEF RollbackInv, TransportInv, TransportTypeOK
<1>6. \A q \in Slot : \A g \in Game : ~(q = p /\ g = game[p]) =>
          /\ localLatest'[q][g] = localLatest[q][g]
          /\ localPad'[q][g] = localPad[q][g]
  BY <1>1, <1>5, CallerTouches DEF CallEffect
<1>7. LagBounded'
  <2>1. LagInGame'
    BY <1>1, <1>4, <1>5, PacedLag, PTL
  <2> SUFFICES ASSUME NEW q \in Slot, NEW g \in Game
               PROVE  localLatest'[q][g] - remoteLatest'[q][g] <= Horizon + MaxDelay
    BY DEF LagBounded
  <2>2. CASE q = p /\ g = game[p]
    BY <1>3, <2>1, <2>2 DEF LagInGame, Local, Remote
  <2>3. CASE ~(q = p /\ g = game[p])
    BY <1>3, <1>6, <2>3 DEF RollbackInv, RunInv, LagBounded
  <2> QED BY <2>2, <2>3
<1>8. /\ TranscriptInv'
      /\ \A q \in Slot : \A g \in Game : ~(q = p /\ g = game[p]) =>
             /\ transcriptFrames'[q][g] = transcriptFrames[q][g]
             /\ transcriptPad'[q][g] = transcriptPad[q][g]
  <2>1. AdvanceTranscript(p, Local(p)', Remote(p)')
    <3>1. AdvanceTranscript(p, Local(p)', Remote(p)) /\ Remote(p)' = Remote(p)
      BY <1>3 DEF Inputs
    <3> QED BY <3>1 DEF AdvanceTranscript
  <2>2. /\ phase'[p] # "Ready" /\ game' = game
        /\ \A q \in Slot : q # p => Local(q)' = Local(q)
    BY <1>1, <1>3 DEF CallEffect
  <2> QED BY <1>2, <1>3, <1>7, <2>1, <2>2, TranscriptKept
<1>9. LaterGamesEmpty'
  <2> SUFFICES ASSUME NEW q \in Slot, NEW g \in Game, g > game[q]
               PROVE  /\ localLatest'[q][g] = 0 /\ remoteLatest'[q][g] = 0
                      /\ transcriptFrames'[q][g] = 0
    BY <1>3 DEF LaterGamesEmpty
  <2>1. ~(q = p /\ g = game[p])
    BY <1>5, GamesAndFrames DEF Game
  <2> QED BY <1>3, <1>6, <1>8, <2>1 DEF RollbackInv, LaterGamesEmpty
<1>10. CommitsReach'
  BY <1>1, <1>2, <1>7, CommitsReachKept DEF CallEffect, CallerStep
<1>11. NoFault'
  BY <1>3 DEF RollbackInv, NoFault
<1>12. OnlyTouches(p)
  BY <1>3, <1>6, <1>8 DEF OnlyTouches
<1> QED BY <1>1, <1>2, <1>4, <1>7, <1>8, <1>9, <1>10, <1>11, <1>12 DEF RollbackInv, RunInv

\* What a message that is handled changes.
LEMMA ReceiveEffect ==
    ASSUME RollbackInv, NEW p \in Slot, Receive(p)
    PROVE  /\ UNCHANGED <<game, localLatest, localPad, floor, stats, commits>>
           /\ \A q \in Slot : \A g \in Game : ~(q = p /\ g = game[p]) =>
                  remoteLatest'[q][g] = remoteLatest[q][g]
<1>1. ASSUME NEW m \in commits, OnCommit(p, m)
      PROVE  /\ UNCHANGED <<game, localLatest, localPad, floor, stats, commits>>
             /\ \A q \in Slot : \A g \in Game : ~(q = p /\ g = game[p]) =>
                    remoteLatest'[q][g] = remoteLatest[q][g]
  <2>1. m.from = Other(p) /\ CommitIsOurs(p, m)
    BY <1>1 DEF OnCommit
  <2>2. TakeCommit(p, m)
    BY <1>1, <2>1, NeverMalformed DEF OnCommit, RollbackInv
  <2>3. CommitFaults(p, m) = {}
    BY <2>1, NothingToCount
  <2>4. stats' = stats
    BY <2>2, <2>3 DEF TakeCommit, RollbackInv, TransportInv, TransportTypeOK, StateTypeOK
  <2>5. \A q \in Slot : \A g \in Game : ~(q = p /\ g = game[p]) =>
            remoteLatest'[q][g] = remoteLatest[q][g]
    BY <2>2 DEF TakeCommit, RollbackInv, TransportInv, TransportTypeOK, StateTypeOK
  <2> QED BY <2>2, <2>4, <2>5 DEF TakeCommit
<1>2. ASSUME NEW m \in acks, OnAck(p, m)
      PROVE  UNCHANGED <<game, localLatest, localPad, remoteLatest, floor, stats, commits>>
  <2>1. m.ack - Base(game[p]) <= Local(p)
    BY <1>2, NeverMalformed DEF OnAck, RollbackInv
  <2>2. m.ack - Base(game[p]) \in Int /\ Local(p) \in Int
    BY GamesAndFrames, BaseNat DEF RollbackInv, TransportInv, TransportTypeOK
  <2> QED BY <1>2, <2>1, <2>2 DEF OnAck
<1> QED BY <1>1, <1>2 DEF Receive

LEMMA PacketInv ==
    ASSUME RollbackInv, NEW p \in Slot, Packet(p)
    PROVE  RollbackInv' /\ Grows /\ OnlyTouches(p)
<1>1. /\ Receive(p) /\ UNCHANGED runVars
      /\ AdvanceTranscript(p, Local(p)', Remote(p)')
  BY DEF Packet
<1>2. TransportInv' /\ Grows
  BY <1>1, OnMessageStep DEF Receive, RollbackInv
<1>3. /\ UNCHANGED <<game, localLatest, localPad, floor, stats, commits>>
      /\ \A q \in Slot : \A g \in Game : ~(q = p /\ g = game[p]) =>
             remoteLatest'[q][g] = remoteLatest[q][g]
  BY <1>1, ReceiveEffect
<1>4. StateTypeOK /\ StateTypeOK'
  BY <1>2 DEF RollbackInv, TransportInv, TransportTypeOK
<1>5. \A q \in Slot : \A g \in Game :
          /\ localLatest[q][g] \in Nat /\ remoteLatest[q][g] \in Nat
          /\ remoteLatest'[q][g] \in Nat /\ remoteLatest[q][g] <= remoteLatest'[q][g]
  <2>1. \A n \in 0 .. Span - 1 : n \in Nat
    BY Sizes
  <2> QED BY <1>2, <1>4, <2>1 DEF StateTypeOK, Grows
<1>6. RunTypeOK'
  BY <1>1 DEF RollbackInv, RunInv, RunTypeOK, runVars
<1>7. Paced'
  <2> SUFFICES ASSUME NEW q \in Slot PROVE PacedPeer(q)'
    BY DEF Paced
  <2>1. PacedPeer(q) /\ Local(q)' = Local(q) /\ game[q] \in Game
    BY <1>3, <1>4, GamesAndFrames DEF RollbackInv, RunInv, Paced, Local
  <2>2. Remote(q) <= Remote(q)' /\ Remote(q) \in Int /\ Remote(q)' \in Int
    BY <1>3, <1>5, <2>1 DEF Remote
  <2>3. confirmed[q] \in Int
    BY Sizes DEF RollbackInv, RunInv, RunTypeOK
  <2>4. confirmed[q] <= Remote(q)'
    BY <2>1, <2>2, <2>3 DEF PacedPeer
  <2> QED BY <1>1, <1>3, <2>1, <2>4 DEF PacedPeer, runVars
<1>8. LagBounded'
  <2> SUFFICES ASSUME NEW q \in Slot, NEW g \in Game
               PROVE  localLatest[q][g] - remoteLatest'[q][g] <= Horizon + MaxDelay
    BY <1>3 DEF LagBounded
  <2>1. localLatest[q][g] - remoteLatest[q][g] <= Horizon + MaxDelay
    BY DEF RollbackInv, RunInv, LagBounded
  <2> QED BY <1>5, <2>1, Sizes
<1>9. /\ TranscriptInv'
      /\ \A q \in Slot : \A g \in Game : ~(q = p /\ g = game[p]) =>
             /\ transcriptFrames'[q][g] = transcriptFrames[q][g]
             /\ transcriptPad'[q][g] = transcriptPad[q][g]
  <2>1. /\ phase'[p] = "Ready" => Local(p)' = 0
        /\ \A q \in Slot : Local(q)' = Local(q)
    <3>1. phase[p] = "Ready" => Local(p) = 0
      BY DEF RollbackInv, RunInv, Paced, PacedPeer
    <3> QED BY <1>1, <1>3, <3>1 DEF Local, runVars
  <2>2. \A q \in Slot : q # p => Remote(q)' = Remote(q)
    BY <1>3, <1>4, GamesAndFrames DEF Remote
  <2> QED BY <1>1, <1>2, <1>3, <1>8, <2>1, <2>2, TranscriptKept
<1>10. LaterGamesEmpty'
  <2> SUFFICES ASSUME NEW q \in Slot, NEW g \in Game, g > game[q]
               PROVE  /\ localLatest'[q][g] = 0 /\ remoteLatest'[q][g] = 0
                      /\ transcriptFrames'[q][g] = 0
    BY <1>3 DEF LaterGamesEmpty
  <2>1. ~(q = p /\ g = game[p])
    BY <1>4, GamesAndFrames DEF Game
  <2> QED BY <1>3, <1>9, <2>1 DEF RollbackInv, LaterGamesEmpty
<1>11. CommitsReach'
  BY <1>2, <1>3, <1>8, CommitsReachKept
<1>12. NoFault'
  BY <1>3 DEF RollbackInv, NoFault
<1>13. OnlyTouches(p)
  BY <1>3, <1>9 DEF OnlyTouches
<1> QED BY <1>2, <1>6, <1>7, <1>8, <1>9, <1>10, <1>11, <1>12, <1>13 DEF RollbackInv, RunInv

\* A step that leaves the transport, the frames and the transcripts as they are.
LEMMA QuietInv ==
    ASSUME RollbackInv, UNCHANGED transportVars, RunTypeOK', TranscriptInv',
           UNCHANGED <<frame, confirmed, delay, transcriptFrames>>,
           \A p \in Slot : phase'[p] = "Ready" => phase[p] = "Ready"
    PROVE  RollbackInv' /\ Grows
<1>1. TransportInv'
  BY TransportStutter DEF RollbackInv
<1>2. Grows
  <2>1. \A p \in Slot : \A g \in Game : localLatest[p][g] \in Int /\ remoteLatest[p][g] \in Int
    BY GamesAndFrames DEF RollbackInv, TransportInv, TransportTypeOK
  <2> QED BY <2>1 DEF Grows, transportVars
<1>3. Paced' /\ LagBounded'
  BY DEF RollbackInv, RunInv, Paced, PacedPeer, LagBounded, Local, Remote, transportVars
<1>4. LaterGamesEmpty' /\ CommitsReach' /\ NoFault'
  BY DEF RollbackInv, LaterGamesEmpty, CommitsReach, Reaches, NoFault, transportVars
<1> QED BY <1>1, <1>2, <1>3, <1>4 DEF RollbackInv, RunInv

LEMMA TranscriptQuiet ==
    ASSUME RollbackInv, UNCHANGED transportVars, UNCHANGED transcriptVars
    PROVE  TranscriptInv'
  BY DEF RollbackInv, TranscriptInv, TranscriptTypeOK, TranscriptsCurrent, TranscriptsTrue,
         TranscriptTrue, Local, Remote, transportVars, transcriptVars

LEMMA GameEndInv ==
    ASSUME RollbackInv, NEW p \in Slot, GameEnd(p)
    PROVE  RollbackInv' /\ Grows /\ OnlyTouches(p)
<1>1. /\ UNCHANGED transportVars
      /\ phase' = [phase EXCEPT ![p] = "Ended"]
      /\ UNCHANGED <<frame, confirmed, delay, waiting, shedding, toShed, peerGone>>
      /\ AdvanceTranscript(p, Local(p), Remote(p))
  BY DEF GameEnd
<1>2. /\ game' = game
      /\ \A q \in Slot : Local(q)' = Local(q) /\ Remote(q)' = Remote(q)
  BY <1>1 DEF transportVars, Local, Remote
<1>3. RunTypeOK'
  BY <1>1 DEF RollbackInv, RunInv, RunTypeOK, Phase
<1>4. TransportInv' /\ LagBounded' /\ Grows
  <2>1. TransportInv'
    BY <1>1, TransportStutter DEF RollbackInv
  <2>2. \A q \in Slot : \A g \in Game : localLatest[q][g] \in Int /\ remoteLatest[q][g] \in Int
    BY GamesAndFrames DEF RollbackInv, TransportInv, TransportTypeOK
  <2>3. LagBounded' /\ Grows
    BY <1>1, <2>2 DEF RollbackInv, RunInv, LagBounded, Grows, transportVars
  <2> QED BY <2>1, <2>3
<1>5. phase'[p] # "Ready" /\ \A q \in Slot : phase'[q] = "Ready" => phase[q] = "Ready"
  BY <1>1 DEF RollbackInv, RunInv, RunTypeOK
<1>6. AdvanceTranscript(p, Local(p)', Remote(p)')
  BY <1>1, <1>2 DEF AdvanceTranscript
<1>7. TranscriptInv'
  BY <1>2, <1>4, <1>5, <1>6, TranscriptKept
\* The transcript was as long as it can be, so the call adds nothing.
<1>8. transcriptFrames' = transcriptFrames
  <2>1. /\ transcriptFrames' \in [Slot -> [Game -> 0 .. Span - 1]]
        /\ transcriptFrames  \in [Slot -> [Game -> 0 .. Span - 1]]
    BY <1>7 DEF RollbackInv, TranscriptInv, TranscriptTypeOK
  <2>2. transcriptFrames'[p][game[p]] = transcriptFrames[p][game[p]]
    BY <1>2, <1>7 DEF RollbackInv, TranscriptInv, TranscriptsCurrent
  <2>3. \A q \in Slot : \A g \in Game : ~(q = p /\ g = game[p]) =>
            transcriptFrames'[q][g] = transcriptFrames[q][g]
    BY <1>2, <1>4, <1>5, <1>6, TranscriptKept
  <2>4. \A q \in Slot : \A g \in Game : transcriptFrames'[q][g] = transcriptFrames[q][g]
    BY <2>2, <2>3
  <2>5. \A q \in Slot : transcriptFrames'[q] = transcriptFrames[q]
    BY <2>1, <2>4
  <2> QED BY <2>1, <2>5
<1>9. OnlyTouches(p)
  BY <1>1, <1>2, <1>4, <1>5, <1>6, TranscriptKept DEF OnlyTouches, transportVars
<1> QED BY <1>1, <1>3, <1>5, <1>7, <1>8, <1>9, QuietInv

LEMMA PeerLeavesInv ==
    ASSUME RollbackInv, NEW p \in Slot, PeerLeaves(p)
    PROVE  RollbackInv' /\ Grows
<1>1. /\ UNCHANGED transportVars /\ UNCHANGED transcriptVars
      /\ UNCHANGED <<phase, frame, confirmed, delay, waiting, shedding, toShed>>
      /\ peerGone' = [peerGone EXCEPT ![p] = TRUE]
  BY DEF PeerLeaves
<1>2. RunTypeOK'
  BY <1>1 DEF RollbackInv, RunInv, RunTypeOK
<1> QED BY <1>1, <1>2, TranscriptQuiet, QuietInv DEF transcriptVars

LEMMA BeginNextInv ==
    ASSUME RollbackInv, NEW p \in Slot, BeginNext(p)
    PROVE  RollbackInv' /\ Grows
<1>1. TransportInv' /\ Grows
  BY ResetStep DEF BeginNext, RollbackInv
<1>2. /\ game' = [game EXCEPT ![p] = game[p] + 1] /\ game[p] < MaxGame
      /\ floor' = [floor EXCEPT ![p] = 0]
      /\ stats' = [stats EXCEPT ![p] = {}]
      /\ UNCHANGED <<localLatest, localPad, remoteLatest, remotePad, commits, acks>>
      /\ phase' = [phase EXCEPT ![p] = "Ready"]
      /\ frame' = [frame EXCEPT ![p] = 1]
      /\ confirmed' = [confirmed EXCEPT ![p] = 0]
      /\ delay' = [delay EXCEPT ![p] = 0]
      /\ waiting' = [waiting EXCEPT ![p] = FALSE]
      /\ shedding' = [shedding EXCEPT ![p] = FALSE]
      /\ toShed' = [toShed EXCEPT ![p] = 0]
      /\ transcriptOk' = [transcriptOk EXCEPT ![p] = TRUE]
      /\ UNCHANGED <<peerGone, transcriptFrames, transcriptPad>>
  BY DEF BeginNext, Reset
<1>3. /\ StateTypeOK /\ StateTypeOK' /\ RunTypeOK /\ TranscriptTypeOK
      /\ game[p] \in Game /\ game[p] + 1 \in Game
  BY <1>1, <1>2, GamesAndFrames, SizeAssumption
     DEF RollbackInv, RunInv, TranscriptInv, TransportInv, TransportTypeOK, Game
\* The next game starts empty.
<1>4. /\ game'[p] = game[p] + 1
      /\ Local(p)' = 0 /\ Remote(p)' = 0 /\ transcriptFrames[p][game'[p]] = 0
  <2>1. game'[p] = game[p] + 1 /\ game'[p] > game[p]
    BY <1>2, <1>3 DEF StateTypeOK, Game
  <2> QED BY <1>2, <1>3, <2>1 DEF Local, Remote, RollbackInv, LaterGamesEmpty
<1>5. \A q \in Slot : q # p =>
          /\ game'[q] = game[q] /\ Local(q)' = Local(q) /\ Remote(q)' = Remote(q)
          /\ floor'[q] = floor[q] /\ frame'[q] = frame[q] /\ confirmed'[q] = confirmed[q]
          /\ delay'[q] = delay[q] /\ phase'[q] = phase[q]
  BY <1>2, <1>3 DEF StateTypeOK, RunTypeOK, Local, Remote
<1>6. RunTypeOK'
  BY <1>2, <1>3, Sizes DEF RunTypeOK, Phase
<1>7. Paced'
  <2> SUFFICES ASSUME NEW q \in Slot PROVE PacedPeer(q)'
    BY DEF Paced
  <2>1. CASE q # p
    BY <1>5, <2>1, PacedSame DEF RollbackInv, RunInv, Paced
  <2>2. CASE q = p
    <3>1. /\ frame'[p] = 1 /\ confirmed'[p] = 0 /\ delay'[p] = 0 /\ floor'[p] = 0
      BY <1>2, <1>3 DEF StateTypeOK, RunTypeOK
    <3> QED BY <1>4, <2>2, <3>1, Sizes DEF PacedPeer
  <2> QED BY <2>1, <2>2
<1>8. LagBounded' /\ CommitsReach'
  BY <1>2 DEF RollbackInv, RunInv, LagBounded, CommitsReach, Reaches
<1>9. LaterGamesEmpty'
  <2> SUFFICES ASSUME NEW q \in Slot, NEW g \in Game, g > game'[q]
               PROVE  /\ localLatest[q][g] = 0 /\ remoteLatest[q][g] = 0
                      /\ transcriptFrames[q][g] = 0
    BY <1>2 DEF LaterGamesEmpty
  <2>1. g > game[q]
    <3>1. game[q] \in Int /\ g \in Int
      BY <1>3, GamesAndFrames DEF Game
    <3> QED BY <1>4, <1>5, <3>1
  <2> QED BY <2>1 DEF RollbackInv, LaterGamesEmpty
<1>10. NoFault'
  BY <1>2, <1>3 DEF RollbackInv, NoFault, StateTypeOK
<1>11. TranscriptInv'
  <2>1. TranscriptTypeOK' /\ TranscriptsTrue'
    BY <1>2, <1>3 DEF TranscriptTypeOK, RollbackInv, TranscriptInv, TranscriptsTrue, TranscriptTrue
  <2>2. TranscriptsCurrent'
    <3> SUFFICES ASSUME NEW q \in Slot
                 PROVE  /\ transcriptOk'[q]
                        /\ transcriptFrames'[q][game'[q]] = Smaller(Local(q)', Remote(q)')
      BY DEF TranscriptsCurrent, Smaller
    <3>1. CASE q # p
      BY <1>2, <1>3, <1>5, <3>1
         DEF RollbackInv, TranscriptInv, TranscriptsCurrent, TranscriptTypeOK
    <3>2. CASE q = p
      BY <1>2, <1>3, <1>4, <3>2 DEF TranscriptTypeOK, Smaller
    <3> QED BY <3>1, <3>2
  <2> QED BY <2>1, <2>2 DEF TranscriptInv
<1> QED BY <1>1, <1>6, <1>7, <1>8, <1>9, <1>10, <1>11 DEF RollbackInv, RunInv

LEMMA LosePacketInv ==
    ASSUME RollbackInv, LosePacket
    PROVE  RollbackInv' /\ Grows
<1>1. /\ commits' \subseteq commits /\ acks' \subseteq acks
      /\ UNCHANGED <<game, localLatest, localPad, remoteLatest, remotePad, peerAck, floor,
                     newestSeen, checksumFrame, remoteChecksumFrame, stats>>
      /\ UNCHANGED runVars /\ UNCHANGED transcriptVars
  BY DEF LosePacket, Lose
<1>2. TransportTypeOK'
  BY <1>1 DEF RollbackInv, TransportInv, TransportTypeOK, StateTypeOK
<1>3. Grows
  <2>1. \A p \in Slot : \A g \in Game : localLatest[p][g] \in Int /\ remoteLatest[p][g] \in Int
    BY GamesAndFrames DEF RollbackInv, TransportInv, TransportTypeOK
  <2> QED BY <1>1, <2>1 DEF Grows
<1>4. TransportInv'
  <2>1. PadAgreement' /\ AckSound' /\ NoFalseFault'
    BY <1>1 DEF RollbackInv, TransportInv, PadAgreement, AckSound, NoFalseFault
  <2>2. MessagesSound'
    BY <1>1 DEF RollbackInv, TransportInv, MessagesSound, CommitMeans, AckMeans
  <2> QED BY <1>2, <2>1, <2>2 DEF TransportInv
<1>5. RunInv'
  BY <1>1 DEF RollbackInv, RunInv, RunTypeOK, Paced, PacedPeer, LagBounded, Local, Remote, runVars
<1>6. LaterGamesEmpty' /\ CommitsReach' /\ NoFault'
  BY <1>1 DEF RollbackInv, LaterGamesEmpty, CommitsReach, Reaches, NoFault, transcriptVars
<1>7. TranscriptInv'
  BY <1>1 DEF RollbackInv, TranscriptInv, TranscriptTypeOK, TranscriptsCurrent, TranscriptsTrue,
              TranscriptTrue, Local, Remote, transcriptVars
<1> QED BY <1>3, <1>4, <1>5, <1>6, <1>7 DEF RollbackInv

-----------------------------------------------------------------------------
(* The invariant of the session, and what it says. *)

LEMMA RollbackInitInv == Init => RollbackInv
<1> SUFFICES ASSUME Init PROVE RollbackInv
  OBVIOUS
<1>1. TransportInv
  BY TransportInitInv DEF Init
<1>2. \A p \in Slot : \A g \in Game :
          /\ localLatest[p][g] = 0 /\ remoteLatest[p][g] = 0 /\ transcriptFrames[p][g] = 0
  BY DEF Init, TransportInit
<1>3. \A p \in Slot : Local(p) = 0 /\ Remote(p) = 0 /\ game[p] \in Game
  BY <1>1, <1>2, GamesAndFrames DEF Local, Remote, TransportInv, TransportTypeOK
<1>4. RunTypeOK
  BY Sizes DEF Init, RunTypeOK, Phase
<1>5. Paced
  BY <1>3, Sizes DEF Init, TransportInit, Paced, PacedPeer
<1>6. LagBounded /\ LaterGamesEmpty
  BY <1>2, Sizes DEF LagBounded, LaterGamesEmpty
<1>7. CommitsReach /\ NoFault
  BY DEF Init, TransportInit, CommitsReach, NoFault
<1>8. TranscriptTypeOK
  BY Sizes, PadAssumption DEF Init, TranscriptTypeOK
<1>9. TranscriptsCurrent
  BY <1>2, <1>3 DEF Init, TranscriptsCurrent, Smaller
<1>10. TranscriptsTrue
  <2>1. \A f \in Frame : ~(f <= 0)
    BY DEF Frame
  <2> QED BY <1>2, <2>1 DEF TranscriptsTrue, TranscriptTrue
<1> QED BY <1>1, <1>4, <1>5, <1>6, <1>7, <1>8, <1>9, <1>10 DEF RollbackInv, RunInv, TranscriptInv

LEMMA RollbackNextInv ==
    ASSUME RollbackInv, [Next]_vars
    PROVE  RollbackInv' /\ Grows
<1>1. CASE LosePacket
  BY <1>1, LosePacketInv
<1>2. ASSUME NEW p \in Slot, Inputs(p)
      PROVE  RollbackInv' /\ Grows
  BY <1>2, InputsInv
<1>3. ASSUME NEW p \in Slot, Packet(p)
      PROVE  RollbackInv' /\ Grows
  BY <1>3, PacketInv
<1>4. ASSUME NEW p \in Slot, PeerLeaves(p)
      PROVE  RollbackInv' /\ Grows
  BY <1>4, PeerLeavesInv
<1>5. ASSUME NEW p \in Slot, GameEnd(p)
      PROVE  RollbackInv' /\ Grows
  BY <1>5, GameEndInv
<1>6. ASSUME NEW p \in Slot, BeginNext(p)
      PROVE  RollbackInv' /\ Grows
  BY <1>6, BeginNextInv
<1>7. CASE UNCHANGED vars
  <2>1. UNCHANGED transportVars /\ UNCHANGED runVars /\ UNCHANGED transcriptVars
    BY <1>7 DEF vars
  <2>2. RunTypeOK'
    BY <2>1 DEF RollbackInv, RunInv, RunTypeOK, runVars
  <2> QED BY <2>1, <2>2, TranscriptQuiet, QuietInv DEF runVars, transcriptVars
<1> QED BY <1>1, <1>2, <1>3, <1>4, <1>5, <1>6, <1>7 DEF Next

LEMMA RollbackInvariant == Spec => []RollbackInv
<1>1. RollbackInv /\ [Next]_vars => RollbackInv'
  BY RollbackNextInv
<1> QED BY <1>1, RollbackInitInv, PTL DEF Spec

\* Every member of the session and of its transport keeps its range, in every
\* game of a series.
THEOREM RollbackTypeCorrect == Spec => []TypeOK
<1>1. RollbackInv => TypeOK
  BY DEF RollbackInv, RunInv, RunTypeOK, TranscriptInv, TranscriptTypeOK, TransportInv, TypeOK
<1> QED BY <1>1, RollbackInvariant, PTL

\* The caller the program has keeps every promise of the transport: pads held
\* are the pads committed, acknowledgments are true, and no fault is counted
\* falsely, whichever side is a game ahead.
THEOREM SessionPadsAgree == Spec => [](PadAgreement /\ AckSound /\ NoFalseFault)
<1>1. RollbackInv => PadAgreement /\ AckSound /\ NoFalseFault
  BY DEF RollbackInv, TransportInv
<1> QED BY <1>1, RollbackInvariant, PTL

\* Nothing committed or confirmed is changed or given up, by any call, packet,
\* end of a game or start of the next.
THEOREM SessionCommitsStand == Spec => FirstCommitStands
<1>1. RollbackInv /\ [Next]_vars => [Grows]_transportVars
  BY RollbackNextInv
<1> QED BY <1>1, RollbackInvariant, PTL DEF FirstCommitStands, Spec

\* No COMMIT ever leaves out a frame its receiver still needs: the history of a
\* message outlasts the stall rule (build_commit, on_commit).
THEOREM HistoryReaches == Spec => []NoGap
<1>1. RollbackInv => NoGap
  BY DEF RollbackInv, NoFault, NoGap
<1> QED BY <1>1, RollbackInvariant, PTL

\* No COMMIT ever names a frame past the lead limit of its receiver.
THEOREM LeadSuffices == Spec => []NeverTooFarAhead
<1>1. RollbackInv => NeverTooFarAhead
  BY DEF RollbackInv, NoFault, NeverTooFarAhead
<1> QED BY <1>1, RollbackInvariant, PTL

\* The game can take back every frame it runs ahead of the peer (should_skip).
THEOREM RollbackReaches == Spec => []WithinRollback
<1>1. RollbackInv => WithinRollback
  BY DEF RollbackInv, RunInv, Paced, PacedPeer, WithinRollback
<1> QED BY <1>1, RollbackInvariant, PTL

\* The transcript never stops for a pad the ring has overwritten.
THEOREM TranscriptNeverStops == Spec => []TranscriptComplete
<1>1. RollbackInv => TranscriptComplete
  BY DEF RollbackInv, TranscriptInv, TranscriptsCurrent, TranscriptComplete
<1> QED BY <1>1, RollbackInvariant, PTL

\* The window has the next pad the game waits for as soon as it is held, with
\* every pad it shows still in the ring (window_base, window_latest).
THEOREM WindowHasNext == Spec => []WindowServesNext
<1>1. RollbackInv => WindowServesNext
  <2> SUFFICES ASSUME RollbackInv, NEW p \in Slot, Remote(p) > confirmed[p]
               PROVE  LET fl     == Larger(floor[p], confirmed[p])
                          base   == WindowBase(Remote(p), fl)
                          latest == WindowLatest(Remote(p), fl)
                          next   == confirmed[p] + 1
                      IN  /\ base <= next /\ next <= latest
                          /\ latest - next < Horizon
                          /\ \A f \in base .. latest : InRing(f, Remote(p))
    BY DEF WindowServesNext
  <2> DEFINE C      == confirmed[p]
             R      == Remote(p)
             base   == WindowBase(R, C)
             latest == WindowLatest(R, C)
  <2>1. /\ C \in Nat /\ R \in Nat /\ floor[p] \in Nat /\ floor[p] <= C /\ R > C
        /\ game[p] \in Game /\ Other(p) \in Slot /\ R = remoteLatest[p][game[p]]
        /\ Local(p) = localLatest[p][game[p]] /\ Local(p) \in Nat
        /\ localLatest[Other(p)][game[p]] \in Nat
    BY GamesAndFrames, Sizes
       DEF RollbackInv, RunInv, RunTypeOK, Paced, PacedPeer, TransportInv, TransportTypeOK,
           Local, Remote
  <2>2. R <= C + 2 * Horizon + 2 * MaxDelay
    <3>1. R <= localLatest[Other(p)][game[p]]
      BY <2>1 DEF RollbackInv, TransportInv, PadAgreement
    <3>2. localLatest[Other(p)][game[p]] <= Local(p) + Horizon + MaxDelay
      BY <2>1, PeerLead DEF RollbackInv, RunInv, LeadBounded
    <3>3. Local(p) <= C + Horizon + MaxDelay
      BY <2>1, Sizes DEF RollbackInv, RunInv, RunTypeOK, Paced, PacedPeer
    <3> QED BY <2>1, <3>1, <3>2, <3>3, Sizes
  <2>3. Larger(floor[p], C) = C
    BY <2>1 DEF Larger
  <2> HIDE DEF C, R
  <2>4. base = Larger(C, 1) /\ latest = Smaller(R, base + Horizon - 1) /\ base \in Nat
    BY <2>1 DEF WindowBase, WindowLatest, Larger, Smaller
  <2> HIDE DEF base, latest
  <2>5. /\ base <= C + 1 /\ C + 1 <= latest /\ latest - (C + 1) < Horizon
        /\ latest <= R /\ base >= 1 /\ base >= C /\ latest \in Nat
    BY <2>1, <2>4, Sizes DEF Larger, Smaller
  <2>6. \A f \in base .. latest : InRing(f, R)
    BY <2>1, <2>2, <2>4, <2>5, Sizes DEF InRing
  <2> QED BY <2>3, <2>5, <2>6 DEF base, latest, C, R
<1> QED BY <1>1, RollbackInvariant, PTL

-----------------------------------------------------------------------------
(* The session keeps the promise of InputLog.                               *)

\* The lists InputLog sees.
Committed ==
    [p \in Slot |-> [g \in Game |-> [f \in 1 .. localLatest[p][g] |-> localPad[p][g][f]]]]
Transcripts ==
    [p \in Slot |-> [g \in Game |->
        [f \in 1 .. transcriptFrames[p][g] |-> transcriptPad[p][g][f]]]]

LEMMA ListLength ==
    ASSUME NEW S, NEW n \in Nat, NEW s \in [1 .. n -> S]
    PROVE  s \in Seq(S) /\ Len(s) = n
  OBVIOUS

ListsTyped ==
    \A p \in Slot : \A g \in Game :
        /\ localLatest[p][g] \in 0 .. Span - 1 /\ localLatest[p][g] \in Nat
        /\ Committed[p][g] \in [1 .. localLatest[p][g] -> Pad]
        /\ Len(Committed[p][g]) = localLatest[p][g]
        /\ transcriptFrames[p][g] \in 0 .. Span - 1 /\ transcriptFrames[p][g] \in Nat
        /\ Transcripts[p][g] \in [1 .. transcriptFrames[p][g] -> Pad \X Pad]
        /\ Len(Transcripts[p][g]) = transcriptFrames[p][g]

LEMMA Lists == RollbackInv => ListsTyped
<1> SUFFICES ASSUME RollbackInv, NEW p \in Slot, NEW g \in Game
             PROVE  /\ localLatest[p][g] \in 0 .. Span - 1 /\ localLatest[p][g] \in Nat
                    /\ Committed[p][g] \in [1 .. localLatest[p][g] -> Pad]
                    /\ Len(Committed[p][g]) = localLatest[p][g]
                    /\ transcriptFrames[p][g] \in 0 .. Span - 1 /\ transcriptFrames[p][g] \in Nat
                    /\ Transcripts[p][g] \in [1 .. transcriptFrames[p][g] -> Pad \X Pad]
                    /\ Len(Transcripts[p][g]) = transcriptFrames[p][g]
  BY DEF ListsTyped
<1>1. /\ localLatest[p][g] \in 0 .. Span - 1 /\ transcriptFrames[p][g] \in 0 .. Span - 1
      /\ localPad[p][g] \in [Frame -> Pad] /\ transcriptPad[p][g] \in [Frame -> Pad \X Pad]
  BY DEF RollbackInv, TransportInv, TransportTypeOK, StateTypeOK, TranscriptInv, TranscriptTypeOK
<1>2. localLatest[p][g] \in Nat /\ transcriptFrames[p][g] \in Nat
  BY <1>1, Sizes
<1>3. /\ \A f \in 1 .. localLatest[p][g] : f \in Frame
      /\ \A f \in 1 .. transcriptFrames[p][g] : f \in Frame
  BY <1>1, <1>2, Sizes DEF Frame
<1>4. /\ Committed[p][g] = [f \in 1 .. localLatest[p][g] |-> localPad[p][g][f]]
      /\ Transcripts[p][g] = [f \in 1 .. transcriptFrames[p][g] |-> transcriptPad[p][g][f]]
  BY DEF Committed, Transcripts
<1>5. /\ Committed[p][g] \in [1 .. localLatest[p][g] -> Pad]
      /\ Transcripts[p][g] \in [1 .. transcriptFrames[p][g] -> Pad \X Pad]
  BY <1>1, <1>3, <1>4
<1> QED BY <1>1, <1>2, <1>5, ListLength

\* Two tables that differ in one entry.
LEMMA OneEntry ==
    ASSUME NEW A, NEW B, NEW old, NEW new, NEW a \in A, NEW b \in B, NEW v,
           old = [x \in A |-> [y \in B |-> old[x][y]]],
           new = [x \in A |-> [y \in B |-> new[x][y]]],
           \A x \in A : \A y \in B : new[x][y] = IF x = a /\ y = b THEN v ELSE old[x][y]
    PROVE  new = [old EXCEPT ![a][b] = v]
<1> DEFINE changed == [old EXCEPT ![a][b] = v]
<1>1. DOMAIN old = A /\ DOMAIN new = A /\ DOMAIN changed = A
  OBVIOUS
<1>2. ASSUME NEW x \in A
      PROVE  new[x] = changed[x]
  <2>1. changed[x] = IF x = a THEN [old[a] EXCEPT ![b] = v] ELSE old[x]
    OBVIOUS
  <2>2. /\ old[x] = [y \in B |-> old[x][y]]
        /\ new[x] = [y \in B |-> new[x][y]]
    OBVIOUS
  <2> QED BY <2>1, <2>2
<1>3. new = [x \in A |-> new[x]] /\ changed = [x \in A |-> changed[x]]
  OBVIOUS
<1> QED BY <1>2, <1>3

LEMMA LogStep ==
    ASSUME RollbackInv, RollbackInv', Grows, NEW p \in Slot, OnlyTouches(p),
           NEW g \in Game, g = game[p]
    PROVE  Log!Step(p, g)
<1> DEFINE s == [f \in 1 .. localLatest'[p][g] |-> localPad'[p][g][f]]
           t == [f \in 1 .. transcriptFrames'[p][g] |-> transcriptPad'[p][g][f]]
<1>1. /\ g \in Game /\ game' = game
      /\ \A q \in Slot : \A h \in Game : ~(q = p /\ h = g) =>
             /\ localLatest'[q][h] = localLatest[q][h]
             /\ localPad'[q][h] = localPad[q][h]
             /\ transcriptFrames'[q][h] = transcriptFrames[q][h]
             /\ transcriptPad'[q][h] = transcriptPad[q][h]
  BY DEF OnlyTouches, RollbackInv, TransportInv, TransportTypeOK, StateTypeOK
<1>2. ListsTyped /\ ListsTyped'
  BY Lists, PTL
<1>3. /\ transcriptFrames[p][g] \in Nat
      /\ Len(Transcripts[p][g]) = transcriptFrames[p][g]
      /\ transcriptFrames'[p][g] \in 0 .. Span - 1 /\ transcriptFrames'[p][g] \in Nat
  BY <1>1, <1>2 DEF ListsTyped
<1>4. \A q \in Slot : \A h \in Game :
          /\ localLatest[q][h] \in Nat /\ Len(Committed[q][h]) = localLatest[q][h]
          /\ localLatest'[q][h] \in 0 .. Span - 1 /\ localLatest'[q][h] \in Nat
          /\ Len(Committed[q][h])' = localLatest'[q][h]
          /\ Committed'[q][h] \in [1 .. localLatest'[q][h] -> Pad]
  BY <1>2 DEF ListsTyped
\* The commits go on from those there were.
<1>6. /\ Committed' = [Committed EXCEPT ![p][g] = s]
      /\ s \in [1 .. localLatest'[p][g] -> Pad]
      /\ localLatest[p][g] <= localLatest'[p][g]
      /\ \A f \in 1 .. localLatest[p][g] : s[f] = Committed[p][g][f]
  <2>1. Committed' = [Committed EXCEPT ![p][g] = s]
    <3>1. \A q \in Slot : \A h \in Game : Committed'[q][h] =
              IF q = p /\ h = g THEN s ELSE Committed[q][h]
      BY <1>1 DEF Committed
    <3>2. /\ Committed = [q \in Slot |-> [h \in Game |-> Committed[q][h]]]
          /\ Committed' = [q \in Slot |-> [h \in Game |-> Committed'[q][h]]]
      BY DEF Committed
    <3> HIDE DEF s
    <3> QED BY <1>1, <3>1, <3>2, OneEntry
  <2>2. localLatest[p][g] <= localLatest'[p][g]
    BY <1>1 DEF Grows
  <2>3. \A f \in 1 .. localLatest'[p][g] : f \in Frame
    BY <1>1, <1>4, Sizes DEF Frame
  <2>4. s \in [1 .. localLatest'[p][g] -> Pad]
    <3>1. Committed'[p][g] = s
      BY <1>1 DEF Committed
    <3> QED BY <1>1, <1>4, <3>1
  <2>5. ASSUME NEW f \in 1 .. localLatest[p][g]
        PROVE  s[f] = Committed[p][g][f]
    <3>1. f \in 1 .. localLatest'[p][g] /\ f <= localLatest[p][g] /\ f \in Frame
      BY <1>1, <1>4, <2>2, <2>3
    <3>2. localPad'[p][g][f] = localPad[p][g][f]
      BY <1>1, <3>1 DEF Grows
    <3> QED BY <1>1, <3>1, <3>2 DEF Committed
  <2> QED BY <2>1, <2>2, <2>4, <2>5
<1>7. Log!Commit(p, g)
  <2> HIDE DEF s
  <2>1. Len(Committed[p][g]) = localLatest[p][g]
    BY <1>1, <1>4
  <2>2. localLatest'[p][g] \in Len(Committed[p][g]) .. (Span - 1)
    BY <1>1, <1>4, <1>6, <2>1
  <2>3. s \in UNION {[1 .. n -> Pad] : n \in Len(Committed[p][g]) .. (Span - 1)}
    BY <1>6, <2>2
  <2>4. s \in Log!Continuations(Committed[p][g])
    BY <1>6, <2>1, <2>3 DEF Log!Continuations
  <2> QED BY <1>6, <2>4 DEF Log!Commit, Committed
\* The transcript goes on with pairs both have committed.
<1>8. /\ transcriptFrames[p][g] <= transcriptFrames'[p][g]
      /\ \A q \in Slot : transcriptFrames'[p][g] <= localLatest'[q][g]
      /\ \A f \in 1 .. transcriptFrames'[p][g] :
             t[f] = <<localPad'[0][g][f], localPad'[1][g][f]>>
  <2>1. /\ transcriptFrames'[p][g] = Smaller(localLatest'[p][g], remoteLatest'[p][g])
        /\ transcriptFrames[p][g] = Smaller(localLatest[p][g], remoteLatest[p][g])
    BY <1>1 DEF RollbackInv, TranscriptInv, TranscriptsCurrent, Local, Remote
  <2>2. /\ remoteLatest[p][g] \in Nat /\ remoteLatest'[p][g] \in Nat
        /\ localLatest[p][g] <= localLatest'[p][g] /\ remoteLatest[p][g] <= remoteLatest'[p][g]
    <3>1. \A n \in 0 .. Span - 1 : n \in Nat
      BY Sizes
    <3> QED BY <1>1, <3>1 DEF Grows, RollbackInv, TransportInv, TransportTypeOK, StateTypeOK
  <2>3. transcriptFrames[p][g] <= transcriptFrames'[p][g]
    BY <1>1, <1>3, <1>4, <2>1, <2>2 DEF Smaller
  <2>4. /\ transcriptFrames'[p][g] <= localLatest'[p][g]
        /\ transcriptFrames'[p][g] <= remoteLatest'[p][g]
        /\ \A f \in Frame : f <= transcriptFrames'[p][g] =>
               transcriptPad'[p][g][f] = <<localPad'[0][g][f], localPad'[1][g][f]>>
    BY <1>1 DEF RollbackInv, TranscriptInv, TranscriptsTrue, TranscriptTrue
  <2>5. \A q \in Slot : transcriptFrames'[p][g] <= localLatest'[q][g]
    <3>1. remoteLatest'[p][g] <= localLatest'[Other(p)][g]
      BY <1>1 DEF RollbackInv, TransportInv, PadAgreement
    <3>2. \A q \in Slot : q = p \/ q = Other(p)
      BY DEF Slot, Other
    <3>3. Other(p) \in Slot
      BY OtherSlot
    <3> QED BY <1>1, <1>3, <1>4, <2>2, <2>4, <3>1, <3>2, <3>3
  <2>6. \A f \in 1 .. transcriptFrames'[p][g] :
            f \in Frame /\ f <= transcriptFrames'[p][g]
    BY <1>3, Sizes DEF Frame
  <2> QED BY <2>3, <2>4, <2>5, <2>6
<1>9. Log!Extend(p, g)
  <2>1. Transcripts' = [Transcripts EXCEPT ![p][g] = t]
    <3>1. \A q \in Slot : \A h \in Game : Transcripts'[q][h] =
              IF q = p /\ h = g THEN t ELSE Transcripts[q][h]
      BY <1>1 DEF Transcripts
    <3>2. /\ Transcripts = [q \in Slot |-> [h \in Game |-> Transcripts[q][h]]]
          /\ Transcripts' = [q \in Slot |-> [h \in Game |-> Transcripts'[q][h]]]
      BY DEF Transcripts
    <3> HIDE DEF t
    <3> QED BY <1>1, <3>1, <3>2, OneEntry
  <2>3. t = [f \in 1 .. transcriptFrames'[p][g] |-> <<Committed'[0][g][f], Committed'[1][g][f]>>]
    <3>1. \A q \in Slot : \A f \in 1 .. transcriptFrames'[p][g] :
              Committed'[q][g][f] = localPad'[q][g][f]
      <4>1. \A q \in Slot : \A f \in 1 .. transcriptFrames'[p][g] : f \in 1 .. localLatest'[q][g]
        BY <1>1, <1>3, <1>4, <1>8
      <4> QED BY <1>1, <4>1 DEF Committed
    <3>2. 0 \in Slot /\ 1 \in Slot
      BY DEF Slot
    <3> QED BY <1>8, <3>1, <3>2
  <2>4. \E n \in Len(Transcripts[p][g]) .. (Span - 1) :
            /\ \A q \in 0 .. 1 : n <= Len(Committed[q][g])'
            /\ Transcripts' = [Transcripts EXCEPT ![p][g] =
                   [f \in 1 .. n |-> <<Committed'[0][g][f], Committed'[1][g][f]>>]]
    <3> DEFINE n == transcriptFrames'[p][g]
    <3>1. n \in Len(Transcripts[p][g]) .. (Span - 1)
      BY <1>1, <1>3, <1>8
    <3>2. \A q \in 0 .. 1 : n <= Len(Committed[q][g])'
      BY <1>1, <1>4, <1>8 DEF Slot
    <3> HIDE DEF t
    <3> QED BY <2>1, <2>3, <3>1, <3>2
  <2> QED BY <2>4 DEF Log!Extend, Log!Pairs, Log!Peers, Committed, Transcripts
<1> QED BY <1>7, <1>9 DEF Log!Step

\* A session plays the game of InputLog: each of its steps appends to one peer's
\* pads of one game and extends that peer's transcript of it, or is no step of
\* the log at all (commit_local, advance_transcript).
THEOREM SessionImplementsLog == Spec => ImplementsInputLog
<1>1. Init => Log!Init
  <2> SUFFICES ASSUME Init PROVE Log!Init
    OBVIOUS
  <2>1. /\ Committed = [p \in Slot |-> [g \in Game |-> <<>>]]
        /\ Transcripts = [p \in Slot |-> [g \in Game |-> <<>>]]
    BY DEF Init, TransportInit, Committed, Transcripts
  <2> QED BY <2>1 DEF Log!Init, Log!Peers, Log!Games, Committed, Transcripts, Slot, Game
<1>2. ASSUME RollbackInv, RollbackInv', Grows, NEW p \in Slot, OnlyTouches(p)
      PROVE  Log!Next
  <2>1. PICK g \in Game : g = game[p]
    BY <1>2 DEF RollbackInv, TransportInv, TransportTypeOK, StateTypeOK
  <2>2. Log!Step(p, g)
    BY <1>2, <2>1, LogStep
  <2> QED BY <2>2 DEF Log!Next, Log!Peers, Log!Games, Slot, Game
<1>3. ASSUME UNCHANGED <<localLatest, localPad, transcriptFrames, transcriptPad>>
      PROVE  UNCHANGED <<Committed, Transcripts>>
  BY <1>3 DEF Committed, Transcripts
<1>4. RollbackInv /\ RollbackInv' /\ [Next]_vars =>
          [Log!Next]_<<Committed, Transcripts>>
  <2> SUFFICES ASSUME RollbackInv, RollbackInv', [Next]_vars
               PROVE  Log!Next \/ UNCHANGED <<Committed, Transcripts>>
    OBVIOUS
  <2>1. CASE LosePacket
    BY <1>3, <2>1 DEF LosePacket, Lose, transcriptVars
  <2>2. ASSUME NEW p \in Slot, Inputs(p) \/ Packet(p) \/ GameEnd(p)
        PROVE  Log!Next
    <3>1. Grows /\ OnlyTouches(p)
      BY <2>2, InputsInv, PacketInv, GameEndInv
    <3> QED BY <1>2, <3>1
  <2>3. ASSUME NEW p \in Slot, PeerLeaves(p) \/ BeginNext(p)
        PROVE  UNCHANGED <<Committed, Transcripts>>
    BY <1>3, <2>3 DEF PeerLeaves, BeginNext, Reset, transportVars, transcriptVars
  <2>4. CASE UNCHANGED vars
    BY <1>3, <2>4 DEF vars, transportVars, transcriptVars
  <2> QED BY <2>1, <2>2, <2>3, <2>4 DEF Next
<1>5. Spec => Log!Spec
  BY <1>1, <1>4, RollbackInvariant, PTL DEF Spec, Log!Spec, Committed, Transcripts
<1> QED BY <1>5 DEF ImplementsInputLog

=============================================================================
