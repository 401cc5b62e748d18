--------------------------- MODULE PeerPathsProofs ---------------------------
(***************************************************************************)
(* Proofs about the paths between two games (PeerPaths), for any number of *)
(* paths, setups and limits.                                               *)
(*                                                                         *)
(* One side decides, since the keys differ.  It chooses when it first      *)
(* hears the other, and never again; only the path chosen carries its      *)
(* VERIFY (MessageTrue), so the other, which chooses when a VERIFY comes,  *)
(* cannot choose another.                                                  *)
(***************************************************************************)
EXTENDS PeerPaths, FiniteSetTheorems, TLAPS

PeerType ==
    [state : {"Connecting", "Handshaking", "Verifying", "Ready", "Failed", "Idle"},
     link : {"Connecting", "Connected", "Failed", "Idle"},
     pinned : Path \cup {None},
     known : BOOLEAN, unsaid : BOOLEAN, verifySent : BOOLEAN]

EndType == [Path -> {"none", "dialing", "half", "up", "closing"}]

Message == {Hello, Bye} \cup {Verify(d) : d \in Setups}

PathsTypeOK ==
    /\ peer \in [Slot -> PeerType]
    /\ end \in [Slot -> EndType]
    /\ chan \in [Slot -> [Path -> Seq(Message)]]
    /\ key \in {k \in [Slot -> 1 .. 2] : k[0] # k[1]}
    /\ setup \in [Slot -> Setups]
    /\ \A p \in Slot : Taken(p) <= MaxPaths

\* What one side's session can be.
PeerState(r, decider) ==
    /\ r.state = "Idle" => r.pinned = None
    /\ ~r.known => ~r.verifySent /\ r.state \notin {"Verifying", "Ready"}
    /\ r.known /\ decider => r.verifySent
    /\ r.verifySent /\ r.state # "Idle" => r.pinned # None
    /\ ~r.verifySent => r.pinned = None /\ r.state # "Ready"

PeerStates == \A p \in Slot : PeerState(peer[p], Decider(p))

\* A message that the side of session r and setup d sent over path x.
MessageTrue(r, d, x, m) ==
    /\ m \in Message
    /\ m.type = "VERIFY" => /\ m.digest = d /\ r.verifySent
                            /\ r.state # "Idle" => r.pinned = x

Carried(r, d, x, s) ==
    /\ s \in Seq(Message)
    /\ \A i \in 1 .. Len(s) : MessageTrue(r, d, x, s[i])

MessagesTrue ==
    \A p \in Slot, x \in Path : Carried(peer[Other(p)], setup[Other(p)], x, chan[p][x])

\* The side that does not decide has chosen what the other has.
Follows ==
    \A p \in Slot : ~Decider(p) /\ peer[p].pinned # None =>
        peer[Other(p)].state = "Idle" \/ peer[Other(p)].pinned = peer[p].pinned

\* A path is closed only for the one chosen.
ClosesOthers ==
    \A p \in Slot, x \in Path : end[p][x] = "closing" => peer[p].pinned \notin {None, x}

PathsInv ==
    /\ PathsTypeOK /\ PeerStates /\ MessagesTrue /\ Follows /\ ClosesOthers /\ ReadyTogether

USE PathAssumption

-----------------------------------------------------------------------------
(* Sides and messages *)

LEMMA SlotFacts ==
    ASSUME NEW p \in Slot
    PROVE  /\ Other(p) \in Slot /\ Other(p) # p /\ Other(Other(p)) = p
           /\ \A x \in Slot : x = p \/ x = Other(p)
  BY DEF Slot, Other

\* Exactly one side decides.
LEMMA OneDecides ==
    ASSUME PathsTypeOK, NEW p \in Slot
    PROVE  Decider(p) <=> ~Decider(Other(p))
  BY DEF PathsTypeOK, Slot, Other, Decider

LEMMA MessageFacts ==
    /\ Hello \in Message /\ Hello.type = "HELLO" /\ Bye \in Message /\ Bye.type = "BYE"
    /\ \A d \in Setups : /\ Verify(d) \in Message /\ Verify(d).type = "VERIFY"
                         /\ Verify(d).digest = d
  BY DEF Message, Hello, Bye, Verify

LEMMA CarriedNothing == ASSUME NEW r, NEW d, NEW x PROVE Carried(r, d, x, <<>>)
  BY DEF Carried

LEMMA CarriedOne ==
    ASSUME NEW r, NEW d, NEW x, NEW m, MessageTrue(r, d, x, m)
    PROVE  Carried(r, d, x, <<m>>)
  BY DEF Carried, MessageTrue

LEMMA CarriedBoth ==
    ASSUME NEW r, NEW d, NEW x, NEW a, NEW b, Carried(r, d, x, a), Carried(r, d, x, b)
    PROVE  Carried(r, d, x, a \o b)
  BY DEF Carried

LEMMA CarriedRest ==
    ASSUME NEW r, NEW d, NEW x, NEW s, Carried(r, d, x, s), s # <<>>
    PROVE  Carried(r, d, x, Tail(s)) /\ MessageTrue(r, d, x, Head(s))
  BY DEF Carried

\* What a side's next session r2 still stands by.
Stands(r, r2) ==
    r.verifySent => /\ r2.verifySent
                    /\ r2.state # "Idle" => r.state # "Idle" /\ r2.pinned = r.pinned

LEMMA CarriedStays ==
    ASSUME NEW r, NEW r2, NEW d, NEW x, NEW s, Carried(r, d, x, s), Stands(r, r2)
    PROVE  Carried(r2, d, x, s)
  BY DEF Carried, MessageTrue, Stands

-----------------------------------------------------------------------------
(* What a tick makes of one session *)

\* As far as this proof goes, nothing; it may have failed, or said its HELLO.
Rests(r, s) ==
    /\ s.pinned = r.pinned /\ s.known = r.known /\ s.verifySent = r.verifySent
    /\ \/ s.state \in {r.state, "Failed"}
       \/ r.state = "Connecting" /\ s.state = "Handshaking"

\* The first HELLO, which came on path x: who decides has chosen.
Hears(r, x, s, decider) ==
    /\ ~r.known /\ s.known /\ s.verifySent = decider
    /\ s.pinned = IF decider THEN x ELSE r.pinned
    /\ s.state \in {"Verifying", "Failed"}

\* VERIFY m, which came on path x, for a side of setup d.
Verifies(r, m, x, s, d) ==
    /\ r.known /\ r.state = "Verifying" /\ m.type = "VERIFY"
    /\ s.known /\ s.verifySent
    /\ s.pinned = IF r.verifySent THEN r.pinned ELSE x
    /\ s.state = "Failed" \/ (s.state = "Ready" /\ m.digest = d)

Moves(p, r, m, x, s) ==
    /\ s \in PeerType
    /\ Rests(r, s) \/ Hears(r, x, s, Decider(p)) \/ Verifies(r, m, x, s, setup[p])

LEMMA FailKeeps ==
    ASSUME NEW r \in PeerType
    PROVE  Fail(r) \in PeerType /\ Rests(r, Fail(r)) /\ Fail(r).state = "Failed"
  BY DEF Fail, PeerType, Rests

\* What a session looks like to the proof.
Alike(r, s) ==
    /\ s.pinned = r.pinned /\ s.known = r.known
    /\ s.verifySent = r.verifySent /\ s.state = r.state

\* What a poll does about events and time moves nothing.
LEMMA PollRests ==
    ASSUME NEW r \in PeerType, NEW x, NEW ends, NEW late \in BOOLEAN
    PROVE  /\ Settled(r, ends, late) \in PeerType
           /\ AfterUp(r) \in PeerType /\ AfterDown(r, x) \in PeerType
           /\ Alike(r, Settled(r, ends, late)) /\ Alike(r, AfterUp(r))
           /\ Alike(r, AfterDown(r, x))
  <1>1. \A link \in {"Connecting", "Connected", "Failed", "Idle"} :
           LET s == [r EXCEPT !.link = link]
           IN  /\ s \in PeerType
               /\ s.pinned = r.pinned /\ s.known = r.known
               /\ s.verifySent = r.verifySent /\ s.state = r.state
    BY DEF PeerType
  <1>2. r.link \in {"Connecting", "Connected", "Failed", "Idle"}
    BY DEF PeerType
  <1>3. PICK link : link = IF r.link = "Connected" /\ r.pinned = None /\ Up(ends) = {}
                           THEN "Connecting" ELSE r.link
    OBVIOUS
  <1>4. PICK then : then = IF link = "Connecting" /\ late THEN "Failed" ELSE link
    OBVIOUS
  <1>5. Settled(r, ends, late) = [r EXCEPT !.link = then]
        /\ then \in {"Connecting", "Connected", "Failed", "Idle"}
    BY <1>2, <1>3, <1>4 DEF Settled
  <1>6. AfterDown(r, x) = r \/ AfterDown(r, x) = [r EXCEPT !.link = "Failed"]
    BY DEF AfterDown
  <1>7. PICK up : up = IF r.link = "Connecting" THEN "Connected" ELSE r.link
    OBVIOUS
  <1>8. PICK s : s = [r EXCEPT !.unsaid = TRUE]
    OBVIOUS
  <1>9. /\ s \in PeerType /\ s.link = r.link
        /\ s.pinned = r.pinned /\ s.known = r.known
        /\ s.verifySent = r.verifySent /\ s.state = r.state
    BY <1>8 DEF PeerType
  <1>10. AfterUp(r) = r \/ AfterUp(r) = [s EXCEPT !.link = up]
    BY <1>7, <1>8, <1>9 DEF AfterUp, PeerType
  <1>11. LET t == [s EXCEPT !.link = up]
         IN  /\ t \in PeerType
             /\ t.pinned = s.pinned /\ t.known = s.known
             /\ t.verifySent = s.verifySent /\ t.state = s.state
    BY <1>2, <1>7, <1>9 DEF PeerType
  <1> QED
    BY <1>1, <1>5, <1>6, <1>9, <1>10, <1>11 DEF Alike

LEMMA PacketMoves ==
    ASSUME NEW p \in Slot, NEW r \in PeerType, NEW m \in Message, NEW x \in Path,
           Decider(p) \in BOOLEAN
    PROVE  Moves(p, r, m, x, OnPacket(p, r, m, x))
  <1>0. m.type \in {"HELLO", "VERIFY", "BYE"}
    BY MessageFacts DEF Message
  <1>1. Moves(p, r, m, x, r)
    BY DEF Moves, Rests
  <1>2. Moves(p, r, m, x, Fail(r))
    BY FailKeeps DEF Moves
  <1>3. CASE m.type = "HELLO" /\ ~r.known
    <2>1. PICK s, decider, pin :
             /\ s = OnPacket(p, r, m, x) /\ decider = Decider(p)
             /\ pin = IF decider THEN x ELSE r.pinned
      OBVIOUS
    <2>2. s = [r EXCEPT !.known = TRUE, !.state = "Verifying", !.pinned = pin,
                        !.verifySent = decider]
      BY <1>3, <2>1 DEF OnPacket, OnHello
    <2>3. pin \in Path \cup {None} /\ decider \in BOOLEAN
      BY <2>1 DEF PeerType
    <2>4. s \in PeerType /\ s.known /\ s.state = "Verifying" /\ s.pinned = pin
      BY <2>2, <2>3 DEF PeerType
    <2>5. s.verifySent = decider
      BY <2>2, <2>3 DEF PeerType
    <2> QED
      BY <1>3, <2>1, <2>4, <2>5 DEF Moves, Hears
  <1>4. CASE m.type = "VERIFY" /\ r.known /\ r.state = "Verifying"
    <2>1. PICK s, pin, state :
             /\ s = OnPacket(p, r, m, x)
             /\ pin = IF r.verifySent THEN r.pinned ELSE x
             /\ state = IF m.digest = setup[p] THEN "Ready" ELSE "Failed"
      OBVIOUS
    <2>2. s = [r EXCEPT !.pinned = pin, !.verifySent = TRUE, !.state = state]
      BY <1>4, <2>1 DEF OnPacket, OnVerify, SameSetup
    <2>3. pin \in Path \cup {None} /\ state \in {"Ready", "Failed"}
      BY <2>1 DEF PeerType
    <2>4. /\ s \in PeerType /\ s.known /\ s.verifySent /\ s.state = state
          /\ s.pinned = pin
      BY <1>4, <2>2, <2>3 DEF PeerType
    <2> QED
      BY <1>4, <2>1, <2>3, <2>4 DEF Moves, Verifies
  <1> QED
    BY <1>0, <1>1, <1>2, <1>3, <1>4 DEF OnPacket, OnHello, OnVerify

LEMMA AfterPollMoves ==
    ASSUME NEW p \in Slot, NEW r, NEW m, NEW x, NEW h, Moves(p, r, m, x, h),
           NEW ends, NEW late \in BOOLEAN
    PROVE  /\ Moves(p, r, m, x, AfterPoll(h, ends, late))
           /\ Rests(h, AfterPoll(h, ends, late))
           /\ AfterPoll(h, ends, late).pinned = h.pinned
           /\ AfterPoll(h, ends, late).verifySent = h.verifySent
  <1>0. h \in PeerType
    BY DEF Moves
  <1>1. /\ Moves(p, r, m, x, Fail(h)) /\ Rests(h, Fail(h))
        /\ Fail(h).pinned = h.pinned /\ Fail(h).verifySent = h.verifySent
    BY <1>0, FailKeeps DEF Moves, Rests, Hears, Verifies
  <1>2. CASE h.state \in {"Connecting", "Handshaking", "Verifying"} /\ SaysHello(h, ends)
    <2>1. PICK s, state : /\ s = [h EXCEPT !.unsaid = FALSE]
                          /\ state = IF h.state = "Connecting" THEN "Handshaking" ELSE h.state
      OBVIOUS
    <2>2. /\ s \in PeerType /\ s.state = h.state
          /\ s.pinned = h.pinned /\ s.known = h.known /\ s.verifySent = h.verifySent
      BY <1>0, <2>1 DEF PeerType
    <2>3. PICK t : t = [s EXCEPT !.state = state]
      OBVIOUS
    <2>4. /\ t \in PeerType /\ t.state = state
          /\ t.pinned = h.pinned /\ t.known = h.known /\ t.verifySent = h.verifySent
      BY <1>2, <2>1, <2>2, <2>3 DEF PeerType
    <2>5. Moves(p, r, m, x, t) /\ Rests(h, t)
      BY <1>2, <2>1, <2>4 DEF Moves, Rests, Hears, Verifies
    <2>6. AfterPoll(h, ends, late) \in {Fail(h), t}
      BY <1>0, <1>2, <2>1, <2>2, <2>3 DEF AfterPoll, PeerType
    <2> QED
      BY <1>1, <2>4, <2>5, <2>6
  <1>3. CASE ~(h.state \in {"Connecting", "Handshaking", "Verifying"} /\ SaysHello(h, ends))
    <2>1. AfterPoll(h, ends, late) \in {Fail(h), h}
      BY <1>3 DEF AfterPoll
    <2>2. Rests(h, h)
      BY DEF Rests
    <2> QED
      BY <1>1, <2>1, <2>2
  <1> QED
    BY <1>2, <1>3

-----------------------------------------------------------------------------
(* What a tick says *)

LEMMA SaidTrue ==
    ASSUME PathsTypeOK, NEW p \in Slot, NEW r \in PeerType, PeerState(r, Decider(p)),
           NEW m \in Message, NEW y \in Path, NEW s,
           s.pinned = OnPacket(p, r, m, y).pinned,
           s.verifySent = OnPacket(p, r, m, y).verifySent,
           NEW x \in Path, s.pinned \in {None, x}
    PROVE  Carried(s, setup[p], x, PacketSays(p, r, m))
  <1>0. PICK d : d = setup[p]
    OBVIOUS
  <1>1. d \in Setups /\ Verify(d) \in Message
    BY <1>0, MessageFacts DEF PathsTypeOK
  <1>2. /\ Carried(s, d, x, <<>>) /\ Carried(s, d, x, <<Bye>>)
        /\ MessageTrue(s, d, x, Hello)
    BY CarriedNothing, CarriedOne, MessageFacts DEF MessageTrue
  <1>3. CASE m.type = "HELLO" /\ ~r.known /\ Decider(p)
    <2>1. s.pinned = y /\ s.verifySent
      BY <1>3 DEF OnPacket, OnHello, PeerType
    <2>2. MessageTrue(s, d, x, Verify(d))
      BY <1>1, <2>1, MessageFacts DEF MessageTrue
    <2>3. Carried(s, d, x, <<Hello>> \o <<Verify(d)>>)
      BY <1>2, <2>2, CarriedOne, CarriedBoth
    <2>4. PacketSays(p, r, m) = <<Hello>> \o <<Verify(d)>>
      BY <1>0, <1>1, <1>3, MessageFacts DEF PacketSays, HelloSays
    <2> QED
      BY <1>0, <2>3, <2>4
  <1>4. CASE m.type = "VERIFY" /\ r.known /\ r.state = "Verifying"
    <2>1. PICK a, b : /\ a = IF r.verifySent THEN <<>> ELSE <<Verify(d)>>
                      /\ b = IF SameSetup(p, r, m) THEN <<>> ELSE <<Bye>>
      OBVIOUS
    <2>2. ~r.verifySent => s.pinned = y /\ s.verifySent
      BY <1>4 DEF OnPacket, OnVerify, PeerType
    <2>3. ~r.verifySent => MessageTrue(s, d, x, Verify(d))
      BY <1>1, <2>2, MessageFacts DEF MessageTrue
    <2>4. Carried(s, d, x, a) /\ Carried(s, d, x, b)
      BY <1>2, <2>1, <2>3, CarriedOne
    <2>5. PacketSays(p, r, m) = a \o b
      BY <1>0, <1>4, <2>1 DEF PacketSays, VerifySays
    <2> QED
      BY <1>0, <2>4, <2>5, CarriedBoth
  <1>5. CASE /\ ~(m.type = "HELLO" /\ ~r.known /\ Decider(p))
             /\ ~(m.type = "VERIFY" /\ r.known /\ r.state = "Verifying")
    <2>1. PacketSays(p, r, m) = <<>>
      BY <1>5 DEF PacketSays, HelloSays, VerifySays
    <2> QED
      BY <1>0, <1>2, <2>1
  <1> QED
    BY <1>3, <1>4, <1>5

LEMMA SaysMessages ==
    ASSUME NEW p \in Slot, setup[p] \in Setups, NEW r, NEW m
    PROVE  PacketSays(p, r, m) \in Seq(Message)
  <1>1. PICK d : d = setup[p]
    OBVIOUS
  <1>2. /\ <<>> \in Seq(Message) /\ <<Bye>> \in Seq(Message)
        /\ <<Verify(d)>> \in Seq(Message) /\ <<Hello, Verify(d)>> \in Seq(Message)
    BY <1>1, MessageFacts
  <1>3. \A a, b \in Seq(Message) : a \o b \in Seq(Message)
    OBVIOUS
  <1>4. HelloSays(p, r) \in Seq(Message)
    BY <1>1, <1>2 DEF HelloSays
  <1>5. VerifySays(p, r, m) \in Seq(Message)
    BY <1>1, <1>2, <1>3 DEF VerifySays
  <1> QED
    BY <1>2, <1>4, <1>5 DEF PacketSays

\* What a side's session r may have added to what is on its way over each path.
MaySend(r, said, before, after) ==
    \A y \in Path : \/ after[y] = before[y]
                    \/ after[y] = before[y] \o said /\ r.pinned \in {None, y}

OnlyTo(q, before, after) == \A z \in Slot \ {q} : after[z] = before[z]

LEMMA PostFacts ==
    ASSUME NEW p \in Slot, NEW r, NEW ends, NEW said \in Seq(Message),
           NEW chans \in [Slot -> [Path -> Seq(Message)]],
           NEW c, c = Posted(p, r, ends, said, chans)
    PROVE  /\ c \in [Slot -> [Path -> Seq(Message)]]
           /\ OnlyTo(Other(p), chans, c)
           /\ MaySend(r, said, chans[Other(p)], c[Other(p)])
  <1>0. Other(p) \in Slot /\ Other(p) # p
    BY SlotFacts
  <1>1. PICK over, q, to : /\ over = IF r.pinned = None THEN Up(ends[p])
                                     ELSE Up(ends[p]) \cap {r.pinned}
                           /\ q = Other(p)
                           /\ to = [y \in Path |->
                                      IF y \in over /\ ends[q][y] \in {"up", "half"}
                                      THEN chans[q][y] \o said ELSE chans[q][y]]
    OBVIOUS
  <1>2. Posted(p, r, ends, said, chans) = [chans EXCEPT ![q] = to]
    BY <1>0, <1>1 DEF Posted
  <1>3. q \in Slot /\ q # p /\ chans[q] \in [Path -> Seq(Message)]
    BY <1>0, <1>1
  <1>4. \A y \in Path : chans[q][y] \in Seq(Message) /\ chans[q][y] \o said \in Seq(Message)
    BY <1>3
  <1>5. to \in [Path -> Seq(Message)]
    BY <1>1, <1>4
  <1>6. \A y \in Path : \/ to[y] = chans[q][y]
                        \/ to[y] = chans[q][y] \o said /\ r.pinned \in {None, y}
    BY <1>1
  <1>7. MaySend(r, said, chans[q], to)
    BY <1>6 DEF MaySend
  <1>8. OnlyTo(q, chans, [chans EXCEPT ![q] = to])
    BY <1>3 DEF OnlyTo
  <1> QED
    BY <1>1, <1>2, <1>3, <1>5, <1>7, <1>8

LEMMA ReadFacts ==
    ASSUME NEW p \in Slot, NEW r, NEW ends,
           NEW chans \in [Slot -> [Path -> Seq(Message)]]
    PROVE  LET c == Read(p, r, ends, chans)
           IN  /\ c \in [Slot -> [Path -> Seq(Message)]]
               /\ c[Other(p)] = chans[Other(p)]
               /\ \A y \in Path : c[p][y] \in {chans[p][y], <<>>}
  <1>0. Other(p) \in Slot /\ Other(p) # p
    BY SlotFacts
  <1>1. PICK to : to = [y \in Path |->
                          IF ends[p][y] \in {"up", "half"} /\ r.pinned \in {None, y}
                          THEN chans[p][y] ELSE <<>>]
    OBVIOUS
  <1>2. Read(p, r, ends, chans) = [chans EXCEPT ![p] = to]
    BY <1>1 DEF Read
  <1>3. <<>> \in Seq(Message) /\ \A y \in Path : chans[p][y] \in Seq(Message)
    OBVIOUS
  <1>4. to \in [Path -> Seq(Message)] /\ \A y \in Path : to[y] \in {chans[p][y], <<>>}
    BY <1>1, <1>3
  <1> QED
    BY <1>0, <1>2, <1>4

-----------------------------------------------------------------------------
(* Every step keeps the invariant *)

\* What one side's tick does to the two sessions.
LEMMA SessionStep ==
    ASSUME PathsInv, NEW p \in Slot, NEW m, NEW x, NEW s,
           peer[p].state # "Idle", Moves(p, peer[p], m, x, s),
           \/ Rests(peer[p], s)
           \/ x \in Path /\ MessageTrue(peer[Other(p)], setup[Other(p)], x, m),
           peer' = [peer EXCEPT ![p] = s], UNCHANGED <<key, setup>>
    PROVE  /\ peer' \in [Slot -> PeerType] /\ PeerStates' /\ Follows' /\ ReadyTogether'
           /\ Stands(peer[p], s)
           /\ peer[p].pinned # None => s.pinned = peer[p].pinned
  <1> DEFINE r == peer[p]
             q == Other(p)
             o == peer[q]
  <1>1. /\ q \in Slot /\ q # p /\ Other(q) = p /\ \A z \in Slot : z = p \/ z = q
        /\ r \in PeerType /\ o \in PeerType /\ s \in PeerType
        /\ PeerState(r, Decider(p)) /\ PeerState(o, Decider(q))
        /\ Decider(p) <=> ~Decider(q)
    BY SlotFacts, OneDecides DEF PathsInv, PathsTypeOK, PeerStates, Moves
  <1>2. /\ peer' \in [Slot -> PeerType] /\ peer'[p] = s /\ peer'[q] = o
        /\ \A z \in Slot : Decider(z)' <=> Decider(z)
        /\ setup' = setup
    BY <1>1 DEF PathsInv, PathsTypeOK, Decider
  <1>3. /\ ~Decider(p) /\ r.pinned # None => o.state = "Idle" \/ o.pinned = r.pinned
        /\ ~Decider(q) /\ o.pinned # None => r.state = "Idle" \/ r.pinned = o.pinned
        /\ r.state = "Ready" =>
              /\ setup[p] = setup[q] /\ (o.state # "Idle" => o.verifySent /\ o.pinned = r.pinned)
        /\ o.state = "Ready" =>
              /\ setup[q] = setup[p] /\ (r.state # "Idle" => r.verifySent /\ r.pinned = o.pinned)
    BY <1>1 DEF PathsInv, Follows, ReadyTogether
  <1>4. \/ Rests(r, s)
        \/ Hears(r, x, s, Decider(p)) /\ x # None
        \/ /\ Verifies(r, m, x, s, setup[p]) /\ x # None
           /\ m.digest = setup[q] /\ o.verifySent /\ (o.state # "Idle" => o.pinned = x)
    <2>1. x \in Path => x # None
      OBVIOUS
    <2>2. Verifies(r, m, x, s, setup[p]) /\ MessageTrue(o, setup[q], x, m) =>
            /\ m.digest = setup[q] /\ o.verifySent /\ (o.state # "Idle" => o.pinned = x)
      BY DEF Verifies, MessageTrue
    <2> QED
      BY <2>1, <2>2 DEF Moves
  <1>5. Stands(r, s) /\ (r.pinned # None => s.pinned = r.pinned)
    BY <1>1, <1>4 DEF Stands, PeerState, Rests, Hears, Verifies
  <1>6. PeerState(s, Decider(p))
    BY <1>1, <1>4 DEF PeerState, Rests, Hears, Verifies
  <1>7. PeerStates'
    BY <1>1, <1>2, <1>6 DEF PeerStates, PeerState
  <1>8. ~Decider(p) /\ s.pinned # None => o.state = "Idle" \/ o.pinned = s.pinned
    BY <1>1, <1>3, <1>4 DEF Rests, Hears, Verifies, PeerState
  <1>9. ~Decider(q) /\ o.pinned # None => s.pinned = o.pinned
    BY <1>1, <1>3, <1>5
  <1>10. Follows'
    BY <1>1, <1>2, <1>8, <1>9 DEF Follows
  <1>11. s.state = "Ready" =>
           /\ setup[p] = setup[q] /\ (o.state # "Idle" => o.verifySent /\ o.pinned = s.pinned)
    <2>1. CASE Rests(r, s)
      BY <1>3, <2>1 DEF Rests
    <2>2. CASE Hears(r, x, s, Decider(p))
      BY <2>2 DEF Hears
    <2>3. CASE /\ Verifies(r, m, x, s, setup[p]) /\ x # None
               /\ m.digest = setup[q] /\ o.verifySent /\ (o.state # "Idle" => o.pinned = x)
      <3>1. r.verifySent => r.pinned # None
        BY <1>1, <2>3 DEF PeerState, Verifies
      <3>2. o.state # "Idle" /\ r.verifySent => r.pinned = x
        BY <1>1, <1>3, <2>3, <3>1
      <3> QED
        BY <2>3, <3>2 DEF Verifies
    <2> QED
      BY <1>4, <2>1, <2>2, <2>3
  <1>12. o.state = "Ready" =>
           /\ setup[q] = setup[p] /\ (s.state # "Idle" => s.verifySent /\ s.pinned = o.pinned)
    BY <1>3, <1>5 DEF Stands
  <1>13. ReadyTogether'
    BY <1>1, <1>2, <1>11, <1>12 DEF ReadyTogether
  <1> QED
    BY <1>2, <1>5, <1>7, <1>10, <1>13

\* How many paths a side holds.
Held(e) == {y \in Path : e[y] # "none"}

LEMMA HeldShrinks ==
    ASSUME NEW e \in EndType, NEW f \in EndType, \A y \in Path : e[y] = "none" => f[y] = "none",
           Cardinality(Held(e)) <= MaxPaths
    PROVE  Cardinality(Held(f)) <= MaxPaths
  <1>1. IsFiniteSet(Held(e)) /\ IsFiniteSet(Held(f))
    BY FS_Subset DEF Held
  <1>2. Held(f) \subseteq Held(e)
    BY DEF Held
  <1>3. Cardinality(Held(f)) <= Cardinality(Held(e))
    BY <1>1, <1>2, FS_Subset
  <1>4. Cardinality(Held(f)) \in Nat /\ Cardinality(Held(e)) \in Nat
    BY <1>1, FS_CardinalityType
  <1> QED
    BY <1>3, <1>4

LEMMA HeldGrows ==
    ASSUME NEW e \in EndType, NEW f \in EndType, NEW x \in Path,
           \A y \in Path \ {x} : e[y] = "none" => f[y] = "none",
           Cardinality(Held(e)) < MaxPaths
    PROVE  Cardinality(Held(f)) <= MaxPaths
  <1>1. IsFiniteSet(Held(e)) /\ IsFiniteSet(Held(f)) /\ IsFiniteSet(Held(e) \cup {x})
    BY FS_Subset, FS_AddElement DEF Held
  <1>2. Held(f) \subseteq Held(e) \cup {x}
    BY DEF Held
  <1>3. Cardinality(Held(f)) <= Cardinality(Held(e) \cup {x})
    BY <1>1, <1>2, FS_Subset
  <1>4. Cardinality(Held(e) \cup {x}) <= Cardinality(Held(e)) + 1
    BY <1>1, FS_AddElement, FS_CardinalityType
  <1>5. /\ Cardinality(Held(f)) \in Nat /\ Cardinality(Held(e)) \in Nat
        /\ Cardinality(Held(e) \cup {x}) \in Nat
    BY <1>1, FS_CardinalityType
  <1> QED
    BY <1>3, <1>4, <1>5

\* The ends of a side that has just chosen path x.
LEMMA PinnedFacts ==
    ASSUME NEW e \in EndType, NEW x
    PROVE  /\ Pinned(e, x) \in EndType
           /\ \A y \in Path : /\ e[y] = "none" => Pinned(e, x)[y] = "none"
                              /\ Pinned(e, x)[y] = "closing" => e[y] = "closing" \/ y # x
  BY DEF Pinned, EndType

LEMMA AlikeMoves ==
    ASSUME NEW p \in Slot, NEW r, NEW s, NEW t, NEW m, NEW x, Alike(r, s)
    PROVE  /\ Moves(p, s, m, x, t) => Moves(p, r, m, x, t)
           /\ Rests(s, t) => Rests(r, t)
           /\ \A decider \in BOOLEAN : PeerState(r, decider) => PeerState(s, decider)
  BY DEF Alike, Moves, Rests, Hears, Verifies, PeerState

\* What has happened to the paths when the packets of a tick are read.
EndsMay(ends) ==
    /\ ends \in [Slot -> EndType]
    /\ \A z \in Slot : Cardinality(Held(ends[z])) <= MaxPaths
    /\ \A z \in Slot, y \in Path : ends[z][y] = "closing" => end[z][y] = "closing"

LEMMA TickStep ==
    ASSUME PathsInv, NEW p \in Slot, Polls(p), NEW r \in PeerType, Alike(peer[p], r),
           NEW ends, EndsMay(ends), NEW x \in Path \cup {None}, NEW late \in BOOLEAN,
           TickAfter(p, r, ends, x, late), UNCHANGED <<key, setup>>
    PROVE  PathsInv'
  <1>1. PICK q, e, before, o, d, f :
           /\ q = Other(p) /\ e = ends[p] /\ before = peer[p] /\ o = peer[q]
           /\ d = setup[p] /\ f = setup[q]
    OBVIOUS
  <1>2. PICK polled, m, heard, said :
           /\ polled = Settled(r, e, late)
           /\ m = IF x # None THEN Head(chan[p][x]) ELSE Hello
           /\ heard = IF x # None THEN OnPacket(p, polled, m, x) ELSE polled
           /\ said = IF x # None THEN PacketSays(p, polled, m) ELSE <<>>
    OBVIOUS
  <1>3. PICK ends2 :
           ends2 = IF heard.pinned # polled.pinned
                   THEN [ends EXCEPT ![p] = Pinned(e, heard.pinned)] ELSE ends
    OBVIOUS
  <1>4. PICK e2, after, hello, rest :
           /\ e2 = ends2[p]
           /\ after = AfterPoll(heard, e2, late)
           /\ hello = IF SaysHello(heard, e2) THEN <<Hello>> ELSE <<>>
           /\ rest = IF x # None THEN [chan EXCEPT ![p][x] = Tail(@)] ELSE chan
    OBVIOUS
  <1>5. /\ x # None => chan[p][x] # <<>>
        /\ peer' = [peer EXCEPT ![p] = after]
        /\ end' = ends2
        /\ chan' = Read(p, after, ends2, Posted(p, after, ends2, said \o hello, rest))
    BY <1>1, <1>2, <1>3, <1>4 DEF TickAfter
  <1>6. /\ q \in Slot /\ q # p /\ Other(q) = p /\ \A z \in Slot : z = p \/ z = q
        /\ before \in PeerType /\ before.state # "Idle" /\ PeerState(before, Decider(p))
        /\ chan \in [Slot -> [Path -> Seq(Message)]] /\ Decider(p) \in BOOLEAN
        /\ d \in Setups
    BY <1>1, SlotFacts DEF PathsInv, PathsTypeOK, PeerStates, Polls, Decider
  <1>7. /\ \A y \in Path : Carried(o, f, y, chan[p][y])
        /\ \A y \in Path : Carried(before, d, y, chan[q][y])
    BY <1>1, <1>6 DEF PathsInv, MessagesTrue
  <1>8. polled \in PeerType /\ Alike(before, polled)
    <2>1. polled \in PeerType /\ Alike(r, polled)
      BY <1>2, PollRests
    <2> QED
      BY <1>1, <2>1 DEF Alike
  <1>9. /\ m \in Message
        /\ x # None => x \in Path /\ MessageTrue(o, f, x, m)
    <2>1. CASE x = None
      BY <1>2, <2>1, MessageFacts
    <2>2. CASE x # None
      <3>1. PICK s : s = chan[p][x]
        OBVIOUS
      <3>2. Carried(o, f, x, s) /\ s # <<>>
        BY <1>5, <1>7, <2>2, <3>1
      <3>3. MessageTrue(o, f, x, m)
        BY <1>2, <2>2, <3>1, <3>2, CarriedRest
      <3> QED
        BY <2>2, <3>3 DEF MessageTrue
    <2> QED
      BY <2>1, <2>2
  <1>10. /\ Moves(p, polled, m, x, heard)
         /\ x = None => heard = polled
    <2>1. CASE x = None
      BY <1>2, <1>8, <2>1 DEF Moves, Rests
    <2>2. CASE x # None
      BY <1>2, <1>6, <1>8, <1>9, <2>2, PacketMoves
    <2> QED
      BY <2>1, <2>2
  <1>11. /\ Moves(p, polled, m, x, after) /\ Rests(heard, after)
         /\ after.pinned = heard.pinned /\ after.verifySent = heard.verifySent
    BY <1>4, <1>10, AfterPollMoves
  <1>12. /\ Moves(p, before, m, x, after)
         /\ x = None => Rests(before, after)
         /\ PeerState(polled, Decider(p))
    <2>1. PICK decider : decider = Decider(p)
      OBVIOUS
    <2>2. decider \in BOOLEAN /\ PeerState(before, decider)
      BY <1>6, <2>1
    <2>3. PeerState(polled, decider)
      BY <1>8, <2>2, AlikeMoves
    <2>4. x = None => Rests(polled, after)
      BY <1>10, <1>11
    <2> QED
      BY <1>8, <1>11, <2>1, <2>3, <2>4, AlikeMoves
  <1>13. /\ peer' \in [Slot -> PeerType] /\ PeerStates' /\ Follows' /\ ReadyTogether'
         /\ Stands(before, after)
         /\ before.pinned # None => after.pinned = before.pinned
    BY <1>1, <1>5, <1>6, <1>9, <1>12, SessionStep
  <1>14. /\ e \in EndType /\ ends2 \in [Slot -> EndType]
         /\ \A z \in Slot \ {p} : ends2[z] = ends[z]
         /\ ends2[p] = IF heard.pinned # polled.pinned THEN Pinned(e, heard.pinned) ELSE e
    BY <1>1, <1>3, PinnedFacts DEF EndsMay
  <1>15. \A z \in Slot : Taken(z)' <= MaxPaths
    <2>1. Cardinality(Held(ends2[p])) <= MaxPaths
      <3>1. Cardinality(Held(e)) <= MaxPaths
        BY <1>1 DEF EndsMay
      <3>2. PICK g, h : g = Pinned(e, h) /\ h = heard.pinned
        OBVIOUS
      <3>3. g \in EndType /\ Cardinality(Held(g)) <= MaxPaths
        BY <1>14, <3>1, <3>2, PinnedFacts, HeldShrinks
      <3> QED
        BY <1>14, <3>1, <3>2, <3>3
    <2>2. \A z \in Slot : Cardinality(Held(ends2[z])) <= MaxPaths
      BY <1>14, <2>1 DEF EndsMay
    <2> QED
      BY <1>5, <2>2 DEF Taken, Held
  <1>16. ClosesOthers'
    <2>1. \A z \in Slot, y \in Path : end[z][y] = "closing" => peer[z].pinned \notin {None, y}
      BY DEF PathsInv, ClosesOthers
    <2>2. \A y \in Path : ends2[p][y] = "closing" => after.pinned \notin {None, y}
      <3>1. CASE heard.pinned = polled.pinned
        BY <1>1, <1>8, <1>11, <1>14, <2>1, <3>1 DEF EndsMay, Alike
      <3>2. CASE heard.pinned # polled.pinned
        <4>1. before.pinned = None /\ after.pinned # None
          BY <1>8, <1>11, <1>13, <3>2 DEF Alike
        <4>2. \A y \in Path : e[y] # "closing"
          BY <1>1, <2>1, <4>1 DEF EndsMay
        <4>3. PICK h : h = heard.pinned
          OBVIOUS
        <4>4. \A y \in Path : Pinned(e, h)[y] = "closing" => y # h
          BY <1>14, <4>2, PinnedFacts
        <4> QED
          BY <1>11, <1>14, <3>2, <4>1, <4>3, <4>4
      <3> QED
        BY <3>1, <3>2
    <2>3. \A y \in Path : ends2[q][y] = "closing" => o.pinned \notin {None, y}
      BY <1>1, <1>6, <1>14, <2>1 DEF EndsMay
    <2>4. peer'[p] = after /\ peer'[q] = o
      BY <1>1, <1>5, <1>6 DEF PathsInv, PathsTypeOK
    <2> QED
      BY <1>5, <1>6, <2>2, <2>3, <2>4 DEF ClosesOthers
  <1>17. /\ rest \in [Slot -> [Path -> Seq(Message)]]
         /\ rest[q] = chan[q]
         /\ \A y \in Path : Carried(o, f, y, rest[p][y])
    <2>1. CASE x = None
      BY <1>4, <1>6, <1>7, <2>1
    <2>2. CASE x # None
      <3>1. PICK s, t : s = chan[p][x] /\ t = Tail(s)
        OBVIOUS
      <3>2. x \in Path /\ s # <<>> /\ Carried(o, f, x, s)
        BY <1>5, <1>7, <2>2, <3>1
      <3>3. Carried(o, f, x, t)
        BY <3>1, <3>2, CarriedRest
      <3>4. t \in Seq(Message)
        BY <3>3 DEF Carried
      <3>5. rest = [chan EXCEPT ![p] = [chan[p] EXCEPT ![x] = t]]
        BY <1>4, <2>2, <3>1
      <3>6. \A y \in Path : rest[p][y] = IF y = x THEN t ELSE chan[p][y]
        BY <1>6, <3>2, <3>5
      <3>7. rest \in [Slot -> [Path -> Seq(Message)]] /\ rest[q] = chan[q]
        BY <1>6, <3>2, <3>4, <3>5
      <3> QED
        BY <1>7, <3>3, <3>6, <3>7
    <2> QED
      BY <2>1, <2>2
  <1>18. PICK says : says = said \o hello
    OBVIOUS
  <1>19. \A y \in Path : after.pinned \in {None, y} => Carried(after, d, y, says)
    <2> SUFFICES ASSUME NEW y \in Path, after.pinned \in {None, y}
                 PROVE  Carried(after, d, y, says)
      OBVIOUS
    <2>1. Carried(after, d, y, said)
      <3>1. CASE x = None
        BY <1>2, <3>1, CarriedNothing
      <3>2. CASE x # None
        BY <1>1, <1>2, <1>8, <1>9, <1>11, <1>12, <3>2, SaidTrue DEF PathsInv
      <3> QED
        BY <3>1, <3>2
    <2>2. Carried(after, d, y, hello)
      <3>1. MessageTrue(after, d, y, Hello)
        BY MessageFacts DEF MessageTrue
      <3> QED
        BY <1>4, <3>1, CarriedNothing, CarriedOne
    <2> QED
      BY <1>18, <2>1, <2>2, CarriedBoth
  <1>20. says \in Seq(Message)
    <2>1. said \in Seq(Message)
      <3>1. CASE x = None
        BY <1>2, <3>1
      <3>2. CASE x # None
        BY <1>1, <1>2, <1>6, <3>2, SaysMessages
      <3> QED
        BY <3>1, <3>2
    <2>2. hello \in Seq(Message)
      BY <1>4, MessageFacts
    <2> QED
      BY <1>18, <2>1, <2>2
  <1>21. PICK sent : sent = Posted(p, after, ends2, says, rest)
    OBVIOUS
  <1>22. /\ sent \in [Slot -> [Path -> Seq(Message)]] /\ sent[p] = rest[p]
         /\ \A y \in Path : \/ sent[q][y] = rest[q][y]
                            \/ sent[q][y] = rest[q][y] \o says /\ after.pinned \in {None, y}
    <2>1. sent \in [Slot -> [Path -> Seq(Message)]]
      BY <1>17, <1>20, <1>21, PostFacts
    <2>2. OnlyTo(Other(p), rest, sent)
      BY <1>17, <1>20, <1>21, PostFacts
    <2>3. MaySend(after, says, rest[Other(p)], sent[Other(p)])
      BY <1>17, <1>20, <1>21, PostFacts
    <2> QED
      BY <1>1, <1>6, <2>1, <2>2, <2>3 DEF MaySend, OnlyTo
  <1>23. /\ chan' \in [Slot -> [Path -> Seq(Message)]] /\ chan'[q] = sent[q]
         /\ \A y \in Path : chan'[p][y] \in {sent[p][y], <<>>}
    BY <1>1, <1>5, <1>18, <1>21, <1>22, ReadFacts
  <1>24. MessagesTrue'
    <2>1. \A y \in Path : Carried(o, f, y, chan'[p][y])
      <3>1. ASSUME NEW y \in Path, NEW s, s = chan'[p][y]
            PROVE  Carried(o, f, y, s)
        <4>1. s = rest[p][y] \/ s = <<>>
          BY <1>22, <1>23, <3>1
        <4> QED
          BY <1>17, <4>1, CarriedNothing
      <3> QED
        BY <3>1
    <2>2. \A y \in Path : Carried(after, d, y, rest[q][y])
      BY <1>7, <1>13, <1>17, CarriedStays
    <2>3. ASSUME NEW y \in Path
          PROVE  Carried(after, d, y, chan'[q][y])
      <3>1. PICK a : a = rest[q][y]
        OBVIOUS
      <3>2. Carried(after, d, y, a)
        BY <2>2, <3>1
      <3>3. after.pinned \in {None, y} => Carried(after, d, y, a \o says)
        BY <1>19, <3>2, CarriedBoth
      <3> QED
        BY <1>22, <1>23, <3>1, <3>2, <3>3
    <2>4. /\ peer'[p] = after /\ peer'[q] = o /\ setup'[p] = d /\ setup'[q] = f
      BY <1>1, <1>5, <1>6 DEF PathsInv, PathsTypeOK
    <2> QED
      BY <1>1, <1>6, <2>1, <2>3, <2>4 DEF MessagesTrue
  <1>25. PathsTypeOK'
    BY <1>5, <1>13, <1>14, <1>15, <1>23 DEF PathsInv, PathsTypeOK
  <1> QED
    BY <1>13, <1>16, <1>24, <1>25 DEF PathsInv

LEMMA QuietEnds == ASSUME PathsInv PROVE EndsMay(end)
  BY DEF PathsInv, PathsTypeOK, EndsMay, Taken, Held

LEMMA UpEnds ==
    ASSUME PathsInv, NEW p \in Slot, NEW x \in Path, CanUp(p, x)
    PROVE  EndsMay(EndsAfterUp(p, x))
  <1>1. PICK q, ep, eq : q = Other(p) /\ ep = end[p] /\ eq = end[q]
    OBVIOUS
  <1>2. /\ q \in Slot /\ q # p /\ \A z \in Slot : z = p \/ z = q
        /\ end \in [Slot -> EndType] /\ ep \in EndType /\ eq \in EndType
    BY <1>1, SlotFacts DEF PathsInv, PathsTypeOK
  <1>3. Cardinality(Held(ep)) <= MaxPaths /\ Cardinality(Held(eq)) <= MaxPaths
    BY <1>1, <1>2 DEF PathsInv, PathsTypeOK, Taken, Held
  <1>4. ep[x] # "none"
    BY <1>1 DEF CanUp
  <1>5. PICK gp, gq :
           /\ gp = [ep EXCEPT ![x] = IF peer[p].pinned # None THEN "none" ELSE "up"]
           /\ gq = IF peer[p].pinned = None /\ ep[x] = "dialing"
                   THEN [eq EXCEPT ![x] = "half"] ELSE eq
    OBVIOUS
  <1>6. gp \in EndType /\ gq \in EndType
    BY <1>2, <1>5 DEF EndType
  <1>7. EndsAfterUp(p, x) = [[end EXCEPT ![p] = gp] EXCEPT ![q] = gq]
    BY <1>1, <1>2, <1>5 DEF EndsAfterUp, EndType
  <1>8. Cardinality(Held(gp)) <= MaxPaths
    <2>1. \A y \in Path : ep[y] = "none" => gp[y] = "none"
      BY <1>2, <1>4, <1>5 DEF EndType
    <2> QED
      BY <1>2, <1>3, <1>6, <2>1, HeldShrinks
  <1>9. Cardinality(Held(gq)) <= MaxPaths
    <2>1. CASE ep[x] = "dialing"
      <3>1. Cardinality(Held(eq)) < MaxPaths
        BY <1>1, <2>1 DEF CanUp, Taken, Held
      <3>2. \A y \in Path \ {x} : eq[y] = "none" => gq[y] = "none"
        BY <1>2, <1>5 DEF EndType
      <3> QED
        BY <1>2, <1>6, <3>1, <3>2, HeldGrows
    <2>2. CASE ep[x] # "dialing"
      BY <1>3, <1>5, <2>2
    <2> QED
      BY <2>1, <2>2
  <1>10. \A y \in Path : /\ gp[y] = "closing" => ep[y] = "closing"
                         /\ gq[y] = "closing" => eq[y] = "closing"
    BY <1>2, <1>5 DEF EndType
  <1>11. PICK g : g = EndsAfterUp(p, x)
    OBVIOUS
  <1>12. g \in [Slot -> EndType] /\ g[p] = gp /\ g[q] = gq
    BY <1>2, <1>6, <1>7, <1>11
  <1> QED
    BY <1>1, <1>2, <1>8, <1>9, <1>10, <1>11, <1>12 DEF EndsMay

LEMMA DownEnds ==
    ASSUME PathsInv, NEW p \in Slot, NEW x \in Path
    PROVE  EndsMay([end EXCEPT ![p][x] = "none"])
  <1>1. PICK e, f : e = end[p] /\ f = [e EXCEPT ![x] = "none"]
    OBVIOUS
  <1>2. end \in [Slot -> EndType] /\ e \in EndType /\ f \in EndType
    BY <1>1 DEF PathsInv, PathsTypeOK, EndType
  <1>3. \A y \in Path : /\ e[y] = "none" => f[y] = "none"
                        /\ f[y] = "closing" => e[y] = "closing"
    BY <1>1, <1>2 DEF EndType
  <1>4. \A z \in Slot : Cardinality(Held(end[z])) <= MaxPaths
    BY DEF PathsInv, PathsTypeOK, Taken, Held
  <1>5. Cardinality(Held(f)) <= MaxPaths
    BY <1>1, <1>2, <1>3, <1>4, HeldShrinks
  <1>6. PICK g : g = [end EXCEPT ![p] = f]
    OBVIOUS
  <1>7. g = [end EXCEPT ![p][x] = "none"]
    BY <1>1, <1>6
  <1>8. /\ g \in [Slot -> EndType] /\ g[p] = f
        /\ \A z \in Slot : z = p \/ g[z] = end[z]
    BY <1>2, <1>6
  <1> QED
    BY <1>1, <1>3, <1>4, <1>5, <1>7, <1>8 DEF EndsMay

LEMMA TickKeeps ==
    ASSUME PathsInv, NEW p \in Slot, NEW late \in BOOLEAN, Tick(p, late)
    PROVE  PathsInv'
  <1>1. Polls(p) /\ UNCHANGED <<key, setup>>
    BY DEF Tick
  <1>2. PICK x \in Path \cup {None} :
           \/ Quiet(p, x, late)
           \/ \E y \in Path : PathUp(p, y, x, late) \/ PathDown(p, y, x, late)
    BY DEF Tick
  <1>3. PICK r : r = peer[p]
    OBVIOUS
  <1>4. r \in PeerType
    BY <1>3 DEF PathsInv, PathsTypeOK
  <1>5. CASE Quiet(p, x, late)
    <2>1. Alike(r, r)
      BY DEF Alike
    <2>2. PICK ends : ends = end
      OBVIOUS
    <2> QED
      BY <1>1, <1>3, <1>4, <1>5, <2>1, <2>2, QuietEnds, TickStep DEF Quiet
  <1>6. ASSUME NEW y \in Path, PathUp(p, y, x, late)
        PROVE  PathsInv'
    <2>1. PICK ends, s : ends = EndsAfterUp(p, y) /\ s = AfterUp(r)
      OBVIOUS
    <2>2. s \in PeerType /\ Alike(r, s)
      BY <1>4, <2>1, PollRests
    <2>3. EndsMay(ends) /\ TickAfter(p, s, ends, x, late)
      BY <1>3, <1>6, <2>1, UpEnds DEF PathUp
    <2> QED
      BY <1>1, <1>3, <2>2, <2>3, TickStep
  <1>7. ASSUME NEW y \in Path, PathDown(p, y, x, late)
        PROVE  PathsInv'
    <2>1. PICK ends, s : ends = [end EXCEPT ![p][y] = "none"] /\ s = AfterDown(r, y)
      OBVIOUS
    <2>2. s \in PeerType /\ Alike(r, s)
      BY <1>4, <2>1, PollRests
    <2>3. EndsMay(ends) /\ TickAfter(p, s, ends, x, late)
      BY <1>3, <1>7, <2>1, DownEnds DEF PathDown
    <2> QED
      BY <1>1, <1>3, <2>2, <2>3, TickStep
  <1> QED
    BY <1>2, <1>5, <1>6, <1>7

LEMMA StopKeeps ==
    ASSUME PathsInv, NEW p \in Slot, Stop(p)
    PROVE  PathsInv'
  <1>1. PICK q, before, o, d, f, bye :
           /\ q = Other(p) /\ before = peer[p] /\ o = peer[q]
           /\ d = setup[p] /\ f = setup[q]
           /\ bye = IF before.known THEN <<Bye>> ELSE <<>>
    OBVIOUS
  <1>2. PICK after : after = [before EXCEPT !.state = "Idle", !.link = "Idle", !.pinned = None]
    OBVIOUS
  <1>3. PICK sent, ends, nothing, none :
           /\ ends = end /\ none = [x \in Path |-> "none"] /\ nothing = [x \in Path |-> <<>>]
           /\ sent = Posted(p, before, ends, bye, chan)
    OBVIOUS
  <1>4. /\ peer' = [peer EXCEPT ![p] = after]
        /\ end' = [end EXCEPT ![p] = none]
        /\ chan' = [sent EXCEPT ![p] = nothing]
        /\ UNCHANGED <<key, setup>>
    BY <1>1, <1>2, <1>3 DEF Stop
  <1>5. /\ q \in Slot /\ q # p /\ Other(q) = p /\ \A z \in Slot : z = p \/ z = q
        /\ before \in PeerType /\ o \in PeerType
        /\ PeerState(before, Decider(p)) /\ PeerState(o, Decider(q))
        /\ chan \in [Slot -> [Path -> Seq(Message)]]
        /\ end \in [Slot -> EndType] /\ peer \in [Slot -> PeerType]
    BY <1>1, SlotFacts DEF PathsInv, PathsTypeOK, PeerStates
  <1>6. /\ after \in PeerType /\ after.state = "Idle" /\ after.pinned = None
        /\ after.known = before.known /\ after.verifySent = before.verifySent
    BY <1>2, <1>5 DEF PeerType
  <1>7. /\ peer' \in [Slot -> PeerType] /\ peer'[p] = after /\ peer'[q] = o
        /\ setup' = setup /\ key' = key
    BY <1>4, <1>1, <1>5, <1>6
  <1>8. none \in EndType /\ nothing \in [Path -> Seq(Message)]
    BY <1>3 DEF EndType
  <1>9. /\ end' \in [Slot -> EndType] /\ end'[p] = none /\ end'[q] = end[q]
    BY <1>4, <1>5, <1>8
  <1>10. bye \in Seq(Message) /\ \A y \in Path : Carried(after, d, y, bye)
    <2>1. \A y \in Path : MessageTrue(after, d, y, Bye)
      BY MessageFacts DEF MessageTrue
    <2> QED
      BY <1>1, <2>1, CarriedNothing, CarriedOne, MessageFacts
  <1>11. PICK chans : chans = chan
    OBVIOUS
  <1>12. /\ sent \in [Slot -> [Path -> Seq(Message)]]
         /\ MaySend(before, bye, chans[q], sent[q])
    <2>1. /\ sent \in [Slot -> [Path -> Seq(Message)]]
          /\ MaySend(before, bye, chans[Other(p)], sent[Other(p)])
      BY <1>3, <1>5, <1>10, <1>11, PostFacts
    <2> QED
      BY <1>1, <2>1
  <1>13. /\ chan' \in [Slot -> [Path -> Seq(Message)]]
         /\ chan'[p] = nothing /\ chan'[q] = sent[q]
    BY <1>4, <1>5, <1>8, <1>12
  <1>14. PeerStates'
    <2>1. PeerState(after, Decider(p))
      BY <1>5, <1>6 DEF PeerState
    <2>2. ASSUME NEW z \in Slot PROVE PeerState(peer[z], Decider(z))'
      <3>1. CASE z = p
        BY <1>7, <2>1, <3>1 DEF Decider, PeerState
      <3>2. CASE z = q
        BY <1>5, <1>7, <3>2 DEF Decider, PeerState
      <3> QED
        BY <1>5, <3>1, <3>2
    <2> QED
      BY <2>2 DEF PeerStates
  <1>15. MessagesTrue'
    <2>1. \A y \in Path : Carried(before, d, y, chans[q][y])
      BY <1>1, <1>5, <1>11 DEF PathsInv, MessagesTrue
    <2>2. Stands(before, after)
      BY <1>6 DEF Stands
    <2>3. ASSUME NEW y \in Path
          PROVE  Carried(after, d, y, chan'[q][y])
      <3>1. PICK a : a = chans[q][y]
        OBVIOUS
      <3>2. Carried(after, d, y, a)
        BY <2>1, <2>2, <3>1, CarriedStays
      <3>3. Carried(after, d, y, a \o bye)
        BY <1>10, <3>2, CarriedBoth
      <3> QED
        BY <1>12, <1>13, <3>1, <3>2, <3>3 DEF MaySend
    <2>4. \A y \in Path : Carried(o, f, y, chan'[p][y])
      BY <1>3, <1>13, CarriedNothing
    <2>5. /\ peer'[p] = after /\ peer'[q] = o /\ setup'[p] = d /\ setup'[q] = f
      BY <1>1, <1>7
    <2>6. ASSUME NEW z \in Slot, NEW y \in Path
          PROVE  Carried(peer'[Other(z)], setup'[Other(z)], y, chan'[z][y])
      <3>1. CASE z = p
        BY <1>1, <2>4, <2>5, <3>1
      <3>2. CASE z = q
        BY <1>5, <2>3, <2>5, <3>2
      <3> QED
        BY <1>5, <3>1, <3>2
    <2> QED
      BY <2>6 DEF MessagesTrue
  <1>16. Follows'
    <2>1. Decider(p) <=> ~Decider(q)
      BY <1>1, OneDecides DEF PathsInv
    <2> QED
      BY <1>5, <1>6, <1>7 DEF Follows
  <1>17. ReadyTogether'
    <2>1. o.state = "Ready" => setup[q] = setup[p]
      BY <1>1, <1>5 DEF PathsInv, ReadyTogether
    <2>2. ASSUME NEW z \in Slot, peer'[z].state = "Ready"
          PROVE  z = q /\ o.state = "Ready"
      BY <1>5, <1>6, <1>7, <2>2
    <2> QED
      BY <1>5, <1>6, <1>7, <2>1, <2>2 DEF ReadyTogether
  <1>18. ClosesOthers'
    BY <1>1, <1>3, <1>5, <1>7, <1>9 DEF PathsInv, ClosesOthers
  <1>19. \A z \in Slot : Taken(z)' <= MaxPaths
    <2>1. \A z \in Slot : Cardinality(Held(end[z])) <= MaxPaths
      BY DEF PathsInv, PathsTypeOK, Taken, Held
    <2>2. Cardinality(Held(none)) <= MaxPaths
      <3>1. PICK e : e = end[p]
        OBVIOUS
      <3>2. \A y \in Path : e[y] = "none" => none[y] = "none"
        BY <1>3
      <3> QED
        BY <1>5, <1>8, <2>1, <3>1, <3>2, HeldShrinks
    <2>3. \A z \in Slot : Cardinality(Held(end'[z])) <= MaxPaths
      BY <1>5, <1>9, <2>1, <2>2
    <2> QED
      BY <2>3 DEF Taken, Held
  <1>20. PathsTypeOK'
    BY <1>7, <1>9, <1>13, <1>19 DEF PathsInv, PathsTypeOK
  <1> QED
    BY <1>14, <1>15, <1>16, <1>17, <1>18, <1>20 DEF PathsInv

LEMMA InitPaths == ASSUME Init PROVE PathsInv
  <1>1. NewPeer \in PeerType /\ \A decider \in BOOLEAN : PeerState(NewPeer, decider)
    BY DEF NewPeer, PeerType, PeerState
  <1>2. PICK dialled : dialled = [p \in Slot |->
                          [x \in Path |-> IF Dialer[x] = p THEN "dialing" ELSE "none"]]
    OBVIOUS
  <1>3. \A p \in Slot : dialled[p] \in EndType
    BY <1>2 DEF EndType
  <1>4. end = dialled /\ dialled \in [Slot -> EndType]
    BY <1>2, <1>3 DEF Init
  <1>5. \A p \in Slot : Taken(p) <= MaxPaths
    <2> SUFFICES ASSUME NEW p \in Slot PROVE Taken(p) <= MaxPaths
      OBVIOUS
    <2>1. {x \in Path : end[p][x] # "none"} = {x \in Path : Dialer[x] = p}
      BY <1>2, <1>4
    <2>2. PICK s : s = {x \in Path : Dialer[x] = p}
      OBVIOUS
    <2>3. IsFiniteSet(s) /\ Cardinality(s) < MaxPaths
      BY <2>2, FS_Subset
    <2>4. Cardinality(s) \in Nat
      BY <2>3, FS_CardinalityType
    <2> QED
      BY <2>1, <2>2, <2>3, <2>4 DEF Taken
  <1>6. /\ peer = [p \in Slot |-> NewPeer] /\ chan = [p \in Slot |-> [x \in Path |-> <<>>]]
        /\ key \in {k \in [Slot -> 1 .. 2] : k[0] # k[1]} /\ setup \in [Slot -> Setups]
    BY DEF Init
  <1>7. PathsTypeOK
    BY <1>1, <1>4, <1>5, <1>6 DEF PathsTypeOK
  <1>8. PeerStates
    <2>1. \A p \in Slot : Decider(p) \in BOOLEAN
      BY DEF Decider
    <2> QED
      BY <1>1, <1>6, <2>1 DEF PeerStates
  <1>9. MessagesTrue
    BY <1>6, CarriedNothing, SlotFacts DEF MessagesTrue
  <1>10. Follows /\ ReadyTogether
    BY <1>6, SlotFacts DEF Follows, ReadyTogether, NewPeer
  <1>11. ClosesOthers
    BY <1>2, <1>4 DEF ClosesOthers
  <1> QED
    BY <1>7, <1>8, <1>9, <1>10, <1>11 DEF PathsInv

LEMMA PathsStep == PathsInv /\ [Next]_vars => PathsInv'
  <1> SUFFICES ASSUME PathsInv, [Next]_vars PROVE PathsInv'
    OBVIOUS
  <1>1. ASSUME NEW p \in Slot, Stop(p) PROVE PathsInv'
    BY <1>1, StopKeeps
  <1>2. ASSUME NEW p \in Slot, NEW late \in BOOLEAN, Tick(p, late) PROVE PathsInv'
    BY <1>2, TickKeeps
  <1>3. CASE UNCHANGED vars
    <2>1. /\ peer' = peer /\ end' = end /\ chan' = chan /\ key' = key /\ setup' = setup
      BY <1>3 DEF vars
    <2>2. PathsTypeOK'
      BY <2>1 DEF PathsInv, PathsTypeOK, Taken
    <2>3. PeerStates'
      BY <2>1 DEF PathsInv, PeerStates, PeerState, Decider
    <2>4. MessagesTrue'
      BY <2>1 DEF PathsInv, MessagesTrue
    <2>5. Follows' /\ ClosesOthers' /\ ReadyTogether'
      BY <2>1 DEF PathsInv, Follows, Decider, ClosesOthers, ReadyTogether
    <2> QED
      BY <2>2, <2>3, <2>4, <2>5 DEF PathsInv
  <1> QED
    BY <1>1, <1>2, <1>3 DEF Next

-----------------------------------------------------------------------------
(* Theorems *)

\* The inductive invariant, from which the theorems below follow.
THEOREM PathsInvariant == Spec => []PathsInv
  BY InitPaths, PathsStep, PTL DEF Spec

\* A session is well formed, and a side never holds more connections than
\* kMaxPaths, whatever number of dials is answered.
THEOREM PathsTypeCorrect == Spec => []TypeOK
  <1>1. PathsInv => TypeOK
    BY DEF PathsInv, PathsTypeOK, PeerStates, PeerState, TypeOK, PeerType, EndType
  <1> QED
    BY <1>1, PathsInvariant, PTL

\* Neither side chooses another path than the one the other has chosen, nor closes it.
THEOREM OnePathChosen == Spec => []OnePath
  <1>1. ASSUME PathsInv PROVE OnePath
    <2>1. ASSUME NEW p \in Slot, peer[p].pinned # None
          PROVE  peer[Other(p)].pinned \in {None, peer[p].pinned}
      <3>1. PICK q : q = Other(p)
        OBVIOUS
      <3>2. q \in Slot /\ Other(q) = p /\ (Decider(p) <=> ~Decider(q))
        BY <1>1, <3>1, SlotFacts, OneDecides DEF PathsInv
      <3>3. \A z \in Slot : peer[z].state = "Idle" => peer[z].pinned = None
        BY <1>1 DEF PathsInv, PeerStates, PeerState
      <3> QED
        BY <1>1, <2>1, <3>1, <3>2, <3>3 DEF PathsInv, Follows
    <2>2. ASSUME NEW p \in Slot, NEW x \in Path, end[p][x] = "closing"
          PROVE  peer[Other(p)].pinned # x
      BY <1>1, <2>1, <2>2 DEF PathsInv, ClosesOthers
    <2> QED
      BY <2>1, <2>2 DEF OnePath
  <1> QED
    BY <1>1, PathsInvariant, PTL

\* A side that is ready is not ready alone.
THEOREM BothBecomeReady == Spec => []ReadyTogether
  <1>1. PathsInv => ReadyTogether
    BY DEF PathsInv
  <1> QED
    BY <1>1, PathsInvariant, PTL

=============================================================================
