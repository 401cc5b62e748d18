------------------------ MODULE SessionSeriesProofs ------------------------
(***************************************************************************)
(* Proofs about the control channel and the series (SessionSeries), for    *)
(* any number of games, setups and pools, and whoever leaves or is lost.   *)
(*                                                                         *)
(* Nothing that arrives late tells which game it was sent in.  What makes  *)
(* the series one is that neither peer's setup nor pool ever changes: the  *)
(* setup of game n is a function of the two (SeriesLine), and every offer  *)
(* on its way or kept names a game at most one past its sender's, which    *)
(* then has finished the game it is in.                                    *)
(***************************************************************************)
EXTENDS SessionSeries, TLAPS

Entry  == Setups \cup Pools
Digest == Seq(Entry)

Record0 == [frames : Nat, digest : Digest \X Nat]

SessionType ==
    [state : {"Verifying", "Ready", "Playing", "Ended", "Failed", "Idle"},
     digest : Digest, pool : Pools,
     peerInfo : {None} \cup Nat, next : {None, "Waiting", "Agreed", "Over"},
     peerNext : {None} \cup (Nat \X Digest),
     verifySent : BOOLEAN, begun : BOOLEAN, frames : 0 .. GameFrames, peerGone : BOOLEAN,
     goneAfterEnd : BOOLEAN, reported : BOOLEAN,
     outcome : {None, "finished", "quit", "desync", "unfinished"},
     result : {None} \cup Record0, agreement : {None, "match", "mismatch"}]

Message ==
    [type : {"VERIFY"}, digest : Digest]
    \cup [type : {"INFO"}, games : Nat]
    \cup [type : {"BYE"}, reason : {"left", "mismatch"}]
    \cup [type : {"RESULT"}, frames : Nat, digest : Digest \X Nat]
    \cup [type : {"NEXT"}, game : Nat, digest : Digest]

Games == 1 .. LastGame + 1

SeriesTypeOK ==
    /\ session \in [Slot -> SessionType]
    /\ host \in [Slot -> Place]
    /\ up \in [Slot -> BOOLEAN]
    /\ committed \in [Slot -> [Games -> 0 .. GameFrames]]
    /\ file \in [Slot -> [Games -> {None} \cup ResultFile]]
    /\ chan \in [Slot -> Seq(Message)]

-----------------------------------------------------------------------------
(* What a peer's setups are *)

SeriesLine(setup, pool, n) == [i \in 1 .. n |-> IF i = 1 THEN setup ELSE pool]

Game(p)    == Len(session[p].digest)
Setup(p)   == session[p].digest[1]
Line(p, n) == SeriesLine(Setup(p), session[p].pool, n)

\* An offer of game n that peer q has made.
Offered(q, n, d) ==
    /\ n \in 2 .. Game(q) + 1
    /\ d = Line(q, n)
    /\ n = Game(q) + 1 => session[q].outcome = "finished"

\* What peer q says is true when it arrives, however late.
Said(q, m) ==
    /\ m.type = "VERIFY" => m.digest = <<Setup(q)>>
    /\ m.type = "INFO" => m.games = MaxGames[q]
    /\ m.type = "NEXT" => Offered(q, m.game, m.digest)

MessagesTrue == \A p \in Slot : \A i \in 1 .. Len(chan[p]) : Said(Other(p), chan[p][i])

HeldTrue ==
    \A p \in Slot :
        /\ session[p].peerInfo \in {None, MaxGames[Other(p)]}
        /\ session[p].peerNext # None =>
              Offered(Other(p), session[p].peerNext[1], session[p].peerNext[2])

OneLine ==
    \A p \in Slot :
        /\ Game(p) \in Games /\ session[p].digest = Line(p, Game(p))
        /\ session[p].state = "Verifying" => Game(p) = 1

\* The two have set up the same games as far as both have come.
SameSeries ==
    \A p \in Slot :
        LET r == session[p]
            q == Other(p)
        IN  /\ Playable(r) \/ r.begun \/ Game(p) > 1 => Setup(p) = Setup(q)
            /\ Game(p) > 1 => r.pool = session[q].pool
            /\ Game(p) > Game(q) => Game(p) = Game(q) + 1 /\ session[q].outcome = "finished"
            /\ r.next = "Agreed" => /\ r.peerNext # None
                                    /\ r.peerNext = <<Game(p) + 1, Line(p, Game(p) + 1)>>
                                    /\ Offered(q, Game(p) + 1, Line(p, Game(p) + 1))

\* The states of one game, and what they say of it.
StatesOf(r) ==
    /\ r.state \in {"Verifying", "Ready", "Failed"} => ~r.begun
    /\ r.state \in {"Playing", "Ended"} => r.begun
    /\ r.outcome # None => r.begun /\ r.reported
    /\ Between(r) => r.outcome = "finished" /\ Len(r.digest) < LastGame

GameStates ==
    \A p \in Slot : /\ StatesOf(session[p])
                    /\ host[p] = "game" => session[p].outcome = None
                    /\ host[p] \in {"advance", "begin"} => session[p].outcome = "finished"

Lost(r) == r.peerGone /\ ~r.goneAfterEnd

\* What the files hold of the games before this one, and of this one.
FilesTrue ==
    \A p \in Slot :
        LET r == session[p]
        IN  /\ \A g \in Games : file[p][g] # None =>
                  /\ g <= Game(p) /\ file[p][g].digest = Line(p, g)
                  /\ g = Game(p) => r.begun
            /\ \A g \in 1 .. Game(p) - 1 : file[p][g] # None /\ file[p][g].outcome = "finished"
            /\ host[p] = "begin" =>
                  file[p][Game(p)] # None /\ file[p][Game(p)].outcome = r.outcome
            /\ file[p][Game(p)] # None /\ file[p][Game(p)].outcome = "finished" =>
                  /\ r.outcome = "finished"
                  /\ Lost(r) => file[p][Game(p)].disconnected

SeriesInv ==
    /\ SeriesTypeOK /\ OneLine /\ MessagesTrue /\ HeldTrue
    /\ SameSeries /\ GameStates /\ FilesTrue

USE SeriesAssumption

-----------------------------------------------------------------------------
(* Setups *)

\* A pool's letter further, a line is the line of the next game.
LEMMA LineFacts ==
    ASSUME NEW setup \in Entry, NEW pool \in Entry, NEW n \in Nat \ {0}
    PROVE  /\ SeriesLine(setup, pool, n) \in Digest
           /\ Len(SeriesLine(setup, pool, n)) = n
           /\ SeriesLine(setup, pool, n)[1] = setup
           /\ n > 1 => SeriesLine(setup, pool, n)[2] = pool
           /\ NextDigest(SeriesLine(setup, pool, n), pool) = SeriesLine(setup, pool, n + 1)
  <1>1. SeriesLine(setup, pool, n) \in Digest /\ Len(SeriesLine(setup, pool, n)) = n
    BY DEF SeriesLine, Digest
  <1>2. SeriesLine(setup, pool, n)[1] = setup /\ (n > 1 => SeriesLine(setup, pool, n)[2] = pool)
    BY DEF SeriesLine
  <1>3. NextDigest(SeriesLine(setup, pool, n), pool) = SeriesLine(setup, pool, n + 1)
    BY DEF SeriesLine, NextDigest
  <1> QED
    BY <1>1, <1>2, <1>3

-----------------------------------------------------------------------------
(* What the session's own steps do to it *)

\* Nothing of the game itself.
GameKept(r, s) ==
    /\ s.digest = r.digest /\ s.pool = r.pool
    /\ s.begun = r.begun /\ s.reported = r.reported /\ s.outcome = r.outcome

\* What a tick may do, with message m taken in.
Hears(r, m, s) ==
    /\ s \in SessionType /\ GameKept(r, s)
    /\ \/ s.peerInfo = r.peerInfo
       \/ m.type = "INFO" /\ s.peerInfo = m.games
    /\ \/ s.peerNext = r.peerNext
       \/ m.type = "NEXT" /\ s.peerNext = <<m.game, m.digest>> /\ r.peerNext = None
    /\ \/ s.state = r.state
       \/ s.state = "Failed" /\ r.state \in {"Verifying", "Ready"}
       \/ /\ r.state = "Verifying" /\ s.state = "Ready"
          /\ m.type = "VERIFY" /\ m.digest = r.digest
    /\ \/ s.next = r.next
       \/ s.next = "Over"
       \/ r.next = "Waiting" /\ s.next = "Agreed" /\ s.peerNext # None /\ SameNext(s)
    /\ Lost(s) => Lost(r) \/ ~r.reported

NoMessage == [type |-> "none"]

LEMMA JudgeAgreementKeeps ==
    ASSUME NEW r \in SessionType
    PROVE  /\ JudgeAgreement(r) \in SessionType /\ GameKept(r, JudgeAgreement(r))
           /\ JudgeAgreement(r).peerInfo = r.peerInfo
           /\ JudgeAgreement(r).peerNext = r.peerNext
           /\ JudgeAgreement(r).state = r.state
           /\ JudgeAgreement(r).next = r.next
           /\ JudgeAgreement(r).peerGone = r.peerGone
           /\ JudgeAgreement(r).goneAfterEnd = r.goneAfterEnd
  BY DEF JudgeAgreement, SessionType, GameKept

LEMMA FailKeeps ==
    ASSUME NEW r \in SessionType
    PROVE  /\ Fail(r) \in SessionType /\ GameKept(r, Fail(r)) /\ Fail(r).state = "Failed"
           /\ Fail(r).peerInfo = r.peerInfo /\ Fail(r).peerNext = r.peerNext
           /\ Fail(r).next = r.next /\ Lost(Fail(r)) = Lost(r)
  BY DEF Fail, SessionType, GameKept, Lost

\* A new state or a new step of the series, and nothing else.
LEMMA StateKeeps ==
    ASSUME NEW r \in SessionType,
           NEW state \in {"Verifying", "Ready", "Playing", "Ended", "Failed", "Idle"}
    PROVE  LET s == [r EXCEPT !.state = state]
           IN  /\ s \in SessionType /\ GameKept(r, s) /\ s.state = state
               /\ s.peerInfo = r.peerInfo /\ s.peerNext = r.peerNext
               /\ s.next = r.next /\ Lost(s) = Lost(r)
  BY DEF SessionType, GameKept, Lost

LEMMA NextKeeps ==
    ASSUME NEW r \in SessionType, NEW next \in {None, "Waiting", "Agreed", "Over"}
    PROVE  LET s == [r EXCEPT !.next = next]
           IN  /\ s \in SessionType /\ GameKept(r, s) /\ s.next = next
               /\ s.peerInfo = r.peerInfo /\ s.peerNext = r.peerNext
               /\ s.state = r.state /\ Lost(s) = Lost(r)
               /\ s.peerGone = r.peerGone /\ s.goneAfterEnd = r.goneAfterEnd
  BY DEF SessionType, GameKept, Lost

LEMMA OverKeeps ==
    ASSUME NEW r \in SessionType
    PROVE  /\ Over(r) \in SessionType /\ GameKept(r, Over(r)) /\ Over(r).next = "Over"
           /\ Over(r).peerInfo = r.peerInfo /\ Over(r).peerNext = r.peerNext
           /\ Over(r).state = r.state /\ Lost(Over(r)) = Lost(r)
           /\ Over(r).peerGone = r.peerGone /\ Over(r).goneAfterEnd = r.goneAfterEnd
  BY NextKeeps DEF Over, GameKept

LEMMA VerifySentKeeps ==
    ASSUME NEW r \in SessionType
    PROVE  LET s == [r EXCEPT !.verifySent = TRUE]
           IN  /\ s \in SessionType /\ GameKept(r, s)
               /\ s.peerInfo = r.peerInfo /\ s.peerNext = r.peerNext
               /\ s.state = r.state /\ s.next = r.next /\ Lost(s) = Lost(r)
  BY DEF SessionType, GameKept, Lost

LEMMA FramesKeeps ==
    ASSUME NEW r \in SessionType, NEW n \in 0 .. GameFrames
    PROVE  LET s == [r EXCEPT !.frames = n]
           IN  /\ s \in SessionType /\ GameKept(r, s)
               /\ s.peerInfo = r.peerInfo /\ s.peerNext = r.peerNext
               /\ s.state = r.state /\ s.next = r.next
               /\ s.peerGone = r.peerGone /\ s.goneAfterEnd = r.goneAfterEnd
  BY DEF SessionType, GameKept

\* What the game's own calls make of it: begun, or ended with an outcome.
StateName  == {"Verifying", "Ready", "Playing", "Ended", "Failed", "Idle"}
OutcomeSet == {"finished", "quit", "desync", "unfinished"}
FrameCount == 0 .. GameFrames

Begun(r, state) == [[r EXCEPT !.state = state] EXCEPT !.begun = TRUE]
EndedWith(r, outcome, n, state) ==
    [[[[r EXCEPT !.outcome = outcome] EXCEPT !.reported = TRUE]
         EXCEPT !.frames = n] EXCEPT !.state = state]

LEMMA BegunTyped ==
    ASSUME NEW r \in SessionType,
           NEW state \in StateName
    PROVE  /\ Begun(r, state) \in SessionType
           /\ Begun(r, state).digest = r.digest /\ Begun(r, state).pool = r.pool
           /\ Begun(r, state).begun = TRUE /\ Begun(r, state).state = state
           /\ Begun(r, state).outcome = r.outcome /\ Begun(r, state).next = r.next
           /\ Begun(r, state).reported = r.reported
           /\ Begun(r, state).peerInfo = r.peerInfo /\ Begun(r, state).peerNext = r.peerNext
  <1> DEFINE a == [r EXCEPT !.state = state]
             b == [a EXCEPT !.begun = TRUE]
  <1>2. /\ a \in SessionType /\ GameKept(r, a) /\ a.state = state
        /\ a.peerInfo = r.peerInfo /\ a.peerNext = r.peerNext /\ a.next = r.next
    BY StateKeeps DEF StateName
  <1> HIDE DEF a
  <1>3. /\ b \in SessionType /\ b.begun = TRUE
        /\ b.digest = a.digest /\ b.pool = a.pool /\ b.state = a.state
        /\ b.outcome = a.outcome /\ b.next = a.next /\ b.reported = a.reported
        /\ b.peerInfo = a.peerInfo /\ b.peerNext = a.peerNext
    BY <1>2 DEF SessionType
  <1>4. /\ b \in SessionType /\ b.digest = r.digest /\ b.pool = r.pool
        /\ b.begun = TRUE /\ b.state = state
        /\ b.outcome = r.outcome /\ b.next = r.next /\ b.reported = r.reported
        /\ b.peerInfo = r.peerInfo /\ b.peerNext = r.peerNext
    <2> HIDE DEF b
    <2> QED
      BY <1>2, <1>3 DEF GameKept
  <1> QED
    <2>1. b = Begun(r, state)
      BY DEF a, Begun
    <2> HIDE DEF b
    <2> QED
      BY <1>4, <2>1

EndsGame(r, outcome, state, s) ==
    /\ s \in SessionType /\ s.digest = r.digest /\ s.pool = r.pool
    /\ s.begun = r.begun /\ s.reported = TRUE /\ s.outcome = outcome
    /\ s.state = state /\ s.next = r.next
    /\ s.peerInfo = r.peerInfo /\ s.peerNext = r.peerNext

LEMMA EndedTyped ==
    ASSUME NEW r \in SessionType, NEW n \in FrameCount,
           NEW outcome \in OutcomeSet,
           NEW state \in StateName
    PROVE  EndsGame(r, outcome, state, EndedWith(r, outcome, n, state))
  <1> DEFINE a == [r EXCEPT !.outcome = outcome]
             b == [a EXCEPT !.reported = TRUE]
             c == [b EXCEPT !.frames = n]
             d == [c EXCEPT !.state = state]
  <1>2. /\ a \in SessionType /\ a.outcome = outcome
        /\ a.digest = r.digest /\ a.pool = r.pool /\ a.begun = r.begun /\ a.next = r.next
        /\ a.peerInfo = r.peerInfo /\ a.peerNext = r.peerNext
    BY DEF SessionType, OutcomeSet
  <1> HIDE DEF a
  <1>3. /\ b \in SessionType /\ b.outcome = a.outcome /\ b.reported = TRUE
        /\ b.digest = a.digest /\ b.pool = a.pool /\ b.begun = a.begun /\ b.next = a.next
        /\ b.peerInfo = a.peerInfo /\ b.peerNext = a.peerNext
    BY <1>2 DEF SessionType
  <1> HIDE DEF b
  <1>4. /\ c \in SessionType /\ GameKept(b, c) /\ c.next = b.next
        /\ c.peerInfo = b.peerInfo /\ c.peerNext = b.peerNext
    BY <1>3, FramesKeeps DEF FrameCount
  <1> HIDE DEF c
  <1>5. /\ d \in SessionType /\ GameKept(c, d) /\ d.state = state /\ d.next = c.next
        /\ d.peerInfo = c.peerInfo /\ d.peerNext = c.peerNext
    BY <1>4 DEF SessionType, GameKept, StateName
  <1>6. /\ d \in SessionType /\ d.digest = r.digest /\ d.pool = r.pool
        /\ d.begun = r.begun /\ d.reported = TRUE /\ d.outcome = outcome
        /\ d.state = state /\ d.next = r.next
        /\ d.peerInfo = r.peerInfo /\ d.peerNext = r.peerNext
    <2> HIDE DEF d
    <2> QED
      BY <1>2, <1>3, <1>4, <1>5 DEF GameKept
  <1> QED
    <2>1. d = EndedWith(r, outcome, n, state)
      BY DEF a, b, c, EndedWith
    <2> HIDE DEF d
    <2>2. EndsGame(r, outcome, state, d)
      BY <1>6 DEF EndsGame
    <2> QED
      BY <2>1, <2>2

LEMMA OnVerifyHears ==
    ASSUME NEW r \in SessionType, NEW m, m.type = "VERIFY"
    PROVE  Hears(r, m, OnVerify(r, m))
  <1>1. CASE r.state # "Verifying"
    BY <1>1 DEF OnVerify, Hears, GameKept
  <1>2. CASE r.state = "Verifying" /\ m.digest # r.digest
    <2>1. OnVerify(r, m) = [Fail(r) EXCEPT !.verifySent = TRUE]
      BY <1>2 DEF OnVerify
    <2> QED
      BY <1>2, <2>1, FailKeeps, VerifySentKeeps DEF Hears, GameKept
  <1>3. CASE r.state = "Verifying" /\ m.digest = r.digest
    <2> DEFINE ready == [r EXCEPT !.state = "Ready"]
    <2>1. OnVerify(r, m) = [ready EXCEPT !.verifySent = TRUE]
      BY <1>3 DEF OnVerify, SessionType
    <2>2. /\ ready \in SessionType /\ GameKept(r, ready) /\ ready.state = "Ready"
          /\ ready.peerInfo = r.peerInfo /\ ready.peerNext = r.peerNext
          /\ ready.next = r.next /\ Lost(ready) = Lost(r)
      BY StateKeeps
    <2> HIDE DEF ready
    <2> QED
      BY <1>3, <2>1, <2>2, VerifySentKeeps DEF Hears, GameKept
  <1> QED
    BY <1>1, <1>2, <1>3

LEMMA OnByeHears ==
    ASSUME NEW r \in SessionType, NEW m
    PROVE  Hears(r, m, OnBye(r))
  <1> DEFINE after == IF r.peerGone THEN r.goneAfterEnd ELSE r.reported
             gone  == [r EXCEPT !.peerGone = TRUE, !.goneAfterEnd = after]
  <1>1. /\ r.peerGone \in BOOLEAN /\ r.goneAfterEnd \in BOOLEAN /\ r.reported \in BOOLEAN
        /\ after \in BOOLEAN
    BY DEF SessionType
  <1>3. OnBye(r) \in {gone, Over(gone), Fail(r), r}
    BY DEF OnBye
  <1>4. OnBye(r) = Fail(r) => \/ r.state \in {"Verifying", "Ready"}
                              \/ OnBye(r) \in {gone, Over(gone), r}
    BY DEF OnBye
  <1>0. after = IF r.peerGone THEN r.goneAfterEnd ELSE r.reported
    OBVIOUS
  <1> HIDE DEF after
  <1>2. /\ gone \in SessionType /\ GameKept(r, gone)
        /\ gone.peerInfo = r.peerInfo /\ gone.peerNext = r.peerNext
        /\ gone.state = r.state /\ gone.next = r.next
        /\ gone.peerGone = TRUE /\ gone.goneAfterEnd = after
    BY <1>1 DEF SessionType, GameKept
  <1> HIDE DEF gone
  <1>5. Lost(gone) => Lost(r) \/ ~r.reported
    BY <1>0, <1>1, <1>2 DEF Lost
  <1>6. Hears(r, m, gone)
    BY <1>2, <1>5 DEF Hears
  <1>7. Hears(r, m, Over(gone))
    BY <1>2, <1>5, OverKeeps DEF Hears, GameKept
  <1>8. r.state \in {"Verifying", "Ready"} => Hears(r, m, Fail(r))
    BY FailKeeps DEF Hears, GameKept
  <1>9. Hears(r, m, r)
    BY DEF Hears, GameKept
  <1> QED
    BY <1>3, <1>4, <1>6, <1>7, <1>8, <1>9

LEMMA OnResultHears ==
    ASSUME NEW r \in SessionType, NEW m, m.frames \in Nat, m.digest \in Digest \X Nat
    PROVE  Hears(r, m, OnResult(r, m))
  <1> DEFINE kept == [r EXCEPT !.result = [frames |-> m.frames, digest |-> m.digest]]
  <1>1. /\ kept \in SessionType /\ GameKept(r, kept)
        /\ kept.peerInfo = r.peerInfo /\ kept.peerNext = r.peerNext
        /\ kept.state = r.state /\ kept.next = r.next
        /\ kept.peerGone = r.peerGone /\ kept.goneAfterEnd = r.goneAfterEnd
    BY DEF SessionType, GameKept, Record0
  <1>2. OnResult(r, m) = JudgeAgreement(kept)
    BY DEF OnResult
  <1> QED
    BY <1>1, <1>2, JudgeAgreementKeeps DEF Hears, GameKept, Lost

LEMMA OnInfoHears ==
    ASSUME NEW p \in Slot, NEW r \in SessionType, NEW m, m.type = "INFO", m.games \in Nat
    PROVE  Hears(r, m, OnInfo(p, r, m))
  BY DEF OnInfo, SessionType, GameKept, Hears, Lost

LEMMA JudgeNextKeeps ==
    ASSUME NEW r \in SessionType
    PROVE  LET s == JudgeNext(r)
           IN  /\ s \in SessionType /\ GameKept(r, s)
               /\ s.peerInfo = r.peerInfo /\ s.peerNext = r.peerNext /\ s.state = r.state
               /\ s.peerGone = r.peerGone /\ s.goneAfterEnd = r.goneAfterEnd
               /\ \/ s.next = r.next
                  \/ r.next = "Waiting" /\ s.next = "Over"
                  \/ r.next = "Waiting" /\ s.next = "Agreed" /\ s.peerNext # None /\ SameNext(s)
  <1>1. CASE ~CanJudge(r)
    BY <1>1 DEF JudgeNext, GameKept
  <1>2. CASE CanJudge(r) /\ SameNext(r)
    <2> DEFINE s == [r EXCEPT !.next = "Agreed"]
    <2>1. JudgeNext(r) = s
      BY <1>2 DEF JudgeNext
    <2>2. /\ s \in SessionType /\ GameKept(r, s) /\ s.next = "Agreed"
          /\ s.peerInfo = r.peerInfo /\ s.peerNext = r.peerNext /\ s.state = r.state
          /\ s.peerGone = r.peerGone /\ s.goneAfterEnd = r.goneAfterEnd
      BY NextKeeps
    <2> HIDE DEF s
    <2>3. r.next = "Waiting" /\ s.peerNext # None /\ SameNext(s)
      BY <1>2, <2>2 DEF CanJudge, SameNext, GameKept
    <2> QED
      BY <2>1, <2>2, <2>3
  <1>3. CASE CanJudge(r) /\ ~SameNext(r)
    <2>1. JudgeNext(r) = Over(r)
      BY <1>3 DEF JudgeNext
    <2> QED
      BY <1>3, <2>1, OverKeeps DEF CanJudge
  <1> QED
    BY <1>1, <1>2, <1>3

LEMMA OnNextHears ==
    ASSUME NEW r \in SessionType, NEW m, m.type = "NEXT", m.game \in Nat, m.digest \in Digest,
           r.peerNext = None
    PROVE  Hears(r, m, JudgeNext(WithNext(r, m)))
  <1>1. LET w == WithNext(r, m)
        IN  /\ w \in SessionType /\ GameKept(r, w)
            /\ w.peerInfo = r.peerInfo /\ w.peerNext = <<m.game, m.digest>>
            /\ w.state = r.state /\ w.next = r.next
            /\ w.peerGone = r.peerGone /\ w.goneAfterEnd = r.goneAfterEnd
    BY DEF WithNext, SessionType, GameKept
  <1> QED
    BY <1>1, JudgeNextKeeps DEF Hears, GameKept, Lost

LEMMA OnControlHears ==
    ASSUME NEW p \in Slot, NEW r \in SessionType, NEW m \in Message
    PROVE  Hears(r, m, OnControl(p, r, m))
  <1>1. Hears(r, m, r)
    BY DEF Hears, GameKept
  <1>2. CASE m.type = "VERIFY"
    BY <1>2, OnVerifyHears DEF OnControl
  <1>3. CASE m.type = "BYE"
    BY <1>3, OnByeHears DEF OnControl
  <1>4. CASE m.type = "RESULT"
    <2>1. m.frames \in Nat /\ m.digest \in Digest \X Nat
      BY <1>4 DEF Message
    <2>2. OnControl(p, r, m) = OnResult(r, m)
      BY <1>4 DEF OnControl
    <2> QED
      BY <2>1, <2>2, OnResultHears
  <1>5. CASE m.type = "INFO"
    <2>1. m.games \in Nat
      BY <1>5 DEF Message
    <2>2. OnControl(p, r, m) = OnInfo(p, r, m)
      BY <1>5 DEF OnControl
    <2> QED
      BY <1>5, <2>1, <2>2, OnInfoHears
  <1>6. CASE m.type = "NEXT"
    <2>1. m.game \in Nat /\ m.digest \in Digest
      BY <1>6 DEF Message
    <2>2. OnControl(p, r, m) = IF TakesNext(p, r) THEN JudgeNext(WithNext(r, m)) ELSE r
      BY <1>6 DEF OnControl
    <2> QED
      BY <1>1, <1>6, <2>1, <2>2, OnNextHears DEF TakesNext
  <1> QED
    BY <1>2, <1>3, <1>4, <1>5, <1>6 DEF Message

\* The poll adds to what the message did: a deadline or a lost connection.
LEMMA AfterPollHears ==
    ASSUME NEW r \in SessionType, NEW m, NEW s, Hears(r, m, s),
           NEW connected \in BOOLEAN, NEW n \in 0 .. GameFrames, NEW late \in BOOLEAN
    PROVE  Hears(r, m, AfterPoll(s, connected, n, late))
  <1> DEFINE lost == ~connected /\ ~s.peerGone
             gone == s.peerGone \/ lost
             after == IF lost THEN s.reported ELSE s.goneAfterEnd
             marked == [s EXCEPT !.peerGone = gone, !.goneAfterEnd = after]
             seen == [marked EXCEPT !.frames = n]
             known == IF seen.agreement = None THEN JudgeAgreement(seen) ELSE seen
  <1>0. /\ s \in SessionType /\ s.reported = r.reported
        /\ s.peerGone \in BOOLEAN /\ s.goneAfterEnd \in BOOLEAN /\ s.reported \in BOOLEAN
    BY DEF Hears, GameKept, SessionType
  <1>1. gone \in BOOLEAN /\ after \in BOOLEAN
    BY <1>0
  <1>4. [s EXCEPT !.peerGone = @ \/ lost, !.goneAfterEnd = IF lost THEN s.reported ELSE @,
                  !.frames = n] = seen
    BY <1>0 DEF SessionType
  <1>6. AfterPoll(s, connected, n, late) \in {s, Fail(s), known, Over(known)}
    BY <1>4 DEF AfterPoll
  <1>7. AfterPoll(s, connected, n, late) = Fail(s) =>
            \/ s.state \in {"Verifying", "Ready"}
            \/ AfterPoll(s, connected, n, late) \in {s, known, Over(known)}
    BY <1>4 DEF AfterPoll
  <1>12. gone /\ ~after => (s.peerGone /\ ~s.goneAfterEnd) \/ ~s.reported
    BY <1>0
  <1> HIDE DEF gone, after
  <1>2. /\ marked \in SessionType /\ GameKept(s, marked)
        /\ marked.peerInfo = s.peerInfo /\ marked.peerNext = s.peerNext
        /\ marked.state = s.state /\ marked.next = s.next
        /\ marked.peerGone = gone /\ marked.goneAfterEnd = after
    BY <1>0, <1>1 DEF SessionType, GameKept
  <1>3. Lost(marked) => Lost(s) \/ ~s.reported
    BY <1>2, <1>12 DEF Lost
  <1> HIDE DEF marked
  <1>5. /\ seen \in SessionType /\ GameKept(s, seen)
        /\ seen.peerInfo = s.peerInfo /\ seen.peerNext = s.peerNext
        /\ seen.state = s.state /\ seen.next = s.next
        /\ Lost(seen) => Lost(s) \/ ~s.reported
    BY <1>2, <1>3, FramesKeeps DEF GameKept, Lost
  <1> HIDE DEF seen
  <1>8. /\ known \in SessionType /\ GameKept(s, known)
        /\ known.peerInfo = s.peerInfo /\ known.peerNext = s.peerNext
        /\ known.state = s.state /\ known.next = s.next
        /\ Lost(known) => Lost(s) \/ ~s.reported
    BY <1>5, JudgeAgreementKeeps DEF GameKept, Lost
  <1> HIDE DEF known
  <1>9. Hears(r, m, known)
    BY <1>0, <1>8 DEF Hears, GameKept, SameNext
  <1>10. Hears(r, m, Over(known))
    BY <1>9, OverKeeps DEF Hears, GameKept
  <1>11. s.state \in {"Verifying", "Ready"} => Hears(r, m, Fail(s))
    BY <1>0, FailKeeps DEF Hears, GameKept, SameNext
  <1> QED
    BY <1>6, <1>7, <1>9, <1>10, <1>11

-----------------------------------------------------------------------------
(* A step within a game *)

LEMMA SlotFacts ==
    ASSUME NEW p \in Slot
    PROVE  /\ Other(p) \in Slot /\ Other(p) # p /\ Other(Other(p)) = p
           /\ \A x \in Slot : x = p \/ x = Other(p)
  BY DEF Slot, Other

LEMMA GameFacts ==
    ASSUME SeriesInv, NEW p \in Slot
    PROVE  /\ session[p] \in SessionType /\ LastGame \in Nat
           /\ Game(p) \in Games /\ Game(p) \in Nat \ {0}
           /\ Setup(p) \in Entry /\ session[p].pool \in Entry
           /\ session[p].digest = Line(p, Game(p))
           /\ NextDigest(session[p].digest, session[p].pool) = Line(p, Game(p) + 1)
  <1>1. session[p] \in SessionType /\ session[p].digest \in Digest /\ session[p].pool \in Entry
    BY DEF SeriesInv, SeriesTypeOK, SessionType, Entry
  <1>2. LastGame \in Nat
    BY DEF LastGame, Slot
  <1>3. Game(p) \in Games /\ Game(p) \in Nat \ {0} /\ session[p].digest = Line(p, Game(p))
    BY <1>2 DEF SeriesInv, OneLine, Games
  <1>4. Setup(p) \in Entry
    BY <1>1, <1>3 DEF Digest, Setup, Game
  <1>5. NextDigest(session[p].digest, session[p].pool) = Line(p, Game(p) + 1)
    BY <1>1, <1>3, <1>4, LineFacts DEF Line
  <1> QED
    BY <1>1, <1>2, <1>3, <1>4, <1>5

\* Peer p's session becomes s in the game it is in.
Within(p, s) ==
    LET r == session[p]
        q == Other(p)
    IN  /\ s \in SessionType /\ s.digest = r.digest /\ s.pool = r.pool
        /\ r.outcome # None => s.outcome = r.outcome /\ (Lost(s) => Lost(r))
        /\ r.begun => s.begun
        /\ s.peerInfo \in {r.peerInfo, MaxGames[q]}
        /\ \/ s.peerNext = r.peerNext
           \/ Offered(q, s.peerNext[1], s.peerNext[2])
        /\ Playable(s) \/ s.begun => Playable(r) \/ r.begun \/ Setup(p) = Setup(q)
        /\ s.state = "Verifying" => r.state = "Verifying"
        /\ s.next = "Agreed" => \/ r.next = "Agreed" /\ s.peerNext = r.peerNext
                                \/ s.peerNext # None /\ SameNext(s)
        /\ StatesOf(s)

\* What stays true of two peers' games when neither goes on to the next.
Stays ==
    /\ \A x \in Slot : /\ Game(x)' = Game(x) /\ Setup(x)' = Setup(x)
                       /\ session'[x].pool = session[x].pool
                       /\ \A n : Line(x, n)' = Line(x, n)
                       /\ \A n, d : Offered(x, n, d) => Offered(x, n, d)'
                       /\ \A m : Said(x, m) => Said(x, m)'

LEMMA WithinStep ==
    ASSUME SeriesInv, NEW p \in Slot, NEW s, Within(p, s),
           session' = [session EXCEPT ![p] = s]
    PROVE  /\ session' \in [Slot -> SessionType]
           /\ OneLine' /\ HeldTrue' /\ SameSeries' /\ Stays
           /\ \A x \in Slot : StatesOf(session'[x])
  <1> DEFINE r == session[p]
             q == Other(p)
  <1>1. /\ session' \in [Slot -> SessionType]
        /\ session'[p] = s /\ session'[q] = session[q]
        /\ \A x \in Slot : x = p \/ x = q
        /\ q \in Slot /\ Other(q) = p /\ q # p
    BY SlotFacts DEF SeriesInv, SeriesTypeOK, Within
  <1>2. \A x \in Slot : /\ session'[x].digest = session[x].digest
                        /\ session'[x].pool = session[x].pool
                        /\ session[x].outcome # None => session'[x].outcome = session[x].outcome
    BY <1>1 DEF Within
  <1>3. \A x \in Slot : /\ Game(x)' = Game(x) /\ Setup(x)' = Setup(x)
                        /\ \A n : Line(x, n)' = Line(x, n)
    BY <1>2 DEF Game, Setup, Line
  <1>4. ASSUME NEW x \in Slot, NEW n, NEW d, Offered(x, n, d)
        PROVE  Offered(x, n, d)'
    <2>1. n = Game(x) + 1 => session'[x].outcome = "finished"
      BY <1>2, <1>4, NoneAssumption DEF Offered
    <2> QED
      BY <1>3, <1>4, <2>1 DEF Offered
  <1>5. Stays
    BY <1>2, <1>3, <1>4 DEF Stays, Said
  <1>6. OneLine'
    BY <1>1, <1>2, <1>3 DEF SeriesInv, OneLine, Within
  <1>7. HeldTrue'
    <2>1. s.peerNext # None => Offered(q, s.peerNext[1], s.peerNext[2])
      BY DEF SeriesInv, HeldTrue, Within
    <2>2. s.peerInfo \in {None, MaxGames[q]}
      BY DEF SeriesInv, HeldTrue, Within
    <2>3. /\ session[q].peerInfo \in {None, MaxGames[p]}
          /\ session[q].peerNext # None =>
                Offered(p, session[q].peerNext[1], session[q].peerNext[2])
      BY <1>1 DEF SeriesInv, HeldTrue
    <2> QED
      BY <1>1, <1>4, <2>1, <2>2, <2>3 DEF HeldTrue
  <1>8. SameSeries'
    <2> USE DEF SeriesInv, SameSeries
    <2>1. Playable(s) \/ s.begun \/ Game(p) > 1 => Setup(p) = Setup(q)
      BY <1>1 DEF Within
    <2>2. s.next = "Agreed" => /\ s.peerNext # None
                              /\ s.peerNext = <<Game(p) + 1, Line(p, Game(p) + 1)>>
                              /\ Offered(q, Game(p) + 1, Line(p, Game(p) + 1))
      <3>1. CASE r.next = "Agreed" /\ s.peerNext = r.peerNext
        BY <3>1, <1>1
      <3>2. CASE s.next = "Agreed" /\ s.peerNext # None /\ SameNext(s)
        <4>1. s.peerNext = <<Game(p) + 1, Line(p, Game(p) + 1)>>
          BY <3>2, GameFacts DEF SameNext, Within, Game
        <4>2. Offered(q, s.peerNext[1], s.peerNext[2])
          BY <3>2 DEF HeldTrue, Within
        <4> QED
          BY <3>2, <4>1, <4>2
      <3> QED
        BY <3>1, <3>2 DEF Within
    <2>3. Game(p) > 1 => s.pool = session[q].pool
      BY <1>1 DEF Within
    <2>4. session[q].outcome = "finished" => session'[q].outcome = "finished"
      BY <1>1
    <2>5. session[p].outcome = "finished" => session'[p].outcome = "finished"
      BY <1>2, NoneAssumption
    <2>6. LET t == session'[p]
          IN  /\ Playable(t) \/ t.begun \/ Game(p)' > 1 => Setup(p)' = Setup(q)'
              /\ Game(p)' > 1 => t.pool = session'[q].pool
              /\ Game(p)' > Game(q)' => Game(p)' = Game(q)' + 1 /\ session'[q].outcome = "finished"
              /\ t.next = "Agreed" => /\ t.peerNext # None
                                      /\ t.peerNext = <<Game(p)' + 1, Line(p, Game(p) + 1)'>>
                                      /\ Offered(q, Game(p) + 1, Line(p, Game(p) + 1))'
      BY <1>1, <1>3, <1>4, <2>1, <2>2, <2>3, <2>4
    <2>7. LET t == session'[q]
          IN  /\ Playable(t) \/ t.begun \/ Game(q)' > 1 => Setup(q)' = Setup(p)'
              /\ Game(q)' > 1 => t.pool = session'[p].pool
              /\ Game(q)' > Game(p)' => Game(q)' = Game(p)' + 1 /\ session'[p].outcome = "finished"
              /\ t.next = "Agreed" => /\ t.peerNext # None
                                      /\ t.peerNext = <<Game(q)' + 1, Line(q, Game(q) + 1)'>>
                                      /\ Offered(p, Game(q) + 1, Line(q, Game(q) + 1))'
      BY <1>1, <1>2, <1>3, <1>4, <2>5
    <2> QED
      BY <1>1, <1>3, <2>6, <2>7
  <1>9. \A x \in Slot : StatesOf(session'[x])
    BY <1>1 DEF SeriesInv, GameStates, Within
  <1> QED
    BY <1>1, <1>5, <1>6, <1>7, <1>8, <1>9

\* The files stand while no step writes one.
LEMMA FilesStand ==
    ASSUME SeriesInv, NEW p \in Slot, NEW s, Within(p, s),
           session' = [session EXCEPT ![p] = s], file' = file,
           \A x \in Slot : host'[x] = "begin" => host[x] = "begin"
    PROVE  FilesTrue'
  <1>1. Stays /\ session' \in [Slot -> SessionType]
    BY WithinStep
  <1>2. \A x \in Slot : /\ session[x].outcome # None =>
                              /\ session'[x].outcome = session[x].outcome
                              /\ Lost(session'[x]) => Lost(session[x])
                        /\ session[x].begun => session'[x].begun
    BY SlotFacts DEF Within, SeriesInv, SeriesTypeOK
  <1>3. ASSUME NEW x \in Slot, file[x][Game(x)] # None, file[x][Game(x)].outcome = "finished"
        PROVE  /\ session'[x].outcome = "finished"
               /\ Lost(session'[x]) => file[x][Game(x)].disconnected
    BY <1>2, <1>3, NoneAssumption DEF SeriesInv, FilesTrue
  <1>4. ASSUME NEW x \in Slot, host[x] = "begin"
        PROVE  file[x][Game(x)] # None /\ file[x][Game(x)].outcome = session'[x].outcome
    <2>1. file[x][Game(x)] # None /\ file[x][Game(x)].outcome = session[x].outcome
      BY <1>4 DEF SeriesInv, FilesTrue
    <2>2. session[x].outcome # None
      BY <1>4, NoneAssumption DEF SeriesInv, GameStates
    <2> QED
      BY <1>2, <2>1, <2>2
  <1> QED
    BY <1>1, <1>2, <1>3, <1>4 DEF SeriesInv, FilesTrue, Stays

-----------------------------------------------------------------------------
(* Messages *)

Says(p, msgs) == msgs \in Seq(Message) /\ \A i \in 1 .. Len(msgs) : Said(p, msgs[i])

LEMMA SaysNothing == ASSUME NEW p PROVE Says(p, <<>>)
  BY DEF Says

LEMMA SaysOne == ASSUME NEW p, NEW m \in Message, Said(p, m) PROVE Says(p, <<m>>)
  BY DEF Says

LEMMA SaysBoth == ASSUME NEW p, NEW a, NEW b, Says(p, a), Says(p, b) PROVE Says(p, a \o b)
  BY DEF Says

LEMMA SaysBothNext ==
    ASSUME NEW p, NEW old, NEW said, Says(p, old)', Says(p, said)'
    PROVE  Says(p, old \o said)'
  <1>0. \A x, y : x = y => (Said(p, x)' <=> Said(p, y)')
    OBVIOUS
  <1>1. old \in Seq(Message) /\ said \in Seq(Message) /\ old \o said \in Seq(Message)
    BY DEF Says
  <1>2. ASSUME NEW i \in 1 .. Len(old \o said)
        PROVE  Said(p, (old \o said)[i])'
    <2>1. CASE i \in 1 .. Len(old)
      <3>1. (old \o said)[i] = old[i] /\ Said(p, old[i])'
        BY <1>1, <2>1 DEF Says
      <3> QED
        BY <1>0, <3>1
    <2>2. CASE i \notin 1 .. Len(old)
      <3>1. (old \o said)[i] = said[i - Len(old)] /\ i - Len(old) \in 1 .. Len(said)
        BY <1>1, <2>2
      <3>2. Said(p, said[i - Len(old)])'
        BY <3>1 DEF Says
      <3> QED
        BY <1>0, <3>1, <3>2
    <2> QED
      BY <2>1, <2>2
  <1> QED
    BY <1>1, <1>2 DEF Says

LEMMA SaysByes == ASSUME NEW p, NEW why \in {"left", "mismatch"} PROVE Says(p, <<Bye(why)>>)
  <1>1. Bye(why) \in Message /\ Said(p, Bye(why))
    BY DEF Bye, Message, Said
  <1> QED
    BY <1>1, SaysOne

\* The messages on their way stay true when what is added is true.
LEMMA Posted ==
    ASSUME NEW p \in Slot, NEW rest, NEW said, NEW old, Post(p, rest, said),
           chan \in [Slot -> Seq(Message)], old = chan[Other(p)],
           Says(Other(p), rest)', Says(p, said)', Says(p, old)'
    PROVE  chan' \in [Slot -> Seq(Message)] /\ MessagesTrue'
  <1> DEFINE q == Other(p)
  <1>1. /\ q \in Slot /\ q # p /\ Other(q) = p /\ \A x \in Slot : x = p \/ x = q
    BY SlotFacts
  <1>0. \A x, y, m : x = y => (Said(m, x)' <=> Said(m, y)')
    OBVIOUS
  <1>2. Says(p, old \o said)'
    BY SaysBothNext
  <1>3. chan' = [chan EXCEPT ![p] = rest, ![q] = IF up[p] /\ up[q] THEN old \o said ELSE old]
    BY <1>1 DEF Post
  <1>4. PICK new : new = IF up[p] /\ up[q] THEN old \o said ELSE old
    OBVIOUS
  <1>5. Says(p, new)'
    BY <1>2, <1>4
  <1>6. chan'[p] = rest /\ chan'[q] = new
    BY <1>1, <1>3, <1>4
  <1>7. chan' \in [Slot -> Seq(Message)]
    BY <1>1, <1>3, <1>4, <1>5 DEF Says
  <1>8. /\ \A i \in 1 .. Len(chan[p])' : Said(q, chan[p][i])'
        /\ \A i \in 1 .. Len(chan[q])' : Said(p, chan[q][i])'
    BY <1>0, <1>5, <1>6 DEF Says, Said
  <1> QED
    BY <1>1, <1>7, <1>8 DEF MessagesTrue

\* What is on its way to p was said by the other.
LEMMA OnItsWay ==
    ASSUME SeriesInv, NEW p \in Slot
    PROVE  /\ Says(Other(p), chan[p]) /\ Says(p, chan[Other(p)])
           /\ chan[p] # <<>> => /\ Head(chan[p]) \in Message /\ Said(Other(p), Head(chan[p]))
                                /\ Says(Other(p), Tail(chan[p]))
  <1>1. \A x \in Slot : Says(Other(x), chan[x])
    BY DEF SeriesInv, SeriesTypeOK, MessagesTrue, Says
  <1>2. chan[p] \in Seq(Message) /\ \A i \in 1 .. Len(chan[p]) : Said(Other(p), chan[p][i])
    BY <1>1 DEF Says
  <1>3. ASSUME chan[p] # <<>>
        PROVE  /\ Head(chan[p]) = chan[p][1] /\ chan[p][1] \in Message /\ 1 \in 1 .. Len(chan[p])
               /\ Tail(chan[p]) \in Seq(Message) /\ Len(Tail(chan[p])) = Len(chan[p]) - 1
               /\ \A i \in 1 .. Len(Tail(chan[p])) :
                     Tail(chan[p])[i] = chan[p][i + 1] /\ i + 1 \in 1 .. Len(chan[p])
    BY <1>2, <1>3
  <1> QED
    BY <1>1, <1>2, <1>3, SlotFacts DEF Says

\* What is said stays said.
LEMMA SaysStays ==
    ASSUME NEW p \in Slot, NEW msgs, Stays, Says(p, msgs)
    PROVE  Says(p, msgs)'
  BY DEF Says, Stays

\* A tick moves the session within its game.
LEMMA HearsWithin ==
    ASSUME SeriesInv, NEW p \in Slot, NEW m, NEW s, Hears(session[p], m, s),
           m = NoMessage \/ Said(Other(p), m)
    PROVE  Within(p, s)
  <1> DEFINE r == session[p]
             q == Other(p)
  <1>1. s \in SessionType /\ GameKept(r, s)
    BY DEF Hears
  <1>2. /\ m.type = "VERIFY" => m.digest = <<Setup(q)>>
        /\ m.type = "INFO" => m.games = MaxGames[q]
        /\ m.type = "NEXT" => Offered(q, m.game, m.digest)
    BY DEF Said, NoMessage
  <1>3. s.peerInfo \in {r.peerInfo, MaxGames[q]}
    BY <1>2 DEF Hears
  <1>4. s.peerNext = r.peerNext \/ Offered(q, s.peerNext[1], s.peerNext[2])
    BY <1>2 DEF Hears
  <1>5. StatesOf(r) /\ (r.next = "Agreed" => r.peerNext # None)
    BY DEF SeriesInv, GameStates, SameSeries
  <1>6. Playable(s) \/ s.begun => Playable(r) \/ r.begun \/ Setup(p) = Setup(q)
    <2>1. CASE r.state = "Verifying" /\ s.state = "Ready" /\ m.type = "VERIFY" /\ m.digest = r.digest
      BY <1>2, <2>1 DEF Setup
    <2>2. CASE s.state = r.state \/ s.state = "Failed"
      BY <1>1, <2>2 DEF Playable, GameKept
    <2> QED
      BY <2>1, <2>2 DEF Hears
  <1>7. s.state = "Verifying" => r.state = "Verifying"
    BY DEF Hears
  <1>8. s.next = "Agreed" => \/ r.next = "Agreed" /\ s.peerNext = r.peerNext
                             \/ s.peerNext # None /\ SameNext(s)
    BY <1>5 DEF Hears
  <1>9. r.outcome # None => s.outcome = r.outcome /\ (Lost(s) => Lost(r))
    BY <1>1, <1>5 DEF Hears, GameKept, StatesOf
  <1>10. StatesOf(s)
    <2>1. /\ s.state \in {"Verifying", "Ready", "Failed"} => ~s.begun
          /\ s.state \in {"Playing", "Ended"} => s.begun
      BY <1>1, <1>5 DEF Hears, GameKept, StatesOf
    <2>2. s.outcome # None => s.begun /\ s.reported
      BY <1>1, <1>5 DEF GameKept, StatesOf
    <2>3. Between(s) => Between(r)
      BY DEF Between, Hears
    <2> QED
      BY <1>1, <1>5, <2>1, <2>2, <2>3 DEF StatesOf, GameKept
  <1> QED
    BY <1>1, <1>3, <1>4, <1>6, <1>7, <1>8, <1>9, <1>10 DEF Within, GameKept

\* What a session answers is true.
LEMMA AnswersTrue ==
    ASSUME SeriesInv, NEW p \in Slot, NEW m
    PROVE  Says(p, ControlSays(p, session[p], m))
  <1> DEFINE r == session[p]
  <1>1. Says(p, JudgeSays(WithNext(r, m)))
    BY SaysNothing, SaysByes DEF JudgeSays
  <1>2. Says(p, VerifySays(p, r, m))
    <2>1. CASE r.state # "Verifying"
      BY <2>1, SaysNothing DEF VerifySays
    <2>2. CASE r.state = "Verifying"
      <3>1. r.digest = <<Setup(p)>>
        <4>1. Game(p) = 1 /\ r.digest \in Digest
          BY <2>2 DEF SeriesInv, SeriesTypeOK, OneLine, SessionType
        <4> QED
          BY <4>1 DEF Game, Setup, Digest
      <3>2. Verify(r.digest) \in Message /\ Said(p, Verify(r.digest))
        BY <3>1, GameFacts DEF Verify, Message, Said, SessionType
      <3>3. Info(MaxGames[p]) \in Message /\ Said(p, Info(MaxGames[p]))
        BY DEF Info, Message, Said
      <3>4. Says(p, IF r.verifySent THEN <<>> ELSE <<Verify(r.digest)>>)
        BY <3>2, SaysNothing, SaysOne
      <3>5. Says(p, IF m.digest # r.digest THEN <<Bye("mismatch")>>
                    ELSE IF MaxGames[p] = 0 THEN <<>> ELSE <<Info(MaxGames[p])>>)
        BY <3>3, SaysNothing, SaysOne, SaysByes
      <3> QED
        BY <2>2, <3>4, <3>5, SaysBoth DEF VerifySays
    <2> QED
      BY <2>1, <2>2
  <1>3. ControlSays(p, r, m) \in {VerifySays(p, r, m), JudgeSays(WithNext(r, m)), <<>>}
    BY DEF ControlSays
  <1> QED
    BY <1>1, <1>2, <1>3, SaysNothing

-----------------------------------------------------------------------------
(* Every step keeps the invariant *)

LEMMA ReachableFrames ==
    ASSUME SeriesInv, NEW p \in Slot, NEW n \in Reachable(p)
    PROVE  n \in 0 .. GameFrames
  <1>1. session[p].frames \in 0 .. GameFrames /\ Game(p) \in Games
    BY GameFacts DEF SessionType
  <1>2. committed[p][Game(p)] \in 0 .. GameFrames /\ committed[Other(p)][Game(p)] \in 0 .. GameFrames
    BY <1>1, SlotFacts DEF SeriesInv, SeriesTypeOK
  <1>3. Smaller(committed[p][Game(p)], committed[Other(p)][Game(p)]) \in 0 .. GameFrames
    BY <1>2 DEF Smaller
  <1> QED
    BY <1>1, <1>3 DEF Reachable, Game

LEMMA TickStep ==
    ASSUME SeriesInv, NEW p \in Slot, NEW late \in BOOLEAN, Tick(p, late)
    PROVE  SeriesInv'
  <1>1. PICK n \in Reachable(p) :
           \/ /\ session' = [session EXCEPT ![p] = AfterPoll(@, up[p], n, late)]
              /\ UNCHANGED chan
           \/ /\ chan[p] # <<>>
              /\ session' = [session EXCEPT ![p] =
                     AfterPoll(OnControl(p, @, Head(chan[p])), up[p], n, late)]
              /\ Post(p, Tail(chan[p]), ControlSays(p, session[p], Head(chan[p])))
    BY DEF Tick
  <1>2. UNCHANGED <<host, up, committed, file>>
    BY DEF Tick
  <1>3. n \in 0 .. GameFrames /\ up[p] \in BOOLEAN /\ session[p] \in SessionType
    BY ReachableFrames DEF SeriesInv, SeriesTypeOK
  <1>4. ASSUME NEW m, NEW s, m = NoMessage \/ Said(Other(p), m), Hears(session[p], m, s),
               session' = [session EXCEPT ![p] = s]
        PROVE  /\ session' \in [Slot -> SessionType] /\ Stays
               /\ OneLine' /\ HeldTrue' /\ SameSeries' /\ GameStates' /\ FilesTrue'
    <2>1. Within(p, s) /\ s.outcome = session[p].outcome
      BY <1>4, HearsWithin DEF Hears, GameKept
    <2>2. /\ session' \in [Slot -> SessionType] /\ Stays
          /\ OneLine' /\ HeldTrue' /\ SameSeries' /\ \A x \in Slot : StatesOf(session'[x])
      BY <1>4, <2>1, WithinStep
    <2>3. FilesTrue'
      BY <1>2, <1>4, <2>1, FilesStand
    <2>4. \A x \in Slot : session'[x].outcome = session[x].outcome
      BY <1>4, <2>1 DEF SeriesInv, SeriesTypeOK
    <2>5. GameStates'
      BY <1>2, <2>2, <2>4 DEF SeriesInv, GameStates
    <2> QED
      BY <2>2, <2>3, <2>5
  <1>5. CASE session' = [session EXCEPT ![p] = AfterPoll(@, up[p], n, late)] /\ UNCHANGED chan
    <2>1. Hears(session[p], NoMessage, session[p])
      BY <1>3 DEF Hears, GameKept
    <2>2. PICK s : s = AfterPoll(session[p], up[p], n, late)
      OBVIOUS
    <2>3. Hears(session[p], NoMessage, s)
      BY <1>3, <2>1, <2>2, AfterPollHears
    <2>4. session' = [session EXCEPT ![p] = s]
      BY <1>5, <2>2
    <2>5. /\ session' \in [Slot -> SessionType] /\ Stays
          /\ OneLine' /\ HeldTrue' /\ SameSeries' /\ GameStates' /\ FilesTrue'
      BY <1>4, <2>3, <2>4
    <2>6. MessagesTrue'
      BY <1>5, <2>5, SlotFacts DEF SeriesInv, MessagesTrue, Stays
    <2> QED
      BY <1>2, <1>5, <2>5, <2>6 DEF SeriesInv, SeriesTypeOK
  <1>6. CASE /\ chan[p] # <<>>
             /\ session' = [session EXCEPT ![p] =
                    AfterPoll(OnControl(p, @, Head(chan[p])), up[p], n, late)]
             /\ Post(p, Tail(chan[p]), ControlSays(p, session[p], Head(chan[p])))
    <2>1. PICK m : m = Head(chan[p])
      OBVIOUS
    <2>2. m \in Message /\ Said(Other(p), m) /\ Says(Other(p), Tail(chan[p]))
      BY <1>6, <2>1, OnItsWay
    <2>3. PICK s : s = AfterPoll(OnControl(p, session[p], m), up[p], n, late)
      OBVIOUS
    <2>4. Hears(session[p], m, s)
      BY <1>3, <2>2, <2>3, OnControlHears, AfterPollHears
    <2>5. session' = [session EXCEPT ![p] = s]
      BY <1>6, <2>1, <2>3
    <2>6. /\ session' \in [Slot -> SessionType] /\ Stays
          /\ OneLine' /\ HeldTrue' /\ SameSeries' /\ GameStates' /\ FilesTrue'
      BY <1>4, <2>2, <2>4, <2>5
    <2>7. PICK rest, said, old : /\ rest = Tail(chan[p]) /\ old = chan[Other(p)]
                                 /\ said = ControlSays(p, session[p], m)
      OBVIOUS
    <2>8. Says(Other(p), rest)' /\ Says(p, said)' /\ Says(p, old)'
      <3>1. Says(Other(p), rest) /\ Says(p, said) /\ Says(p, old)
        BY <2>2, <2>7, AnswersTrue, OnItsWay
      <3> QED
        BY <2>6, <3>1, SaysStays, SlotFacts
    <2>9. chan' \in [Slot -> Seq(Message)] /\ MessagesTrue'
      BY <1>6, <2>1, <2>7, <2>8, Posted DEF SeriesInv, SeriesTypeOK
    <2> QED
      BY <1>2, <2>6, <2>9 DEF SeriesInv, SeriesTypeOK
  <1> QED
    BY <1>1, <1>5, <1>6

\* A step that leaves both sessions alone.
LEMMA SessionsStand ==
    ASSUME SeriesInv, session' = session
    PROVE  /\ OneLine' /\ HeldTrue' /\ SameSeries' /\ Stays
           /\ \A x \in Slot : StatesOf(session'[x])
  <1>1. \A x \in Slot : /\ Game(x)' = Game(x) /\ Setup(x)' = Setup(x)
                        /\ \A n : Line(x, n)' = Line(x, n)
    BY DEF Game, Setup, Line
  <1>2. \A x \in Slot : \A n, d : Offered(x, n, d)' <=> Offered(x, n, d)
    BY <1>1 DEF Offered
  <1>3. Stays
    BY <1>1, <1>2 DEF Stays, Said
  <1>4. OneLine'
    BY <1>1 DEF SeriesInv, OneLine
  <1>5. HeldTrue'
    BY <1>2, SlotFacts DEF SeriesInv, HeldTrue
  <1>6. SameSeries'
    BY <1>1, <1>2, SlotFacts DEF SeriesInv, SameSeries
  <1> QED
    BY <1>3, <1>4, <1>5, <1>6 DEF SeriesInv, GameStates

LEMMA MessagesStand ==
    ASSUME SeriesInv, Stays, chan' = chan
    PROVE  MessagesTrue'
  BY SlotFacts DEF SeriesInv, MessagesTrue, Stays

\* The game thread goes somewhere else, and nothing more.
LEMMA GoStep ==
    ASSUME SeriesInv, NEW p \in Slot, NEW place \in Place \ {"begin"}, Goes(p, place),
           place = "game" => session[p].outcome = None,
           place = "advance" => session[p].outcome = "finished",
           UNCHANGED <<session, chan, up, committed, file>>
    PROVE  SeriesInv'
  <1>1. /\ OneLine' /\ HeldTrue' /\ SameSeries' /\ Stays
        /\ \A x \in Slot : StatesOf(session'[x])
    BY SessionsStand
  <1>2. MessagesTrue'
    BY <1>1, MessagesStand
  <1>3. host' \in [Slot -> Place] /\ \A x \in Slot : host'[x] = IF x = p THEN place ELSE host[x]
    BY DEF SeriesInv, SeriesTypeOK, Goes
  <1>4. SeriesTypeOK'
    BY <1>3 DEF SeriesInv, SeriesTypeOK
  <1>5. GameStates'
    BY <1>1, <1>3 DEF SeriesInv, GameStates
  <1>6. FilesTrue'
    BY <1>1, <1>3 DEF SeriesInv, FilesTrue, Stays
  <1> QED
    BY <1>1, <1>2, <1>4, <1>5, <1>6 DEF SeriesInv

LEMMA MatchStateStep == ASSUME SeriesInv, NEW p \in Slot, MatchState(p) PROVE SeriesInv'
  <1>1. StatesOf(session[p]) /\ host[p] = "menu"
    BY DEF SeriesInv, GameStates, MatchState
  <1>2. CASE session[p].next = "Agreed" /\ Goes(p, "advance")
    BY <1>1, <1>2, GoStep DEF MatchState, StatesOf, Between, Place
  <1>3. CASE Goes(p, "closing")
    BY <1>3, GoStep DEF MatchState, Place
  <1>4. CASE session[p].state = "Ready" /\ Goes(p, "game")
    BY <1>1, <1>4, GoStep DEF MatchState, StatesOf, Place
  <1> QED
    BY <1>2, <1>3, <1>4 DEF MatchState

LEMMA WalkOnStep ==
    ASSUME SeriesInv, NEW p \in Slot, GameNeverBegan(p) \/ SeriesState(p) \/ Leave(p)
    PROVE  SeriesInv'
  <1>1. CASE GameNeverBegan(p)
    BY <1>1, GoStep DEF GameNeverBegan, Place
  <1>2. CASE SeriesState(p)
    <2>1. PICK place : place = IF Between(session[p]) THEN "menu" ELSE "closing"
      OBVIOUS
    <2>2. Goes(p, place)
      BY <1>2, <2>1 DEF SeriesState
    <2> QED
      BY <1>2, <2>1, <2>2, GoStep DEF SeriesState, Place
  <1>3. CASE Leave(p)
    BY <1>3, GoStep DEF Leave, Place
  <1> QED
    BY <1>1, <1>2, <1>3

\* A file is written of the game the session is in.
LEMMA WroteFile ==
    ASSUME SeriesInv, NEW p \in Slot, WriteResult(p)
    PROVE  /\ file' \in [Slot -> [Games -> {None} \cup ResultFile]]
           /\ \A x \in Slot \ {p} : file'[x] = file[x]
           /\ \A g \in Games \ {Game(p)} : file'[p][g] = file[p][g]
           /\ ~session[p].begun => file' = file
           /\ session[p].begun =>
                /\ file'[p][Game(p)] # None
                /\ file'[p][Game(p)].digest = session[p].digest
                /\ file'[p][Game(p)].outcome = session[p].outcome
                /\ Lost(session[p]) <=> file'[p][Game(p)].disconnected
  <1> DEFINE r == session[p]
  <1>1. file \in [Slot -> [Games -> {None} \cup ResultFile]] /\ Game(p) \in Games
    BY GameFacts DEF SeriesInv, SeriesTypeOK
  <1>2. /\ Record(r) \in ResultFile /\ Record(r).digest = r.digest /\ Record(r).outcome = r.outcome
        /\ Lost(r) <=> Record(r).disconnected
    <2>1. r \in SessionType /\ Len(r.digest) \in Nat
      BY GameFacts DEF Game
    <2>2. (r.peerGone /\ ~r.goneAfterEnd) \in BOOLEAN
      OBVIOUS
    <2>3. TranscriptAt(r, r.frames) \in Digest \X Nat /\ r.frames \in Nat
      BY <2>1 DEF TranscriptAt, SessionType
    <2> QED
      BY <2>1, <2>2, <2>3 DEF Record, ResultFile, SessionType, Lost, Digest, Entry
  <1>3. Record(r) # None
    BY <1>2, NoneAssumption
  <1>4. CASE r.begun
    <2>1. PICK written : written = Record(r)
      OBVIOUS
    <2>2. file' = [file EXCEPT ![p][Game(p)] = written]
      BY <1>4, <2>1 DEF WriteResult, Game
    <2> HIDE DEF r
    <2>3. file' \in [Slot -> [Games -> {None} \cup ResultFile]]
      BY <1>1, <1>2, <2>1, <2>2
    <2>4. /\ file'[p][Game(p)] = written
          /\ \A x \in Slot \ {p} : file'[x] = file[x]
          /\ \A g \in Games \ {Game(p)} : file'[p][g] = file[p][g]
      BY <1>1, <2>2
    <2> QED
      BY <1>2, <1>3, <1>4, <2>1, <2>3, <2>4 DEF r
  <1>5. CASE ~r.begun
    BY <1>1, <1>5 DEF WriteResult
  <1> QED
    BY <1>4, <1>5

LEMMA WriteStep ==
    ASSUME SeriesInv, NEW p \in Slot, NEW place \in {"begin", "asking", "stopping"},
           WriteResult(p), Goes(p, place), place = "begin" => host[p] = "advance",
           UNCHANGED <<session, chan, up, committed>>
    PROVE  SeriesInv'
  <1>1. /\ OneLine' /\ HeldTrue' /\ SameSeries' /\ Stays
        /\ \A x \in Slot : StatesOf(session'[x])
    BY SessionsStand
  <1>2. MessagesTrue'
    BY <1>1, MessagesStand
  <1>3. host' \in [Slot -> Place] /\ \A x \in Slot : host'[x] = IF x = p THEN place ELSE host[x]
    BY DEF SeriesInv, SeriesTypeOK, Goes, Place
  <1>4. SeriesTypeOK'
    BY <1>3, WroteFile DEF SeriesInv, SeriesTypeOK
  <1>5. GameStates'
    BY <1>1, <1>3 DEF SeriesInv, GameStates
  <1>6. FilesTrue'
    <2>1. Game(p) \in Games /\ session[p].digest = Line(p, Game(p)) /\ LastGame \in Nat
      BY GameFacts
    <2>2. \A x \in Slot : Game(x)' = Game(x) /\ \A n : Line(x, n)' = Line(x, n)
      BY <1>1 DEF Stays
    <2>3. place = "begin" => session[p].begun /\ session[p].outcome = "finished"
      BY NoneAssumption DEF SeriesInv, GameStates, StatesOf
    <2>4. ASSUME NEW g \in Games, file'[p][g] # None
          PROVE  /\ g <= Game(p) /\ file'[p][g].digest = Line(p, g)
                 /\ g = Game(p) => session[p].begun
      <3>1. CASE g = Game(p) /\ session[p].begun
        BY <2>1, <3>1, WroteFile DEF Games
      <3>2. CASE g # Game(p) \/ ~session[p].begun
        BY <2>4, <3>2, WroteFile DEF SeriesInv, FilesTrue
      <3> QED
        BY <3>1, <3>2
    <2>5. ASSUME NEW g \in 1 .. Game(p) - 1
          PROVE  file'[p][g] # None /\ file'[p][g].outcome = "finished"
      <3>1. g \in Games /\ g # Game(p)
        BY <2>1, <2>5 DEF Games
      <3> QED
        BY <3>1, WroteFile DEF SeriesInv, FilesTrue
    <2>6. file'[p][Game(p)] # None /\ file'[p][Game(p)].outcome = "finished" =>
              /\ session[p].outcome = "finished"
              /\ Lost(session[p]) => file'[p][Game(p)].disconnected
      <3>1. CASE session[p].begun
        BY <3>1, WroteFile
      <3>2. CASE ~session[p].begun
        BY <3>2, WroteFile DEF SeriesInv, FilesTrue
      <3> QED
        BY <3>1, <3>2
    <2>7. host'[p] = "begin" =>
              file'[p][Game(p)] # None /\ file'[p][Game(p)].outcome = session[p].outcome
      BY <1>3, <2>3, WroteFile
    <2>8. ASSUME NEW x \in Slot \ {p}
          PROVE  file'[x] = file[x] /\ (host'[x] = "begin" => host[x] = "begin")
      BY <1>3, <2>8, WroteFile
    <2> QED
      BY <2>2, <2>4, <2>5, <2>6, <2>7, <2>8 DEF SeriesInv, FilesTrue
  <1> QED
    BY <1>1, <1>2, <1>4, <1>5, <1>6 DEF SeriesInv

LEMMA FileStep ==
    ASSUME SeriesInv, NEW p \in Slot, AdvanceSeries(p) \/ ReportGame(p) \/ CloseSession(p)
    PROVE  SeriesInv'
  BY WriteStep DEF AdvanceSeries, ReportGame, CloseSession

LEMMA DisconnectStep == ASSUME SeriesInv, NEW p \in Slot, Disconnect(p) PROVE SeriesInv'
  <1>1. /\ UNCHANGED <<session, host, committed, file>>
        /\ up' = [up EXCEPT ![p] = FALSE] /\ chan' = [chan EXCEPT ![p] = <<>>]
    BY DEF Disconnect
  <1>2. /\ OneLine' /\ HeldTrue' /\ SameSeries' /\ Stays
        /\ \A x \in Slot : StatesOf(session'[x])
    BY <1>1, SessionsStand
  <1>3. up' \in [Slot -> BOOLEAN] /\ chan' \in [Slot -> Seq(Message)]
    BY <1>1 DEF SeriesInv, SeriesTypeOK
  <1>4. SeriesTypeOK'
    BY <1>1, <1>3 DEF SeriesInv, SeriesTypeOK
  <1>5. \A x \in Slot : chan'[x] = chan[x] \/ chan'[x] = <<>>
    BY <1>1 DEF SeriesInv, SeriesTypeOK
  <1>6. MessagesTrue'
    BY <1>2, <1>5, SlotFacts DEF SeriesInv, MessagesTrue, Stays
  <1>7. GameStates' /\ FilesTrue'
    BY <1>1, <1>2 DEF SeriesInv, GameStates, FilesTrue, Stays
  <1> QED
    BY <1>2, <1>4, <1>6, <1>7 DEF SeriesInv

\* The game asks for a frame, and it is begun; or it is held for too long.
LEMMA InputsStep == ASSUME SeriesInv, NEW p \in Slot, Inputs(p) PROVE SeriesInv'
  <1> DEFINE r == session[p]
             g == Len(r.digest)
             state == IF r.begun THEN r.state ELSE "Playing"
             begun == [r EXCEPT !.state = state, !.begun = TRUE]
             held  == [r EXCEPT !.peerGone = TRUE]
  <1>1. /\ r \in SessionType /\ g \in Games /\ StatesOf(r) /\ r.outcome = None
        /\ host[p] = "game" /\ Playable(r)
        /\ UNCHANGED <<host, chan, up, file>>
    BY GameFacts DEF SeriesInv, GameStates, Inputs, Game
  <1>2. /\ committed[p][g] < GameFrames
        /\ \/ /\ committed' = [committed EXCEPT ![p][g] = @ + 1]
              /\ session' = [session EXCEPT ![p] = begun]
           \/ /\ session' = [session EXCEPT ![p] = held]
              /\ UNCHANGED committed
    BY DEF Inputs
  <1>3. Within(p, begun) /\ begun.outcome = None
    <2>0. state \in StateName /\ state = IF r.begun THEN r.state ELSE "Playing"
      BY <1>1 DEF SessionType, StateName
    <2> HIDE DEF state
    <2>4. PICK before, to : before = r /\ to = state
      OBVIOUS
    <2>5. begun = Begun(before, to)
      BY <2>4 DEF Begun
    <2> HIDE DEF begun, r
    <2>1. /\ begun \in SessionType /\ begun.digest = r.digest /\ begun.pool = r.pool
          /\ begun.begun = TRUE /\ begun.state = state
          /\ begun.outcome = r.outcome /\ begun.next = r.next
          /\ begun.peerInfo = r.peerInfo /\ begun.peerNext = r.peerNext
      <3>1. before \in SessionType /\ to \in StateName
        BY <1>1, <2>0, <2>4
      <3>2. begun \in SessionType
        BY <3>1, <2>5, BegunTyped
      <3>3. begun.digest = before.digest /\ begun.pool = before.pool
        BY <3>1, <2>5, BegunTyped
      <3>4. begun.begun = TRUE /\ begun.state = to
        BY <3>1, <2>5, BegunTyped
      <3>5. begun.outcome = before.outcome /\ begun.next = before.next
        BY <3>1, <2>5, BegunTyped
      <3>6. begun.peerInfo = before.peerInfo /\ begun.peerNext = before.peerNext
        BY <3>1, <2>5, BegunTyped
      <3> QED
        BY <2>4, <3>2, <3>3, <3>4, <3>5, <3>6
    <2> USE DEF r
    <2>2. begun.state \in {"Playing", "Ended"}
      BY <1>1, <2>0, <2>1 DEF StatesOf, SessionType, Playable
    <2>3. StatesOf(begun)
      BY <1>1, <2>1, <2>2 DEF StatesOf, Between
    <2> QED
      BY <1>1, <2>1, <2>2, <2>3 DEF Within
  <1>4. Within(p, held) /\ held.outcome = None
    <2>1. /\ held \in SessionType /\ held.digest = r.digest /\ held.pool = r.pool
          /\ held.begun = r.begun /\ held.state = r.state /\ held.reported = r.reported
          /\ held.outcome = r.outcome /\ held.next = r.next
          /\ held.peerInfo = r.peerInfo /\ held.peerNext = r.peerNext
      BY <1>1 DEF SessionType
    <2> HIDE DEF held
    <2>2. StatesOf(held)
      BY <1>1, <2>1 DEF StatesOf, Between
    <2> QED
      BY <1>1, <2>1, <2>2 DEF Within
  <1>5. committed' \in [Slot -> [Games -> 0 .. GameFrames]]
    <2>1. committed \in [Slot -> [Games -> 0 .. GameFrames]] /\ committed[p][g] \in 0 .. GameFrames
      BY <1>1 DEF SeriesInv, SeriesTypeOK
    <2>2. committed[p][g] + 1 \in 0 .. GameFrames
      BY <1>2, <2>1
    <2>3. PICK row : row = [committed[p] EXCEPT ![g] = committed[p][g] + 1]
      OBVIOUS
    <2>4. row \in [Games -> 0 .. GameFrames]
      BY <2>1, <2>2, <2>3
    <2>5. committed' = committed \/ committed' = [committed EXCEPT ![p] = row]
      BY <1>2, <2>3
    <2> QED
      BY <2>1, <2>4, <2>5
  <1> HIDE DEF begun, held
  <1>6. PICK s : /\ session' = [session EXCEPT ![p] = s]
                 /\ Within(p, s) /\ s.outcome = None
    BY <1>2, <1>3, <1>4
  <1>7. /\ session' \in [Slot -> SessionType] /\ Stays
        /\ OneLine' /\ HeldTrue' /\ SameSeries' /\ \A x \in Slot : StatesOf(session'[x])
    BY <1>6, WithinStep
  <1>8. FilesTrue'
    BY <1>1, <1>6, FilesStand
  <1>9. MessagesTrue'
    BY <1>1, <1>7, MessagesStand
  <1>10. GameStates'
    <2>1. \A x \in Slot : session'[x].outcome = session[x].outcome
      BY <1>1, <1>6 DEF SeriesInv, SeriesTypeOK
    <2> QED
      BY <1>1, <1>7, <2>1 DEF SeriesInv, GameStates
  <1>11. SeriesTypeOK'
    BY <1>1, <1>5, <1>7 DEF SeriesInv, SeriesTypeOK
  <1> QED
    BY <1>7, <1>8, <1>9, <1>10, <1>11 DEF SeriesInv

\* A series goes on only as far as both sides' options allow.
LEMMA LimitHolds ==
    ASSUME SeriesInv, NEW p \in Slot, NEW r, r.peerInfo = session[p].peerInfo,
           Len(r.digest) \in Nat \ {0}, GoesOn(p, r)
    PROVE  Len(r.digest) < LastGame /\ r.outcome = "finished"
  <1>1. r.peerInfo \in {None, MaxGames[Other(p)]} /\ MaxGames[p] \in Nat /\ MaxGames[Other(p)] \in Nat
    BY SlotFacts DEF SeriesInv, HeldTrue
  <1>2. r.peerInfo = MaxGames[Other(p)] /\ Len(r.digest) < Smaller(MaxGames[p], r.peerInfo)
    BY <1>1 DEF GoesOn, GameLimit
  <1>3. Smaller(MaxGames[p], MaxGames[Other(p)]) = LastGame
    BY <1>1 DEF Smaller, LastGame, Other, Slot
  <1> QED
    BY <1>1, <1>2, <1>3 DEF GoesOn

\* The game reports its outcome, and the next is offered if both may go on.
LEMMA GameEndStep == ASSUME SeriesInv, NEW p \in Slot, GameEnd(p) PROVE SeriesInv'
  <1> DEFINE r == session[p]
             q == Other(p)
  <1>1. PICK outcome \in Outcomes(p), n \in Reachable(p) :
          LET ended  == [r EXCEPT !.outcome = outcome, !.reported = TRUE, !.frames = n,
                                  !.state = IF @ = "Playing" THEN "Ended" ELSE @]
              judged == IF ended.agreement = None THEN JudgeAgreement(ended) ELSE ended
          IN  /\ session' = [session EXCEPT ![p] = OfferNext(p, judged)]
              /\ Post(p, chan[p], <<Result(n, TranscriptAt(ended, n))>> \o OfferSays(p, judged))
    BY DEF GameEnd
  <1>2. /\ r \in SessionType /\ StatesOf(r) /\ r.outcome = None /\ r.begun
        /\ Goes(p, "ended") /\ UNCHANGED <<up, committed, file>>
    BY GameFacts DEF SeriesInv, GameStates, GameEnd
  <1>3. n \in 0 .. GameFrames /\ outcome \in {"finished", "quit", "desync", "unfinished"}
    BY ReachableFrames DEF Outcomes
  <1>4. PICK ended : ended = [r EXCEPT !.outcome = outcome, !.reported = TRUE, !.frames = n,
                                       !.state = IF @ = "Playing" THEN "Ended" ELSE @]
    OBVIOUS
  <1>0. PICK state : state = IF r.state = "Playing" THEN "Ended" ELSE r.state
    OBVIOUS
  <1>5. /\ ended \in SessionType /\ ended.digest = r.digest /\ ended.pool = r.pool
        /\ ended.begun = r.begun /\ ended.reported = TRUE /\ ended.outcome = outcome
        /\ ended.state = state
        /\ ended.next = r.next /\ ended.peerInfo = r.peerInfo /\ ended.peerNext = r.peerNext
    <2>1. ended = [r EXCEPT !.outcome = outcome, !.reported = TRUE, !.frames = n, !.state = state]
      BY <1>0, <1>4
    <2>2. state \in StateName
      BY <1>0, <1>2 DEF SessionType, StateName
    <2>5. n \in FrameCount /\ outcome \in OutcomeSet
      BY <1>3 DEF FrameCount, OutcomeSet
    <2>4. PICK before : before = r
      OBVIOUS
    <2>3. ended = EndedWith(before, outcome, n, state)
      BY <2>1, <2>4 DEF EndedWith
    <2> HIDE DEF r
    <2>6. before \in SessionType
      BY <1>2, <2>4
    <2>7. EndsGame(before, outcome, state, ended)
      BY <2>2, <2>3, <2>5, <2>6, EndedTyped
    <2> QED
      BY <2>4, <2>7 DEF EndsGame
  <1>6. PICK judged : judged = IF ended.agreement = None THEN JudgeAgreement(ended) ELSE ended
    OBVIOUS
  <1>7. /\ judged \in SessionType /\ judged.digest = r.digest /\ judged.pool = r.pool
        /\ judged.begun = r.begun /\ judged.reported = TRUE /\ judged.outcome = outcome
        /\ judged.state = state
        /\ judged.next = r.next /\ judged.peerInfo = r.peerInfo /\ judged.peerNext = r.peerNext
    BY <1>5, <1>6, JudgeAgreementKeeps DEF GameKept
  <1>8. PICK s : s = OfferNext(p, judged)
    OBVIOUS
  <1>9. session' = [session EXCEPT ![p] = s]
    BY <1>1, <1>4, <1>6, <1>8
  <1>10. Post(p, chan[p], <<Result(n, TranscriptAt(ended, n))>> \o OfferSays(p, judged))
    BY <1>1, <1>4, <1>6
  <1>11. ~Between(r)
    BY <1>2, NoneAssumption DEF StatesOf
  <1>12. Game(p) \in Nat \ {0} /\ Len(judged.digest) = Game(p)
    BY <1>7, GameFacts DEF Game
  <1>13. GoesOn(p, judged) => Game(p) < LastGame /\ outcome = "finished"
    BY <1>7, <1>12, LimitHolds
  <1>14. /\ s \in SessionType /\ GameKept(judged, s) /\ s.state = judged.state
         /\ s.peerInfo = r.peerInfo /\ s.peerNext = r.peerNext
         /\ Between(s) => r.next = None /\ GoesOn(p, judged)
         /\ s.next = "Agreed" => s.peerNext # None /\ SameNext(s)
    <2>1. CASE judged.next # None
      BY <1>7, <1>8, <1>11, <2>1 DEF OfferNext, GameKept, Between
    <2>2. CASE judged.next = None /\ ~GoesOn(p, judged)
      BY <1>7, <1>8, <2>2, OverKeeps DEF OfferNext, Between
    <2>3. CASE judged.next = None /\ GoesOn(p, judged)
      <3>1. PICK w : w = [judged EXCEPT !.next = "Waiting"]
        OBVIOUS
      <3>2. /\ w \in SessionType /\ GameKept(judged, w) /\ w.next = "Waiting"
            /\ w.state = judged.state /\ w.peerInfo = r.peerInfo /\ w.peerNext = r.peerNext
        BY <1>7, <3>1, NextKeeps
      <3>3. s = JudgeNext(w)
        BY <1>8, <2>3, <3>1 DEF OfferNext
      <3> QED
        BY <1>7, <2>3, <3>2, <3>3, JudgeNextKeeps DEF GameKept
    <2> QED
      BY <2>1, <2>2, <2>3
  <1>15. /\ s.digest = r.digest /\ s.pool = r.pool /\ s.begun /\ s.reported /\ s.outcome = outcome
         /\ s.state = state
    BY <1>2, <1>7, <1>14 DEF GameKept
  <1>16. StatesOf(s)
    BY <1>0, <1>2, <1>13, <1>14, <1>15 DEF StatesOf, Game
  <1>17. Within(p, s)
    BY <1>0, <1>2, <1>14, <1>15, <1>16 DEF Within
  <1>18. /\ session' \in [Slot -> SessionType] /\ Stays
         /\ OneLine' /\ HeldTrue' /\ SameSeries' /\ \A x \in Slot : StatesOf(session'[x])
    BY <1>9, <1>17, WithinStep
  <1>19. /\ host' \in [Slot -> Place]
         /\ \A x \in Slot : host'[x] = IF x = p THEN "ended" ELSE host[x]
    BY <1>2 DEF SeriesInv, SeriesTypeOK, Goes, Place
  <1>20. FilesTrue'
    BY <1>2, <1>9, <1>17, <1>19, FilesStand
  <1>21. \A x \in Slot : session'[x] = IF x = p THEN s ELSE session[x]
    BY <1>9 DEF SeriesInv, SeriesTypeOK
  <1>22. GameStates'
    BY <1>18, <1>19, <1>21 DEF SeriesInv, GameStates
  <1>23. PICK said, old, rest : /\ said = <<Result(n, TranscriptAt(ended, n))>> \o OfferSays(p, judged)
                                /\ old = chan[q] /\ rest = chan[p]
    OBVIOUS
  <1>24. Says(q, rest)' /\ Says(p, old)'
    BY <1>18, <1>23, OnItsWay, SaysStays, SlotFacts
  <1>25. Says(p, said)'
    <2>1. PICK result, answer : /\ result = Result(n, TranscriptAt(ended, n))
                                /\ answer = JudgeSays([judged EXCEPT !.next = "Waiting"])
      OBVIOUS
    <2>2. Says(p, <<result>>)'
      <3>1. TranscriptAt(ended, n) \in Digest \X Nat /\ n \in Nat
        BY <1>3, <1>5 DEF TranscriptAt, SessionType
      <3>2. result \in Message /\ Said(p, result)
        BY <2>1, <3>1 DEF Result, Message, Said
      <3>3. Says(p, <<result>>)
        BY <3>2, SaysOne
      <3> QED
        BY <1>18, <3>3, SaysStays
    <2>3. Says(p, answer)'
      <3>1. Says(p, answer)
        BY <2>1, SaysNothing, SaysByes DEF JudgeSays
      <3> QED
        BY <1>18, <3>1, SaysStays
    <2>4. CASE ~(judged.next = None /\ GoesOn(p, judged))
      <3>1. said = <<result>> \o <<>>
        BY <1>23, <2>1, <2>4 DEF OfferSays
      <3>2. <<result>> \o <<>> = <<result>>
        BY <2>2 DEF Says
      <3> QED
        BY <2>2, <3>1, <3>2
    <2>5. CASE judged.next = None /\ GoesOn(p, judged)
      <3>1. PICK offer : offer = NextMsg(Game(p) + 1, Line(p, Game(p) + 1))
        OBVIOUS
      <3>2. said = <<result>> \o (<<offer>> \o answer)
        BY <1>7, <1>12, <1>23, <2>1, <2>5, <3>1, GameFacts DEF OfferSays
      <3>3. /\ Game(p)' = Game(p) /\ Line(p, Game(p) + 1) = Line(p, Game(p) + 1)'
            /\ session'[p].outcome = "finished"
        BY <1>13, <1>15, <1>18, <1>21, <2>5 DEF Stays
      <3>4. /\ offer \in Message /\ offer.type = "NEXT" /\ offer.game = Game(p) + 1
            /\ offer.digest = Line(p, Game(p) + 1)
        <4>1. Line(p, Game(p) + 1) \in Digest
          BY GameFacts, LineFacts DEF Line
        <4> QED
          BY <1>12, <3>1, <4>1 DEF NextMsg, Message
      <3>5. Offered(p, offer.game, offer.digest)'
        BY <1>12, <3>3, <3>4 DEF Offered
      <3>6. Said(p, offer)'
        BY <3>4, <3>5 DEF Said
      <3>7. Says(p, <<offer>>)'
        BY <3>4, <3>6 DEF Says
      <3>8. Says(p, <<offer>> \o answer)'
        BY <2>3, <3>7, SaysBothNext
      <3>9. Says(p, <<result>> \o (<<offer>> \o answer))'
        BY <2>2, <3>8, SaysBothNext
      <3> QED
        BY <3>2, <3>9
    <2> QED
      BY <2>4, <2>5
  <1>26. chan' \in [Slot -> Seq(Message)] /\ MessagesTrue'
    BY <1>10, <1>23, <1>24, <1>25, Posted DEF SeriesInv, SeriesTypeOK
  <1>27. SeriesTypeOK'
    BY <1>2, <1>18, <1>19, <1>26 DEF SeriesInv, SeriesTypeOK
  <1> QED
    BY <1>18, <1>20, <1>22, <1>26, <1>27 DEF SeriesInv

LEMMA StopStep == ASSUME SeriesInv, NEW p \in Slot, Stop(p) PROVE SeriesInv'
  <1> DEFINE r == session[p]
             q == Other(p)
  <1>1. /\ r \in SessionType /\ StatesOf(r)
        /\ session' = [session EXCEPT ![p].state = "Idle"]
        /\ Post(p, <<>>, <<Bye("left")>>) /\ up' = [up EXCEPT ![p] = FALSE]
        /\ Goes(p, "closed") /\ UNCHANGED <<committed, file>>
    BY GameFacts DEF SeriesInv, GameStates, Stop
  <1>2. PICK s : s = [r EXCEPT !.state = "Idle"]
    OBVIOUS
  <1>3. /\ s \in SessionType /\ GameKept(r, s) /\ s.state = "Idle"
        /\ s.peerInfo = r.peerInfo /\ s.peerNext = r.peerNext
        /\ s.next = r.next /\ Lost(s) = Lost(r)
    BY <1>1, <1>2, StateKeeps
  <1>4. session' = [session EXCEPT ![p] = s]
    BY <1>1, <1>2
  <1>5. StatesOf(s)
    BY <1>1, <1>3 DEF StatesOf, GameKept, Between
  <1>6. r.next = "Agreed" => r.peerNext # None
    BY DEF SeriesInv, SameSeries
  <1>7. Within(p, s)
    BY <1>3, <1>5, <1>6 DEF Within, GameKept, Playable
  <1>8. /\ session' \in [Slot -> SessionType] /\ Stays
        /\ OneLine' /\ HeldTrue' /\ SameSeries' /\ \A x \in Slot : StatesOf(session'[x])
    BY <1>4, <1>7, WithinStep
  <1>9. /\ host' \in [Slot -> Place]
        /\ \A x \in Slot : host'[x] = IF x = p THEN "closed" ELSE host[x]
    BY <1>1 DEF SeriesInv, SeriesTypeOK, Goes, Place
  <1>10. FilesTrue'
    BY <1>1, <1>4, <1>7, <1>9, FilesStand
  <1>11. \A x \in Slot : session'[x].outcome = session[x].outcome
    BY <1>3, <1>4 DEF SeriesInv, SeriesTypeOK, GameKept
  <1>12. GameStates'
    BY <1>8, <1>9, <1>11 DEF SeriesInv, GameStates
  <1>13. PICK said, old, rest : said = <<Bye("left")>> /\ old = chan[q] /\ rest = <<>>
    OBVIOUS
  <1>14. Says(q, rest)' /\ Says(p, said)' /\ Says(p, old)'
    <2>1. Says(q, rest) /\ Says(p, said) /\ Says(p, old)
      BY <1>13, OnItsWay, SaysNothing, SaysByes
    <2> QED
      BY <1>8, <2>1, SaysStays, SlotFacts
  <1>15. chan' \in [Slot -> Seq(Message)] /\ MessagesTrue'
    BY <1>1, <1>13, <1>14, Posted DEF SeriesInv, SeriesTypeOK
  <1>16. up' \in [Slot -> BOOLEAN]
    BY <1>1 DEF SeriesInv, SeriesTypeOK
  <1>17. SeriesTypeOK'
    BY <1>1, <1>8, <1>9, <1>15, <1>16 DEF SeriesInv, SeriesTypeOK
  <1> QED
    BY <1>8, <1>10, <1>12, <1>15, <1>17 DEF SeriesInv

\* The session of the next game: everything counted per game afresh, the rest kept.
Afresh(r, s) ==
    /\ s.state = "Ready" /\ ~s.begun /\ s.outcome = None
    /\ s.next = None /\ s.peerNext = None
    /\ s.pool = r.pool /\ s.peerInfo = r.peerInfo

Fields == {"state", "digest", "pool", "peerInfo", "next", "peerNext", "verifySent", "begun",
           "frames", "peerGone", "goneAfterEnd", "reported", "outcome", "result", "agreement"}

LEMMA NextRunTyped ==
    ASSUME NEW r \in SessionType, NextDigest(r.digest, r.pool) \in Digest
    PROVE  /\ NextRun(r) \in SessionType /\ Afresh(r, NextRun(r))
           /\ NextRun(r).digest = NextDigest(r.digest, r.pool)
  <1> DEFINE fresh == [state |-> "Ready", digest |-> NextDigest(r.digest, r.pool),
                       pool |-> r.pool, peerInfo |-> r.peerInfo, next |-> None,
                       peerNext |-> None, verifySent |-> TRUE, begun |-> FALSE, frames |-> 0,
                       peerGone |-> FALSE, goneAfterEnd |-> FALSE, reported |-> FALSE,
                       outcome |-> None, result |-> None, agreement |-> None]
  <1>1. DOMAIN r = Fields
    BY DEF SessionType, Fields
  <1>2. DOMAIN NewRun = {"verifySent", "begun", "frames", "peerGone", "goneAfterEnd",
                         "reported", "outcome", "result", "agreement"}
    BY DEF NewRun
  <1>0. PICK s : s = Renewed(r, "Ready")
    OBVIOUS
  <1>3. s = fresh
    BY <1>0, <1>1, <1>2 DEF Renewed, Fields, NewRun
  <1>4. fresh \in SessionType
    BY DEF SessionType
  <1>5. Afresh(r, fresh) /\ fresh.digest = NextDigest(r.digest, r.pool)
    BY DEF Afresh
  <1> QED
    BY <1>0, <1>3, <1>4, <1>5 DEF NextRun

\* The next game is begun only on the setup both have offered.
LEMMA AgreedNext ==
    ASSUME SeriesInv, NEW p \in Slot, session[p].next = "Agreed"
    PROVE  /\ Game(p) < LastGame /\ Game(Other(p)) \in {Game(p), Game(p) + 1}
           /\ Setup(p) = Setup(Other(p)) /\ session[p].pool = session[Other(p)].pool
           /\ Game(Other(p)) = Game(p) => session[Other(p)].outcome = "finished"
  <1> DEFINE q == Other(p)
             g == Game(p)
  <1>1. StatesOf(session[p]) /\ Between(session[p]) /\ Offered(q, g + 1, Line(p, g + 1))
    BY DEF SeriesInv, GameStates, SameSeries, Between
  <1>2. g < LastGame
    BY <1>1 DEF StatesOf, Game
  <1>3. g \in Nat \ {0} /\ Game(q) \in Nat \ {0}
    BY SlotFacts, GameFacts
  <1>4. g + 1 \in 2 .. Game(q) + 1 /\ Line(p, g + 1) = Line(q, g + 1)
        /\ (g + 1 = Game(q) + 1 => session[q].outcome = "finished")
    BY <1>1 DEF Offered
  <1>5. Game(q) > g => Game(q) = g + 1
    BY SlotFacts DEF SeriesInv, SameSeries
  <1>6. Setup(p) = Setup(q) /\ session[p].pool = session[q].pool
    <2>1. PICK n, a, b, c, d : /\ n = g + 1 /\ a = Setup(p) /\ b = session[p].pool
                               /\ c = Setup(q) /\ d = session[q].pool
      OBVIOUS
    <2>2. a \in Entry /\ b \in Entry /\ c \in Entry /\ d \in Entry
      BY <2>1, SlotFacts, GameFacts
    <2>3. n \in Nat \ {0} /\ n > 1
      BY <1>3, <2>1
    <2>4. SeriesLine(a, b, n) = SeriesLine(c, d, n)
      BY <1>4, <2>1 DEF Line
    <2>5. SeriesLine(a, b, n)[1] = a /\ SeriesLine(a, b, n)[2] = b
      BY <2>2, <2>3, LineFacts
    <2>6. SeriesLine(c, d, n)[1] = c /\ SeriesLine(c, d, n)[2] = d
      BY <2>2, <2>3, LineFacts
    <2> QED
      BY <2>1, <2>4, <2>5, <2>6
  <1> QED
    BY <1>2, <1>3, <1>4, <1>5, <1>6

LEMMA BeginNextStep == ASSUME SeriesInv, NEW p \in Slot, BeginNext(p) PROVE SeriesInv'
  <1> DEFINE r == session[p]
             q == Other(p)
             g == Game(p)
  <1>1. host[p] = "begin" /\ Goes(p, "menu") /\ UNCHANGED <<chan, up, committed, file>>
    BY DEF BeginNext
  <1>2. CASE UNCHANGED session
    BY <1>1, <1>2, GoStep DEF Place
  <1>3. CASE r.next = "Agreed" /\ session' = [session EXCEPT ![p] = NextRun(r)]
    <2>1. /\ g < LastGame /\ Game(q) \in {g, g + 1}
          /\ Setup(p) = Setup(q) /\ r.pool = session[q].pool
          /\ Game(q) = g => session[q].outcome = "finished"
      BY <1>3, AgreedNext
    <2>2. /\ g \in Nat \ {0} /\ LastGame \in Nat /\ r \in SessionType
          /\ Setup(p) \in Entry /\ r.pool \in Entry /\ r.digest = Line(p, g)
          /\ NextDigest(r.digest, r.pool) = Line(p, g + 1)
          /\ Game(q) \in Nat \ {0} /\ Game(q) \in Games
      BY GameFacts, SlotFacts
    <2>3. PICK a, b, line : /\ a = Setup(p) /\ b = r.pool
                            /\ line = SeriesLine(a, b, g + 1)
      OBVIOUS
    <2>4. /\ line \in Digest /\ Len(line) = g + 1 /\ line[1] = Setup(p)
          /\ line = NextDigest(r.digest, r.pool)
      <3>1. PICK n : n = g + 1
        OBVIOUS
      <3>2. n \in Nat \ {0}
        BY <2>2, <3>1
      <3>3. line = SeriesLine(a, b, n) /\ a \in Entry /\ b \in Entry
        BY <2>2, <2>3, <3>1
      <3>4. line \in Digest /\ Len(line) = n /\ line[1] = a
        BY <3>2, <3>3, LineFacts
      <3> QED
        BY <2>2, <2>3, <3>1, <3>4 DEF Line
    <2>5. PICK s : s = NextRun(r)
      OBVIOUS
    <2>6. s \in SessionType /\ Afresh(r, s) /\ s.digest = line
      BY <2>2, <2>4, <2>5, NextRunTyped
    <2>7. /\ session' \in [Slot -> SessionType]
          /\ session'[p] = s /\ session'[q] = session[q]
          /\ q \in Slot /\ Other(q) = p /\ q # p /\ \A x \in Slot : x = p \/ x = q
      BY <1>3, <2>5, <2>6, SlotFacts DEF SeriesInv, SeriesTypeOK
    <2>8. /\ Game(p)' = g + 1 /\ Game(q)' = Game(q)
          /\ Setup(p)' = Setup(p) /\ Setup(q)' = Setup(q)
          /\ session'[p].pool = r.pool /\ session'[q].pool = session[q].pool
      BY <2>4, <2>6, <2>7 DEF Game, Setup, Afresh
    <2>9. \A n : \A x \in Slot : Line(x, n)' = Line(x, n)
      BY <2>7, <2>8 DEF Line
    <2>10. ASSUME NEW x \in Slot, NEW n, NEW d, Offered(x, n, d)
           PROVE  Offered(x, n, d)'
      <3>1. d = Line(x, n)'
        BY <2>9, <2>10 DEF Offered
      <3>2. CASE x = p
        <4>1. n \in 2 .. g + 1
          BY <2>10, <3>2 DEF Offered
        <4>2. n \in 2 .. Game(p)' + 1 /\ n # Game(p)' + 1
          BY <2>2, <2>8, <4>1
        <4> QED
          BY <3>1, <3>2, <4>2 DEF Offered
      <3>3. CASE x = q
        BY <2>7, <2>8, <2>10, <3>1, <3>3 DEF Offered
      <3> QED
        BY <2>7, <3>2, <3>3
    <2>11. \A m : \A x \in Slot : Said(x, m) => Said(x, m)'
      BY <2>7, <2>8, <2>10 DEF Said
    <2>12. MessagesTrue'
      BY <1>1, <2>7, <2>11 DEF SeriesInv, MessagesTrue
    <2>13. host' \in [Slot -> Place] /\ \A x \in Slot : host'[x] = IF x = p THEN "menu" ELSE host[x]
      BY <1>1 DEF SeriesInv, SeriesTypeOK, Goes, Place
    <2>14. SeriesTypeOK'
      BY <1>1, <2>7, <2>13 DEF SeriesInv, SeriesTypeOK
    <2>15. OneLine'
      <3>1. Game(p)' \in Games /\ session'[p].digest = Line(p, Game(p))'
        BY <2>1, <2>2, <2>3, <2>6, <2>7, <2>8 DEF Games, Line
      <3>2. session'[p].state # "Verifying"
        BY <2>6, <2>7 DEF Afresh
      <3>3. /\ Game(q)' \in Games /\ session'[q].digest = Line(q, Game(q))'
            /\ session'[q].state = "Verifying" => Game(q)' = 1
        BY <2>7, <2>8, <2>9 DEF SeriesInv, OneLine
      <3> QED
        BY <2>7, <3>1, <3>2, <3>3 DEF OneLine
    <2>16. HeldTrue'
      BY <2>6, <2>7, <2>10 DEF SeriesInv, HeldTrue, Afresh
    <2>17. SameSeries'
      <3>1. session'[p].next # "Agreed"
        BY <2>6, <2>7, NoneAssumption DEF Afresh
      <3>2. Game(p)' > Game(q)' => Game(p)' = Game(q)' + 1 /\ session'[q].outcome = "finished"
        BY <2>1, <2>2, <2>7, <2>8
      <3>3. ~(Game(q)' > Game(p)')
        BY <2>1, <2>2, <2>8
      <3>4. session'[q].next = "Agreed" =>
              /\ session'[q].peerNext # None
              /\ session'[q].peerNext = <<Game(q)' + 1, Line(q, Game(q) + 1)'>>
              /\ Offered(p, Game(q) + 1, Line(q, Game(q) + 1))'
        <4>1. session[q].next = "Agreed" =>
                /\ session[q].peerNext # None
                /\ session[q].peerNext = <<Game(q) + 1, Line(q, Game(q) + 1)>>
                /\ Offered(p, Game(q) + 1, Line(q, Game(q) + 1))
          BY <2>7 DEF SeriesInv, SameSeries
        <4>2. PICK n, d : n = Game(q) + 1 /\ d = Line(q, Game(q) + 1)
          OBVIOUS
        <4>3. n = Game(q)' + 1 /\ d = Line(q, Game(q) + 1)'
          BY <2>7, <2>8, <2>9, <4>2 DEF Line
        <4>4. session[q].next = "Agreed" => Offered(p, n, d)'
          BY <2>10, <4>1, <4>2
        <4> QED
          BY <2>7, <4>1, <4>2, <4>3, <4>4 DEF Offered
      <3> QED
        BY <2>1, <2>7, <2>8, <3>1, <3>2, <3>3, <3>4 DEF SameSeries
    <2>18. GameStates'
      <3>1. StatesOf(s)
        BY <2>6, NoneAssumption DEF Afresh, StatesOf, Between
      <3> QED
        BY <2>7, <2>13, <3>1 DEF SeriesInv, GameStates
    <2>19. FilesTrue'
      <3>1. ASSUME NEW n \in Games, file[p][n] # None
            PROVE  n <= g /\ file[p][n].digest = Line(p, n)
        BY <3>1 DEF SeriesInv, FilesTrue
      <3>2. ASSUME NEW n \in 1 .. g
            PROVE  file[p][n] # None /\ file[p][n].outcome = "finished"
        <4>1. CASE n = g
          BY <1>1, <4>1 DEF SeriesInv, FilesTrue, GameStates
        <4>2. CASE n # g
          <5>1. n \in 1 .. g - 1
            BY <2>2, <3>2, <4>2
          <5> QED
            BY <5>1 DEF SeriesInv, FilesTrue
        <4> QED
          BY <4>1, <4>2
      <3>3. g + 1 \in Games /\ file[p][g + 1] = None
        <4>1. g + 1 \in Games
          BY <2>1, <2>2 DEF Games
        <4> QED
          BY <2>2, <3>1, <4>1
      <3>4. LET t == session'[p]
            IN  /\ \A n \in Games : file'[p][n] # None =>
                      /\ n <= Game(p)' /\ file'[p][n].digest = Line(p, n)'
                      /\ n = Game(p)' => t.begun
                /\ \A n \in 1 .. Game(p)' - 1 :
                      file'[p][n] # None /\ file'[p][n].outcome = "finished"
                /\ host'[p] # "begin" /\ file'[p][Game(p)'] = None
        <4>1. \A n \in Games : file[p][n] # None => n <= g + 1 /\ n # g + 1
          BY <2>2, <3>1 DEF Games
        <4> QED
          BY <1>1, <2>2, <2>8, <2>9, <2>13, <3>1, <3>2, <3>3, <4>1
      <3>5. LET t == session'[q]
            IN  /\ \A n \in Games : file'[q][n] # None =>
                      /\ n <= Game(q)' /\ file'[q][n].digest = Line(q, n)'
                      /\ n = Game(q)' => t.begun
                /\ \A n \in 1 .. Game(q)' - 1 :
                      file'[q][n] # None /\ file'[q][n].outcome = "finished"
                /\ host'[q] = "begin" =>
                      file'[q][Game(q)'] # None /\ file'[q][Game(q)'].outcome = t.outcome
                /\ file'[q][Game(q)'] # None /\ file'[q][Game(q)'].outcome = "finished" =>
                      /\ t.outcome = "finished"
                      /\ Lost(t) => file'[q][Game(q)'].disconnected
        BY <1>1, <2>7, <2>8, <2>9, <2>13 DEF SeriesInv, FilesTrue
      <3> QED
        BY <2>7, <3>4, <3>5 DEF FilesTrue
    <2> QED
      BY <2>12, <2>14, <2>15, <2>16, <2>17, <2>18, <2>19 DEF SeriesInv
  <1> QED
    BY <1>2, <1>3 DEF BeginNext

-----------------------------------------------------------------------------
(* The invariant *)

LEMMA InitSeries == Init => SeriesInv
  <1> SUFFICES ASSUME Init PROVE SeriesInv
    OBVIOUS
  <1>1. PICK setup \in [Slot -> Setups], pool \in [Slot -> Pools] :
          session = [p \in Slot |-> NewSession(setup[p], pool[p], p = 0)]
    BY DEF Init
  <1>2. /\ chan = [p \in Slot |-> IF p = 1 THEN <<Verify(session[0].digest)>> ELSE <<>>]
        /\ host = [p \in Slot |-> "menu"] /\ up = [p \in Slot |-> TRUE]
        /\ committed = [p \in Slot |-> [g \in 1 .. LastGame + 1 |-> 0]]
        /\ file = [p \in Slot |-> [g \in 1 .. LastGame + 1 |-> None]]
    BY DEF Init
  <1>3. LastGame \in Nat /\ 0 \in Slot /\ 1 \in Slot /\ Other(1) = 0
    BY DEF LastGame, Slot, Other
  <1>4. ASSUME NEW p \in Slot
        PROVE  LET r == session[p]
               IN  /\ r \in SessionType
                   /\ r.digest = <<setup[p]>> /\ r.pool = pool[p] /\ r.state = "Verifying"
                   /\ r.peerInfo = None /\ r.next = None /\ r.peerNext = None
                   /\ ~r.begun /\ r.outcome = None
    <2>1. PICK a, b, d : a = <<setup[p]>> /\ b = pool[p] /\ d = (p = 0)
      OBVIOUS
    <2>2. a \in Digest /\ b \in Pools /\ d \in BOOLEAN
      BY <2>1 DEF Digest, Entry
    <2>3. session[p] =
            [state |-> "Verifying", digest |-> a, pool |-> b,
             peerInfo |-> None, next |-> None, peerNext |-> None,
             verifySent |-> d, begun |-> FALSE, frames |-> 0, peerGone |-> FALSE,
             goneAfterEnd |-> FALSE, reported |-> FALSE, outcome |-> None,
             result |-> None, agreement |-> None]
      BY <1>1, <2>1 DEF NewSession
    <2> QED
      BY <2>1, <2>2, <2>3 DEF SessionType
  <1>5. \A p \in Slot : Game(p) = 1 /\ session[p].digest = <<Setup(p)>>
    <2>1. ASSUME NEW p \in Slot PROVE Game(p) = 1 /\ session[p].digest = <<Setup(p)>>
      <3>1. PICK a : a = setup[p]
        OBVIOUS
      <3>2. session[p].digest = <<a>>
        BY <1>4, <3>1
      <3>3. Len(<<a>>) = 1 /\ <<a>>[1] = a
        OBVIOUS
      <3> QED
        BY <3>2, <3>3 DEF Game, Setup
    <2> QED
      BY <2>1
  <1>6. SeriesTypeOK
    <2>1. session \in [Slot -> SessionType]
      <3>1. session = [p \in Slot |-> session[p]]
        BY <1>1
      <3> QED
        BY <1>4, <3>1
    <2>2. <<Verify(session[0].digest)>> \in Seq(Message)
      <3>1. Verify(session[0].digest) \in Message
        BY <1>3, <1>4 DEF Verify, Message, SessionType
      <3> QED
        BY <3>1
    <2>3. chan \in [Slot -> Seq(Message)]
      BY <1>2, <2>2
    <2>4. /\ host \in [Slot -> Place] /\ up \in [Slot -> BOOLEAN]
          /\ committed \in [Slot -> [Games -> 0 .. GameFrames]]
          /\ file \in [Slot -> [Games -> {None} \cup ResultFile]]
      BY <1>2 DEF Place, Games
    <2> QED
      BY <2>1, <2>3, <2>4 DEF SeriesTypeOK
  <1>7. OneLine
    <2>1. \A p \in Slot : Line(p, 1) = <<Setup(p)>>
      BY DEF Line, SeriesLine
    <2>2. 1 \in Games
      BY <1>3 DEF Games
    <2>3. ASSUME NEW p \in Slot
          PROVE  /\ Game(p) \in Games /\ session[p].digest = Line(p, Game(p))
                 /\ session[p].state = "Verifying" => Game(p) = 1
      <3>1. Game(p) = 1 /\ session[p].digest = <<Setup(p)>>
        BY <1>5
      <3>2. Line(p, Game(p)) = Line(p, 1)
        BY <3>1
      <3> QED
        BY <2>1, <2>2, <3>1, <3>2
    <2> QED
      BY <2>3 DEF OneLine
  <1>8. MessagesTrue
    <2>1. Said(0, Verify(session[0].digest))
      BY <1>3, <1>5 DEF Said, Verify
    <2>2. /\ chan[0] = <<>>
          /\ chan[1] = <<Verify(session[0].digest)>>
      BY <1>2, <1>3
    <2>3. \A i \in 1 .. Len(chan[1]) : chan[1][i] = Verify(session[0].digest)
      BY <2>2
    <2> QED
      BY <1>3, <2>1, <2>2, <2>3 DEF MessagesTrue, Slot
  <1>9. HeldTrue
    BY <1>4 DEF HeldTrue
  <1>10. SameSeries
    BY <1>3, <1>4, <1>5, SlotFacts, NoneAssumption DEF SameSeries, Playable
  <1>11. GameStates
    BY <1>2, <1>4, NoneAssumption DEF GameStates, StatesOf, Between
  <1>12. FilesTrue
    <2>1. \A p \in Slot, g \in Games : file[p][g] = None
      BY <1>2 DEF Games
    <2>2. \A p \in Slot : Game(p) = 1 /\ Game(p) \in Games /\ host[p] # "begin"
      BY <1>2, <1>5, <1>7 DEF OneLine
    <2>3. \A p \in Slot : file[p][Game(p)] = None /\ 1 .. Game(p) - 1 = {}
      BY <2>1, <2>2
    <2> QED
      BY <2>1, <2>2, <2>3 DEF FilesTrue
  <1> QED
    BY <1>6, <1>7, <1>8, <1>9, <1>10, <1>11, <1>12 DEF SeriesInv

LEMMA SeriesStep == SeriesInv /\ [Next]_vars => SeriesInv'
  <1> SUFFICES ASSUME SeriesInv, [Next]_vars PROVE SeriesInv'
    OBVIOUS
  <1>1. CASE UNCHANGED vars
    <2>1. UNCHANGED <<session, host, chan, up, committed, file>>
      BY <1>1 DEF vars
    <2>3. OneLine' /\ HeldTrue' /\ SameSeries' /\ Stays /\ \A x \in Slot : StatesOf(session'[x])
      BY <2>1, SessionsStand
    <2>4. MessagesTrue'
      BY <2>1, <2>3, MessagesStand
    <2>5. SeriesTypeOK'
      BY <2>1 DEF SeriesInv, SeriesTypeOK
    <2>6. GameStates' /\ FilesTrue'
      BY <2>1, <2>3 DEF SeriesInv, GameStates, FilesTrue, Stays
    <2> QED
      BY <2>3, <2>4, <2>5, <2>6 DEF SeriesInv
  <1>2. ASSUME NEW p \in Slot, HostStep(p) PROVE SeriesInv'
    BY <1>2, MatchStateStep, FileStep, BeginNextStep, InputsStep, GameEndStep, WalkOnStep,
       StopStep DEF HostStep
  <1>3. ASSUME NEW p \in Slot, Leave(p) \/ Disconnect(p) PROVE SeriesInv'
    BY <1>3, WalkOnStep, DisconnectStep
  <1>4. ASSUME NEW p \in Slot, NEW late \in BOOLEAN, Tick(p, late) PROVE SeriesInv'
    BY <1>4, TickStep
  <1> QED
    BY <1>1, <1>2, <1>3, <1>4 DEF Next

\* What the control channel and the host keep true of a series at every step: one
\* line of setups, and messages, held offers and files that tell it truly.
THEOREM SeriesInvariant == Spec => []SeriesInv
  <1> QED
    BY InitSeries, SeriesStep, PTL DEF Spec

-----------------------------------------------------------------------------
(* What the runs check *)

\* Each session, game thread and connection is in one of its states, the game it
\* is in is one the two may play, and a game is only played once begun.
THEOREM SeriesTypeCorrect == Spec => []TypeOK
  <1>1. SeriesInv => TypeOK
    <2> SUFFICES ASSUME SeriesInv PROVE TypeOK
      OBVIOUS
    <2>1. ASSUME NEW p \in Slot
          PROVE  LET r == session[p]
                 IN  /\ r.state \in {"Verifying", "Ready", "Playing", "Ended", "Failed", "Idle"}
                     /\ r.next \in {None, "Waiting", "Agreed", "Over"}
                     /\ Len(r.digest) \in 1 .. LastGame + 1
                     /\ r.frames \in 0 .. GameFrames
                     /\ r.agreement \in {None, "match", "mismatch"}
                     /\ r.state \in {"Playing", "Ended"} => r.begun
      <3>1. session[p] \in SessionType /\ Game(p) \in Games /\ StatesOf(session[p])
        BY GameFacts DEF SeriesInv, GameStates
      <3> QED
        BY <3>1 DEF SessionType, StatesOf, Game, Games
    <2> QED
      BY <2>1 DEF SeriesInv, SeriesTypeOK, TypeOK
  <1> QED
    BY <1>1, SeriesInvariant, PTL

\* Two peers that may both play a game hold the very same setup for it, however
\* many games they agree to play and whatever comes late (lines 431-452, 279-289).
THEOREM SetupsAgree == Spec => []SetupAgreed
  <1>1. SeriesInv => SetupAgreed
    <2> SUFFICES ASSUME SeriesInv, NEW p \in Slot, Playable(session[p]),
                        Len(session[p].digest) = Len(session[Other(p)].digest)
                 PROVE  session[p].digest = session[Other(p)].digest
      BY DEF SetupAgreed
    <2>1. /\ session[p].digest = Line(p, Game(p))
          /\ session[Other(p)].digest = Line(Other(p), Game(Other(p)))
          /\ Game(p) = Game(Other(p)) /\ Game(p) \in Nat \ {0}
      BY SlotFacts, GameFacts DEF Game
    <2>2. Setup(p) = Setup(Other(p))
      BY DEF SeriesInv, SameSeries
    <2>3. Game(p) > 1 => session[p].pool = session[Other(p)].pool
      BY DEF SeriesInv, SameSeries
    <2>4. CASE Game(p) > 1
      BY <2>1, <2>2, <2>3, <2>4 DEF Line
    <2>5. CASE Game(p) = 1
      <3>1. Line(p, 1) = <<Setup(p)>> /\ Line(Other(p), 1) = <<Setup(Other(p))>>
        BY DEF Line, SeriesLine
      <3> QED
        BY <2>1, <2>2, <2>5, <3>1
    <2> QED
      BY <2>1, <2>4, <2>5
  <1> QED
    BY <1>1, SeriesInvariant, PTL

\* A peer that is a game ahead plays what the other's finished game leads to, and
\* is never two ahead (offer_next, begin_next, lines 294-343).
THEOREM NextFollows == Spec => []NextFollowsFinished
  <1>1. SeriesInv => NextFollowsFinished
    <2> SUFFICES ASSUME SeriesInv, NEW p \in Slot, Playable(session[p]),
                        Len(session[p].digest) > Len(session[Other(p)].digest)
                 PROVE  /\ session[p].digest =
                              NextDigest(session[Other(p)].digest, session[Other(p)].pool)
                        /\ session[Other(p)].outcome = "finished"
      BY DEF NextFollowsFinished
    <2> DEFINE q == Other(p)
    <2>1. Game(p) > Game(q) /\ Game(p) \in Nat \ {0} /\ Game(q) \in Nat \ {0}
      BY SlotFacts, GameFacts DEF Game
    <2>2. /\ Game(p) = Game(q) + 1 /\ session[q].outcome = "finished"
          /\ Setup(p) = Setup(q) /\ session[p].pool = session[q].pool
      BY <2>1 DEF SeriesInv, SameSeries
    <2>3. /\ session[p].digest = Line(p, Game(p))
          /\ NextDigest(session[q].digest, session[q].pool) = Line(q, Game(q) + 1)
      BY SlotFacts, GameFacts
    <2> QED
      BY <2>2, <2>3 DEF Line
  <1> QED
    BY <1>1, SeriesInvariant, PTL

\* The files of the two hosts tell one series, and every game left for the next
\* has a file that says it was finished (source_p2p.cpp, lines 201-228).
THEOREM FilesOneSeries == Spec => []FilesTellOneSeries
  <1>1. SeriesInv => FilesTellOneSeries
    <2> SUFFICES ASSUME SeriesInv PROVE FilesTellOneSeries
      OBVIOUS
    <2>0. 0 \in Slot /\ 1 \in Slot /\ Other(0) = 1 /\ Other(1) = 0
      BY DEF Slot, Other
    <2>1. ASSUME NEW g \in 1 .. LastGame + 1, file[0][g] # None, file[1][g] # None
          PROVE  file[0][g].digest = file[1][g].digest
      <3>1. /\ g <= Game(0) /\ file[0][g].digest = Line(0, g)
            /\ g <= Game(1) /\ file[1][g].digest = Line(1, g)
            /\ g = Game(0) => session[0].begun
        BY <2>0, <2>1 DEF SeriesInv, FilesTrue, Games
      <3>2. Game(0) \in Nat \ {0} /\ Game(1) \in Nat \ {0} /\ g \in Nat \ {0}
        BY <2>0, GameFacts
      <3>3. session[0].begun \/ Game(0) > 1
        BY <3>1, <3>2
      <3>4. Setup(0) = Setup(1) /\ (Game(0) > 1 => session[0].pool = session[1].pool)
        BY <2>0, <3>3 DEF SeriesInv, SameSeries
      <3>5. CASE g = 1
        <4>1. Line(0, 1) = <<Setup(0)>> /\ Line(1, 1) = <<Setup(1)>>
          BY DEF Line, SeriesLine
        <4> QED
          BY <3>1, <3>4, <3>5, <4>1
      <3>6. CASE g > 1
        BY <3>1, <3>2, <3>4, <3>6 DEF Line
      <3> QED
        BY <3>2, <3>5, <3>6
    <2>2. ASSUME NEW p \in Slot, NEW g \in 1 .. Len(session[p].digest) - 1
          PROVE  file[p][g] # None /\ file[p][g].outcome = "finished"
      BY <2>2 DEF SeriesInv, FilesTrue, Game
    <2> QED
      BY <2>1, <2>2 DEF FilesTellOneSeries
  <1> QED
    BY <1>1, SeriesInvariant, PTL

\* A file that says its game was finished is never written again as one that was
\* cut short or left: what a peer does after the game is not held against it
\* (run.gone_after_end, lines 453-460).
THEOREM FinishedFilesStay == Spec => FinishedStays
  <1> DEFINE Stands(p, g) ==
               file[p][g] # None /\ file[p][g].outcome = "finished" =>
                   /\ file'[p][g].outcome = "finished"
                   /\ file'[p][g].disconnected => file[p][g].disconnected
  <1>1. ASSUME SeriesInv, NEW x \in Slot, WriteResult(x), NEW p \in Slot, NEW g \in 1 .. LastGame + 1
        PROVE  Stands(p, g)
    <2>1. CASE file'[p][g] = file[p][g]
      BY <2>1
    <2>2. CASE p = x /\ g = Game(x) /\ session[x].begun
      <3>1. /\ file'[x][Game(x)].outcome = session[x].outcome
            /\ Lost(session[x]) <=> file'[x][Game(x)].disconnected
        BY <1>1, <2>2, WroteFile
      <3>2. file[x][Game(x)] # None /\ file[x][Game(x)].outcome = "finished" =>
              /\ session[x].outcome = "finished"
              /\ Lost(session[x]) => file[x][Game(x)].disconnected
        BY <1>1 DEF SeriesInv, FilesTrue
      <3> QED
        BY <2>2, <3>1, <3>2
    <2>3. file'[p][g] = file[p][g] \/ (p = x /\ g = Game(x) /\ session[x].begun)
      BY <1>1, WroteFile DEF Games
    <2> QED
      BY <2>1, <2>2, <2>3
  <1>2. ASSUME SeriesInv, [Next]_vars, NEW p \in Slot, NEW g \in 1 .. LastGame + 1
        PROVE  Stands(p, g)
    <2>1. CASE UNCHANGED file
      BY <2>1
    <2>2. CASE \E x \in Slot : WriteResult(x)
      BY <1>1, <1>2, <2>2
    <2>3. UNCHANGED file \/ \E x \in Slot : WriteResult(x)
      BY <1>2 DEF Next, vars, HostStep, MatchState, AdvanceSeries, BeginNext, Inputs, GameEnd,
                  GameNeverBegan, ReportGame, SeriesState, CloseSession, Stop, Leave,
                  Disconnect, Tick
    <2> QED
      BY <2>1, <2>2, <2>3
  <1>3. SeriesInv /\ [Next]_vars =>
          [\A p \in Slot : \A g \in 1 .. LastGame + 1 :
              file[p][g] # None /\ file[p][g].outcome = "finished" =>
                  /\ file'[p][g].outcome = "finished"
                  /\ file'[p][g].disconnected => file[p][g].disconnected]_vars
    BY <1>2
  <1> QED
    BY <1>3, SeriesInvariant, PTL DEF Spec, FinishedStays

=============================================================================
