---------------------------- MODULE SessionSeries ----------------------------
(***************************************************************************)
(* The control channel of a session and the series of games played over    *)
(* it: VERIFY, INFO, RESULT, NEXT and BYE between two peers, the state     *)
(* machine of RollbackSession from the end of the handshake on, and the    *)
(* host thread that drives it (source_p2p.cpp).                            *)
(*                                                                         *)
(* Two threads touch each session under its mutex: the pump (Tick) and the *)
(* game thread (every other action).  The host takes the mutex once per    *)
(* call, so what it read may have changed by its next call.                *)
(*                                                                         *)
(* The control channel is reliable and ordered until the connection goes.  *)
(* Input messages are abstracted to how many frames each game has          *)
(* committed; RollbackGame has them in full.  Clocks are abstracted: a     *)
(* deadline may have passed at any tick.                                   *)
(*                                                                         *)
(* A definition marked "a mutant" is wrong on purpose: a slip the code     *)
(* could have, which one of the properties must catch.  No action uses it. *)
(***************************************************************************)
EXTENDS Integers, Sequences

CONSTANTS
    None,        \* no value yet
    MaxGames,    \* what each side's options allow; 0 is a revision 0 peer
    Setups,      \* match setups a side may have been given
    Pools,       \* stage pools, what the next setup is drawn from
    GameFrames,  \* bound: frames of one game
    Marks,       \* kTranscriptMarks, frames whose transcript digest is kept
    Ahead,       \* how many frames a game runs past the other before it is held
    Leavers,     \* the players who may close the game at any time
    MayDrop      \* the peers whose connection may be lost at any time

Slot     == 0 .. 1
Other(p) == 1 - p

ASSUME SeriesAssumption ==
    /\ MaxGames \in [Slot -> Nat]
    /\ GameFrames \in Nat /\ GameFrames > Ahead   \* no game ends before the other has begun it
    /\ Marks \in Nat \ {0} /\ Ahead \in Nat \ {0}
    /\ Leavers \subseteq Slot /\ MayDrop \subseteq Slot

LastGame == IF MaxGames[0] <= MaxGames[1] THEN MaxGames[0] ELSE MaxGames[1]

VARIABLES
    session,    \* RollbackSession of each peer
    host,       \* where the game thread of each peer is
    chan,       \* control messages on their way to each peer
    up,         \* whether each peer sees the connection as up
    committed,  \* frames each peer's game has committed, by game
    file        \* the result file of each peer's games

vars == <<session, host, chan, up, committed, file>>

\* A digest stands for all a descriptor holds: the first setup, and the pool each
\* further setup was drawn with.
NextDigest(digest, pool) == Append(digest, pool)

Verify(d)         == [type |-> "VERIFY", digest |-> d]
Info(n)           == [type |-> "INFO", games |-> n]
Bye(why)          == [type |-> "BYE", reason |-> why]
Result(n, d)      == [type |-> "RESULT", frames |-> n, digest |-> d]
NextMsg(g, d)     == [type |-> "NEXT", game |-> g, digest |-> d]

Smaller(a, b) == IF a <= b THEN a ELSE b

Playable(r) == r.state \in {"Ready", "Playing", "Ended"}
Between(r)  == r.next \in {"Waiting", "Agreed"}
Fail(r)     == [r EXCEPT !.state = "Failed"]
Over(r)     == IF r.next = "Over" THEN r ELSE [r EXCEPT !.next = "Over"]

\* transcript_at(): the digest of n frames of the game the session is in now,
\* kept for the frames it has reached.
KnowsAt(r, n)      == n = 0 \/ (n <= r.frames /\ n > r.frames - Marks)
TranscriptAt(r, n) == <<r.digest, n>>

\* judge_agreement()
JudgeAgreement(r) ==
    IF r.result # None /\ KnowsAt(r, r.result.frames)
    THEN [r EXCEPT !.agreement =
              IF r.result.digest = TranscriptAt(r, r.result.frames) THEN "match" ELSE "mismatch"]
    ELSE r

\* game_limit()
GameLimit(p, r) ==
    IF MaxGames[p] = 0 \/ r.peerInfo \in {None, 0} THEN 1
    ELSE Smaller(MaxGames[p], r.peerInfo)

\* judge_next()
CanJudge(r)  == r.next = "Waiting" /\ r.peerNext # None
SameNumber(r) == r.peerNext[1] = Len(r.digest) + 1             \* a mutant
SameNext(r)  == r.peerNext = <<Len(r.digest) + 1, NextDigest(r.digest, r.pool)>>
JudgeNext(r) == IF ~CanJudge(r) THEN r
                ELSE IF SameNext(r) THEN [r EXCEPT !.next = "Agreed"] ELSE Over(r)
JudgeSays(r) == IF CanJudge(r) /\ ~SameNext(r) THEN <<Bye("mismatch")>> ELSE <<>>

-----------------------------------------------------------------------------
(* on_control(): the session after message m, and what it sends back *)

OnVerify(r, m) ==
    IF r.state # "Verifying" THEN r
    ELSE IF m.digest # r.digest THEN [Fail(r) EXCEPT !.verifySent = TRUE]
    ELSE [r EXCEPT !.state = "Ready", !.verifySent = TRUE]

VerifySays(p, r, m) ==
    IF r.state # "Verifying" THEN <<>>
    ELSE (IF r.verifySent THEN <<>> ELSE <<Verify(r.digest)>>)
         \o (IF m.digest # r.digest THEN <<Bye("mismatch")>>
             ELSE IF MaxGames[p] = 0 THEN <<>> ELSE <<Info(MaxGames[p])>>)

ByeForgetsWhen(r) ==                                           \* a mutant
    CASE r.state \in {"Playing", "Ended"} ->
            IF Between(r) THEN Over([r EXCEPT !.peerGone = TRUE])
            ELSE [r EXCEPT !.peerGone = TRUE]
      [] r.state \in {"Verifying", "Ready"} -> Fail(r)
      [] OTHER -> r
OnBye(r) ==
    CASE r.state \in {"Playing", "Ended"} ->
            LET gone == [r EXCEPT !.peerGone = TRUE,
                                  !.goneAfterEnd = IF r.peerGone THEN @ ELSE r.reported]
            IN  IF Between(r) THEN Over(gone) ELSE gone
      [] r.state \in {"Verifying", "Ready"} -> Fail(r)
      [] OTHER -> r

OnResult(r, m) == JudgeAgreement([r EXCEPT !.result = [frames |-> m.frames, digest |-> m.digest]])

OnInfo(p, r, m) == IF MaxGames[p] = 0 \/ r.peerInfo # None THEN r
                   ELSE [r EXCEPT !.peerInfo = m.games]

TakesNext(p, r) == MaxGames[p] # 0 /\ r.peerNext = None /\ r.next # "Over"
WithNext(r, m)  == [r EXCEPT !.peerNext = <<m.game, m.digest>>]

OnControl(p, r, m) ==
    CASE m.type = "VERIFY" -> OnVerify(r, m)
      [] m.type = "BYE"    -> OnBye(r)
      [] m.type = "RESULT" -> OnResult(r, m)
      [] m.type = "INFO"   -> OnInfo(p, r, m)
      [] m.type = "NEXT"   -> IF TakesNext(p, r) THEN JudgeNext(WithNext(r, m)) ELSE r

ControlSays(p, r, m) ==
    CASE m.type = "VERIFY" -> VerifySays(p, r, m)
      [] m.type = "NEXT" /\ TakesNext(p, r) -> JudgeSays(WithNext(r, m))
      [] OTHER -> <<>>

-----------------------------------------------------------------------------
(* tick() *)

\* What follows the poll: n frames are now in the transcript, and the deadline of
\* the state has passed or not.
AfterPoll(r, connected, n, late) ==
    CASE r.state = "Verifying" -> IF late \/ ~connected THEN Fail(r) ELSE r
      [] r.state = "Ready"     -> IF ~connected THEN Fail(r) ELSE r
      [] r.state \in {"Playing", "Ended"} ->
            LET lost  == ~connected /\ ~r.peerGone
                seen  == [r EXCEPT !.peerGone = @ \/ lost,
                                   !.goneAfterEnd = IF lost THEN r.reported ELSE @,
                                   !.frames = n]
                known == IF seen.agreement = None THEN JudgeAgreement(seen) ELSE seen
            IN  IF Between(r) /\ (seen.peerGone \/ (r.next = "Waiting" /\ late))
                THEN Over(known) ELSE known
      [] OTHER -> r

\* How far p's transcript may have come: both pads of a frame are there.
Reachable(p) ==
    LET r == session[p]
        g == Len(r.digest)
    IN  IF r.begun
        THEN r.frames .. Smaller(committed[p][g], committed[Other(p)][g])
        ELSE {r.frames}

Polls(p) == session[p].state \notin {"Idle", "Failed"}

\* Sent to the other side, if both still see the connection.
Post(p, rest, said) ==
    chan' = [chan EXCEPT ![p] = rest,
                         ![Other(p)] = IF up[p] /\ up[Other(p)] THEN @ \o said ELSE @]

\* A tick that takes in no control message, or one.
Tick(p, late) ==
    /\ Polls(p)
    /\ \E n \in Reachable(p) :
          \/ /\ session' = [session EXCEPT ![p] = AfterPoll(@, up[p], n, late)]
             /\ UNCHANGED chan
          \/ /\ chan[p] # <<>>
             /\ session' = [session EXCEPT ![p] =
                    AfterPoll(OnControl(p, @, Head(chan[p])), up[p], n, late)]
             /\ Post(p, Tail(chan[p]), ControlSays(p, session[p], Head(chan[p])))
    /\ UNCHANGED <<host, up, committed, file>>

\* The connection goes: the other side closed it, or the network failed.  What was
\* on its way here is lost.
Disconnect(p) ==
    /\ up[p]
    /\ p \in MayDrop \/ (host[Other(p)] = "closed" /\ chan[p] = <<>>)
    /\ up' = [up EXCEPT ![p] = FALSE]
    /\ chan' = [chan EXCEPT ![p] = <<>>]
    /\ UNCHANGED <<session, host, committed, file>>

-----------------------------------------------------------------------------
(* The game thread *)

Goes(p, place) == host' = [host EXCEPT ![p] = place]

\* The match state command, first half: next_game() is read.
MatchStateWaits(p) ==                                          \* a mutant
    /\ host[p] = "menu"
    /\ \/ session[p].next = "Agreed" /\ Goes(p, "advance")
       \/ session[p].state = "Ready" /\ Goes(p, "game")
       \/ session[p].state = "Failed" /\ Goes(p, "closing")
    /\ UNCHANGED <<session, chan, up, committed, file>>
MatchState(p) ==
    /\ host[p] = "menu"
    /\ \/ session[p].next = "Agreed" /\ Goes(p, "advance")
       \/ session[p].next = "Over" /\ session[p].state = "Ended" /\ Goes(p, "closing")
       \/ session[p].state = "Ready" /\ Goes(p, "game")
       \/ session[p].state = "Failed" /\ Goes(p, "closing")
    /\ UNCHANGED <<session, chan, up, committed, file>>

Record(r) == [game         |-> Len(r.digest),
              digest       |-> r.digest,
              frames       |-> r.frames,
              transcript   |-> TranscriptAt(r, r.frames),
              outcome      |-> r.outcome,
              agreement    |-> r.agreement,
              disconnected |-> r.peerGone /\ ~r.goneAfterEnd]

ResultFile ==
    [game : Nat, digest : Seq(Setups \cup Pools), frames : Nat,
     transcript : Seq(Setups \cup Pools) \X Nat,
     outcome : {None, "finished", "quit", "desync", "unfinished"},
     agreement : {None, "match", "mismatch"}, disconnected : BOOLEAN]

\* No value yet is none of the values.
ASSUME NoneAssumption ==
    /\ None \notin {"Waiting", "Agreed", "Over", "finished", "quit", "desync", "unfinished"}
    /\ None \notin ResultFile

\* write_result(): the file of the game the session is in, if one was begun.
WriteResult(p) ==
    file' = IF session[p].begun
            THEN [file EXCEPT ![p][Len(session[p].digest)] = Record(session[p])]
            ELSE file

\* ... where the file is written once more before the game is forgotten ...
AdvanceSeries(p) ==
    /\ host[p] = "advance"
    /\ WriteResult(p)
    /\ Goes(p, "begin")
    /\ UNCHANGED <<session, chan, up, committed>>

NewRun == [verifySent |-> TRUE, begun |-> FALSE, frames |-> 0, peerGone |-> FALSE,
           goneAfterEnd |-> FALSE, reported |-> FALSE, outcome |-> None,
           result |-> None, agreement |-> None]

\* begin_next(): the setup agreed on, and everything counted per game afresh.
Renewed(r, state) ==
    [f \in DOMAIN r |->
        CASE f = "digest"   -> NextDigest(r.digest, r.pool)
          [] f = "state"    -> state
          [] f \in {"next", "peerNext"} -> None
          [] f \in DOMAIN NewRun -> NewRun[f]
          [] OTHER -> r[f]]
StillEnded(r) == Renewed(r, "Ended")                           \* a mutant
NextRun(r)    == Renewed(r, "Ready")

\* ... and begin_next_game(), which asks again whether the next game is agreed.
BeginNext(p) ==
    /\ host[p] = "begin"
    /\ LET r == session[p] IN
          IF r.next = "Agreed" /\ r.state = "Ended"
          THEN session' = [session EXCEPT ![p] = NextRun(r)]
          ELSE UNCHANGED session
    /\ Goes(p, "menu")
    /\ UNCHANGED <<chan, up, committed, file>>

\* inputs(): the game asks for a frame and commits its pad, or is held, and a hold
\* may have run out.
Inputs(p) ==
    LET r == session[p]
        g == Len(r.digest)
        begun == [r EXCEPT !.state = IF r.begun THEN @ ELSE "Playing", !.begun = TRUE]
    IN  /\ host[p] = "game"
        /\ Playable(r) /\ ~r.peerGone /\ committed[p][g] < GameFrames
        /\ IF committed[p][g] - r.frames < Ahead
           THEN /\ committed' = [committed EXCEPT ![p][g] = @ + 1]
                /\ session' = [session EXCEPT ![p] = begun]
           ELSE /\ session' = [session EXCEPT ![p].peerGone = TRUE]
                /\ UNCHANGED committed
        /\ UNCHANGED <<host, chan, up, file>>

\* offer_next(), once the game has reported the outcome.
GoesOnAnyway(p, r) == Len(r.digest) < GameLimit(p, r) /\ ~r.peerGone   \* a mutant
GoesOn(p, r) == /\ Len(r.digest) < GameLimit(p, r)
                /\ ~r.peerGone
                /\ r.outcome = "finished"

OfferNext(p, r) == IF r.next # None THEN r
                   ELSE IF GoesOn(p, r) THEN JudgeNext([r EXCEPT !.next = "Waiting"])
                   ELSE Over(r)

OfferSays(p, r) ==
    IF r.next = None /\ GoesOn(p, r)
    THEN <<NextMsg(Len(r.digest) + 1, NextDigest(r.digest, r.pool))>>
         \o JudgeSays([r EXCEPT !.next = "Waiting"])
    ELSE <<>>

\* The outcomes the game can report: it was played to its end, and then a player
\* had won it, or quit, or the checksums had shown the two games apart; or it was
\* told that the other player is gone.
Outcomes(p) ==
    LET r == session[p] IN
    (IF committed[p][Len(r.digest)] = GameFrames THEN {"finished", "quit", "desync"} ELSE {})
    \cup (IF r.peerGone \/ ~Playable(r) THEN {"unfinished"} ELSE {})

\* on_game_end(): RESULT, and NEXT or the end of the series.
GameEnd(p) ==
    /\ host[p] = "game" /\ session[p].begun
    /\ \E outcome \in Outcomes(p), n \in Reachable(p) :
          LET r == [session[p] EXCEPT !.outcome = outcome, !.reported = TRUE, !.frames = n,
                                      !.state = IF @ = "Playing" THEN "Ended" ELSE @]
              judged == IF r.agreement = None THEN JudgeAgreement(r) ELSE r
          IN  /\ session' = [session EXCEPT ![p] = OfferNext(p, judged)]
              /\ Post(p, chan[p], <<Result(n, TranscriptAt(r, n))>> \o OfferSays(p, judged))
    /\ Goes(p, "ended")
    /\ UNCHANGED <<up, committed, file>>

\* A game that never got an input ends without a report.
GameNeverBegan(p) ==
    /\ host[p] = "game" /\ ~session[p].begun /\ ~Playable(session[p])
    /\ Goes(p, "closing")
    /\ UNCHANGED <<session, chan, up, committed, file>>

ReportGame(p) ==
    /\ host[p] = "ended"
    /\ WriteResult(p)
    /\ Goes(p, "asking")
    /\ UNCHANGED <<session, chan, up, committed>>

\* The series command: back to the waiting scene, or out.
SeriesState(p) ==
    /\ host[p] = "asking"
    /\ Goes(p, IF Between(session[p]) THEN "menu" ELSE "closing")
    /\ UNCHANGED <<session, chan, up, committed, file>>

\* close_session(): the file once more, then stop(), which says BYE.
CloseSession(p) ==
    /\ host[p] = "closing"
    /\ WriteResult(p)
    /\ Goes(p, "stopping")
    /\ UNCHANGED <<session, chan, up, committed>>

Stop(p) ==
    /\ host[p] = "stopping"
    /\ session' = [session EXCEPT ![p].state = "Idle"]
    /\ Post(p, <<>>, <<Bye("left")>>)
    /\ up' = [up EXCEPT ![p] = FALSE]
    /\ Goes(p, "closed")
    /\ UNCHANGED <<committed, file>>

\* The player closes the window.
Leave(p) ==
    /\ p \in Leavers /\ host[p] \in {"menu", "game"}
    /\ Goes(p, "closing")
    /\ UNCHANGED <<session, chan, up, committed, file>>

-----------------------------------------------------------------------------
(* The handshake is done: both hold the keys, and the decider (slot 0 here)  *)
(* has sent its VERIFY.                                                      *)

NewSession(setup, pool, decider) ==
    [state |-> "Verifying", digest |-> <<setup>>, pool |-> pool,
     peerInfo |-> None, next |-> None, peerNext |-> None,
     verifySent |-> decider, begun |-> FALSE, frames |-> 0, peerGone |-> FALSE,
     goneAfterEnd |-> FALSE, reported |-> FALSE, outcome |-> None,
     result |-> None, agreement |-> None]

Init ==
    /\ \E setup \in [Slot -> Setups], pool \in [Slot -> Pools] :
          session = [p \in Slot |-> NewSession(setup[p], pool[p], p = 0)]
    /\ chan = [p \in Slot |-> IF p = 1 THEN <<Verify(session[0].digest)>> ELSE <<>>]
    /\ host = [p \in Slot |-> "menu"]
    /\ up = [p \in Slot |-> TRUE]
    /\ committed = [p \in Slot |-> [g \in 1 .. LastGame + 1 |-> 0]]
    /\ file = [p \in Slot |-> [g \in 1 .. LastGame + 1 |-> None]]

HostStep(p) == \/ MatchState(p) \/ AdvanceSeries(p) \/ BeginNext(p) \/ Inputs(p)
               \/ GameEnd(p) \/ GameNeverBegan(p) \/ ReportGame(p) \/ SeriesState(p)
               \/ CloseSession(p) \/ Stop(p)

Next == \E p \in Slot : \/ HostStep(p) \/ Leave(p) \/ Disconnect(p)
                        \/ \E late \in BOOLEAN : Tick(p, late)

Spec == Init /\ [][Next]_vars

\* The game thread keeps going; the pump ticks every millisecond, so that some tick
\* comes after any deadline; and a connection the other side closed is seen to be
\* gone.  Nothing is assumed about a connection that is lost.
Fairness == \A p \in Slot :
    /\ WF_vars(HostStep(p))
    /\ WF_vars(Tick(p, TRUE))
    /\ WF_vars(host[Other(p)] = "closed" /\ Disconnect(p))

FairSpec == Spec /\ Fairness

-----------------------------------------------------------------------------
(* Properties *)

Place == {"menu", "advance", "begin", "game", "ended", "asking", "closing", "stopping", "closed"}

\* The only property that is about types.
TypeOK ==
    /\ \A p \in Slot :
          LET r == session[p] IN
          /\ r.state \in {"Verifying", "Ready", "Playing", "Ended", "Failed", "Idle"}
          /\ r.next \in {None, "Waiting", "Agreed", "Over"}
          /\ Len(r.digest) \in 1 .. LastGame + 1
          /\ r.frames \in 0 .. GameFrames
          /\ r.agreement \in {None, "match", "mismatch"}
          /\ r.state \in {"Playing", "Ended"} => r.begun
    /\ host \in [Slot -> Place]
    /\ up \in [Slot -> BOOLEAN]

\* A game is only ever set up on one peer when the other holds the very same
\* setup for it, from the first VERIFY to the last NEXT (lines 431-452, 279-289).
SetupAgreed ==
    \A p \in Slot :
        LET mine   == session[p].digest
            theirs == session[Other(p)].digest
        IN  Playable(session[p]) /\ Len(mine) = Len(theirs) => mine = theirs

\* A peer that is a game ahead plays what the other's finished game leads to,
\* and is never two ahead (offer_next, begin_next, lines 294-343).
NextFollowsFinished ==
    \A p \in Slot :
        LET mine  == session[p].digest
            other == session[Other(p)]
        IN  Playable(session[p]) /\ Len(mine) > Len(other.digest) =>
                /\ mine = NextDigest(other.digest, other.pool)
                /\ other.outcome = "finished"

\* The files tell one series: two files of one game name the same setup, and a
\* game that was left for the next one has a file that says it was finished
\* (source_p2p.cpp, lines 201-228).
FilesTellOneSeries ==
    /\ \A g \in 1 .. LastGame + 1 : file[0][g] # None /\ file[1][g] # None =>
          file[0][g].digest = file[1][g].digest
    /\ \A p \in Slot : \A g \in 1 .. Len(session[p].digest) - 1 :
          file[p][g] # None /\ file[p][g].outcome = "finished"

\* A file that says its game was played to its end is never written again as one
\* that was cut short: what a peer does after that game is not held against it
\* (run.gone_after_end, lines 453-460).
FinishedStays ==
    [][\A p \in Slot : \A g \in 1 .. LastGame + 1 :
          file[p][g] # None /\ file[p][g].outcome = "finished" =>
              /\ file'[p][g].outcome = "finished"
              /\ file'[p][g].disconnected => file[p][g].disconnected]_vars

\* A file that says the two games agree on the inputs is never written again as
\* one that says they do not: every game has a transcript of its own, and the
\* finished game's result stands (docs/mu-net-protocol.md:230, 325).
AgreementStands ==
    [][\A p \in Slot : \A g \in 1 .. LastGame + 1 :
          file[p][g] # None /\ file[p][g].agreement = "match" =>
              file'[p][g].agreement # "mismatch"]_vars

\* Nobody is left behind, in a game, between two games or before the first: a
\* series ends for both sides, whoever leaves, waits in vain or runs out of games.
SeriesEnds == <>(\A p \in Slot : host[p] = "closed")

=============================================================================
