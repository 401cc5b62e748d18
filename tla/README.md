# Formal models of the melee-unlocked peer-to-peer session

melee-unlocked is a native port of Super Smash Bros. Melee. The part of it that is a
program of its own, and not a renderer, a recompiled game or a client of somebody else's
service, is `src/port/runtime/mu_net`: two copies of the game connect to each other over
UDP, agree on a match setup, exchange one pad per frame with rollback, compare what they
played and sign it. `src/docs/mu-net-protocol.md` describes it; the models here are taken
from the code.

## 1. Inventory

| Part | Source | State it keeps | Operations | Talks to |
| --- | --- | --- | --- | --- |
| Input transport | `mu_net/input_transport.cpp` | committed and received pads (rings of 256), acknowledged frame, finalized frame, checksum pair, counters | `commit`, `build_commit`, `on_message` (COMMIT, ACK, PING, PONG, SAMPLE), `set_floor`, `set_checksum`, `reset` | the session that owns it; the peer by messages |
| Session, one game | `mu_net/rollback_session.cpp` | per-game `Run`: window, wait, time sync, transcript, checksums | `inputs` (game thread), `tick` (pump thread), `on_game_end`, `begin_next` | transport, security, link; the game by its reply |
| Session, control and series | same file, `session_types.cpp` | state machine, descriptor and digest, `Series` (INFO, NEXT), agreement, outcome | `on_control`, `offer_next`, `judge_next`, `begin_next`, `stop` | the peer by VERIFY, INFO, RESULT, NEXT, BYE |
| Host thread | `port/app/source_p2p.cpp` | which session, whether it is closed, result files | the commands the game sends: match state, inputs, report, series, clean-up | session, one lock per call |
| Session security | `mu_net/session_security.cpp`, `peer_identity.cpp` | keys, the peer's hello, two replay windows | `begin`, `accept_hello`, `seal`, `open` | session |
| Peer connector | `mu_net/peer_connector.cpp` | up to eight paths, the pinned one, inbox, deadline | `connect`, `poll`, `pin_path`, `send`, `close` | ENet; session by callback |
| LAN beacon | `mu_net/peer_connector.cpp` | peers heard, with expiry | `announce`, `poll` | UDP broadcast |
| NAT discovery | `mu_net/nat_discovery.cpp` | queries under way | STUN and UPnP | outside servers |
| Result outbox | `mu_net/result_outbox.cpp` | none | write and verify a signed file | file system |
| Early inputs | `runtime/host/early_input*.h/.cpp` | last pad sent, sampler thread, buffer of 32 samples | `emit`, `note_sent_pad`, buffer `add`, `best` | controllers; session by `send_early_pad` |
| Slippi netplay | `runtime/hle/slippi_net.cpp`, `slippi_online.cpp`, `slippi_netplay_receive.h` | selections, own pads kept, other players' pads, acknowledgments, per game | `handle_online_inputs`, `OnData`, `StartSlippiGame`, `SendSlippiPad`, `set_match_selections` | Slippi's servers and peers |
| Rollback engine | `sourceport/game/shim/mu_online.c`, hooks in `patches/melee-native.patch` | frame asked for, guesses, frame to go back to, checksum ring, own pads, pad queue | pad alarm, pad renewal, loop gate, frame begin, frame end | session by one command per frame; savestates by command |
| Savestates | `runtime/hle/native_savestate.cpp` | seven states of the game's memory: a shadow, undo lists, a pool of pages, worker threads | `begin`, `end`, `capture`, `load`, `load_keep` | game memory |
| Rooms service | `runtime/hle/yougame_*` | client state | requests and relay | an outside service |
| Launcher lobby | `port/app/launcher_lobby*.cpp`, `src/lobby/server.py` | entries with expiry, challenges | post, list, challenge | DHT, server |
| Everything else | host, renderer, audio, controllers, recompiler, mods, updater, tools | | | |

What is hard here, and so what the properties are about:

- Input messages are unreliable and unordered; each repeats everything unacknowledged. Loss,
  repetition and reordering must never change a pad, and never stall both games for good.
- Two threads (the game's and the pump's) act on one session under one mutex; the host takes
  the mutex once per call, so it acts on answers that may be stale.
- The two games run at different paces: one may be frames, or a whole game, ahead.
- Reliable control messages and unreliable input messages travel on different channels and
  overtake each other.
- The game runs ahead of the pads it has; the pad alarm fires in between its bodies, and each
  body may go back in time. What a savestate holds and what it does not must fit together.
- Either player may leave, and the connection may be lost, between any two steps.
- Slippi's messages do not name the game they are of. Selections are reliable, pads are not, and
  the pads of a game may overtake the selection that announces it.
- Savestates are stored as differences from one another, and any of them may be dropped.
- Limits (history 128, lead 200, ring 256, window 7, delay 15, horizon 7) have to fit.


What makes each part correct:

- Transport: what a peer holds of the other's pads is what the other committed, in the game it
  committed it in; what it acknowledges it holds.
- Session, one game: a game never runs past what it can take back, is always shown the pad it
  needs next, and is never held for good; both sides write the same transcript.
- Control and series: both sides play the same games on the same setups, leave every wait, and
  their files do not contradict each other.
- Security: each packet is taken once, and none is refused that was only late.
- Connector: both sides end on one path, ready on one setup, or neither does.
- Rollback engine: every body takes the pads of its own frame; what is told of a finalized frame
  has no guess in it; a rollback finds its state and ends.
- Savestates: a load brings back all of the memory of its capture, as a full copy would; the
  threads that copy it are done when the call returns.
- Slippi netplay: a game plays its own pads only, nothing acknowledged is lost, and two games
  that wait for each other come free.

## 2. Modules

```
 RollbackEngine          SessionSeries            PeerPaths
 (game: alarm, loop,     (VERIFY .. BYE, host     (dialing, HELLO, VERIFY,
  rollback, savestates)   thread, result files)    one path out of many)
        :  asks               :  has the inputs        :  seals and opens
        v                     v  of                    v
 RollbackGame  ------------------------------>     SessionSecurity
   EXTENDS InputTransport    implements InputLog   (replay windows)

 RollbackEngine . . . > Savestates ----------> SlotPool       WorkerPool
   (uses full copies)   (differences)  implements (full copies)  (the copying threads,
                                                                  under Savestates)

 SlippiNetplay
 (the other protocol: selections, pads, acknowledgments, games in a row)
```

A solid line is an EXTENDS or INSTANCE; a dotted one says that what one module leaves to its
environment is what the other models.

| Module | Models | State and code | Actions and code |
| --- | --- | --- | --- |
| `InputTransport` | one `InputTransport` per peer, the network between them | `localPad`, `localLatest`, `remotePad`, `remoteLatest`, `peerAck`, `floor`, checksum fields: the members of that name; `game`: the frame base | `Commit`, `Send` (`build_commit`), `OnCommit`, `OnAck`, `SetFloor`, `SetChecksum`, `Reset`; `Lose` |
| `RollbackGame` | `RollbackSession` while games are played | `waiting`, `shedding`, `toShed`, `transcript*`: members of `Run` | `Inputs` is `inputs()` with its commit, window, skip decision and reply; `Packet` one `tick()` with a packet; `GameEnd`, `BeginNext`, `PeerLeaves` |
| `InputLog` | what a session promises about inputs | lists of pads and of pairs | `Step` |
| `SessionSeries` | the control channel, the state machine from Verifying on, the host thread | `session[p]` is `RollbackSession`, `host[p]` where the game's thread is, `file` the result files | `Tick` (the pump, with `on_control` and the deadlines), one action per command of `source_p2p.cpp`, each one lock of the mutex; `Leave`, `Disconnect` |
| `PeerPaths` | `PeerConnector` and the session's handshake | `peer[p]`, and `end[p][x]` for a slot of a path | `PathUp`, `PathDown`, `Quiet` are the polls that find a CONNECT, a DISCONNECT or none of these, with all `tick()` does after them; `Stop` |
| `SessionSecurity` | `seal()` and `open()` | `next`, `recv`: the members | `Seal`, `Take`, `Refuse`, `OpenDamaged` |
| `RollbackEngine` | `mu_online.c`, the engine loop, the host's savestate slots | `mu`: the members of `mu_online`; `past`: the game, as the samples its bodies took; `cut`: a match result that a disconnection wrote into it; `queue`: the raw pad queue; `saves`: the slots | `Alarm`, `AskLate`, `RunEngine` (`mu_online_engine_gate`), `FrameBegin`, `FrameEnd` |
| `SlotPool` | what the savestates promise | full copies by frame, and which was captured before which | `Capture`, `Load` |
| `Savestates` | class `Engine` of `native_savestate.cpp` | `shadow`, `timeline`: the members; `written`: the system's write watches; `pages`, `spare`: the pool | `Begin`, `End`, `Capture`; `Drop` and `Stay`, one checkpoint of `drop_dead()`; `Load`, `Walk`, `Restore`; `Write` by the game |
| `WorkerPool` | its threads | `gen`, `job`, `left`, `quit`: `job_gen_`, `job_`, `job_left_`, `quit_` | `run()`, `start_workers()`, `stop_workers()` and the workers' loop, split where the mutex is released |
| `SlippiNetplay` | `NetplayClient` in a match and the online frame | `mine`, `theirs`, `acked`, `started`: the queues, acknowledgments and `remote_game_started_`; `pads`, `acks`, `picks`: the network | `LockIn`, `OnSelections`, `Begin`, `Inputs` (`handle_online_inputs()`, which holds, sheds or runs), `OnPad`, `OnAck`, `Disconnected`, `GameEnd`, `Lose` |
| `MC*` | the values of constants and the constraints of the runs | | |
| `*Proofs` | the inductive invariants and theorems of the module of that name, section 6 (`RollbackGameProofs` has those of `InputTransport` too) | | |

Where the code and the models differ on purpose:

- A pad is a value without structure, a digest is what was digested, a key is a place in an
  order. Where the code packs (game, frame) into one number (`frame_base`), so does
  `InputTransport`, with `Span` for 2^24.
- Networks: COMMITs and ACKs are sets, so that each is delivered any number of times in any
  order, and lost where a run says so. Control messages are sequences, lost only with the
  connection, which is what ENet gives.
- Clocks: a deadline may have passed at any tick. Time sync is reduced to its result, a number
  of frames to shed.
- Each action is what one holder of the session's mutex does. The host thread's several calls
  are several actions.
- `SlippiNetplay` assumes of its players what the code cannot say: that they lock in when the
  others have finished the game before, which takes seconds, so that no packet of that game is
  under way any more; and that a game lasts longer than the frames that can be sent before the
  other side has begun it. A pad carries its game for the properties only. Of the
  acknowledgments of one direction the newest is kept, since the receiver takes the maximum, and
  of packets the newest, since each repeats what is not acknowledged. The network thread's
  locks are taken several times within one call of the game's thread, which is one action here:
  in between, pads can only be added, and no selection arrives, since a game begins when all have.
- `RollbackEngine` takes the host's answer "disconnected" at any call, and at every call from then
  on; it comes with the window, as it does from `build_reply()` (`rollback_session.cpp:847`,
  `:855`, `:859`, `:883`). The one-byte answer of `mu_online.c:1237` is not modelled: the frame
  then runs on the pads of the last reply, much as on a window in which nothing is new. A body that finds the
  match disconnected shows it and cuts the match short (`:1501`). Left out is what a game does
  after that, once the rollback it may be in is done: it runs on without stalling, on guesses that
  outgrow their ring, until it is over. So is what it does after its match is over, and after a
  body outran a rollback (section 7). What is stated of pads and states is stated of a match whose
  other player is there: a disconnected one ends without the pads having come.
- `RollbackGame` raises the floor with what was confirmed at once. The game reports the finalized
  frame it set when its last body began (`mu_online.c:1543`), which lags by the samples still
  queued; `RollbackEngine` has that. With a window of seven it makes no difference.
- In `SlippiNetplay` a player whose pads are waited for for seven seconds is dropped. Of a player
  of whom no pad is held, `GetSlippiRemotePad()` returns before it sets the player's number or
  whether it is active (`slippi_net.cpp:1180`), so that one is waited for although it was dropped,
  and the drop of `slippi_online.cpp:502` may name another. No property depends on which player is
  dropped.
- `Savestates` has the copying whole, as `WorkerPool` shows that it is. Pages are counted.
- Variables without a counterpart in the code only remember: `handed`, `refused`, `past`,
  `transcriptPad`, `calm`, `outrun` and the other peer's name for a game.

The definitions marked "a mutant" are slips the code could have; `PROJECT.json` says which
property catches each. No action uses them.

## 3. The abstract specifications

`InputLog` knows no network, ring, floor or wait. Each peer appends to its own list of pads per
game; each holds a transcript that grows, has no holes and consists of what both committed.
`RollbackGame!ImplementsInputLog` is `Log!Spec` under the mapping that reads the committed list
out of `localPad[p][g][1 .. localLatest]` and the transcript out of what `advance_transcript`
fed to its digest. TLC checks it as a PROPERTY of the run `RollbackSeries`: every step of either
thread, with a message of either game, is a step of the abstract log or leaves it as it is. It
catches a transcript that takes a pad before both sides committed it, from the wrong game, or
again after it changed.

`SlotPool` is the header's promise about savestates: full copies of the memory in a few slots.
`Savestates!ImplementsSlotPool` maps the shadow and the undo lists to them: the copy a checkpoint
stands for holds, for each chunk, what the next checkpoint that has it holds, or else the shadow.
A load happens, to the abstract pool, when it is called; its walk over the undo lists, and the
drops after a capture, leave the pool as it is. TLC checks it in the run `Savestates`, and
`SavesImplementPool` proves it.

## 4. Runs

Numbers in the code: window 7, delay up to 15, history 128, lead 200, ring 256. The relations
between them are the assumptions `SizeAssumption` and `SizesFit`; the runs keep the relations
and shrink the numbers, and the theorems of section 6 hold for all numbers so related.

| Run | Question | Bounds, and why they are enough |
| --- | --- | --- |
| `RollbackBounds` | Do the stall rule, the window and the limits of the messages fit together? | Window 2, delay 1, history exactly the least that is enough; one pad value for the frame numbers; two COMMITs of one side under way, so that an old one overtakes. One side stops at frame 2 while the other runs on, to the limit of the lead. |
| `RollbackSeries` | Do pads and acknowledgments stay sound, does what was committed or received stand, is no fault counted falsely, and does a session implement `InputLog`, when one side is a game ahead? | Two games of one frame and the delay, and a first game in which one side runs two frames, so that it commits again and an old COMMIT arrives after a newer one; two pad values, messages of both games under way, games ending and peers leaving. The theorems lift the bounds. |
| `RollbackLiveness` | Can two games hold each other for good? | Three frames, window 2, one shed; any message may be lost. |
| `SeriesFiles` | Are games only set up on what both agree on, in order, and do the result files stay true? | Two setups and two pools, interchangeable; two games; the connection lost at any step. |
| `SeriesLiveness` | Does every series end for both? | One setup and pool, two games, one player who may leave at any time. |
| `SeriesAgreement` | Does an agreement on record stand? It does not: section 7. | Two games of two frames. |
| `PathsSettle` | Do both sides choose one path and one setup, both become ready or both stop? Do they become ready when nothing is in the way? | Two paths, one dialed from each side, one fragile; two setups; deadlines; one side that gives up. A run that is `calm` from the start has none of these and must connect. |
| `SessionSecurity` | Is each packet taken once, and each late one taken? | Window 3 and five packets: the window moves by less than, as much as and more than its width. The theorems lift the bounds. |
| `RollbackEngine` | Does the engine take the right pads, report only what is certain, find its savestates and come out of a rollback? | Window 2, delay 1, seven frames, pads from frame 3 on, two pad values; early pads for frame 5; extra frames on every fourth; up to two samples waiting; early rollback on. The match ends on a pad of frame 3 or later, and is reported within the run. The alarm may fire at any poll of the loop; the other player may be gone at any call. |
| `Savestates` | Do differences bring back what full copies would, and is no page lost? | Three slots and four frames, captured in any order and again, so that the oldest, the newest and one in between are dropped; a watched chunk and a compared one; a block of two pages, so that the pool grows. What a chunk holds is interchangeable. |
| `WorkerPool` | Is each part of a job run once, is everyone out of it when the call returns, and does every call return? | The three workers of a large machine; three jobs over any number of starts and stops. Deadlock is checked. |
| `SlippiNetplay` | Do pads of two games in a row keep apart, is nothing acknowledged thrown away, do two held games come free? | Two players; window 2 and delay 1; two games of five frames, the shortest that the assumption allows; time sync holds of one or two frames; any packet lost; one player who may drop the other. |

`CHECK_DEADLOCK FALSE` is set where games and sessions end and in the runs that bound frames:
the system stops there.

## 5. Fairness

- `RollbackLiveness`: the game calls `inputs()` again for a frame that was held (weak fairness);
  the pump ticks every millisecond and the network does not lose every packet of one direction
  for ever (strong fairness of `Packet`). Loss of any one message is allowed, and the COMMIT of
  a held tick is what repeats it.
- `SeriesLiveness`: the host thread takes its next step, the pump ticks, so that some tick finds
  a deadline passed, and a connection the other side closed is seen to be gone. Nothing is
  assumed of a connection that is cut: the deadlines deal with it.
- `PathsSettle`: the same of ticks; a path that is answered comes up; one whose other end is
  gone is seen to be.
- `WorkerPool`: every thread is scheduled, in the caller's steps inside a call and in the
  workers'; the game need not call again, and no wake without a notify is assumed.
- `RollbackEngine`: only the engine loop (`RunEngine`, `FrameBegin`, `FrameEnd`) is fair: it is
  a loop that never blocks. The alarm is not assumed to fire, and no pad is assumed to come.

## 6. What is proved

TLAPS checks these for all values of the constants that satisfy the named assumptions.

`RollbackGameProofs`, the transport on its own, under any caller (assumptions `PadAssumption`: the
zero pad is a pad; `SizeAssumption`: sizes are positive, the history fits the ring, a span has room
for a frame):
`TransportTypeCorrect`, `PadsAgree`, `AcksSound`, `FaultsReal`, `CommitsStand`. The inductive
invariant `TransportInv` is types, `PadAgreement`, `AckSound`, `NoFalseFault` and `MessagesSound`.
The last is the strengthening: what a COMMIT on its way says, and an ACK, stays true of its
sender, in the game whose frames it names (`CommitMeans`, `AckMeans`). Without it nothing is
known of a message that arrives late. The argument: `BaseStep` and `OneGame` show that the
frame base keeps games apart; `BuildCommitSound` and `BuildAckSound` that what is sent is true;
`MeaningStable` that it stays true, as committed pads are never changed (`Grows`);
`TakeCommitStep` that taking it keeps agreement, through the ring too.

`SessionSecurityProofs` (assumption `SecurityAssumption`: the window is positive):
`SecurityTypeCorrect`, `PacketsOnce`, `LatePacketsTaken`, `ControlOrdered`. The strengthening
`MaskExact` says that a bit of the mask is set exactly if that packet was handed on, and
`ControlWhole` that control packets arrived without a hole below the newest one.

`RollbackGameProofs`, the session (those, and `RollbackAssumption`, `SizesFit`): the transport under
its own calls. `RollbackTypeCorrect`, `SessionPadsAgree`, `SessionCommitsStand`,
`HistoryReaches` (`NoGap`), `LeadSuffices` (`NeverTooFarAhead`), `RollbackReaches`
(`WithinRollback`), `TranscriptNeverStops` (`TranscriptComplete`), `WindowHasNext`
(`WindowServesNext`). The bound behind all of them is global and none of the invariants
says it: a game runs at most a window past what it was shown of the peer (`Paced`), so a peer
never commits more than window plus delay past what it holds of the other (`LagBounded`); of two
such lags, one on each side, follows how far a COMMIT can lead its receiver (`PeerLead`), and
these are the numbers of `SizesFit`. `CommitsReach` says the same of the COMMITs under way, however
old. `SessionImplementsLog` is the refinement of `InputLog`, initial states and every step
(`LogStep`), from `TranscriptsTrue`: a transcript holds the pads both committed, in slot order.

`SessionSeriesProofs` (`SeriesAssumption`; `NoneAssumption`: the absent value is none of the
others): `SeriesTypeCorrect`, `SetupsAgree`, `NextFollows`, `FilesOneSeries`, `FinishedFilesStay`.
Nothing that arrives tells which game it was sent in. What makes the series one is that a peer's
setup and pool never change: the setups of its games lie on one line (`SeriesLine`), and an offer
under way or held is a point of its sender's line at most one past the game it is in, which it
has then finished (`Offered`, `MessagesTrue`, `HeldTrue`). `FilesTrue` ties the files to the
session's own outcome.

`PeerPathsProofs` (`PathAssumption`: finitely many paths, more room than one side dials):
`PathsTypeCorrect`, `OnePathChosen`, `BothBecomeReady`. One side decides, as the keys differ, and
only the path it chose carries its VERIFY (`MessageTrue`); the other side chooses when a VERIFY
comes, so it `Follows`, and a path is closed only for the one chosen (`ClosesOthers`).

`WorkerPoolProofs`: `JobsRunWhole`, `WorkersCounted`. The code keeps a counter of workers not done,
without saying which. In a job it is the number of workers that owe their part (`Owing`: they
have not seen the job, or are in it); outside one, every worker has seen the last (`AllSeen`),
which `first_seen` gives a worker of a later start.

`RollbackEngineProofs` (`EngineAssumption`; no assumption about when the alarm fires or what comes):
`PadsRight`, `ChecksumsAreReal`, `LoadFinds`, `EndsAreReal` are the properties of the run, and
`EngineTypeCorrect` is `TypeOK` under the condition they state themselves, `Undisturbed`: the other
player is there, and no body outran a rollback. All follow from `EngineInvariant`,
`Spec => [](Undisturbed => EngineInv)`. Once `Undisturbed` fails it never
comes back (`StepStays`, from `KnowsGone`: a game that was told knows it), so every step either keeps
the invariant or leaves it behind for good. `Outruns` is exactly the step at which a frame is run,
and settled, that was found wrong before it began. That a rollback triggered behind the loop's gate is otherwise harmless is part of
the proof (`ReadyAsIs`): the body in between either runs a frame before the one to go back
to, or keeps its state.
The first half of `EngineInv` says where the engine stands: the frames asked for are those run
and those queued, or are to be run again (`Order`). The second says what they were run on:
before `SureTo`, on the pad that came, and from there on, on a guess that is kept
(`SamplesOK`). From these two: what is finalized lies below the first guess (`FinOK`); the ring of
checksums has each frame since in its place (`RingOK`); each frame run on a guess has its state
in a slot (`SavesOK`), as there are at most a window of them; and the local pads are found by
counting back from an index that moved on (`LocalAt`, which adds up modulo both rings). The parts
are predicates of values, not of the variables, since the alarm may call the host twice in one
step (`CallKeeps` is used twice). `TypeOK` had bounded the frames by one too few: an extra frame
may be asked for past the last one, which no bounded run reached and the proof did.

`SavestatesProofs` (`SavestatesAssumption`: the memory is a finite set of chunks, frames are
integers, there is a slot, a block has a page): `SavesInvariant`, `PagesKept` (`PagesAccounted`) and
`SavesImplementPool`, the refinement of `SlotPool`, initial states and every step (`StepSaves`).
The memory at a checkpoint is read off what comes after it, so what matters are lemmas about any
timeline and shadow: what a chunk was (`Was`) is found again after a capture (`CaptureStates`), a
drop in the middle (`DropBefore`, `DropAfter`), an undone checkpoint (`WalkStates`) and a cut
(`CutStates`). `Renamed` turns them into steps of the pool: checkpoints that keep their order, frames
and states under new indices are the same copies. Of the loops the invariant says that at
most one checkpoint is dead and has still to be passed (`LoopInv`), and of the shadow that the
engine knows where it may differ from the game (`ShadowInv`). The pages are counted as pairs of
checkpoint and chunk; a drop's duplicates go by a bijection (`DroppedPages`), and the bound holds
as the pool grows only when it is empty (`Allocated`).

`SlippiNetplayProofs` (`SlippiAssumption`: finitely many players, a window of two frames or more, a
packet that holds twice the window and the delay, a game that outlasts the frames sent before the
other side has begun it): `NetplayTypeCorrect`, `GamesInStep`, `PadsAreOfThisGame` (`PadsOfThisGame`),
`NothingWantedIsEverGone` (`NothingWantedIsGone`), `NoMutualWait` (`NeitherWaitsForever`), all from
`NetplayInvariant`, for any number of players. No message names its game, so the invariant says
which game each player has selected its character for (`Selected`), that nobody is in a game another
has not selected for (`Lockstep`), and that a selection on its way, or arrived and not used, is the
whole difference between the game a player is in and the one the other has selected for
(`Picking`). Packets under way are therefore of a game that everyone is in or waits for
(`PadsInPlay`), and what is held is of the receiver's game, or of the next before its first frame
(`Holds`). `Acknowledged` ties what was acknowledged to what the receiver will still have when it
begins: pads of a game it has not begun are taken only where none of the last game are left to be
cleared (`EarlyPads`, which is where a game has to be long enough). The last two theorems need the
numbers too: who has sent frame n holds the other's pads up to the window behind it, so one is never
behind the other by more than twice window and delay (`Lag`), and of two that wait for each other the
slower is freed (`SlowerIsFreed`). The proof corrected the properties. With three players
`PadsOfThisGame` was false of a player that had been dropped: the others go on, and the frame
everyone's pads are there of passes the newest pad it left; the property now says so of those not
dropped. And with a window of one frame both of two games may hold the pad that would free them and
not be given it, as the window starts at the oldest pad kept (TLC shows it at once): the assumption
excludes that, and the code's window is seven.

TLC had checked `NetplayInv` before it was proved, over the states of the run and, with three
players, by simulation.

Only model-checked: liveness under fairness (`NoMutualStall`, `SeriesEnds`, `BothOrNeither`,
`CallsReturn`, `RollbackEnds`), which the provers cannot do; the
counterexamples of section 7. `NeitherWaitsForever` is a property of states, and proved: that the
packet it speaks of is sent again and not lost for ever is not part of it.

## 7. What the checks showed

`SeriesAgreement` is a counterexample. RESULT carries no game number (`rollback_session.cpp:470`).
Both games of game 1 finish and agree. One side goes on to game 2 and gives up before the other
has left its result scene; its RESULT, of game 2 with no frames, reaches the other in game 1 and
is compared with game 1's transcript. The agreement on record becomes "mismatch", and the file
of game 1 is written again (`source_p2p.cpp:244`). `docs/mu-net-protocol.md:230` gives every
game a transcript of its own, and `:325` says the finished game's result stands.

`GuessesKept` of `RollbackEngine` does not hold: with it as a further INVARIANT of `RollbackEngine.cfg`,
TLC shows what an alarm can do that falls due at the wrong time. The loop polls once
more between its gate and the body, and a body may poll while another sample waits. An alarm there
may bring the pad of a frame whose sample, with a guess, is queued and not run. If the guess was
wrong, a rollback to that frame is triggered and the frame is finalized; the body that follows was
let in without the rollback, runs the frame on the guess, settles it (`mu_online.c:1543`) and so
does not keep it (`:1620`), where the comment says that every predicted frame is kept. The load
then finds no state, and the game goes on from the wrong one. `h_poll` moves the clock by 2048
ticks, so it takes an alarm due at just that poll with a sample already waiting; the model has no
clock and does not say how often that is. `LoadFinds` says that, while the other player is there,
it is the only way for a load to find no state. No run is kept for it, nor for the next one.

`CutStays` does not hold either, seen the same way. The call whose reply says that the
other player is gone may also bring the pad that shows a guess wrong. The next body first shows
DISCONNECTED and calls `end_game()`, which writes the result into the state of the game, and then
loads the state of the rollback, from before that. `disconnect_displayed` is not part of it, so the
match is not ended again: it runs on, on the last pads of a player who is gone, where
`docs/mu-net-protocol.md:219` says that it ends as disconnected.

Documents that lag behind the code, seen on the way: early pads are ignored after 24 scored
guesses of which over half are wrong (`mu_online.c`, `check_predictions`), where
`docs/early-inputs.md:17` and the comment at `mu_online.c:214` say 64 guesses and 60%.

## 8. Hazards without a property

In `PROJECT.json` with their notes: INFO delayed by a whole game; BYE overtaking the last
inputs; the checksum pair of an older COMMIT; the sampler thread against
the game's own pad; the two that the rollback engine does not withstand (section 7); Slippi selections sent again for a change of seat. Smaller
ones: a RESULT that comes between the file and the next game is lost from the file, which then
says "unknown"; the loop that fills a jump in frame numbers would not end past 2^24 frames of
one game; the raw pad queue merges samples once five wait.

## 9. Plan

Modelled: the session (transport, one game, series), its handshake, its packets, the game's side
of the rollback with the savestates under it, and the other protocol. Proved: every safety
property that a passing run checks, for matches whose other player is there and whose bodies do not
outrun a rollback (section 7), and both refinements. What
would be next are the hazards of section 8: early inputs with the sampler thread, and both
channels of a session in one model, for the BYE that overtakes inputs.

## 10. Not modelled

- Early inputs: an early pad is a guess, and a wrong one costs a rollback. `RollbackEngine` takes
  any early pad at any time, which is more than the sampler thread can send.
- LAN beacon, NAT discovery, the lobby and its server: hints for whom to dial. What is dialed
  wrongly fails the handshake, which is in `PeerPaths`.
- The key schedule and the signatures of `session_security.cpp`: cryptography.
- Slippi's matchmaking, ranked sets, chat, spectating and reports; the rooms service: clients of
  services whose side is not in this repository.
- Rendering, audio, the recompiler and its runtime, controllers, mods, the memory card, the
  updater, tools: data transformations, device and file I/O. They are nearly all of the lines.
