------------------------------ MODULE PeerPaths ------------------------------
(***************************************************************************)
(* How two games get connected: the paths PeerConnector brings up between  *)
(* them, the HELLO of each, the choice of one path, and VERIFY, up to the  *)
(* moment both are ready (SessionSeries goes on from there).               *)
(*                                                                         *)
(* Each side dials every address of the other it was given, and both dial  *)
(* at once, so several connections between the same two games may come up, *)
(* at different times on the two sides.  Each side says HELLO on all of    *)
(* them.  The side whose session key sorts first keeps the path the        *)
(* other's HELLO came on, says so by sending VERIFY there, and the other   *)
(* follows.                                                                *)
(*                                                                         *)
(* ENet is external: a connection is reliable and ordered while it lasts,  *)
(* its dialer sees it up first, and its two ends see it go at different    *)
(* times.  Deadlines may have passed at any tick, unless a run leaves them *)
(* out.  A poll takes at most one event and then at most one packet.       *)
(*                                                                         *)
(* A definition marked "a mutant" is wrong on purpose: a slip the code     *)
(* could have, which one of the properties must catch.  No action uses it. *)
(***************************************************************************)
EXTENDS Integers, Sequences, FiniteSets

CONSTANTS
    None,        \* no path
    Path,        \* the connections that may come up between the two
    Dialer,      \* which side dials each of them
    Open,        \* those no router or firewall is in the way of
    Fragile,     \* those the network may cut at any time
    MaxPaths,    \* kMaxPaths, connections one side holds
    Setups,      \* match setups a side may have been given
    Deadlines,   \* whether the limits of connecting may pass
    Leavers      \* the sides that may give up at any time

Slot     == 0 .. 1
Other(p) == 1 - p

ASSUME PathAssumption ==
    /\ None \notin Path /\ IsFiniteSet(Path)
    /\ Dialer \in [Path -> Slot]
    /\ Open \subseteq Path /\ Fragile \subseteq Path
    /\ MaxPaths \in Nat   \* more than the addresses one side can be given (6 and 8 in the code)
    /\ \A p \in Slot : Cardinality({x \in Path : Dialer[x] = p}) < MaxPaths
    /\ Deadlines \in BOOLEAN /\ Leavers \subseteq Slot

VARIABLES
    peer,   \* the session and the connector of each side, as a record
    end,    \* what each side has of each path
    chan,   \* what is on its way to each side over each path
    key,    \* the session key of each side, as its place in the order
    setup,  \* the match setup each side was given
    calm    \* whether nothing is cut, given up or late, from the start to the end

vars == <<peer, end, chan, key, setup, calm>>

Hello     == [type |-> "HELLO"]
Verify(d) == [type |-> "VERIFY", digest |-> d]
Bye       == [type |-> "BYE"]

\* The two keys are never equal, so exactly one side decides.
BothDecide(p) == TRUE                                          \* a mutant
Decider(p)    == key[p] < key[Other(p)]

Up(ends)         == {x \in Path : ends[x] = "up"}
Connected(r, ends) == r.link = "Connected" /\ (IF r.pinned = None THEN Up(ends) # {}
                                               ELSE ends[r.pinned] = "up")
Fail(r) == [r EXCEPT !.state = "Failed"]

-----------------------------------------------------------------------------
(* poll(): one event of the connections *)

Taken(p) == Cardinality({x \in Path : end[p][x] # "none"})

\* A dial was answered, or the answer of the dialer has come.
CanUp(p, x) ==
    \/ /\ end[p][x] = "dialing" /\ end[Other(p)][x] = "none"
       /\ x \in Open
       /\ peer[Other(p)].state # "Idle" /\ Taken(Other(p)) < MaxPaths
    \/ end[p][x] = "half"

\* The other end has gone, or the network, or a dial stays unanswered.  While no
\* path is up such a dial is started again, which changes nothing.
CanDown(p, x) ==
    \/ end[p][x] = "closing"
    \/ end[p][x] = "up" /\ (end[Other(p)][x] \in {"none", "closing"} \/ (x \in Fragile /\ ~calm))
    \/ end[p][x] = "dialing" /\ peer[p].link = "Connected"

\* A path that comes up once another was chosen is closed at once.
EndsAfterUp(p, x) ==
    IF peer[p].pinned # None THEN [end EXCEPT ![p][x] = "none"]
    ELSE [end EXCEPT ![p][x] = "up",
                     ![Other(p)][x] = IF end[p][x] = "dialing" THEN "half" ELSE @]

AfterUp(r) == IF r.pinned # None THEN r
              ELSE [r EXCEPT !.unsaid = TRUE,
                             !.link = IF @ = "Connecting" THEN "Connected" ELSE @]

AfterDown(r, x) == IF x = r.pinned THEN [r EXCEPT !.link = "Failed"] ELSE r

\* What poll() does about its state once the events are read.
Settled(r, ends, late) ==
    LET link == IF r.link = "Connected" /\ r.pinned = None /\ Up(ends) = {}
                THEN "Connecting" ELSE r.link
    IN  [r EXCEPT !.link = IF link = "Connecting" /\ late THEN "Failed" ELSE link]

-----------------------------------------------------------------------------
(* A packet that came on path x: on_packet() *)

\* pin_path(): the others are told, or forgotten if they never came up.
Pinned(ends, x) ==
    [y \in Path |-> CASE y # x /\ ends[y] = "up"      -> "closing"
                      [] y # x /\ ends[y] = "dialing" -> "none"
                      [] OTHER -> ends[y]]

\* accept_hello() and on_handshake().  The hello goes first: this side may never
\* have sent one on this path.
HelloNotKept(p, r, x) == [r EXCEPT !.state = "Verifying"]       \* a mutant
OnHello(p, r, x) ==
    IF r.known THEN r
    ELSE [r EXCEPT !.known = TRUE, !.state = "Verifying",
                   !.pinned = IF Decider(p) THEN x ELSE @,
                   !.verifySent = Decider(p)]

JustVerify(p, r) == IF r.known \/ ~Decider(p) THEN <<>>        \* a mutant
                    ELSE <<Verify(setup[p])>>
HelloSays(p, r) == IF r.known \/ ~Decider(p) THEN <<>> ELSE <<Hello, Verify(setup[p])>>

AnySetup(p, r, m) == TRUE                                      \* a mutant
SameSetup(p, r, m) == m.digest = setup[p]

OnVerify(p, r, m, x) ==
    IF r.state # "Verifying" THEN r
    ELSE [r EXCEPT !.pinned = IF r.verifySent THEN @ ELSE x,
                   !.verifySent = TRUE,
                   !.state = IF SameSetup(p, r, m) THEN "Ready" ELSE "Failed"]

VerifySays(p, r, m) ==
    IF r.state # "Verifying" THEN <<>>
    ELSE (IF r.verifySent THEN <<>> ELSE <<Verify(setup[p])>>)
         \o (IF SameSetup(p, r, m) THEN <<>> ELSE <<Bye>>)

\* Nothing but a HELLO is read before the handshake.
OnPacket(p, r, m, x) ==
    CASE m.type = "HELLO" -> OnHello(p, r, x)
      [] m.type = "VERIFY" /\ r.known -> OnVerify(p, r, m, x)
      [] m.type = "BYE" /\ r.known -> Fail(r)
      [] OTHER -> r

PacketSays(p, r, m) ==
    CASE m.type = "HELLO" -> HelloSays(p, r)
      [] m.type = "VERIFY" /\ r.known -> VerifySays(p, r, m)
      [] OTHER -> <<>>

-----------------------------------------------------------------------------
(* tick() after its poll *)

SaysHello(r, ends) ==
    /\ r.state \in {"Connecting", "Handshaking", "Verifying"}
    /\ r.link # "Failed" /\ Connected(r, ends) /\ r.pinned = None /\ r.unsaid

AfterPoll(r, ends, late) ==
    CASE r.state \in {"Connecting", "Handshaking", "Verifying"} ->
            IF r.link = "Failed" \/ late THEN Fail(r)
            ELSE IF SaysHello(r, ends)
            THEN [r EXCEPT !.unsaid = FALSE,
                           !.state = IF @ = "Connecting" THEN "Handshaking" ELSE @]
            ELSE r
      [] r.state = "Ready" -> IF Connected(r, ends) THEN r ELSE Fail(r)
      [] OTHER -> r

\* send(): over the path chosen, or over every path that is up; what the other
\* side has no end for is lost.
Posted(p, r, ends, said, chans) ==
    LET over == IF r.pinned = None THEN Up(ends[p]) ELSE Up(ends[p]) \cap {r.pinned}
    IN  [chans EXCEPT ![Other(p)] =
            [x \in Path |-> IF x \in over /\ ends[Other(p)][x] \in {"up", "half"}
                            THEN @[x] \o said ELSE @[x]]]

\* What is on its way over a path that is not up here, or not chosen, is not read.
Read(p, r, ends, chans) ==
    [chans EXCEPT ![p] = [x \in Path |->
        IF ends[p][x] \in {"up", "half"} /\ r.pinned \in {None, x} THEN @[x] ELSE <<>>]]

\* The rest of a tick whose poll took in an event, which left r and ends, and then
\* the packets of path x, or none.
TickAfter(p, r, ends, x, late) ==
    LET polled == Settled(r, ends[p], late)
        reads  == x # None
        m      == IF reads THEN Head(chan[p][x]) ELSE Hello
        heard  == IF reads THEN OnPacket(p, polled, m, x) ELSE polled
        said   == IF reads THEN PacketSays(p, polled, m) ELSE <<>>
        ends2  == IF heard.pinned # polled.pinned
                  THEN [ends EXCEPT ![p] = Pinned(@, heard.pinned)] ELSE ends
        after  == AfterPoll(heard, ends2[p], late)
        hello  == IF SaysHello(heard, ends2[p]) THEN <<Hello>> ELSE <<>>
        rest   == IF reads THEN [chan EXCEPT ![p][x] = Tail(@)] ELSE chan
    IN  /\ reads => /\ chan[p][x] # <<>> /\ ends[p][x] = "up"
                    /\ r.pinned \in {None, x}
        /\ peer' = [peer EXCEPT ![p] = after]
        /\ end' = ends2
        /\ chan' = Read(p, after, ends2, Posted(p, after, ends2, said \o hello, rest))

Polls(p) == peer[p].state \notin {"Failed", "Idle"}

Quiet(p, x, late) == TickAfter(p, peer[p], end, x, late)
PathUp(p, y, x, late) ==
    CanUp(p, y) /\ TickAfter(p, AfterUp(peer[p]), EndsAfterUp(p, y), x, late)
PathDown(p, y, x, late) ==
    CanDown(p, y) /\ TickAfter(p, AfterDown(peer[p], y), [end EXCEPT ![p][y] = "none"], x, late)

Tick(p, late) ==
    /\ Polls(p) /\ (late => Deadlines /\ ~calm)
    /\ \E x \in Path \cup {None} :
          \/ Quiet(p, x, late)
          \/ \E y \in Path : PathUp(p, y, x, late) \/ PathDown(p, y, x, late)
    /\ UNCHANGED <<key, setup, calm>>

-----------------------------------------------------------------------------
(* start() and stop() *)

\* stop(), when the session has failed or the player gives up.
Stop(p) ==
    /\ peer[p].state = "Failed" \/ (p \in Leavers /\ ~calm /\ peer[p].state # "Idle")
    /\ peer' = [peer EXCEPT ![p] = [@ EXCEPT !.state = "Idle", !.link = "Idle", !.pinned = None]]
    /\ end' = [end EXCEPT ![p] = [x \in Path |-> "none"]]
    /\ chan' = [Posted(p, peer[p], end, IF peer[p].known THEN <<Bye>> ELSE <<>>, chan)
                   EXCEPT ![p] = [x \in Path |-> <<>>]]
    /\ UNCHANGED <<key, setup, calm>>

NewPeer == [state |-> "Connecting", link |-> "Connecting", pinned |-> None,
            known |-> FALSE, unsaid |-> FALSE, verifySent |-> FALSE]

\* Both have begun: open(), connect(), and a key drawn.
Init ==
    /\ peer = [p \in Slot |-> NewPeer]
    /\ end = [p \in Slot |-> [x \in Path |-> IF Dialer[x] = p THEN "dialing" ELSE "none"]]
    /\ chan = [p \in Slot |-> [x \in Path |-> <<>>]]
    /\ key \in {k \in [Slot -> 1 .. 2] : k[0] # k[1]}
    /\ setup \in [Slot -> Setups]
    /\ calm \in BOOLEAN

Next == \E p \in Slot : Stop(p) \/ \E late \in BOOLEAN : Tick(p, late)

Spec == Init /\ [][Next]_vars

\* The pump ticks every millisecond: what is there to be read is read, a path that
\* can come up does, one whose other end is gone is seen to be gone, and some tick
\* comes after any deadline.  A session that failed is stopped by its host.
Fairness ==
    \A p \in Slot :
        /\ \A x \in Path :
              /\ WF_vars(Polls(p) /\ Quiet(p, x, FALSE) /\ UNCHANGED <<key, setup, calm>>)
              /\ WF_vars(Polls(p) /\ PathUp(p, x, None, FALSE) /\ UNCHANGED <<key, setup, calm>>)
              /\ WF_vars(/\ Polls(p) /\ end[Other(p)][x] \in {"none", "closing"}
                         /\ PathDown(p, x, None, FALSE) /\ UNCHANGED <<key, setup, calm>>)
        /\ WF_vars(Polls(p) /\ Quiet(p, None, FALSE) /\ UNCHANGED <<key, setup, calm>>)
        /\ WF_vars(Tick(p, TRUE))
        /\ WF_vars(peer[p].state = "Failed" /\ Stop(p))

FairSpec == Spec /\ Fairness

-----------------------------------------------------------------------------
(* Properties *)

\* The only property that is about types.
TypeOK ==
    /\ \A p \in Slot :
          /\ peer[p].state \in {"Connecting", "Handshaking", "Verifying", "Ready", "Failed", "Idle"}
          /\ peer[p].link \in {"Connecting", "Connected", "Failed", "Idle"}
          /\ peer[p].pinned \in Path \cup {None}
          /\ peer[p].state \in {"Verifying", "Ready"} => peer[p].known
          /\ peer[p].pinned # None => peer[p].known
    /\ end \in [Slot -> [Path -> {"none", "dialing", "half", "up", "closing"}]]
    /\ \A p \in Slot : Taken(p) <= MaxPaths

\* However many paths come up between two games and in whatever order each side
\* sees them, both choose the same one, so neither closes the path the other has
\* chosen (on_handshake lines 415-423, VERIFY lines 437-441, pin_path).
OnePath ==
    /\ \A p \in Slot : peer[p].pinned # None => peer[Other(p)].pinned \in {None, peer[p].pinned}
    /\ \A p \in Slot : \A x \in Path :
          end[p][x] = "closing" => peer[Other(p)].pinned # x

\* A side that is ready has chosen a path, and the other side, if it is still
\* there, holds the same setup, has chosen that path too and has sent its VERIFY.
ReadyTogether ==
    \A p \in Slot :
        LET o == peer[Other(p)] IN
        peer[p].state = "Ready" =>
            /\ setup[p] = setup[Other(p)]
            /\ o.state # "Idle" => o.verifySent /\ o.pinned = peer[p].pinned

\* Nobody is left alone with a match that will not begin: whatever is cut, refused,
\* or given up, in the end both are ready, or both have stopped.  Both are ready in
\* the end if they hold the same setup, one path is open, nobody gives up, nothing
\* is cut and no limit passes.
MustConnect   == calm /\ Open # {} /\ setup[0] = setup[1]
BothOrNeither ==
    <>(\/ \A p \in Slot : peer[p].state = "Ready"
       \/ ~MustConnect /\ \A p \in Slot : peer[p].state = "Idle")

=============================================================================
