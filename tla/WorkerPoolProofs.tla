-------------------------- MODULE WorkerPoolProofs --------------------------
(***************************************************************************)
(* Proofs about the savestates' workers (WorkerPool), for any number of    *)
(* them and any number of jobs.                                            *)
(*                                                                         *)
(* JobsWhole rests on job_left_, an atomic counter that says how many      *)
(* workers have not finished and not which.  The inductive invariant gives *)
(* the counter its meaning: in a job it is the number of workers that owe  *)
(* their part, those that have not seen the job and those in it.  Outside  *)
(* a job every worker has seen the last one, which is what FirstSeen gives *)
(* a worker of a later start.                                              *)
(***************************************************************************)
EXTENDS WorkerPool, FiniteSets, FiniteSetTheorems, TLAPS

Phases  == {"stopped", "starting", "growing", "ready", "posting", "notifying", "working",
            "spinning", "quitting", "joining"}
Waiting == {"awake", "asleep"}
Busy    == {"working", "counting"}
Thread  == [pc : {"none", "exited"} \cup Waiting \cup Busy, seen : Nat, job : Nat, parts : Nat]

PoolTypeOK ==
    /\ caller \in Phases
    /\ size \in 0 .. Count
    /\ quit \in BOOLEAN
    /\ gen \in Nat /\ job \in Nat /\ left \in Int
    /\ worker \in [Worker -> Thread]
    /\ done \in [0 .. Count -> Nat]

\* A pool that is not being started or stopped is whole and runs.
PoolWhole ==
    /\ caller = "stopped" => size = 0 /\ \A w \in Worker : worker[w].pc = "none"
    /\ caller \in {"ready", "posting", "quitting", "joining"} \cup InRun => size = Count
    /\ caller \in {"starting", "growing"} => size < Count
    /\ caller # "stopped" => (quit <=> caller \in {"quitting", "joining"})
    /\ caller \in {"starting", "growing"} => \A w \in 1 .. size : worker[w].pc # "none"
    /\ caller = "growing" => worker[size + 1].pc # "none"
    /\ caller \in {"ready", "posting"} => \A w \in Worker : worker[w].pc # "none"
    /\ caller \notin {"stopped", "quitting", "joining"} =>
          \A w \in Worker : worker[w].pc # "exited"

\* Between two jobs nobody is in one, and the last one is seen by all.
AllSeen ==
    caller \notin InRun =>
        \A w \in Worker : /\ worker[w].pc \notin Busy
                          /\ worker[w].pc \in Waiting => worker[w].seen = gen

\* The workers that have not finished their part of the job.
Owing == {w \in Worker : worker[w].seen # gen \/ worker[w].pc \in Busy}

\* Where one worker is in the job, and what is run of its part.
PartOf(w) ==
    /\ worker[w].pc \in Waiting \cup Busy
    /\ worker[w].pc \in Busy => worker[w].seen = gen
    /\ worker[w].pc = "working" => worker[w].job = gen /\ worker[w].parts = Count + 1
    /\ done[w] = IF worker[w].pc # "working" /\ worker[w].seen = gen THEN 1 ELSE 0

JobCounted ==
    /\ caller = "posting" => left = Count /\ done = [part \in 0 .. Count |-> 0]
    /\ caller \in InRun => /\ job = gen
                           /\ left = Cardinality(Owing)
                           /\ done[0] = IF caller = "spinning" THEN 1 ELSE 0
                           /\ \A w \in Worker : PartOf(w)

PoolInv == PoolTypeOK /\ PoolWhole /\ AllSeen /\ JobCounted

-----------------------------------------------------------------------------
(* The counter *)

LEMMA OwingFinite == IsFiniteSet(Owing) /\ Cardinality(Owing) \in Nat
  <1>1. IsFiniteSet(Worker)
    BY FS_Interval, WorkerPoolAssumption DEF Worker
  <1>2. Owing \in SUBSET Worker
    BY DEF Owing
  <1> QED
    BY <1>1, <1>2, FS_Subset, FS_CardinalityType

-----------------------------------------------------------------------------
(* Every step keeps the invariant *)

USE WorkerPoolAssumption DEF Worker

LEMMA InitPool == Init => PoolInv
  <1> SUFFICES ASSUME Init
               PROVE  PoolInv
    OBVIOUS
  <1>1. NoThread \in Thread /\ NoThread.pc = "none"
    BY DEF NoThread, Thread
  <1>2. PoolTypeOK
    <2>1. quit \in BOOLEAN
      BY Zenon DEF Init
    <2>2. worker \in [Worker -> Thread] /\ done \in [0 .. Count -> Nat]
      BY <1>1 DEF Init
    <2>3. caller \in Phases /\ size \in 0 .. Count /\ gen \in Nat /\ job \in Nat /\ left \in Int
      BY DEF Init, Phases
    <2> QED
      BY <2>1, <2>2, <2>3 DEF PoolTypeOK
  <1>3. PoolWhole /\ AllSeen /\ JobCounted
    BY <1>1 DEF Init, PoolWhole, AllSeen, JobCounted, Waiting, Busy, InRun
  <1> QED
    BY <1>2, <1>3 DEF PoolInv

\* The pool is started.
LEMMA StartStep == PoolInv /\ (StartWorkers \/ Spawn \/ Grow) => PoolInv'
  <1> SUFFICES ASSUME PoolInv, StartWorkers \/ Spawn \/ Grow
               PROVE  PoolInv'
    OBVIOUS
  <1> USE DEF PoolInv, PoolTypeOK, Phases, InRun
  <1>1. CASE StartWorkers
    <2>1. ~quit' /\ quit' \in BOOLEAN
      BY <1>1, Zenon DEF StartWorkers
    <2>2. /\ caller = "stopped" /\ caller' = "starting"
          /\ UNCHANGED <<size, gen, job, left, worker, done>>
      BY <1>1 DEF StartWorkers
    <2>3. PoolTypeOK'
      BY <2>1, <2>2
    <2>4. PoolWhole' /\ AllSeen' /\ JobCounted'
      BY <2>1, <2>2 DEF PoolWhole, AllSeen, JobCounted
    <2> QED
      BY <2>3, <2>4
  <1>2. CASE Spawn
    <2> DEFINE new == [pc |-> "awake", seen |-> gen, job |-> 0, parts |-> 0]
    <2>0. [NoThread EXCEPT !.pc = "awake", !.seen = FirstSeen] = new
      <3>1. [NoThread EXCEPT !.pc = "awake"] = [pc |-> "awake", seen |-> 0, job |-> 0, parts |-> 0]
        BY DEF NoThread
      <3>2. [NoThread EXCEPT !.pc = "awake", !.seen = gen]
                = [[NoThread EXCEPT !.pc = "awake"] EXCEPT !.seen = gen]
        BY DEF NoThread
      <3>3. [[pc |-> "awake", seen |-> 0, job |-> 0, parts |-> 0] EXCEPT !.seen = gen] = new
        OBVIOUS
      <3> QED
        BY <3>1, <3>2, <3>3, Zenon DEF FirstSeen
    <2> HIDE DEF new
    <2>1. /\ caller = "starting" /\ size < Count /\ size + 1 \in Worker
          /\ caller' = "growing"
          /\ worker' = [worker EXCEPT ![size + 1] = new]
          /\ UNCHANGED <<size, quit, gen, job, left, done>>
      <3>1. worker' = [worker EXCEPT ![size + 1] = new]
        BY <1>2, <2>0, Zenon DEF Spawn
      <3>2. /\ caller = "starting" /\ size < Count /\ caller' = "growing"
            /\ UNCHANGED <<size, quit, gen, job, left, done>>
        BY <1>2, Zenon DEF Spawn
      <3> QED
        BY <3>1, <3>2
    <2>2. PoolTypeOK'
      BY <2>1 DEF Thread, Waiting, new
    <2>3. PoolWhole'
      BY <2>1 DEF PoolWhole, new
    <2>4. AllSeen'
      BY <2>1 DEF AllSeen, Waiting, Busy, new
    <2>5. JobCounted'
      BY <2>1 DEF JobCounted
    <2> QED
      BY <2>2, <2>3, <2>4, <2>5
  <1>3. CASE Grow
    <2>1. PoolTypeOK' /\ AllSeen' /\ JobCounted'
      BY <1>3 DEF Grow, PoolWhole, AllSeen, JobCounted
    <2>2. PoolWhole'
      BY <1>3 DEF Grow, PoolWhole
    <2> QED
      BY <2>1, <2>2
  <1> QED
    BY <1>1, <1>2, <1>3

\* A job is posted: every worker owes its part.
LEMMA PostStep == PoolInv /\ (Run \/ Post) => PoolInv'
  <1> SUFFICES ASSUME PoolInv, Run \/ Post
               PROVE  PoolInv'
    OBVIOUS
  <1> USE DEF PoolInv, PoolTypeOK, Phases, InRun
  <1>1. CASE Run
    BY <1>1 DEF Run, PoolWhole, AllSeen, JobCounted
  <1>2. CASE Post
    <2>1. PoolTypeOK' /\ PoolWhole' /\ AllSeen'
      BY <1>2 DEF Post, PoolWhole, AllSeen
    <2>2. \A w \in Worker : worker[w].pc \in Waiting /\ worker[w].seen = gen
      BY <1>2 DEF Post, PoolWhole, AllSeen, Thread
    <2>3. Owing' = Worker
      BY <1>2, <2>2 DEF Post, Owing
    <2>4. left' = Cardinality(Owing')
      BY <1>2, <2>3, FS_Interval DEF Post, JobCounted
    <2>5. \A w \in Worker : PartOf(w)'
      BY <1>2, <2>2 DEF Post, JobCounted, PartOf, Waiting, Busy
    <2>6. JobCounted'
      BY <1>2, <2>4, <2>5 DEF Post, JobCounted
    <2> QED
      BY <2>1, <2>6
  <1> QED
    BY <1>1, <1>2

\* A wake, for the job, for the end or for nothing, changes what no worker has read.
LEMMA WakeStep ==
  PoolInv /\ (Notify \/ NotifyQuit \/ \E w \in Worker : WakeAnyway(w)) => PoolInv'
  <1> SUFFICES ASSUME PoolInv, Notify \/ NotifyQuit \/ \E w \in Worker : WakeAnyway(w)
               PROVE  PoolInv'
    OBVIOUS
  <1> USE DEF PoolInv, PoolTypeOK, Phases, InRun
  <1>1. /\ \/ caller = "notifying" /\ caller' = "working"
           \/ caller = "quitting" /\ caller' = "joining"
           \/ caller' = caller
        /\ UNCHANGED <<size, quit, gen, job, left, done>>
    BY DEF Notify, NotifyQuit, WakeAnyway
  <1>2. /\ worker' \in [Worker -> Thread]
        /\ \A w \in Worker :
              \/ worker'[w] = worker[w]
              \/ worker[w].pc = "asleep" /\ worker'[w] = [worker[w] EXCEPT !.pc = "awake"]
    <2>1. \A t \in Thread : [t EXCEPT !.pc = "awake"] \in Thread
      BY DEF Thread, Waiting
    <2>2. CASE Notify \/ NotifyQuit
      BY <2>1, <2>2 DEF Notify, NotifyQuit, Woken
    <2>3. CASE \E w \in Worker : WakeAnyway(w)
      <3>1. PICK w \in Worker : WakeAnyway(w)
        BY <2>3
      <3> QED
        BY <2>1, <3>1 DEF WakeAnyway
    <2> QED
      BY <2>2, <2>3
  <1>0. \A w \in Worker :
            /\ worker'[w].seen = worker[w].seen
            /\ worker'[w].job = worker[w].job
            /\ worker'[w].parts = worker[w].parts
            /\ \/ worker'[w].pc = worker[w].pc
               \/ worker[w].pc = "asleep" /\ worker'[w].pc = "awake"
    <2>1. \A t \in Thread : LET u == [t EXCEPT !.pc = "awake"]
                           IN  /\ u.pc = "awake" /\ u.seen = t.seen
                               /\ u.job = t.job /\ u.parts = t.parts
      BY DEF Thread
    <2>2. ASSUME NEW w \in Worker
          PROVE  /\ worker'[w].seen = worker[w].seen
                 /\ worker'[w].job = worker[w].job
                 /\ worker'[w].parts = worker[w].parts
                 /\ \/ worker'[w].pc = worker[w].pc
                    \/ worker[w].pc = "asleep" /\ worker'[w].pc = "awake"
      <3> DEFINE t == worker[w]
      <3>1. /\ t \in Thread
            /\ \/ worker'[w] = t
               \/ t.pc = "asleep" /\ worker'[w] = [t EXCEPT !.pc = "awake"]
        BY <1>2
      <3> HIDE DEF t
      <3>2. t.pc = "asleep" /\ worker'[w] = [t EXCEPT !.pc = "awake"] =>
                /\ worker'[w].pc = "awake" /\ worker'[w].seen = t.seen
                /\ worker'[w].job = t.job /\ worker'[w].parts = t.parts
        BY <2>1, <3>1
      <3> QED
        BY <3>1, <3>2 DEF t
    <2> QED
      BY <2>2
  <1>3. PoolTypeOK'
    BY <1>1, <1>2
  <1>4. PoolWhole'
    <2>1. caller \in {"starting", "growing"} => size + 1 \in Worker /\ 1 .. size \subseteq Worker
      BY DEF PoolWhole
    <2>2. \A w \in Worker : /\ worker[w].pc = "none" <=> worker'[w].pc = "none"
                            /\ worker[w].pc = "exited" <=> worker'[w].pc = "exited"
      BY <1>0
    <2> QED
      BY <1>1, <2>1, <2>2 DEF PoolWhole
  <1>5. AllSeen'
    BY <1>0, <1>1 DEF AllSeen, Waiting, Busy
  <1>6. Owing' = Owing
    BY <1>0, <1>1 DEF Owing, Busy
  <1>7. ASSUME NEW w \in Worker, PartOf(w)
        PROVE  PartOf(w)'
    BY <1>0, <1>1, <1>7 DEF PartOf, Waiting, Busy
  <1>8. JobCounted'
    BY <1>1, <1>6, <1>7 DEF JobCounted
  <1> QED
    BY <1>3, <1>4, <1>5, <1>8

\* The caller's own part, and the end of the call, when nobody owes a part.
LEMMA CallerPartStep == PoolInv /\ (OwnPart \/ Return) => PoolInv'
  <1> SUFFICES ASSUME PoolInv, OwnPart \/ Return
               PROVE  PoolInv'
    OBVIOUS
  <1> USE DEF PoolInv, PoolTypeOK, Phases, InRun
  <1>1. CASE OwnPart
    <2>1. /\ caller = "working" /\ caller' = "spinning"
          /\ UNCHANGED <<size, quit, gen, job, left, worker>>
          /\ done' \in [0 .. Count -> Nat] /\ done'[0] = done[0] + 1
          /\ \A w \in Worker : done'[w] = done[w]
      BY <1>1 DEF OwnPart
    <2>2. PoolTypeOK' /\ PoolWhole' /\ AllSeen'
      BY <2>1 DEF PoolWhole, AllSeen
    <2>3. Owing' = Owing
      BY <2>1 DEF Owing
    <2>4. \A w \in Worker : PartOf(w)'
      BY <2>1 DEF JobCounted, PartOf
    <2>5. JobCounted'
      BY <2>1, <2>3, <2>4 DEF JobCounted
    <2> QED
      BY <2>2, <2>5
  <1>2. CASE Return
    <2>1. Owing = {}
      BY <1>2, OwingFinite, FS_EmptySet DEF Return, JobCounted
    <2>2. \A w \in Worker : worker[w].pc \in Waiting /\ worker[w].seen = gen
      BY <1>2, <2>1 DEF Return, JobCounted, PartOf, Owing
    <2>3. PoolTypeOK' /\ JobCounted'
      BY <1>2 DEF Return, JobCounted
    <2>4. PoolWhole'
      BY <1>2, <2>2 DEF Return, PoolWhole, Waiting
    <2>5. AllSeen'
      BY <1>2, <2>2 DEF Return, AllSeen, Waiting, Busy
    <2> QED
      BY <2>3, <2>4, <2>5
  <1> QED
    BY <1>1, <1>2

\* The pool is stopped.
LEMMA StopStep == PoolInv /\ (StopWorkers \/ Joined) => PoolInv'
  <1> SUFFICES ASSUME PoolInv, StopWorkers \/ Joined
               PROVE  PoolInv'
    OBVIOUS
  <1> USE DEF PoolInv, PoolTypeOK, Phases, InRun
  <1>1. CASE StopWorkers
    BY <1>1 DEF StopWorkers, PoolWhole, AllSeen, JobCounted
  <1>2. CASE Joined
    <2>1. PoolTypeOK'
      BY <1>2 DEF Joined, NoThread, Thread
    <2>2. PoolWhole' /\ AllSeen' /\ JobCounted'
      BY <1>2 DEF Joined, NoThread, PoolWhole, AllSeen, JobCounted, Waiting, Busy
    <2> QED
      BY <2>1, <2>2
  <1> QED
    BY <1>1, <1>2

\* A worker looks: it leaves, sleeps, or takes the job it has not seen.
LEMMA LookStep == ASSUME NEW w \in Worker, PoolInv, Look(w) PROVE PoolInv'
  <1> USE DEF PoolInv, PoolTypeOK, Phases, InRun
  <1>1. /\ worker[w].pc = "awake" /\ UNCHANGED <<caller, size, quit, gen, job, left, done>>
        /\ worker[w] \in Thread /\ worker' \in [Worker -> Thread]
        /\ \A v \in Worker \ {w} : worker'[v] = worker[v]
    <2>1. \A t \in Thread : /\ [t EXCEPT !.pc = "exited"] \in Thread
                            /\ [t EXCEPT !.pc = "asleep"] \in Thread
      BY DEF Thread, Waiting
    <2>2. [pc |-> "working", seen |-> gen, job |-> job, parts |-> size + 1] \in Thread
      BY DEF Thread, Busy
    <2> QED
      BY <2>1, <2>2 DEF Look
  <1>2. CASE quit
    <2>1. /\ caller \in {"stopped", "quitting", "joining"}
          /\ worker'[w].pc = "exited"
      BY <1>2, <1>1 DEF Look, PoolWhole
    <2>2. PoolWhole' /\ AllSeen' /\ JobCounted'
      BY <1>1, <2>1 DEF PoolWhole, AllSeen, JobCounted, Waiting, Busy
    <2> QED
      BY <1>1, <2>2
  <1>3. CASE ~quit /\ gen = worker[w].seen
    <2>1. /\ worker'[w].pc = "asleep" /\ worker'[w].seen = gen
      BY <1>1, <1>3 DEF Look, Thread
    <2>2. PoolWhole'
      <3>1. \A v \in Worker : /\ worker[v].pc = "none" <=> worker'[v].pc = "none"
                              /\ worker[v].pc = "exited" <=> worker'[v].pc = "exited"
        BY <1>1, <2>1
      <3>2. caller \in {"starting", "growing"} =>
                size + 1 \in Worker /\ 1 .. size \subseteq Worker
        BY DEF PoolWhole
      <3> QED
        BY <1>1, <3>1, <3>2 DEF PoolWhole
    <2>6. AllSeen'
      BY <1>1, <1>3, <2>1 DEF AllSeen, Waiting, Busy
    <2>3. Owing' = Owing
      BY <1>1, <1>3, <2>1 DEF Owing, Busy
    <2>4. ASSUME NEW v \in Worker, PartOf(v)
          PROVE  PartOf(v)'
      BY <1>1, <1>3, <2>1, <2>4 DEF PartOf, Waiting, Busy
    <2>5. JobCounted'
      BY <1>1, <2>3, <2>4 DEF JobCounted
    <2> QED
      BY <1>1, <2>2, <2>5, <2>6
  <1>4. CASE ~quit /\ gen # worker[w].seen
    <2>1. worker'[w] = [pc |-> "working", seen |-> gen, job |-> job, parts |-> size + 1]
      BY <1>1, <1>4 DEF Look
    <2>2. caller \in InRun \cup {"stopped"} /\ (caller = "stopped" => FALSE)
      BY <1>1, <1>4 DEF AllSeen, Waiting
    <2>3. size = Count /\ job = gen
      BY <2>2 DEF PoolWhole, JobCounted
    <2>4. PoolWhole' /\ AllSeen'
      BY <1>1, <2>1, <2>2 DEF PoolWhole, AllSeen
    <2>5. Owing' = Owing
      BY <1>1, <1>4, <2>1 DEF Owing, Busy
    <2>6. PartOf(w)'
      BY <1>1, <1>4, <2>1, <2>2, <2>3 DEF JobCounted, PartOf, Busy
    <2>7. \A v \in Worker \ {w} : PartOf(v)'
      BY <1>1, <2>2 DEF JobCounted, PartOf
    <2>8. JobCounted'
      BY <1>1, <2>2, <2>5, <2>6, <2>7 DEF JobCounted
    <2> QED
      BY <1>1, <2>4, <2>8
  <1> QED
    BY <1>2, <1>3, <1>4

\* A worker runs its part, once.
LEMMA WorkStep == ASSUME NEW w \in Worker, PoolInv, Work(w) PROVE PoolInv'
  <1> USE DEF PoolInv, PoolTypeOK, Phases, InRun
  <1>1. /\ worker[w].pc = "working" /\ worker[w] \in Thread
        /\ UNCHANGED <<caller, size, quit, gen, job, left>>
        /\ worker' \in [Worker -> Thread] /\ done' \in [0 .. Count -> Nat]
        /\ worker'[w].pc = "counting" /\ worker'[w].seen = worker[w].seen
        /\ done'[w] = done[w] + 1 /\ done'[0] = done[0]
        /\ \A v \in Worker \ {w} : worker'[v] = worker[v] /\ done'[v] = done[v]
    <2>1. \A t \in Thread : [t EXCEPT !.pc = "counting"] \in Thread
      BY DEF Thread, Busy
    <2>2. /\ worker[w].pc = "working" /\ worker[w] \in Thread
          /\ worker' = [worker EXCEPT ![w] = [worker[w] EXCEPT !.pc = "counting"]]
          /\ done' = [done EXCEPT ![w] = done[w] + 1]
          /\ w \in 0 .. Count /\ w # 0 /\ 0 \in 0 .. Count
      BY DEF Work
    <2>3. done' \in [0 .. Count -> Nat]
      BY <2>2
    <2>4. worker' \in [Worker -> Thread] /\ worker'[w].pc = "counting"
      BY <2>1, <2>2 DEF Thread
    <2>5. worker'[w].seen = worker[w].seen
      BY <2>2 DEF Thread
    <2>6. /\ done'[w] = done[w] + 1 /\ done'[0] = done[0]
          /\ \A v \in Worker \ {w} : worker'[v] = worker[v] /\ done'[v] = done[v]
      BY <2>2
    <2> QED
      BY <2>2, <2>3, <2>4, <2>5, <2>6 DEF Work
  <1>2. caller \in InRun
    BY <1>1 DEF AllSeen, Busy
  <1>3. PoolWhole' /\ AllSeen'
    BY <1>1, <1>2 DEF PoolWhole, AllSeen
  <1>4. Owing' = Owing
    BY <1>1 DEF Owing, Busy
  <1>5. PartOf(w)'
    BY <1>1, <1>2 DEF JobCounted, PartOf, Busy
  <1>6. \A v \in Worker \ {w} : PartOf(v)'
    BY <1>1, <1>2 DEF JobCounted, PartOf
  <1>7. JobCounted'
    BY <1>1, <1>2, <1>4, <1>5, <1>6 DEF JobCounted
  <1> QED
    BY <1>1, <1>3, <1>7

\* A worker counts itself out of those that owe a part.
LEMMA CountDownStep == ASSUME NEW w \in Worker, PoolInv, CountDown(w) PROVE PoolInv'
  <1> USE DEF PoolInv, PoolTypeOK, Phases, InRun
  <1>1. /\ worker[w].pc = "counting" /\ worker[w] \in Thread
        /\ UNCHANGED <<caller, size, quit, gen, job, done>> /\ left' = left - 1
        /\ worker' \in [Worker -> Thread]
        /\ worker'[w].pc = "awake" /\ worker'[w].seen = worker[w].seen
        /\ \A v \in Worker \ {w} : worker'[v] = worker[v]
    BY DEF CountDown, Thread, Waiting
  <1>2. caller \in InRun
    BY <1>1 DEF AllSeen, Busy
  <1>3. PoolTypeOK' /\ PoolWhole' /\ AllSeen'
    BY <1>1, <1>2 DEF PoolWhole, AllSeen
  <1>4. worker[w].seen = gen /\ w \in Owing
    BY <1>1, <1>2 DEF JobCounted, PartOf, Owing, Busy
  <1>5. Owing' = Owing \ {w}
    BY <1>1, <1>4 DEF Owing, Busy
  <1>6. Cardinality(Owing') = Cardinality(Owing) - 1
    BY <1>4, <1>5, OwingFinite, FS_RemoveElement
  <1>7. PartOf(w)'
    BY <1>1, <1>2 DEF JobCounted, PartOf, Busy, Waiting
  <1>8. \A v \in Worker \ {w} : PartOf(v)'
    BY <1>1, <1>2 DEF JobCounted, PartOf
  <1>9. JobCounted'
    BY <1>1, <1>2, <1>6, <1>7, <1>8 DEF JobCounted
  <1> QED
    BY <1>3, <1>9

LEMMA PoolStep == PoolInv /\ [Next]_vars => PoolInv'
  <1> SUFFICES ASSUME PoolInv, [Next]_vars
               PROVE  PoolInv'
    OBVIOUS
  <1>1. CASE StartWorkers \/ Spawn \/ Grow
    BY <1>1, StartStep
  <1>2. CASE Run \/ Post
    BY <1>2, PostStep
  <1>3. CASE Notify \/ NotifyQuit \/ \E w \in Worker : WakeAnyway(w)
    BY <1>3, WakeStep
  <1>4. CASE OwnPart \/ Return
    BY <1>4, CallerPartStep
  <1>5. CASE StopWorkers \/ Joined
    BY <1>5, StopStep
  <1>6. CASE \E w \in Worker : WorkerStep(w)
    BY <1>6, LookStep, WorkStep, CountDownStep DEF WorkerStep
  <1>7. CASE UNCHANGED vars
    BY <1>7 DEF vars, PoolInv, PoolTypeOK, PoolWhole, AllSeen, JobCounted, PartOf, Owing
  <1> QED
    BY <1>1, <1>2, <1>3, <1>4, <1>5, <1>6, <1>7 DEF Next, CallerStep

-----------------------------------------------------------------------------
(* Theorems *)

LEMMA PoolInvariant == Spec => []PoolInv
  BY InitPool, PoolStep, PTL DEF Spec

\* The counter never goes below zero, and is what the caller waits for: outside a job no
\* worker is in one (lines 147-156).
CounterTrue ==
    /\ caller \in InRun => left = Cardinality(Owing)
    /\ caller \notin InRun => \A w \in Worker : worker[w].pc \notin Busy

\* Whatever the number of workers, their counter is the number of those that owe a part.
THEOREM WorkersCounted == Spec => []CounterTrue
  <1>1. PoolInv => CounterTrue
    BY DEF PoolInv, JobCounted, AllSeen, CounterTrue
  <1> QED
    BY <1>1, PoolInvariant, PTL

\* No worker runs a function that is gone, and a call returns when every part was run once,
\* for any number of workers, jobs, starts and stops.
THEOREM JobsRunWhole == Spec => []JobsWhole
  <1>1. PoolInv => JobsWhole
    <2> SUFFICES ASSUME PoolInv
                 PROVE  JobsWhole
      OBVIOUS
    <2> USE DEF PoolInv, PoolTypeOK
    <2>1. ASSUME NEW w \in Worker, worker[w].pc = "working"
          PROVE  caller \in InRun /\ worker[w].job = gen /\ worker[w].parts = Count + 1
      BY <2>1 DEF AllSeen, JobCounted, PartOf, Busy
    <2>2. ASSUME caller = "spinning", left = 0
          PROVE  /\ \A part \in 0 .. Count : done[part] = 1
                 /\ \A w \in Worker : worker[w].pc \notin {"working", "counting"}
      <3>1. caller \in InRun
        BY <2>2 DEF InRun
      <3>2. Owing = {}
        BY <2>2, <3>1, OwingFinite, FS_EmptySet DEF JobCounted
      <3>3. \A w \in Worker : worker[w].pc \in Waiting /\ worker[w].seen = gen /\ PartOf(w)
        BY <3>1, <3>2 DEF JobCounted, PartOf, Owing
      <3>4. \A w \in Worker : done[w] = 1
        BY <3>3 DEF PartOf, Waiting
      <3>5. done[0] = 1
        BY <2>2, <3>1 DEF JobCounted
      <3> QED
        BY <3>3, <3>4, <3>5 DEF Waiting
    <2> QED
      BY <2>1, <2>2 DEF JobsWhole
  <1> QED
    BY <1>1, PoolInvariant, PTL

=============================================================================
