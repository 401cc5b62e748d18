----------------------------- MODULE WorkerPool -----------------------------
(***************************************************************************)
(* The threads that split the copying of the host's savestates             *)
(* (runtime/hle/native_savestate.cpp: start_workers, run, stop_workers).   *)
(* The thread that calls the engine is the caller; it takes part 0 of each *)
(* job and worker w takes part w.  A job is the caller's own function      *)
(* object: it is gone when run() returns.                                  *)
(*                                                                         *)
(* What is done under the mutex is one step; the job counter is atomic.  A *)
(* job of fewer than 256 items, and every job where there is no worker, is *)
(* run by the caller alone and is not seen here.                           *)
(*                                                                         *)
(* A definition marked "a mutant" is wrong on purpose: a slip the code     *)
(* could have, which one of the properties must catch.  No action uses it. *)
(***************************************************************************)
EXTENDS Integers

CONSTANTS
    Count,     \* workers started: 1 or 3
    MaxRuns    \* bound: jobs over all

ASSUME WorkerPoolAssumption == Count \in Nat \ {0} /\ MaxRuns \in Nat

Worker == 1 .. Count

VARIABLES
    caller,    \* where the calling thread is
    size,      \* workers_.size()
    quit,      \* quit_
    gen,       \* job_gen_
    job,       \* job_: the generation the function belongs to, 0 for none
    left,      \* job_left_
    worker,    \* by worker: where it is, and what it has read
    done       \* by part, how often the last job's was run

vars == <<caller, size, quit, gen, job, left, worker, done>>

NoThread == [pc |-> "none", seen |-> 0, job |-> 0, parts |-> 0]

\* notify_all()
Woken == [w \in Worker |->
             IF worker[w].pc = "asleep" THEN [worker[w] EXCEPT !.pc = "awake"] ELSE worker[w]]

-----------------------------------------------------------------------------
(* The caller *)

StartWorkers ==
    /\ caller = "stopped"
    /\ caller' = "starting" /\ quit' = FALSE
    /\ UNCHANGED <<size, gen, job, left, worker, done>>

\* The generation a new worker takes as seen.
FirstSeenZero == 0                                             \* a mutant
FirstSeen == gen

\* The thread runs before the vector it goes into has grown.
Spawn ==
    /\ caller = "starting" /\ size < Count
    /\ worker' = [worker EXCEPT ![size + 1] =
                     [NoThread EXCEPT !.pc = "awake", !.seen = FirstSeen]]
    /\ caller' = "growing"
    /\ UNCHANGED <<size, quit, gen, job, left, done>>

Grow ==
    /\ caller = "growing"
    /\ size' = size + 1
    /\ caller' = IF size + 1 < Count THEN "starting" ELSE "ready"
    /\ UNCHANGED <<quit, gen, job, left, worker, done>>

\* run()
Run ==
    /\ caller = "ready" /\ gen < MaxRuns
    /\ caller' = "posting" /\ left' = size
    /\ done' = [part \in 0 .. Count |-> 0]
    /\ UNCHANGED <<size, quit, gen, job, worker>>

Post ==
    /\ caller = "posting"
    /\ caller' = "notifying" /\ gen' = gen + 1 /\ job' = gen + 1
    /\ UNCHANGED <<size, quit, left, worker, done>>

NotifyNobody ==                                                \* a mutant
    /\ caller = "notifying"
    /\ caller' = "working"
    /\ UNCHANGED <<size, quit, gen, job, left, worker, done>>
Notify ==
    /\ caller = "notifying"
    /\ caller' = "working" /\ worker' = Woken
    /\ UNCHANGED <<size, quit, gen, job, left, done>>

OwnPart ==
    /\ caller = "working"
    /\ caller' = "spinning" /\ done' = [done EXCEPT ![0] = @ + 1]
    /\ UNCHANGED <<size, quit, gen, job, left, worker>>

Return ==
    /\ caller = "spinning" /\ left = 0
    /\ caller' = "ready"
    /\ UNCHANGED <<size, quit, gen, job, left, worker, done>>

\* stop_workers()
StopWorkers ==
    /\ caller = "ready"
    /\ caller' = "quitting" /\ quit' = TRUE
    /\ UNCHANGED <<size, gen, job, left, worker, done>>

NotifyQuit ==
    /\ caller = "quitting"
    /\ caller' = "joining" /\ worker' = Woken
    /\ UNCHANGED <<size, quit, gen, job, left, done>>

Joined ==
    /\ caller = "joining" /\ \A w \in 1 .. size : worker[w].pc = "exited"
    /\ caller' = "stopped" /\ size' = 0 /\ job' = 0
    /\ worker' = [w \in Worker |-> NoThread]
    /\ UNCHANGED <<quit, gen, left, done>>

-----------------------------------------------------------------------------
(* A worker *)

\* The wait's condition, and what is read under the same lock.
Look(w) ==
    /\ worker[w].pc = "awake"
    /\ worker' = [worker EXCEPT ![w] =
           IF quit THEN [@ EXCEPT !.pc = "exited"]
           ELSE IF gen = @.seen THEN [@ EXCEPT !.pc = "asleep"]
           ELSE [pc |-> "working", seen |-> gen, job |-> job, parts |-> size + 1]]
    /\ UNCHANGED <<caller, size, quit, gen, job, left, done>>

\* A condition variable may wake for nothing.
WakeAnyway(w) ==
    /\ worker[w].pc = "asleep"
    /\ worker' = [worker EXCEPT ![w].pc = "awake"]
    /\ UNCHANGED <<caller, size, quit, gen, job, left, done>>

Work(w) ==
    /\ worker[w].pc = "working"
    /\ worker' = [worker EXCEPT ![w].pc = "counting"]
    /\ done' = [done EXCEPT ![w] = @ + 1]
    /\ UNCHANGED <<caller, size, quit, gen, job, left>>

CountDown(w) ==
    /\ worker[w].pc = "counting"
    /\ worker' = [worker EXCEPT ![w].pc = "awake"]
    /\ left' = left - 1
    /\ UNCHANGED <<caller, size, quit, gen, job, done>>

-----------------------------------------------------------------------------

Init ==
    /\ caller = "stopped" /\ size = 0 /\ quit = FALSE /\ gen = 0 /\ job = 0 /\ left = 0
    /\ worker = [w \in Worker |-> NoThread]
    /\ done = [part \in 0 .. Count |-> 0]

CallerStep == \/ Spawn \/ Grow \/ Post \/ Notify \/ OwnPart \/ Return \/ NotifyQuit \/ Joined
WorkerStep(w) == Look(w) \/ Work(w) \/ CountDown(w)

Next == \/ StartWorkers \/ Run \/ StopWorkers \/ CallerStep
        \/ \E w \in Worker : WorkerStep(w) \/ WakeAnyway(w)

Spec == Init /\ [][Next]_vars

\* Every thread is scheduled.  Nothing is assumed of wakes for nothing, nor that the engine
\* is used.
Fairness == WF_vars(CallerStep) /\ \A w \in Worker : WF_vars(WorkerStep(w))

FairSpec == Spec /\ Fairness

-----------------------------------------------------------------------------
(* Properties *)

InRun == {"notifying", "working", "spinning"}

\* A worker never runs a function that is gone ("every second online game crashed"), takes its
\* part of as many parts as there are threads, and when run() returns every part of the job
\* was run once, and nobody is still in it (lines 103-105, 115-124, 147-156).
JobsWhole ==
    /\ \A w \in Worker : worker[w].pc = "working" =>
          caller \in InRun /\ worker[w].job = gen /\ worker[w].parts = Count + 1
    /\ caller = "spinning" /\ left = 0 =>
          /\ \A part \in 0 .. Count : done[part] = 1
          /\ \A w \in Worker : worker[w].pc \notin {"working", "counting"}

\* Every start, job and stop comes to its end: no wake is lost between a worker's look and its
\* sleep, and no worker waits for a job that quit has made needless.
CallsReturn == (caller \notin {"ready", "stopped"}) ~> (caller \in {"ready", "stopped"})

=============================================================================
