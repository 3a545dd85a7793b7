------------------------------- MODULE ThreadPool -------------------------------
(***************************************************************************)
(* TC_ThreadPool: a job queue, worker threads, a thread that starts, stops *)
(* and re-initialises the pool, and one in waitForAllDone.                 *)
(*                                                                         *)
(* A step is a critical section of _tmutex, of a queue's own lock or of    *)
(* neither; the waiter holds _tmutex over its three checks, which look at  *)
(* the queues under other locks.  All waiting in this code is with a       *)
(* time-out of a second, so a lost notification only delays.               *)
(***************************************************************************)
EXTENDS Integers, Sequences, FiniteSets, Functions

CONSTANTS
  NWorkers,    \* _jobthread.size()
  Jobs,        \* the functors given to exec, each once
  MaxCalls,    \* calls of start, stop, init in all (bound)
  MaxWaits,    \* calls of waitForAllDone in all (bound)
  None

ASSUME NWorkersAssumption == NWorkers \in Nat \ {0}
ASSUME BoundsAssumption == MaxCalls \in Nat /\ MaxWaits \in Nat
ASSUME NoneAssumption == None \notin Jobs

Workers == 1 .. NWorkers

VARIABLES
  jobq,      \* _jobqueue
  startq,    \* the number of functors in _startqueue
  busy,      \* _busthread
  term,      \* ThreadWorker::_bTerminate
  pc,        \* where each worker is; "none": its thread is not running
  hand,      \* the job a worker has taken and not finished
  ctl,       \* the thread that starts and stops the pool
  waiter,    \* the thread in waitForAllDone
  execed,    \* jobs given to exec so far
  late,      \* those given to it while it was being stopped or not running
  done,      \* jobs that have run
  dropped    \* jobs cleared from the queue

vars == <<jobq, startq, busy, term, pc, hand, ctl, waiter, execed, late, done, dropped>>
ghosts == <<execed, late, done, dropped>>

WorkerPc == {"none", "begin", "functor", "loop", "get", "popped", "running", "ran", "exit"}

Controller == [pc : {"idle", "start", "stop", "join", "clear"}, w : 1 .. NWorkers + 1,
               init : BOOLEAN, calls : 0 .. MaxCalls]

WaitingThread ==
  [pc : {"idle", "start", "jobs", "busy", "wait", "true", "false"},
   timed : BOOLEAN, last : BOOLEAN, owed : SUBSET Jobs, calls : 0 .. MaxWaits]

TypeOK ==
  /\ jobq \in Seq(Jobs)
  /\ startq \in 0 .. NWorkers
  /\ busy \subseteq Workers
  /\ term \in [Workers -> BOOLEAN]
  /\ pc \in [Workers -> WorkerPc]
  /\ hand \in [Workers -> Jobs \cup {None}]
  /\ ctl \in Controller /\ waiter \in WaitingThread
  /\ execed \subseteq Jobs /\ late \subseteq execed
  /\ done \subseteq execed /\ dropped \subseteq execed

(* init(num) has been called: the workers exist and none is running.       *)
Init ==
  /\ jobq = <<>>
  /\ startq = 0
  /\ busy = {}
  /\ term = [w \in Workers |-> FALSE]
  /\ pc = [w \in Workers |-> "none"]
  /\ hand = [w \in Workers |-> None]
  /\ ctl = [pc |-> "idle", w |-> 1, init |-> FALSE, calls |-> 0]
  /\ waiter = [pc |-> "idle", timed |-> FALSE, last |-> FALSE, owed |-> {}, calls |-> 0]
  /\ execed = {} /\ late = {} /\ done = {} /\ dropped = {}

isAlive(w) == pc[w] # "none"

(* The waiter is in the critical section of _tmutex.                       *)
Locked == waiter.pc \in {"start", "jobs", "busy"}

-----------------------------------------------------------------------------
Stopping == ctl.pc \in {"stop", "join"}

exec(j) ==
  /\ j \notin execed
  /\ jobq' = Append(jobq, j)
  /\ execed' = execed \cup {j}
  /\ late' = IF Stopping \/ \A w \in Workers : ~isAlive(w) THEN late \cup {j} ELSE late
  /\ UNCHANGED <<startq, busy, term, pc, hand, ctl, waiter, done, dropped>>

-----------------------------------------------------------------------------
(***************************************************************************)
(* ThreadWorker::run.                                                      *)
(***************************************************************************)
Goto(w, p) == pc' = [pc EXCEPT ![w] = p]

(* Mutant: the queue is not tested for being empty. *)
TakeStartUnchecked(w) ==
  /\ pc[w] = "begin"
  /\ startq' = startq - 1 /\ Goto(w, "functor")
  /\ UNCHANGED <<jobq, busy, term, hand, ctl, waiter, ghosts>>

(* get(), which does not block: the functor for the start, if there is one.*)
TakeStart(w) ==
  /\ pc[w] = "begin"
  /\ IF startq > 0 THEN startq' = startq - 1 /\ Goto(w, "functor")
                   ELSE Goto(w, "loop") /\ UNCHANGED startq
  /\ UNCHANGED <<jobq, busy, term, hand, ctl, waiter, ghosts>>

RunStart(w) ==
  /\ pc[w] = "functor"
  /\ Goto(w, "loop")
  /\ UNCHANGED <<jobq, startq, busy, term, hand, ctl, waiter, ghosts>>

CheckTerminate(w) ==
  /\ pc[w] = "loop"
  /\ Goto(w, IF term[w] THEN "exit" ELSE "get")
  /\ UNCHANGED <<jobq, startq, busy, term, hand, ctl, waiter, ghosts>>

(* Mutant: the job is read and stays in the queue. *)
PopReads(w) ==
  /\ pc[w] = "get"
  /\ IF jobq = <<>>
       THEN Goto(w, "loop") /\ UNCHANGED hand
       ELSE hand' = [hand EXCEPT ![w] = Head(jobq)] /\ Goto(w, "popped")
  /\ UNCHANGED <<jobq, startq, busy, term, ctl, waiter, ghosts>>

(* pop_front, with or without a job at the end of its wait.                *)
Pop(w) ==
  /\ pc[w] = "get"
  /\ IF jobq = <<>>
       THEN Goto(w, "loop") /\ UNCHANGED <<jobq, hand>>
       ELSE /\ hand' = [hand EXCEPT ![w] = Head(jobq)]
            /\ jobq' = Tail(jobq)
            /\ Goto(w, "popped")
  /\ UNCHANGED <<startq, busy, term, ctl, waiter, ghosts>>

(* Mutant: the worker is not entered in _busthread. *)
SetBusyUnentered(w) ==
  /\ pc[w] = "popped" /\ ~Locked
  /\ Goto(w, "running")
  /\ UNCHANGED <<jobq, startq, busy, term, hand, ctl, waiter, ghosts>>

SetBusy(w) ==
  /\ pc[w] = "popped" /\ ~Locked
  /\ busy' = busy \cup {w}
  /\ Goto(w, "running")
  /\ UNCHANGED <<jobq, startq, term, hand, ctl, waiter, ghosts>>

(* The job returns or throws, which is caught.                             *)
Run(w) ==
  /\ pc[w] = "running"
  /\ done' = done \cup {hand[w]}
  /\ hand' = [hand EXCEPT ![w] = None]
  /\ Goto(w, "ran")
  /\ UNCHANGED <<jobq, startq, busy, term, ctl, waiter, execed, late, dropped>>

idle(w) ==
  /\ pc[w] = "ran" /\ ~Locked
  /\ busy' = busy \ {w}
  /\ Goto(w, "loop")
  /\ UNCHANGED <<jobq, startq, term, hand, ctl, waiter, ghosts>>

(* Mutant: the jobs are left in the queue. *)
exitLeaves(w) ==
  /\ pc[w] = "exit"
  /\ Goto(w, "none")
  /\ UNCHANGED <<jobq, startq, busy, term, hand, ctl, waiter, ghosts>>

(* exit clears the job queue, whoever else is still working on it.         *)
exit(w) ==
  /\ pc[w] = "exit"
  /\ dropped' = dropped \cup Range(jobq)
  /\ jobq' = <<>>
  /\ Goto(w, "none")
  /\ UNCHANGED <<startq, busy, term, hand, ctl, waiter, execed, late, done>>

-----------------------------------------------------------------------------
(***************************************************************************)
(* init, start and stop, called by one thread.  start is called only when  *)
(* no worker is running (TC_Thread::start throws otherwise); after stop    *)
(* without init _bTerminate is still set.                                  *)
(***************************************************************************)
Call == ctl.pc = "idle" /\ ctl.calls < MaxCalls

start ==
  /\ Call /\ \A w \in Workers : ~isAlive(w)
  /\ startq' \in {startq, NWorkers}
  /\ ctl' = [ctl EXCEPT !.pc = "start", !.w = 1, !.calls = @ + 1]
  /\ UNCHANGED <<jobq, busy, term, pc, hand, waiter, ghosts>>

StartThread ==
  /\ ctl.pc = "start"
  /\ IF ctl.w > NWorkers
       THEN ctl' = [ctl EXCEPT !.pc = "idle", !.w = 1] /\ UNCHANGED pc
       ELSE Goto(ctl.w, "begin") /\ ctl' = [ctl EXCEPT !.w = @ + 1]
  /\ UNCHANGED <<jobq, startq, busy, term, hand, waiter, ghosts>>

stop ==
  /\ Call
  /\ \E init \in BOOLEAN :
       ctl' = [pc |-> "stop", w |-> 1, init |-> init, calls |-> ctl.calls + 1]
  /\ late' = IF \E w \in Workers : isAlive(w) THEN {} ELSE late
  /\ UNCHANGED <<jobq, startq, busy, term, pc, hand, waiter, execed, done, dropped>>

(* Mutant: the worker is joined and not told. *)
StopThreadUntold ==
  /\ ctl.pc = "stop"
  /\ IF ctl.w > NWorkers
       THEN ctl' = [ctl EXCEPT !.pc = IF ctl.init THEN "clear" ELSE "idle", !.w = 1]
       ELSE IF isAlive(ctl.w) THEN ctl' = [ctl EXCEPT !.pc = "join"]
       ELSE ctl' = [ctl EXCEPT !.w = @ + 1]
  /\ UNCHANGED <<jobq, startq, busy, term, pc, hand, waiter, ghosts>>

StopThread ==
  /\ ctl.pc = "stop"
  /\ IF ctl.w > NWorkers
       THEN /\ ctl' = [ctl EXCEPT !.pc = IF ctl.init THEN "clear" ELSE "idle", !.w = 1]
            /\ UNCHANGED term
       ELSE IF isAlive(ctl.w)
       THEN term' = [term EXCEPT ![ctl.w] = TRUE] /\ ctl' = [ctl EXCEPT !.pc = "join"]
       ELSE ctl' = [ctl EXCEPT !.w = @ + 1] /\ UNCHANGED term
  /\ UNCHANGED <<jobq, startq, busy, pc, hand, waiter, ghosts>>

(* Mutant: stop tells the workers to end and does not wait for them. *)
JoinAtOnce ==
  /\ ctl.pc = "join"
  /\ ctl' = [ctl EXCEPT !.pc = "stop", !.w = @ + 1]
  /\ UNCHANGED <<jobq, startq, busy, term, pc, hand, waiter, ghosts>>

Join ==
  /\ ctl.pc = "join" /\ ~isAlive(ctl.w)
  /\ ctl' = [ctl EXCEPT !.pc = "stop", !.w = @ + 1]
  /\ UNCHANGED <<jobq, startq, busy, term, pc, hand, waiter, ghosts>>

(* init deletes the old workers and makes new ones.                        *)
clear ==
  /\ ctl.pc = "clear"
  /\ ctl' = [ctl EXCEPT !.pc = "idle"]
  /\ busy' = {}
  /\ term' = [w \in Workers |-> FALSE]
  /\ UNCHANGED <<jobq, startq, pc, hand, waiter, ghosts>>

-----------------------------------------------------------------------------
(***************************************************************************)
(* waitForAllDone, for ever or for a time, and the three parts of finish.  *)
(***************************************************************************)
Outstanding == execed \ (done \cup dropped)

waitForAllDone ==
  /\ waiter.pc = "idle" /\ waiter.calls < MaxWaits
  /\ \E timed \in BOOLEAN :
       waiter' = [pc |-> "start", timed |-> timed, last |-> FALSE,
                  owed |-> Outstanding, calls |-> waiter.calls + 1]
  /\ UNCHANGED <<jobq, startq, busy, term, pc, hand, ctl, ghosts>>

Check(at, empty, next) ==
  /\ waiter.pc = at
  /\ waiter' = [waiter EXCEPT !.pc = IF empty THEN next
                                     ELSE IF waiter.last THEN "false" ELSE "wait"]
  /\ UNCHANGED <<jobq, startq, busy, term, pc, hand, ctl, ghosts>>

finish ==
  \/ Check("start", startq = 0, "jobs")
  \/ Check("jobs", jobq = <<>>, "busy")
  \/ Check("busy", busy = {}, "true")

WaitEnds ==
  /\ waiter.pc = "wait"
  /\ \E last \in {FALSE, waiter.timed} :
       waiter' = [waiter EXCEPT !.pc = "start", !.last = last]
  /\ UNCHANGED <<jobq, startq, busy, term, pc, hand, ctl, ghosts>>

WaitReturns ==
  /\ waiter.pc \in {"true", "false"}
  /\ waiter' = [waiter EXCEPT !.pc = "idle", !.last = FALSE, !.timed = FALSE, !.owed = {}]
  /\ UNCHANGED <<jobq, startq, busy, term, pc, hand, ctl, ghosts>>

-----------------------------------------------------------------------------
Worker(w) ==
  \/ TakeStart(w) \/ RunStart(w) \/ CheckTerminate(w) \/ Pop(w)
  \/ SetBusy(w) \/ Run(w) \/ idle(w) \/ exit(w)

Control == StartThread \/ StopThread \/ Join \/ clear

Waiter == finish \/ WaitEnds \/ WaitReturns

Next ==
  \/ \E j \in Jobs : exec(j)
  \/ \E w \in Workers : Worker(w)
  \/ start \/ stop \/ Control
  \/ waitForAllDone \/ Waiter

Spec == Init /\ [][Next]_vars

(***************************************************************************)
(* Threads that can run do, jobs end, and a worker that waits for _tmutex  *)
(* gets it although the waiter takes it again every second.                *)
(***************************************************************************)
Fairness ==
  /\ \A w \in Workers : WF_vars(Worker(w)) /\ SF_vars(SetBusy(w)) /\ SF_vars(idle(w))
  /\ WF_vars(Control)
  /\ WF_vars(Waiter)

FairSpec == Spec /\ Fairness

-----------------------------------------------------------------------------
(***************************************************************************)
(* Properties.                                                             *)
(***************************************************************************)

(* When stop has returned no worker runs a job or will ever finish one,    *)
(* _busthread is empty, and nothing is left in the queue but what was put  *)
(* there after stop was called: waitForAllDone after stop returns.         *)
StopIsComplete ==
  (ctl.pc = "clear" \/ (ctl.pc = "idle" /\ \A w \in Workers : ~isAlive(w))) =>
    /\ busy = {} /\ \A w \in Workers : hand[w] = None
    /\ Range(jobq) \subseteq late

Held == {hand[w] : w \in Workers} \ {None}

(* No job is lost, run twice or both run and dropped: one that has been    *)
(* given to exec is in exactly one place.                                  *)
JobInOnePlace ==
  /\ IsInjective(jobq)
  /\ \A v, w \in Workers : hand[v] = hand[w] /\ hand[v] # None => v = w
  /\ execed = Range(jobq) \cup Held \cup done \cup dropped
  /\ Range(jobq) \cap Held = {}
  /\ (Range(jobq) \cup Held) \cap done = {}
  /\ (Range(jobq) \cup Held \cup done) \cap dropped = {}

Returns(b) == waiter.pc # b /\ waiter'.pc = b

(* waitForAllDone answers true with a job unfinished only in one window:   *)
(* the job has been popped and its worker is not yet in _busthread.        *)
WaitMissesOnlyHandoff ==
  [][Returns("true") =>
       waiter.owed \cap Outstanding \subseteq {hand[w] : w \in {v \in Workers : pc[v] = "popped"}}]_vars

(* A job of a pool that has a running worker is run, or dropped because    *)
(* the pool is stopped.                                                    *)
EveryJobLeaves ==
  \A j \in Jobs :
    (j \in Range(jobq) /\ \E w \in Workers : isAlive(w)) ~> j \in done \cup dropped

(* stop, which joins the workers one by one under the pool's lock, returns.*)
StopReturns == Stopping ~> ctl.pc = "idle"

-----------------------------------------------------------------------------
(* A worker holds a job, and is entered in _busthread, at its own steps.   *)
WorkersKnow ==
  \A w \in Workers :
    /\ hand[w] # None <=> pc[w] \in {"popped", "running"}
    /\ w \in busy <=> pc[w] \in {"running", "ran"}

(* start and stop go through the workers in order.                         *)
ControlKnows ==
  /\ ctl.pc = "start" => \A w \in Workers : w >= ctl.w => ~isAlive(w)
  /\ ctl.pc \in {"stop", "join"} => \A w \in Workers : w < ctl.w => ~isAlive(w)
  /\ ctl.pc = "join" => ctl.w \in Workers
  /\ ctl.pc = "clear" => \A w \in Workers : ~isAlive(w)

(* Inductive.                                                              *)
IndInv ==
  /\ TypeOK
  /\ JobInOnePlace
  /\ WorkersKnow
  /\ ControlKnows
  /\ (\A w \in Workers : ~isAlive(w)) => Range(jobq) \subseteq late
  /\ waiter.owed \subseteq execed
  /\ waiter.pc = "busy" => waiter.owed \cap Range(jobq) = {}
==============================================================================
