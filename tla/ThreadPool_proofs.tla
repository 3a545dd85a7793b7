--------------------------- MODULE ThreadPool_proofs ---------------------------
(***************************************************************************)
(* Proofs about ThreadPool, for any number of workers, any set of jobs and *)
(* any number of calls: the types, where each job is, what stop leaves,    *)
(* and which jobs waitForAllDone can miss.                                 *)
(***************************************************************************)
EXTENDS ThreadPool, QueueLemmas, TLAPS

-----------------------------------------------------------------------------
(***************************************************************************)
(* The initial states and the steps, one lemma for each group of actions   *)
(* that disturb the same parts of the invariant.                           *)
(***************************************************************************)
LEMMA InitIndInv == Init => IndInv
<1> SUFFICES ASSUME Init PROVE IndInv
  OBVIOUS
<1>1. TypeOK
  BY EmptyQueue, NWorkersAssumption, BoundsAssumption DEF Init, TypeOK, WorkerPc, Controller, WaitingThread
<1>2. Held = {}
  BY DEF Init, Held
<1>3. JobInOnePlace
  BY <1>2, EmptyQueue DEF Init, JobInOnePlace
<1>4. WorkersKnow /\ ControlKnows
  BY NoneAssumption DEF Init, WorkersKnow, ControlKnows
<1> QED BY <1>1, <1>3, <1>4, EmptyQueue DEF Init, IndInv

(* Steps that move no job.                                                 *)
LEMMA SameJobs ==
  ASSUME IndInv, UNCHANGED <<jobq, hand, execed, done, dropped>>
  PROVE  JobInOnePlace'
BY DEF IndInv, JobInOnePlace, Held

(* The part of the invariant about the waiter and the jobs that are late.  *)
Rest ==
  /\ (\A w \in Workers : ~isAlive(w)) => Range(jobq) \subseteq late
  /\ waiter.owed \subseteq execed
  /\ waiter.pc = "busy" => waiter.owed \cap Range(jobq) = {}

LEMMA IndInvParts ==
  IndInv <=> TypeOK /\ JobInOnePlace /\ WorkersKnow /\ ControlKnows /\ Rest
BY DEF IndInv, Rest

LEMMA ExecStep ==
  ASSUME IndInv, NEW j \in Jobs, exec(j)
  PROVE  IndInv'
<1>1. /\ jobq \in Seq(Jobs) /\ IsInjective(jobq) /\ j \notin execed /\ jobq' = Append(jobq, j)
      /\ execed' = execed \cup {j} /\ Range(jobq) \subseteq execed
      /\ late' \in {late, late \cup {j}}
      /\ UNCHANGED <<startq, busy, term, pc, hand, ctl, waiter, done, dropped>>
  BY DEF IndInv, TypeOK, JobInOnePlace, exec
<1>2. /\ jobq' \in Seq(Jobs) /\ IsInjective(jobq') /\ Range(jobq') = Range(jobq) \cup {j}
  BY <1>1, PushedBehind
<1>3. TypeOK'
  BY <1>1, <1>2 DEF IndInv, TypeOK
<1>4. JobInOnePlace'
  BY <1>1, <1>2 DEF IndInv, JobInOnePlace, Held
<1>5. WorkersKnow' /\ ControlKnows'
  BY <1>1 DEF IndInv, WorkersKnow, ControlKnows, isAlive
<1>6. Rest'
  <2>1. (\A w \in Workers : ~isAlive(w)) => late' = late \cup {j}
    BY DEF exec
  <2> QED BY <1>1, <1>2, <2>1 DEF IndInv, Rest, isAlive
<1> QED BY <1>3, <1>4, <1>5, <1>6, IndInvParts, PTL

(* A step of worker w that leaves the jobs alone.                          *)
LEMMA WorkerStep ==
  ASSUME IndInv, NEW w \in Workers,
         TakeStart(w) \/ RunStart(w) \/ CheckTerminate(w) \/ SetBusy(w) \/ idle(w)
  PROVE  IndInv'
<1>1. /\ UNCHANGED <<jobq, term, hand, ctl, waiter, ghosts>>
      /\ pc[w] # "none" /\ pc'[w] # "none"
      /\ \A v \in Workers \ {w} : pc'[v] = pc[v]
      /\ pc \in [Workers -> WorkerPc]
  BY DEF IndInv, TypeOK, TakeStart, RunStart, CheckTerminate, SetBusy, idle, Goto
<1>2. TypeOK'
  BY <1>1, NWorkersAssumption
     DEF IndInv, TypeOK, WorkerPc, TakeStart, RunStart, CheckTerminate, SetBusy, idle, Goto, ghosts
<1>3. JobInOnePlace'
  BY <1>1, SameJobs DEF ghosts
<1>4. WorkersKnow'
  <2>1. hand'[w] # None <=> pc'[w] \in {"popped", "running"}
    BY <1>1 DEF IndInv, WorkersKnow, TakeStart, RunStart, CheckTerminate, SetBusy, idle, Goto
  <2>2. w \in busy' <=> pc'[w] \in {"running", "ran"}
    BY <1>1 DEF IndInv, WorkersKnow, TakeStart, RunStart, CheckTerminate, SetBusy, idle, Goto
  <2>3. busy' \in {busy, busy \cup {w}, busy \ {w}}
    BY DEF TakeStart, RunStart, CheckTerminate, SetBusy, idle
  <2> QED BY <1>1, <2>1, <2>2, <2>3 DEF IndInv, WorkersKnow
<1>5. ControlKnows'
  BY <1>1 DEF IndInv, ControlKnows, isAlive
<1>6. Rest'
  BY <1>1 DEF IndInv, Rest, isAlive, ghosts
<1> QED BY <1>2, <1>3, <1>4, <1>5, <1>6, IndInvParts, PTL

(* The job at the head of the queue gets into the worker's hand.           *)
LEMMA PopStep ==
  ASSUME IndInv, NEW w \in Workers, Pop(w)
  PROVE  IndInv'
<1> DEFINE j == Head(jobq)
<1>1. /\ pc[w] = "get" /\ UNCHANGED <<startq, busy, term, ctl, waiter, ghosts>>
      /\ pc'[w] # "none" /\ \A v \in Workers \ {w} : pc'[v] = pc[v]
      /\ hand[w] = None /\ jobq \in Seq(Jobs) /\ IsInjective(jobq)
      /\ hand \in [Workers -> Jobs \cup {None}]
      /\ pc \in [Workers -> WorkerPc]
  BY DEF IndInv, TypeOK, JobInOnePlace, WorkersKnow, Pop, Goto
<1>2. ControlKnows'
  BY <1>1 DEF IndInv, ControlKnows, isAlive
<1>3. CASE jobq = <<>>
  <2>1. pc' = [pc EXCEPT ![w] = "loop"] /\ UNCHANGED <<jobq, hand>>
    BY <1>3 DEF Pop, Goto
  <2>2. TypeOK'
    BY <1>1, <2>1 DEF IndInv, TypeOK, WorkerPc, ghosts
  <2>3. JobInOnePlace'
    BY <1>1, <2>1, SameJobs DEF ghosts
  <2>4. WorkersKnow'
    BY <1>1, <2>1 DEF IndInv, WorkersKnow
  <2>5. Rest'
    BY <1>1, <2>1 DEF IndInv, Rest, isAlive, ghosts
  <2> QED BY <1>2, <2>2, <2>3, <2>4, <2>5, IndInvParts, PTL
<1>4. CASE jobq # <<>>
  <2>1. /\ pc' = [pc EXCEPT ![w] = "popped"] /\ hand' = [hand EXCEPT ![w] = j]
        /\ jobq' = Tail(jobq)
    BY <1>4 DEF Pop, Goto
  <2>2. /\ j \in Jobs /\ jobq' \in Seq(Jobs) /\ IsInjective(jobq') /\ j \notin Range(jobq')
        /\ Range(jobq) = Range(jobq') \cup {j}
    BY <1>1, <1>4, <2>1, PoppedInFront
  <2> HIDE DEF j
  <2>3. TypeOK'
    BY <1>1, <2>1, <2>2 DEF IndInv, TypeOK, WorkerPc, ghosts
  <2>4. Held' = Held \cup {j} /\ j \notin Held
    BY <1>1, <2>1, <2>2, NoneAssumption DEF IndInv, JobInOnePlace, Held
  <2>5. \A v \in Workers : hand[v] # j
    BY <2>2, <2>4, NoneAssumption DEF Held
  <2>6. JobInOnePlace'
    <3>1. \A u, v \in Workers : hand'[u] = hand'[v] /\ hand'[u] # None => u = v
      BY <1>1, <2>1, <2>5 DEF IndInv, JobInOnePlace
    <3> QED BY <1>1, <2>2, <2>4, <3>1 DEF IndInv, JobInOnePlace, ghosts
  <2>7. WorkersKnow'
    BY <1>1, <2>1, <2>2, NoneAssumption DEF IndInv, WorkersKnow
  <2>8. Rest'
    BY <1>1, <2>2 DEF IndInv, Rest, isAlive, ghosts
  <2> QED BY <1>2, <2>3, <2>6, <2>7, <2>8, IndInvParts, PTL
<1> QED BY <1>3, <1>4

(* The job goes from the worker's hand to those that have run.             *)
LEMMA RunStep ==
  ASSUME IndInv, NEW w \in Workers, Run(w)
  PROVE  IndInv'
<1> DEFINE j == hand[w]
<1>1. /\ pc[w] = "running" /\ pc' = [pc EXCEPT ![w] = "ran"]
      /\ hand' = [hand EXCEPT ![w] = None] /\ done' = done \cup {j}
      /\ UNCHANGED <<jobq, startq, busy, term, ctl, waiter, execed, late, dropped>>
      /\ hand \in [Workers -> Jobs \cup {None}] /\ j # None
      /\ pc \in [Workers -> WorkerPc]
  BY DEF IndInv, TypeOK, WorkersKnow, Run, Goto
<1>2. j \in Held /\ j \in execed
  BY <1>1 DEF IndInv, JobInOnePlace, Held
<1> HIDE DEF j
<1>3. Held' = Held \ {j}
  <2>1. \A v \in Workers \ {w} : hand'[v] = hand[v] /\ (hand[v] # None => hand[v] # j)
    BY <1>1 DEF IndInv, JobInOnePlace, j
  <2>2. hand'[w] = None /\ hand[w] = j
    BY <1>1 DEF j
  <2> QED BY <2>1, <2>2 DEF Held
<1>4. TypeOK'
  BY <1>1, <1>2 DEF IndInv, TypeOK, WorkerPc
<1>5. JobInOnePlace'
  <2>1. \A u, v \in Workers : hand'[u] = hand'[v] /\ hand'[u] # None => u = v
    BY <1>1 DEF IndInv, JobInOnePlace
  <2> QED BY <1>1, <1>2, <1>3, <2>1 DEF IndInv, JobInOnePlace
<1>6. WorkersKnow'
  BY <1>1 DEF IndInv, WorkersKnow
<1>7. ControlKnows' /\ Rest'
  BY <1>1 DEF IndInv, ControlKnows, Rest, isAlive
<1> QED BY <1>4, <1>5, <1>6, <1>7, IndInvParts, PTL

(* A worker that ends drops what is queued.                                *)
LEMMA ExitStep ==
  ASSUME IndInv, NEW w \in Workers, exit(w)
  PROVE  IndInv'
<1>1. /\ pc[w] = "exit" /\ pc' = [pc EXCEPT ![w] = "none"] /\ jobq' = <<>>
      /\ dropped' = dropped \cup Range(jobq)
      /\ UNCHANGED <<startq, busy, term, hand, ctl, waiter, execed, late, done>>
      /\ Range(jobq) \subseteq execed
      /\ pc \in [Workers -> WorkerPc]
  BY DEF IndInv, TypeOK, JobInOnePlace, exit, Goto
<1>2. jobq' \in Seq(Jobs) /\ Range(jobq') = {} /\ IsInjective(jobq')
  BY <1>1, EmptyQueue
<1>3. TypeOK'
  BY <1>1, <1>2 DEF IndInv, TypeOK, WorkerPc
<1>4. JobInOnePlace'
  BY <1>1, <1>2 DEF IndInv, JobInOnePlace, Held
<1>5. WorkersKnow'
  BY <1>1 DEF IndInv, WorkersKnow
<1>6. ControlKnows' /\ Rest'
  BY <1>1, <1>2 DEF IndInv, ControlKnows, Rest, isAlive
<1> QED BY <1>3, <1>4, <1>5, <1>6, IndInvParts, PTL

(* The thread that starts and stops the pool.                              *)
LEMMA ControllerMoves ==
  ASSUME NEW c \in Controller, NEW w \in 1 .. NWorkers + 1, NEW n \in 0 .. MaxCalls,
         NEW p \in {"idle", "start", "stop", "join", "clear"}
  PROVE  /\ [c EXCEPT !.pc = p, !.w = w, !.calls = n] \in Controller
         /\ [c EXCEPT !.pc = p, !.w = w] \in Controller
         /\ [c EXCEPT !.pc = p] \in Controller
         /\ [c EXCEPT !.w = w] \in Controller
         /\ c.w \in 1 .. NWorkers + 1 /\ c.calls \in 0 .. MaxCalls /\ c.init \in BOOLEAN
BY DEF Controller

LEMMA StartStep ==
  ASSUME IndInv, start \/ StartThread
  PROVE  IndInv'
<1>1. /\ UNCHANGED <<jobq, busy, term, hand, waiter, ghosts>>
      /\ ctl \in Controller
      /\ pc \in [Workers -> WorkerPc]
  BY DEF IndInv, TypeOK, start, StartThread
<1>2. JobInOnePlace'
  BY <1>1, SameJobs DEF ghosts
<1>c. ctl.w \in 1 .. NWorkers + 1 /\ ctl.calls \in 0 .. MaxCalls
  BY <1>1 DEF Controller
<1>3. CASE start
  <2>1. /\ ctl' = [ctl EXCEPT !.pc = "start", !.w = 1, !.calls = ctl.calls + 1]
        /\ ctl.calls < MaxCalls /\ startq' \in {startq, NWorkers} /\ pc' = pc
        /\ \A v \in Workers : ~isAlive(v)
    BY <1>3 DEF start, Call
  <2>2. TypeOK'
    <3>1. ctl' \in Controller
      <4>1. 1 \in 1 .. NWorkers + 1 /\ 0 \in 0 .. MaxCalls
        BY NWorkersAssumption, BoundsAssumption
      <4>2. ctl.calls + 1 \in 0 .. MaxCalls
        BY <1>c, <2>1, BoundsAssumption
      <4> QED BY <1>1, <2>1, <4>1, <4>2, ControllerMoves
    <3>2. startq' \in 0 .. NWorkers
      BY <2>1, NWorkersAssumption DEF IndInv, TypeOK
    <3> QED BY <1>1, <2>1, <3>1, <3>2 DEF IndInv, TypeOK, ghosts
  <2>3. WorkersKnow' /\ Rest'
    BY <1>1, <2>1 DEF IndInv, WorkersKnow, Rest, isAlive, ghosts
  <2>4. ControlKnows'
    BY <1>1, <2>1 DEF ControlKnows, isAlive
  <2> QED BY <1>2, <2>2, <2>3, <2>4, IndInvParts, PTL
<1>4. CASE StartThread /\ ctl.w > NWorkers
  <2>1. ctl' = [ctl EXCEPT !.pc = "idle", !.w = 1] /\ UNCHANGED <<startq, pc>>
    BY <1>4 DEF StartThread
  <2>2. TypeOK'
    <3>1. ctl' \in Controller
      <4>1. 1 \in 1 .. NWorkers + 1 /\ 0 \in 0 .. MaxCalls
        BY NWorkersAssumption, BoundsAssumption
      <4> QED BY <1>1, <2>1, <4>1, ControllerMoves
    <3> QED BY <1>1, <2>1, <3>1 DEF IndInv, TypeOK, ghosts
  <2>3. WorkersKnow' /\ Rest' /\ ControlKnows'
    BY <1>1, <2>1 DEF IndInv, WorkersKnow, ControlKnows, Rest, isAlive, ghosts
  <2> QED BY <1>2, <2>2, <2>3, IndInvParts, PTL
<1>5. CASE StartThread /\ ~(ctl.w > NWorkers)
  <2>1. /\ ctl' = [ctl EXCEPT !.w = ctl.w + 1] /\ pc' = [pc EXCEPT ![ctl.w] = "begin"]
        /\ startq' = startq /\ ctl.pc = "start"
    BY <1>5 DEF StartThread, Goto
  <2>2. ctl.w \in Workers /\ ctl.w \in Nat
    BY <1>c, <1>5, NWorkersAssumption DEF Workers
  <2>3. TypeOK'
    <3>1. ctl' \in Controller
      BY <1>1, <2>1, <2>2, NWorkersAssumption DEF Controller, Workers
    <3>2. pc' \in [Workers -> WorkerPc]
      BY <1>1, <2>1, <2>2 DEF WorkerPc
    <3> QED BY <1>1, <2>1, <3>1, <3>2 DEF IndInv, TypeOK, ghosts
  <2>4. pc[ctl.w] = "none"
    BY <2>1, <2>2 DEF IndInv, ControlKnows, isAlive
  <2>5. WorkersKnow'
    BY <1>1, <2>1, <2>2, <2>4 DEF IndInv, WorkersKnow
  <2>6. ControlKnows'
    BY <1>1, <2>1, <2>2, NWorkersAssumption DEF IndInv, ControlKnows, isAlive, Workers
  <2>7. Rest'
    BY <1>1, <2>1, <2>2 DEF IndInv, Rest, isAlive, ghosts
  <2> QED BY <1>2, <2>3, <2>5, <2>6, <2>7, IndInvParts, PTL
<1> QED BY <1>3, <1>4, <1>5

LEMMA StopStep ==
  ASSUME IndInv, stop \/ StopThread \/ Join \/ clear
  PROVE  IndInv'
<1>1. /\ UNCHANGED <<jobq, startq, pc, hand, waiter, execed, done, dropped>>
      /\ ctl \in Controller
      /\ NWorkers \in Nat /\ Workers = 1 .. NWorkers
  BY NWorkersAssumption DEF IndInv, TypeOK, stop, StopThread, Join, clear, ghosts, Workers
<1>2. JobInOnePlace'
  BY <1>1, SameJobs
<1>3. CASE stop
  <2>1. /\ ctl'.pc = "stop" /\ ctl'.w = 1 /\ ctl.calls < MaxCalls
        /\ \E init \in BOOLEAN :
             ctl' = [pc |-> "stop", w |-> 1, init |-> init, calls |-> ctl.calls + 1]
        /\ late' = IF \E w \in Workers : isAlive(w) THEN {} ELSE late
        /\ UNCHANGED <<busy, term>>
    BY <1>3 DEF stop, Call
  <2>2. TypeOK'
    <3>1. ctl' \in Controller
      BY <1>1, <2>1, BoundsAssumption DEF Controller
    <3> QED BY <1>1, <2>1, <3>1 DEF IndInv, TypeOK
  <2>3. WorkersKnow' /\ Rest'
    BY <1>1, <2>1 DEF IndInv, WorkersKnow, Rest, isAlive
  <2>4. ControlKnows'
    BY <1>1, <2>1 DEF ControlKnows
  <2> QED BY <1>2, <2>2, <2>3, <2>4, IndInvParts, PTL
<1>4. CASE StopThread
  <2>1. /\ ctl.pc = "stop" /\ ctl.w \in 1 .. NWorkers + 1 /\ UNCHANGED <<busy, late>>
        /\ \A w \in Workers : w < ctl.w => ~isAlive(w)
    BY <1>1, <1>4 DEF StopThread, ghosts, Controller, IndInv, ControlKnows
  <2>2. /\ term' \in [Workers -> BOOLEAN]
        /\ ctl' \in Controller /\ ControlKnows'
    <3>1. CASE ctl.w > NWorkers
      <4>1. PICK p \in {"clear", "idle"} : ctl' = [ctl EXCEPT !.pc = p, !.w = 1]
        BY <1>1, <1>4, <3>1 DEF StopThread
      <4>2. term' = term /\ 1 \in 1 .. NWorkers + 1
        BY <1>1, <1>4, <3>1 DEF StopThread
      <4>3. ctl' \in Controller /\ ctl'.pc = p
        BY <1>1, <4>1, <4>2 DEF Controller
      <4> QED BY <1>1, <2>1, <3>1, <4>2, <4>3 DEF IndInv, TypeOK, ControlKnows, isAlive
    <3>2. CASE ctl.w <= NWorkers /\ isAlive(ctl.w)
      <4>1. term' = [term EXCEPT ![ctl.w] = TRUE] /\ ctl' = [ctl EXCEPT !.pc = "join"]
        BY <1>1, <1>4, <2>1, <3>2 DEF StopThread
      <4>2. ctl' \in Controller /\ ctl'.pc = "join" /\ ctl'.w = ctl.w
        BY <1>1, <4>1 DEF Controller
      <4> QED BY <1>1, <2>1, <3>2, <4>1, <4>2 DEF IndInv, TypeOK, ControlKnows, isAlive
    <3>3. CASE ctl.w <= NWorkers /\ ~isAlive(ctl.w)
      <4>1. term' = term /\ ctl' = [ctl EXCEPT !.w = ctl.w + 1]
        BY <1>1, <1>4, <2>1, <3>3 DEF StopThread
      <4>2. ctl.w + 1 \in 1 .. NWorkers + 1
        BY <1>1, <2>1, <3>3
      <4>3. ctl' \in Controller /\ ctl'.pc = "stop" /\ ctl'.w = ctl.w + 1
        BY <1>1, <2>1, <4>1, <4>2 DEF Controller
      <4> QED BY <1>1, <2>1, <3>3, <4>1, <4>3 DEF IndInv, TypeOK, ControlKnows, isAlive
    <3> QED BY <1>1, <2>1, <3>1, <3>2, <3>3
  <2>3. TypeOK'
    BY <1>1, <2>1, <2>2 DEF IndInv, TypeOK
  <2>4. WorkersKnow' /\ Rest'
    BY <1>1, <2>1 DEF IndInv, WorkersKnow, Rest, isAlive
  <2> QED BY <1>2, <2>2, <2>3, <2>4, IndInvParts, PTL
<1>5. CASE Join
  <2>1. /\ ctl.pc = "join" /\ ~isAlive(ctl.w) /\ UNCHANGED <<busy, term, late>>
        /\ ctl' = [ctl EXCEPT !.pc = "stop", !.w = ctl.w + 1] /\ ctl.w \in Workers
    BY <1>5 DEF Join, ghosts, IndInv, ControlKnows
  <2>2. TypeOK'
    <3>1. ctl' \in Controller
      <4>1. ctl.w + 1 \in 1 .. NWorkers + 1 /\ 0 \in 0 .. MaxCalls
        BY <1>1, <2>1, BoundsAssumption
      <4> QED BY <1>1, <2>1, <4>1, ControllerMoves
    <3> QED BY <1>1, <2>1, <3>1 DEF IndInv, TypeOK
  <2>3. WorkersKnow' /\ Rest'
    BY <1>1, <2>1 DEF IndInv, WorkersKnow, Rest, isAlive
  <2>4. \A w \in Workers : w < ctl.w => ~isAlive(w)
    BY <2>1 DEF IndInv, ControlKnows
  <2>5. ControlKnows'
    BY <1>1, <2>1, <2>4 DEF ControlKnows, isAlive, Controller
  <2> QED BY <1>2, <2>2, <2>3, <2>5, IndInvParts, PTL
<1>6. CASE clear
  <2>1. /\ ctl' = [ctl EXCEPT !.pc = "idle"] /\ busy' = {} /\ UNCHANGED late
        /\ term' = [w \in Workers |-> FALSE]
        /\ \A w \in Workers : ~isAlive(w)
    BY <1>6 DEF clear, ghosts, IndInv, ControlKnows
  <2>2. TypeOK'
    <3>1. ctl' \in Controller
      <4>1. 1 \in 1 .. NWorkers + 1 /\ 0 \in 0 .. MaxCalls
        BY <1>1, BoundsAssumption
      <4> QED BY <1>1, <2>1, <4>1, ControllerMoves
    <3> QED BY <1>1, <2>1, <3>1 DEF IndInv, TypeOK
  <2>3. WorkersKnow'
    BY <1>1, <2>1 DEF IndInv, WorkersKnow, isAlive
  <2>4. Rest' /\ ControlKnows'
    BY <1>1, <2>1 DEF IndInv, Rest, ControlKnows, isAlive
  <2> QED BY <1>2, <2>2, <2>3, <2>4, IndInvParts, PTL
<1> QED BY <1>3, <1>4, <1>5, <1>6

(* The thread in waitForAllDone.                                           *)
LEMMA WaiterStep ==
  ASSUME IndInv, waitForAllDone \/ Waiter
  PROVE  IndInv'
<1>1. /\ UNCHANGED <<jobq, startq, busy, term, pc, hand, ctl, ghosts>>
      /\ waiter \in WaitingThread
  BY DEF IndInv, TypeOK, waitForAllDone, Waiter, finish, Check, WaitEnds, WaitReturns
<1>2. JobInOnePlace' /\ WorkersKnow' /\ ControlKnows'
  <2>1. JobInOnePlace'
    BY <1>1, SameJobs DEF ghosts
  <2> QED BY <1>1, <2>1 DEF IndInv, WorkersKnow, ControlKnows, isAlive
<1>3. TypeOK' /\ Rest'
  <2>1. CASE waitForAllDone
    <3>1. Outstanding \subseteq execed /\ execed \subseteq Jobs
      BY DEF IndInv, TypeOK, Outstanding
    <3>2. /\ waiter.calls < MaxWaits
          /\ \E timed \in BOOLEAN :
               waiter' = [pc |-> "start", timed |-> timed, last |-> FALSE,
                          owed |-> Outstanding, calls |-> waiter.calls + 1]
      BY <2>1 DEF waitForAllDone
    <3> HIDE DEF Outstanding
    <3>3. TypeOK'
      <4>1. waiter' \in WaitingThread
        BY <1>1, <3>1, <3>2, BoundsAssumption DEF WaitingThread
      <4> QED BY <1>1, <4>1 DEF IndInv, TypeOK, ghosts
    <3>4. waiter'.owed = Outstanding /\ waiter'.pc = "start"
      BY <3>2
    <3> QED BY <1>1, <3>1, <3>3, <3>4 DEF IndInv, Rest, isAlive, ghosts
  <2>2. CASE finish
    <3>1. /\ waiter'.owed = waiter.owed /\ waiter'.pc = "busy" => jobq = <<>>
          /\ \E p \in {"jobs", "busy", "true", "false", "wait"} :
               waiter' = [waiter EXCEPT !.pc = p]
      BY <1>1, <2>2 DEF finish, Check, WaitingThread
    <3>2. TypeOK'
      <4>1. waiter' \in WaitingThread
        BY <1>1, <3>1 DEF WaitingThread
      <4> QED BY <1>1, <4>1 DEF IndInv, TypeOK, ghosts
    <3> QED BY <1>1, <3>1, <3>2, EmptyQueue DEF IndInv, Rest, isAlive, ghosts
  <2>3. CASE WaitEnds
    <3>1. \E last \in BOOLEAN : waiter' = [waiter EXCEPT !.pc = "start", !.last = last]
      BY <1>1, <2>3 DEF WaitEnds, WaitingThread
    <3>2. TypeOK'
      <4>1. waiter' \in WaitingThread
        BY <1>1, <3>1 DEF WaitingThread
      <4> QED BY <1>1, <4>1 DEF IndInv, TypeOK, ghosts
    <3>3. waiter'.owed = waiter.owed /\ waiter'.pc = "start"
      BY <1>1, <3>1 DEF WaitingThread
    <3> QED BY <1>1, <3>2, <3>3 DEF IndInv, Rest, isAlive, ghosts
  <2>4. CASE WaitReturns
    <3>1. waiter' \in WaitingThread /\ waiter'.owed = {} /\ waiter'.pc = "idle"
      BY <1>1, <2>4 DEF WaitReturns, WaitingThread
    <3> QED BY <1>1, <3>1 DEF IndInv, TypeOK, Rest, isAlive, ghosts
  <2> QED BY <2>1, <2>2, <2>3, <2>4 DEF Waiter
<1> QED BY <1>2, <1>3, IndInvParts, PTL

(* Every step keeps the invariant.                                         *)
LEMMA NextIndInv ==
  IndInv /\ [Next]_vars => IndInv'
<1> SUFFICES ASSUME IndInv, [Next]_vars PROVE IndInv'
  OBVIOUS
<1>1. CASE UNCHANGED vars
  <2>1. TypeOK' /\ WorkersKnow' /\ ControlKnows' /\ Rest'
    BY <1>1 DEF vars, IndInv, TypeOK, WorkersKnow, ControlKnows, Rest, isAlive
  <2>2. JobInOnePlace'
    BY <1>1, SameJobs DEF vars
  <2> QED BY <2>1, <2>2, IndInvParts, PTL
<1>2. ASSUME NEW j \in Jobs, exec(j) PROVE IndInv'
  BY <1>2, ExecStep
<1>3. ASSUME NEW w \in Workers, Worker(w) PROVE IndInv'
  BY <1>3, WorkerStep, PopStep, RunStep, ExitStep DEF Worker
<1>4. CASE start \/ stop \/ Control
  BY <1>4, StartStep, StopStep DEF Control
<1>5. CASE waitForAllDone \/ Waiter
  BY <1>5, WaiterStep
<1> QED BY <1>1, <1>2, <1>3, <1>4, <1>5 DEF Next

-----------------------------------------------------------------------------
(* The queue, the workers and the controlling thread stay in step.         *)
THEOREM IndInvIsInvariant == Spec => []IndInv
BY InitIndInv, NextIndInv, PTL DEF Spec

(* Every variable keeps its type: in particular a worker never takes a     *)
(* functor for the start that is not there.                                *)
THEOREM TypeCorrect == Spec => []TypeOK
<1>1. IndInv => TypeOK
  BY DEF IndInv
<1> QED BY <1>1, IndInvIsInvariant, PTL

(* A job given to exec is in the queue, in one worker's hand, run, or      *)
(* dropped by stop, and in one of these only.                              *)
THEOREM JobsAreInOnePlace == Spec => []JobInOnePlace
<1>1. IndInv => JobInOnePlace
  BY DEF IndInv
<1> QED BY <1>1, IndInvIsInvariant, PTL

(* stop leaves no worker with a job, no busy entry and no old job.         *)
THEOREM StopLeavesNothing == Spec => []StopIsComplete
<1>1. IndInv => StopIsComplete
  <2> SUFFICES ASSUME IndInv, \A w \in Workers : ~isAlive(w)
               PROVE  /\ busy = {} /\ \A w \in Workers : hand[w] = None
                      /\ Range(jobq) \subseteq late
    BY DEF IndInv, ControlKnows, StopIsComplete
  <2>1. \A w \in Workers : w \notin busy /\ hand[w] = None
    BY DEF IndInv, WorkersKnow, isAlive
  <2>2. busy = {}
    BY <2>1 DEF IndInv, TypeOK
  <2> QED BY <2>1, <2>2 DEF IndInv
<1> QED BY <1>1, IndInvIsInvariant, PTL

(* The only unfinished jobs that waitForAllDone can answer true over are   *)
(* those that a worker has popped without being in _busthread yet.         *)
THEOREM WaitMissesNoOther == Spec => WaitMissesOnlyHandoff
<1> DEFINE popped == {hand[w] : w \in {v \in Workers : pc[v] = "popped"}}
<1>1. IndInv /\ [Next]_vars => [Returns("true") => waiter.owed \cap Outstanding \subseteq popped]_vars
  <2> SUFFICES ASSUME IndInv, Next, waiter.pc # "true", waiter'.pc = "true"
               PROVE  waiter.owed \cap Outstanding \subseteq popped
    BY DEF Returns
  <2>1. waiter.pc = "busy" /\ busy = {}
    <3>1. waiter' # waiter
      OBVIOUS
    <3>2. CASE waitForAllDone \/ Waiter
      <4>1. waiter \in WaitingThread
        BY DEF IndInv, TypeOK
      <4>2. CASE waitForAllDone
        BY <4>2 DEF waitForAllDone
      <4>3. CASE Check("start", startq = 0, "jobs") \/ Check("jobs", jobq = <<>>, "busy")
        BY <4>1, <4>3 DEF Check, WaitingThread
      <4>4. CASE Check("busy", busy = {}, "true")
        BY <4>1, <4>4 DEF Check, WaitingThread
      <4>5. CASE WaitEnds
        BY <4>1, <4>5 DEF WaitEnds, WaitingThread
      <4>6. CASE WaitReturns
        BY <4>1, <4>6 DEF WaitReturns, WaitingThread
      <4> QED BY <3>2, <4>2, <4>3, <4>4, <4>5, <4>6 DEF Waiter, finish
    <3>3. CASE \E j \in Jobs : exec(j)
      BY <3>1, <3>3 DEF exec
    <3>4. CASE \E w \in Workers : Worker(w)
      BY <3>1, <3>4 DEF Worker, TakeStart, RunStart, CheckTerminate, Pop, SetBusy, Run, idle, exit
    <3>5. CASE start \/ stop \/ Control
      BY <3>1, <3>5 DEF start, stop, Control, StartThread, StopThread, Join, clear
    <3> QED BY <3>2, <3>3, <3>4, <3>5 DEF Next
  <2>2. waiter.owed \cap Outstanding \subseteq Held
    BY <2>1 DEF IndInv, JobInOnePlace, Outstanding
  <2>3. \A w \in Workers : hand[w] # None => pc[w] = "popped"
    BY <2>1 DEF IndInv, WorkersKnow
  <2>4. Held \subseteq popped
    BY <2>3 DEF Held
  <2> QED BY <2>2, <2>4
<1> QED BY <1>1, IndInvIsInvariant, PTL DEF Spec, WaitMissesOnlyHandoff
==============================================================================
