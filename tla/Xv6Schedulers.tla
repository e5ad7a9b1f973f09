---------------------------- MODULE Xv6Schedulers ---------------------------
(***************************************************************************)
(* The schedulers that the project adds to xv6 (xv6/kernel/proc.c,         *)
(* mlfq_scheduler.c, trap.c, proc_init.c): Round Robin, FCFS, CFS and      *)
(* MLFQ, on several CPUs, with the locks p->lock that scheduler() hands to *)
(* the process it switches to and gets back from the one that gives up the *)
(* CPU (sched(), yield(), sleep(), kexit() of xv6-source/kernel/proc.c).   *)
(*                                                                         *)
(* policy is the build option SCHEDULER.  Time is counted in ticks: the    *)
(* model keeps the differences the code computes (ticks - last_boost,      *)
(* ticks - start_ticks) and bounds creation times by MaxTime.  A timer     *)
(* interrupt is handled before the next one.                               *)
(***************************************************************************)
EXTENDS Integers, FiniteSets

CONSTANTS
    Policies,       \* schedulers to look at
    NProc,          \* NPROC: slots of the process table
    Cpus,
    QueueSlices,    \* queue_time_slices, indexed by queue
    BoostInterval,  \* BOOST_INTERVAL
    MaxTime,        \* bound on creation times
    MaxProcs,       \* bound on the processes at a time, per scheduler
    ShortLoop       \* scheduler() takes no time: ticks come while processes run

Queues == DOMAIN QueueSlices
Procs  == 1 .. NProc
None   == 0
InitProc == 1   \* initproc, made by userinit() before scheduler()

ASSUME Xv6SchedulersAssumption ==
    /\ Policies \subseteq {"RR", "FCFS", "CFS", "MLFQ"}
    /\ NProc \in Nat \ {0} /\ BoostInterval \in Nat \ {0} /\ MaxTime \in Nat
    /\ None \notin Cpus
    /\ MaxProcs \in [Policies -> Procs] /\ ShortLoop \in BOOLEAN
    /\ IsFiniteSet(Queues) /\ Queues = 0 .. Cardinality(Queues) - 1 /\ Queues # {}
    /\ QueueSlices \in [Queues -> Nat \ {0}]

VARIABLES
    policy,         \* SCHEDULER
    state,          \* p->state
    lock,           \* the CPU that holds p->lock, or None
    ctime,          \* p->ctime
    queue, slice,   \* p->queue, p->time_slice
    ticks,          \* bounded by MaxTime
    boosted,        \* ticks - last_boost
    at,             \* where the CPU is
    proc,           \* c->proc
    next,           \* p, the loop variable of scheduler()
    level,          \* q, the outer loop variable of MLFQ
    chosen,         \* earliest, min_proc or selected
    ran,            \* ticks - start_ticks
    due,            \* a timer interrupt is to be handled
    waited          \* history: processes runnable, and not boosted, since the
                    \* scan began

timeVars == <<ticks, boosted, ran, due>>
procVars == <<state, lock, ctime, queue, slice>>
cpuVars  == <<at, proc, next, level, chosen>>
vars     == <<policy, procVars, timeVars, cpuVars, waited>>

Min(a, b) == IF a < b THEN a ELSE b
LastQueue == Cardinality(Queues) - 1

\* Ticks beyond the longest time slice make no difference and are not counted.
MaySpend(n) == \E q \in Queues : n < QueueSlices[q]

Runnable == {p \in Procs : state[p] = "RUNNABLE"}
Held(c)  == {p \in Procs : lock[p] = c}
-----------------------------------------------------------------------------
Init ==
    /\ policy \in Policies
    /\ state = [p \in Procs |-> IF p = InitProc THEN "RUNNABLE" ELSE "UNUSED"]
    /\ lock = [p \in Procs |-> None]
    /\ ctime = [p \in Procs |-> 0]
    /\ queue = [p \in Procs |-> 0]
    /\ slice = [p \in Procs |-> 1]
    /\ ticks = 0 /\ boosted = 0
    /\ at = [c \in Cpus |-> "top"]
    /\ proc = [c \in Cpus |-> None]
    /\ next = [c \in Cpus |-> 1]
    /\ level = [c \in Cpus |-> 0]
    /\ chosen = [c \in Cpus |-> None]
    /\ ran = [c \in Cpus |-> 0]
    /\ due = [c \in Cpus |-> FALSE]
    /\ waited = [c \in Cpus |-> {}]

\* The scan of the process table begins at its first slot.
BeginScan(c) ==
    /\ at' = [at EXCEPT ![c] = "scan"]
    /\ next' = [next EXCEPT ![c] = 1]
    /\ level' = [level EXCEPT ![c] = 0]
    /\ chosen' = [chosen EXCEPT ![c] = None]
    /\ waited' = [waited EXCEPT ![c] = IF policy = "RR" THEN {} ELSE Runnable]
    /\ UNCHANGED <<proc>>

\* for(;;): MLFQ boosts first, when it is time.
Top(c) ==
    /\ at[c] = "top"
    /\ ~(policy = "MLFQ" /\ boosted >= BoostInterval)
    /\ BeginScan(c)
    /\ UNCHANGED <<policy, procVars, timeVars>>

TopBoost(c) ==
    /\ at[c] = "top"
    /\ policy = "MLFQ" /\ boosted >= BoostInterval
    /\ at' = [at EXCEPT ![c] = "boost"]
    /\ next' = [next EXCEPT ![c] = 1]
    /\ UNCHANGED <<policy, procVars, timeVars, proc, level, chosen, waited>>

\* The boost of one process.
Boost(c) ==
    LET p == next[c]
        boost == state[p] \in {"RUNNABLE", "RUNNING"}
    IN  /\ at[c] = "boost" /\ p <= NProc
        /\ lock[p] = None
        /\ queue' = IF boost THEN [queue EXCEPT ![p] = 0] ELSE queue
        /\ slice' = IF boost THEN [slice EXCEPT ![p] = QueueSlices[0]] ELSE slice
        /\ next' = [next EXCEPT ![c] = p + 1]
        /\ waited' = [d \in Cpus |-> waited[d] \ {p}]
        /\ UNCHANGED <<policy, state, lock, ctime, timeVars, at, proc, level, chosen>>

\* last_boost = ticks
Boosted(c) ==
    /\ at[c] = "boost" /\ next[c] > NProc
    /\ boosted' = 0
    /\ BeginScan(c)
    /\ UNCHANGED <<policy, procVars, ticks, ran, due>>
-----------------------------------------------------------------------------
(* The scan                                                                *)

\* Mutant: the oldest process is not locked while the scan goes on.
Keep_Unlocked(c, p) ==
    /\ chosen' = [chosen EXCEPT ![c] = p]
    /\ UNCHANGED lock

\* Mutant: the lock of the candidate before is not released.
Keep_NoRelease(c, p) ==
    /\ chosen' = [chosen EXCEPT ![c] = p]
    /\ lock' = [lock EXCEPT ![p] = c]

\* p becomes the candidate: its lock is kept, that of the candidate before
\* is released.
Keep(c, p) ==
    /\ chosen' = [chosen EXCEPT ![c] = p]
    /\ lock' = [q \in Procs |-> IF q = p THEN c
                                ELSE IF q = chosen[c] THEN None ELSE lock[q]]

\* Mutant: the youngest process is preferred.
IsBetter_Youngest(c, p) ==
    /\ state[p] = "RUNNABLE"
    /\ policy = "MLFQ" => queue[p] = level[c]
    /\ policy = "FCFS" /\ chosen[c] # None => ctime[p] > ctime[chosen[c]]
    /\ policy = "CFS" => chosen[c] = None

\* The scan prefers p to its candidate.  Under CFS every vruntime is 0.
IsBetter(c, p) ==
    /\ state[p] = "RUNNABLE"
    /\ policy = "MLFQ" => queue[p] = level[c]
    /\ policy = "FCFS" /\ chosen[c] # None => ctime[p] < ctime[chosen[c]]
    /\ policy = "CFS" => chosen[c] = None

\* acquire() of the next process, with a look at it.
Scan(c) ==
    LET p == next[c]
    IN  /\ at[c] = "scan" /\ p <= NProc
        /\ lock[p] = None
        /\ IF IsBetter(c, p)
             THEN /\ Keep(c, p)
                  /\ at' = [at EXCEPT ![c] = IF policy \in {"RR", "MLFQ"} THEN "switch" ELSE @]
             ELSE UNCHANGED <<lock, chosen, at>>
        /\ next' = [next EXCEPT ![c] = p + 1]
        /\ UNCHANGED <<policy, state, ctime, queue, slice, timeVars,
                       proc, level, waited>>

\* MLFQ: the next queue.
NextLevel(c) ==
    /\ at[c] = "scan" /\ next[c] > NProc
    /\ policy = "MLFQ" /\ level[c] < LastQueue
    /\ level' = [level EXCEPT ![c] = @ + 1]
    /\ next' = [next EXCEPT ![c] = 1]
    /\ UNCHANGED <<policy, procVars, timeVars, at, proc, chosen, waited>>

\* The scan is over.
ScanDone(c) ==
    /\ at[c] = "scan" /\ next[c] > NProc
    /\ policy = "MLFQ" => level[c] = LastQueue
    /\ at' = [at EXCEPT ![c] = IF chosen[c] = None THEN "top"
                               ELSE IF policy = "CFS" THEN "log" ELSE "switch"]
    /\ next' = [next EXCEPT ![c] = IF policy = "CFS" THEN 1 ELSE @]
    /\ UNCHANGED <<policy, procVars, timeVars, proc, level, chosen, waited>>

\* CFS prints the table before it switches.  It acquires every lock, also the
\* one of min_proc that it holds, and there acquire() panics.
Log(c) ==
    LET p == next[c]
    IN  /\ at[c] = "log"
        /\ lock[p] \in {None, c}
        /\ at' = [at EXCEPT ![c] = IF lock[p] = c THEN "panic" ELSE @]
        /\ next' = [next EXCEPT ![c] = IF lock[p] = c THEN @ ELSE @ + 1]
        /\ UNCHANGED <<policy, procVars, timeVars, proc, level, chosen, waited>>
-----------------------------------------------------------------------------
(* Switching                                                               *)

\* state = RUNNING, swtch().  Only Round Robin still needs its loop variable.
Switch(c) ==
    /\ at[c] = "switch"
    /\ state' = [state EXCEPT ![chosen[c]] = "RUNNING"]
    /\ proc' = [proc EXCEPT ![c] = chosen[c]]
    /\ at' = [at EXCEPT ![c] = "enter"]
    /\ chosen' = [chosen EXCEPT ![c] = None]
    /\ next' = [next EXCEPT ![c] = IF policy = "RR" THEN @ ELSE 1]
    /\ level' = [level EXCEPT ![c] = 0]
    /\ waited' = [d \in Cpus |-> IF d = c THEN {} ELSE waited[d] \ {chosen[c]}]
    /\ UNCHANGED <<policy, lock, ctime, queue, slice, timeVars>>

\* The process releases its lock: forkret(), or the end of yield() or sleep().
Enter(c) ==
    /\ at[c] = "enter"
    /\ lock' = [lock EXCEPT ![proc[c]] = None]
    /\ at' = [at EXCEPT ![c] = "run"]
    /\ UNCHANGED <<policy, state, ctime, queue, slice, timeVars, proc,
                   next, level, chosen, waited>>

\* The process takes its lock and calls sched().
Leave(c, s) ==
    /\ at[c] = "run"
    /\ lock[proc[c]] = None
    /\ lock' = [lock EXCEPT ![proc[c]] = c]
    /\ state' = [state EXCEPT ![proc[c]] = s]
    /\ at' = [at EXCEPT ![c] = "leave"]
    /\ UNCHANGED <<policy, ctime, queue, slice, timeVars, proc, next,
                   level, chosen, waited>>

\* yield() of a timer interrupt
Yield(c) == due[c] /\ Leave(c, "RUNNABLE")
Sleep(c) == ~due[c] /\ Leave(c, "SLEEPING")
Exit(c)  == ~due[c] /\ proc[c] # InitProc /\ Leave(c, "ZOMBIE")

\* MLFQ, after swtch(): the time slice and the queue of process p.
Charge(p, elapsed) ==
    IF slice[p] - elapsed > 0
      THEN slice' = [slice EXCEPT ![p] = @ - elapsed] /\ UNCHANGED queue
      ELSE /\ queue' = [queue EXCEPT ![p] = Min(@ + 1, LastQueue)]
           /\ slice' = [slice EXCEPT ![p] = QueueSlices[Min(queue[p] + 1, LastQueue)]]

\* Mutant: Round Robin begins again with the first slot.
GoesOnAt_Top(c) == at' = [at EXCEPT ![c] = "top"]

\* Round Robin is still in its loop, the others begin a new scan.
GoesOnAt(c) == at' = [at EXCEPT ![c] = IF policy = "RR" THEN "scan" ELSE "top"]

\* scheduler() goes on after swtch().
Return(c) ==
    LET p == proc[c]
    IN  /\ at[c] = "leave"
        /\ IF policy = "MLFQ" THEN Charge(p, ran[c]) ELSE UNCHANGED <<queue, slice>>
        /\ proc' = [proc EXCEPT ![c] = None]
        /\ lock' = [lock EXCEPT ![p] = None]
        /\ ran' = [ran EXCEPT ![c] = 0]
        /\ due' = [due EXCEPT ![c] = FALSE]
        /\ GoesOnAt(c)
        /\ UNCHANGED <<policy, state, ctime, ticks, boosted, next, level,
                       chosen, waited>>
-----------------------------------------------------------------------------
(* The rest of the kernel                                                  *)

\* wakeup() or kill() of a sleeping process.
Wake(p) ==
    /\ state[p] = "SLEEPING" /\ lock[p] = None
    /\ state' = [state EXCEPT ![p] = "RUNNABLE"]
    /\ UNCHANGED <<policy, lock, ctime, queue, slice, timeVars, cpuVars, waited>>

\* fork() by a running process: allocproc() and the end of kfork().
Fork(p) ==
    /\ \E c \in Cpus : at[c] = "run"
    /\ state[p] = "UNUSED" /\ lock[p] = None
    /\ \A q \in Procs : q < p => state[q] # "UNUSED"
    /\ Cardinality({q \in Procs : state[q] # "UNUSED"}) < MaxProcs[policy]
    /\ state' = [state EXCEPT ![p] = "RUNNABLE"]
    /\ ctime' = [ctime EXCEPT ![p] = ticks]
    /\ queue' = [queue EXCEPT ![p] = 0]
    /\ slice' = [slice EXCEPT ![p] = 1]
    /\ UNCHANGED <<policy, lock, timeVars, cpuVars, waited>>

\* wait() by the parent.  The fields of a free slot mean nothing: they get
\* the values of a new process, which Fork sets anyway.
Reap(p) ==
    /\ \E c \in Cpus : at[c] = "run"
    /\ state[p] = "ZOMBIE" /\ lock[p] = None
    /\ state' = [state EXCEPT ![p] = "UNUSED"]
    /\ ctime' = [ctime EXCEPT ![p] = 0]
    /\ queue' = [queue EXCEPT ![p] = 0]
    /\ slice' = [slice EXCEPT ![p] = 1]
    /\ UNCHANGED <<policy, lock, timeVars, cpuVars, waited>>

\* A tick of the clock, on all CPUs.  An interrupt is pending while the CPU
\* holds a lock; one that comes in scheduler(), with no lock, yields nothing.
Tick ==
    /\ \A c \in Cpus : ~due[c]
    /\ ShortLoop => Runnable = {} \/ \A c \in Cpus : at[c] = "run"
    /\ ticks' = IF policy = "FCFS" THEN Min(ticks + 1, MaxTime) ELSE 0
    /\ boosted' = IF policy = "MLFQ" THEN Min(boosted + 1, BoostInterval) ELSE 0
    /\ ran' = [c \in Cpus |-> IF policy = "MLFQ" /\ proc[c] # None /\ MaySpend(ran[c])
                                THEN ran[c] + 1 ELSE ran[c]]
    /\ due' = [c \in Cpus |-> proc[c] # None \/ Held(c) # {}]
    /\ UNCHANGED <<policy, procVars, cpuVars, waited>>
-----------------------------------------------------------------------------
CpuStep(c) ==
    \/ Top(c) \/ TopBoost(c) \/ Boost(c) \/ Boosted(c)
    \/ Scan(c) \/ NextLevel(c) \/ ScanDone(c) \/ Log(c)
    \/ Switch(c) \/ Enter(c) \/ Yield(c) \/ Return(c)

Next ==
    \/ \E c \in Cpus : CpuStep(c) \/ Sleep(c) \/ Exit(c)
    \/ \E p \in Procs : Wake(p) \/ Fork(p) \/ Reap(p)
    \/ Tick

Spec == Init /\ [][Next]_vars

\* Every CPU goes on, and so does the clock.
FairSpec == Spec /\ (\A c \in Cpus : WF_vars(CpuStep(c))) /\ WF_vars(Tick)

\* With a ShortLoop time does not stand still either.
ClockSpec == FairSpec /\ SF_vars(Tick)
-----------------------------------------------------------------------------
(* Properties                                                              *)

\* Types of all variables.
TypeOK ==
    /\ policy \in Policies
    /\ state \in [Procs -> {"UNUSED", "SLEEPING", "RUNNABLE", "RUNNING", "ZOMBIE"}]
    /\ lock \in [Procs -> Cpus \union {None}]
    /\ ctime \in [Procs -> Nat]
    /\ queue \in [Procs -> Queues]
    /\ slice \in [Procs -> Nat \ {0}]
    /\ ticks \in 0 .. MaxTime /\ boosted \in 0 .. BoostInterval
    /\ at \in [Cpus -> {"top", "boost", "scan", "switch", "enter", "run", "leave", "log", "panic"}]
    /\ proc \in [Cpus -> Procs \union {None}]
    /\ next \in [Cpus -> 1 .. NProc + 1]
    /\ level \in [Cpus -> Queues]
    /\ chosen \in [Cpus -> Procs \union {None}]
    /\ ran \in [Cpus -> Nat] /\ due \in [Cpus -> BOOLEAN]
    /\ waited \in [Cpus -> SUBSET Procs]

\* No process runs on two CPUs, and what runs is marked as running: the lock
\* that is handed over by swtch() keeps all other CPUs away.
RunsOnce ==
    \A c \in Cpus :
        /\ \A d \in Cpus : c # d /\ proc[c] # None => proc[c] # proc[d]
        /\ at[c] \in {"enter", "run"} => state[proc[c]] = "RUNNING"

\* sched() panics unless exactly p->lock is held ("sched locks"): at every
\* switch, in both directions, the CPU holds the lock of the process it
\* switches and no other; and no lock at all while the process runs.
SchedLocks ==
    \A c \in Cpus :
        /\ at[c] = "switch" => Held(c) = {chosen[c]}
        /\ at[c] \in {"enter", "leave"} => Held(c) = {proc[c]}
        /\ at[c] \in {"run", "top", "boost"} => Held(c) = {}

\* A switch hands over one process with its lock, and to one CPU.
SwitchSound == TypeOK /\ RunsOnce /\ SchedLocks
\* "FCFS schedules oldest process first", MLFQ the "highest priority queue
\* with runnable process": the process that the scheduler switches to is not
\* worse than any that could have been chosen during the whole scan, whatever
\* other CPUs chose, boosted, woke and forked since.
BestFirst ==
    \A c \in Cpus : at[c] = "switch" =>
        \A p \in waited[c] :
            /\ policy = "FCFS" => ctime[chosen[c]] <= ctime[p]
            /\ policy = "MLFQ" => level[c] <= queue[p]

\* The scans that hold one lock while they wait for another never wait for
\* each other: who has a candidate comes to switch to it.
ScanEnds ==
    \A c \in Cpus : (at[c] = "scan" /\ chosen[c] # None) ~> (at[c] # "scan")

\* "Fair time-sharing": Round Robin runs every runnable process.
RoundRobinRunsAll ==
    \A p \in Procs :
        (policy = "RR" /\ state[p] = "RUNNABLE") ~> (state[p] = "RUNNING")
-----------------------------------------------------------------------------
(* What the documentation says and the code does not do                    *)

\* "Priority boost every 48 ticks to prevent starvation": under MLFQ every
\* runnable process runs, at least when from some time on none of them sleeps
\* or exits.
BoostPreventsStarvation ==
    <>[](\A p \in Procs : state[p] \in {"RUNNABLE", "RUNNING"})
        => \A p \in Procs : (state[p] = "RUNNABLE") ~> (state[p] = "RUNNING")
=============================================================================
