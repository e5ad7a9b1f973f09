----------------------------- MODULE Xv6Spinlock ----------------------------
(***************************************************************************)
(* Spin locks of xv6 (kernel/spinlock.c): acquire() and release(), with    *)
(* push_off() and pop_off(), on CPUs where an interrupt handler that takes *)
(* locks too may interrupt the code that runs.                             *)
(*                                                                         *)
(* A thread of control is what runs on a CPU, <<cpu, "code">>, or the      *)
(* handler that has interrupted it, <<cpu, "handler">>.  Every access to   *)
(* the lock that another CPU can see is a step.  Locks may nest.           *)
(***************************************************************************)
EXTENDS Integers, FiniteSets

CONSTANTS
    CPUs, NoCPU,
    SpinLocks

Threads == CPUs \X {"code", "handler"}
Code(c)    == <<c, "code">>
Handler(c) == <<c, "handler">>
CpuOf(t)   == t[1]              \* mycpu()
Places  == {"none", "run", "off", "check", "spin", "own", "free", "pop"}

ASSUME SpinAssumption == NoCPU \notin CPUs /\ SpinLocks # {}

VARIABLES
    locked,         \* lk->locked
    lkCpu,          \* lk->cpu
    on,             \* CPU -> interrupts are enabled
    noff, intena,   \* CPU -> mycpu()->noff and intena
    spc,            \* thread -> where in acquire() or release()
    arg,            \* thread -> the lock that acquire() or release() is for
    old,            \* thread -> old of push_off()
    own,            \* thread -> locks for which lk->locked is its own
    spanic          \* the message of panic()

spinVars == <<locked, lkCpu, on, noff, intena, spc, arg, old, own, spanic>>

SpinInit ==
    /\ locked = [l \in SpinLocks |-> FALSE]
    /\ lkCpu = [l \in SpinLocks |-> NoCPU]
    /\ on = [c \in CPUs |-> TRUE]
    /\ noff = [c \in CPUs |-> 0] /\ intena = [c \in CPUs |-> FALSE]
    /\ spc = [t \in Threads |-> IF t = Code(CpuOf(t)) THEN "run" ELSE "none"]
    /\ arg = [t \in Threads |-> CHOOSE l \in SpinLocks : TRUE]
    /\ old = [t \in Threads |-> FALSE]
    /\ own = [t \in Threads |-> {}]
    /\ spanic = ""

\* The thread runs and has come to a place: its CPU is not with the handler.
Reached(t, s) ==
    /\ spanic = "" /\ spc[t] = s
    /\ t = Code(CpuOf(t)) => spc[Handler(CpuOf(t))] = "none"
Moves(t, s) == spc' = [spc EXCEPT ![t] = s]

\* holding()
Holding(l, c) == locked[l] /\ lkCpu[l] = c
-----------------------------------------------------------------------------
(* acquire()                                                               *)

\* push_off(): old = intr_get()
AcquireStart(t, l) ==
    /\ Reached(t, "run") /\ l \notin own[t]
    /\ old' = [old EXCEPT ![t] = on[CpuOf(t)]]
    /\ arg' = [arg EXCEPT ![t] = l]
    /\ Moves(t, "off")
    /\ UNCHANGED <<locked, lkCpu, on, noff, intena, own, spanic>>

\* Mutant: interrupts stay as they are.
IntrOff_Not(c) == on

\* intr_off()
IntrOff(c) == [on EXCEPT ![c] = FALSE]

\* The rest of push_off().
PushOff(t) ==
    LET c == CpuOf(t) IN
    /\ Reached(t, "off")
    /\ on' = IntrOff(c)
    /\ intena' = [intena EXCEPT ![c] = IF noff[c] = 0 THEN old[t] ELSE @]
    /\ noff' = [noff EXCEPT ![c] = @ + 1]
    /\ Moves(t, "check")
    /\ UNCHANGED <<locked, lkCpu, arg, old, own, spanic>>

AcquireCheck(t) ==
    /\ Reached(t, "check")
    /\ IF Holding(arg[t], CpuOf(t)) THEN spanic' = "acquire" /\ UNCHANGED spc
       ELSE Moves(t, "spin") /\ UNCHANGED spanic
    /\ UNCHANGED <<locked, lkCpu, on, noff, intena, arg, old, own>>

\* What __sync_lock_test_and_set() found.
MayTake(t) == ~locked[arg[t]]

AcquireSpin(t) ==
    /\ Reached(t, "spin") /\ MayTake(t)
    /\ locked' = [locked EXCEPT ![arg[t]] = TRUE]
    /\ own' = [own EXCEPT ![t] = @ \union {arg[t]}]
    /\ Moves(t, "own")
    /\ UNCHANGED <<lkCpu, on, noff, intena, arg, old, spanic>>

\* lk->cpu = mycpu()
AcquireEnd(t) ==
    /\ Reached(t, "own")
    /\ lkCpu' = [lkCpu EXCEPT ![arg[t]] = CpuOf(t)]
    /\ Moves(t, "run")
    /\ UNCHANGED <<locked, on, noff, intena, arg, old, own, spanic>>
-----------------------------------------------------------------------------
(* release()                                                               *)

ReleaseStart(t, l) ==
    /\ Reached(t, "run") /\ l \in own[t]
    /\ arg' = [arg EXCEPT ![t] = l]
    /\ IF Holding(l, CpuOf(t))
       THEN /\ lkCpu' = [lkCpu EXCEPT ![l] = NoCPU]
            /\ Moves(t, "free") /\ UNCHANGED spanic
       ELSE spanic' = "release" /\ UNCHANGED <<spc, lkCpu>>
    /\ UNCHANGED <<locked, on, noff, intena, old, own>>

\* __sync_lock_release()
ReleaseFree(t) ==
    /\ Reached(t, "free")
    /\ locked' = [locked EXCEPT ![arg[t]] = FALSE]
    /\ own' = [own EXCEPT ![t] = @ \ {arg[t]}]
    /\ Moves(t, "pop")
    /\ UNCHANGED <<lkCpu, on, noff, intena, arg, old, spanic>>

\* The last pop_off() enables interrupts if they were.
Enables(c) == noff[c] = 1 /\ intena[c]

PopOff(t) ==
    LET c == CpuOf(t) IN
    /\ Reached(t, "pop")
    /\ IF on[c] \/ noff[c] < 1
       THEN spanic' = "pop_off" /\ UNCHANGED <<on, noff, spc>>
       ELSE /\ noff' = [noff EXCEPT ![c] = @ - 1]
            /\ on' = [on EXCEPT ![c] = @ \/ Enables(c)]
            /\ Moves(t, "run") /\ UNCHANGED spanic
    /\ UNCHANGED <<locked, lkCpu, intena, arg, old, own>>
-----------------------------------------------------------------------------
\* External: the CPU takes an interrupt and turns interrupts off, ...
Interrupt(c) ==
    /\ spanic = "" /\ on[c] /\ spc[Handler(c)] = "none"
    /\ on' = [on EXCEPT ![c] = FALSE]
    /\ Moves(Handler(c), "run")
    /\ UNCHANGED <<locked, lkCpu, noff, intena, arg, old, own, spanic>>

\* ... and the handler, which has released its locks, returns.
InterruptReturn(c) ==
    /\ Reached(Handler(c), "run") /\ own[Handler(c)] = {}
    /\ on' = [on EXCEPT ![c] = TRUE]
    /\ Moves(Handler(c), "none")
    /\ UNCHANGED <<locked, lkCpu, noff, intena, arg, old, own, spanic>>

SpinNext ==
    \/ \E t \in Threads :
        \/ \E l \in SpinLocks : AcquireStart(t, l) \/ ReleaseStart(t, l)
        \/ PushOff(t) \/ AcquireCheck(t) \/ AcquireSpin(t) \/ AcquireEnd(t)
        \/ ReleaseFree(t) \/ PopOff(t)
    \/ \E c \in CPUs : Interrupt(c) \/ InterruptReturn(c)

SpinSpec == SpinInit /\ [][SpinNext]_spinVars
-----------------------------------------------------------------------------
(* Properties                                                              *)

\* A lock has one owner, over all CPUs and their interrupt handlers.
MutualExclusion ==
    \A t, u \in Threads : t # u => own[t] \intersect own[u] = {}

\* acquire(), release() and pop_off() never panic: a handler never asks for a lock that
\* the code it interrupted holds, holding() is not fooled by another CPU's acquire(),
\* and every pop_off() has its push_off().
SpinNoPanic == spanic = ""

\* Interrupts are on between critical sections, and off in them: they are on again
\* exactly when the last of nested locks is released, also after a handler came in
\* the middle of push_off().
InterruptsRestored ==
    \A c \in CPUs : Reached(Code(c), "run") =>
        /\ on[c] = (own[Code(c)] = {})
        /\ noff[c] = Cardinality(own[Code(c)])

\* Spin locks exclude each other, never panic and give interrupts back as they were.
SpinSound == MutualExclusion /\ SpinNoPanic /\ InterruptsRestored
=============================================================================
