------------------------------- MODULE Xv6Proc ------------------------------
(***************************************************************************)
(* The life of xv6 processes (xv6-source/kernel/proc.c): kfork(), kexit()  *)
(* with reparent(), kwait(), kkill(), sleep() and wakeup(), the check for  *)
(* killed processes in usertrap(), and sys_pause() with the clock.         *)
(*                                                                         *)
(* A step is what happens under one lock, or up to the next place where    *)
(* another process can see or do something.  p->lock is shown only where   *)
(* it is held across steps: by sleep() from the release of the caller's    *)
(* lock on, and by kexit() until the scheduler has left the stack of the   *)
(* process.  RUNNING is not told from RUNNABLE.  wakeup() is one step,     *)
(* since its caller holds the lock of whoever goes to sleep on the channel.*)
(* sys_pause() waits for one tick.  Nobody kills the first process: that   *)
(* panics, "init exiting".                                                 *)
(***************************************************************************)
EXTENDS Naturals, FiniteSets

CONSTANTS
    Tasks,          \* entries of the process table
    InitTask,       \* initproc
    NoTask          \* no process, a null pointer

\* The channel of the clock, &ticks, is no process.
ASSUME TasksAssumption == InitTask \in Tasks /\ NoTask \notin Tasks /\ "ticks" \notin Tasks

VARIABLES
    state,      \* p->state
    parent,     \* p->parent
    killed,     \* p->killed
    chan,       \* p->chan
    place,      \* how far the process is in the kernel, or "user"
    lk,         \* the lock sleep() gave up, and takes again
    holder,     \* wait_lock and tickslock -> who holds it
    plocks,     \* the processes whose p->lock is held
    child,      \* np of kfork()
    elapsed,    \* the tick that sys_pause() waits for has come
    asked       \* history: the processes that kill() was called for

taskVars == <<state, parent, killed, chan, place, lk, holder, plocks, child,
              elapsed, asked>>

Doing(p, s)  == state[p] = "RUNNABLE" /\ place[p] = s
Kids(p)      == {q \in Tasks : parent[q] = p}
Zombies(p)   == {q \in Kids(p) : state[q] = "ZOMBIE"}
GoesTo(p, s) == place' = [place EXCEPT ![p] = s]
Holds(p, l)  == holder' = [holder EXCEPT ![l] = p]
Free(l)      == holder[l] = NoTask

\* userinit(): only the first process is in use.
ProcInit ==
    /\ state = [p \in Tasks |-> IF p = InitTask THEN "RUNNABLE" ELSE "UNUSED"]
    /\ parent = [p \in Tasks |-> NoTask]
    /\ killed = [p \in Tasks |-> FALSE]
    /\ chan = [p \in Tasks |-> NoTask]
    /\ place = [p \in Tasks |-> IF p = InitTask THEN "user" ELSE "none"]
    /\ lk = [p \in Tasks |-> "none"]
    /\ holder = [l \in {"wait", "ticks"} |-> NoTask]
    /\ plocks = {}
    /\ child = [p \in Tasks |-> NoTask]
    /\ elapsed = [p \in Tasks |-> FALSE]
    /\ asked = {}
-----------------------------------------------------------------------------
\* A system call of a process that is not killed: usertrap() checks before and after.
Enters(p) == Doing(p, "user") /\ ~killed[p]

\* kfork() in three steps: allocproc() takes an entry, ...
ForkAlloc(p, q) ==
    /\ Enters(p)
    /\ state[q] = "UNUSED" /\ q \notin plocks
    /\ state' = [state EXCEPT ![q] = "USED"]
    /\ child' = [child EXCEPT ![p] = q]
    /\ GoesTo(p, "fork")
    /\ UNCHANGED <<parent, killed, chan, lk, holder, plocks, elapsed, asked>>

\* ... the child gets its parent under wait_lock, ...
ForkParent(p) ==
    /\ Doing(p, "fork") /\ Free("wait")
    /\ parent' = [parent EXCEPT ![child[p]] = p]
    /\ GoesTo(p, "forked")
    /\ UNCHANGED <<state, killed, chan, lk, holder, plocks, child, elapsed, asked>>

\* ... and it may run.
ForkRun(p) ==
    /\ Doing(p, "forked") /\ child[p] \notin plocks
    /\ state' = [state EXCEPT ![child[p]] = "RUNNABLE"]
    /\ place' = [place EXCEPT ![child[p]] = "user", ![p] = "user"]
    /\ child' = [child EXCEPT ![p] = NoTask]
    /\ UNCHANGED <<parent, killed, chan, lk, holder, plocks, elapsed, asked>>
-----------------------------------------------------------------------------
\* wakeup() on some channels.
Woken(channels) ==
    [q \in Tasks |-> IF state[q] = "SLEEPING" /\ chan[q] \in channels
                     THEN "RUNNABLE" ELSE state[q]]

\* kexit(), by exit() or because killed() holds: files are closed, then wait_lock.
ExitLock(p) ==
    /\ Doing(p, "user") /\ p # InitTask /\ Free("wait")
    /\ Holds(p, "wait")
    /\ GoesTo(p, "exit")
    /\ UNCHANGED <<state, parent, killed, chan, lk, plocks, child, elapsed, asked>>

\* The children that reparent() gives to the first process.
Orphans(p) == Kids(p)

\* Whom kexit() wakes: the first process for the orphans, and the parent.
ExitWakes(p) == {parent[p]} \union IF Kids(p) = {} THEN {} ELSE {InitTask}

ExitReparent(p) ==
    /\ Doing(p, "exit") /\ plocks = {}
    /\ parent' = [q \in Tasks |-> IF q \in Orphans(p) THEN InitTask ELSE parent[q]]
    /\ state' = Woken(ExitWakes(p))
    /\ GoesTo(p, "exiting")
    /\ UNCHANGED <<killed, chan, lk, holder, plocks, child, elapsed, asked>>

\* A zombie, that still holds its p->lock and runs on its stack.
ExitZombie(p) ==
    /\ Doing(p, "exiting") /\ p \notin plocks
    /\ state' = [state EXCEPT ![p] = "ZOMBIE"]
    /\ plocks' = plocks \union {p}
    /\ Holds(NoTask, "wait")
    /\ GoesTo(p, "sched")
    /\ UNCHANGED <<parent, killed, chan, lk, child, elapsed, asked>>

\* sched(): the scheduler releases p->lock on its own stack.
ExitSched(p) ==
    /\ state[p] = "ZOMBIE" /\ place[p] = "sched"
    /\ plocks' = plocks \ {p}
    /\ GoesTo(p, "none")
    /\ UNCHANGED <<state, parent, killed, chan, lk, holder, child, elapsed, asked>>
-----------------------------------------------------------------------------
(* kwait()                                                                 *)

WaitLock(p) ==
    /\ Enters(p) /\ Free("wait")
    /\ Holds(p, "wait")
    /\ lk' = [lk EXCEPT ![p] = "wait"]
    /\ GoesTo(p, "scan")
    /\ UNCHANGED <<state, parent, killed, chan, plocks, child, elapsed, asked>>

\* kwait() returns and releases wait_lock.
WaitReturn(p) ==
    /\ Holds(NoTask, "wait")
    /\ lk' = [lk EXCEPT ![p] = "none"]
    /\ GoesTo(p, "user")

\* Mutant: the entry is freed while the child runs on its stack.
MayReap_Zombie(p, q) == q \in Zombies(p)

\* The child has exited, and its p->lock can be had.
MayReap(p, q) == q \in Zombies(p) /\ q \notin plocks

\* p->killed after freeproc().
KilledAfter(q) == FALSE

\* A child has exited: freeproc().  The scan takes the first one; here any.
Reap(p, q) ==
    /\ Doing(p, "scan") /\ MayReap(p, q)
    /\ state' = [state EXCEPT ![q] = "UNUSED"]
    /\ parent' = [parent EXCEPT ![q] = NoTask]
    /\ killed' = [killed EXCEPT ![q] = KilledAfter(q)]
    /\ asked' = asked \ {q}
    /\ WaitReturn(p)
    /\ UNCHANGED <<chan, plocks, child, elapsed>>

\* -1: no children, or killed, or the status of a child could not be copied out.
WaitFails(p) ==
    /\ Doing(p, "scan") /\ Kids(p) \intersect plocks = {}
    /\ Kids(p) = {} \/ killed[p] \/ Zombies(p) # {}
    /\ WaitReturn(p)
    /\ UNCHANGED <<state, parent, killed, chan, plocks, child, elapsed, asked>>

\* Nothing yet: sleep().
WaitSleep(p) ==
    /\ Doing(p, "scan") /\ Kids(p) \intersect plocks = {}
    /\ Kids(p) # {} /\ Zombies(p) = {} /\ ~killed[p]
    /\ GoesTo(p, "tosleep")
    /\ UNCHANGED <<state, parent, killed, chan, lk, holder, plocks, child, elapsed, asked>>
-----------------------------------------------------------------------------
(* sleep()                                                                 *)

\* Mutant: the caller's lock is released before p->lock is held.
SleepTakes_Nothing(p) == {}

\* The locks that sleep() takes before it releases its caller's.
SleepTakes(p) == {p}

SleepLock(p) ==
    /\ Doing(p, "tosleep") /\ p \notin plocks
    /\ plocks' = plocks \union SleepTakes(p)
    /\ Holds(NoTask, lk[p])
    /\ GoesTo(p, "sleep")
    /\ UNCHANGED <<state, parent, killed, chan, lk, child, elapsed, asked>>

SleepEnd(p) ==
    /\ Doing(p, "sleep")
    /\ state' = [state EXCEPT ![p] = "SLEEPING"]
    /\ chan' = [chan EXCEPT ![p] = IF lk[p] = "wait" THEN p ELSE "ticks"]
    /\ plocks' = plocks \ {p}
    /\ GoesTo(p, "asleep")
    /\ UNCHANGED <<parent, killed, lk, holder, child, elapsed, asked>>

\* Woken by wakeup() or kkill(): take the caller's lock again and look.
Resume(p) ==
    /\ Doing(p, "asleep") /\ p \notin plocks /\ Free(lk[p])
    /\ chan' = [chan EXCEPT ![p] = NoTask]
    /\ Holds(p, lk[p])
    /\ GoesTo(p, IF lk[p] = "wait" THEN "scan" ELSE "pause")
    /\ UNCHANGED <<state, parent, killed, lk, plocks, child, elapsed, asked>>
-----------------------------------------------------------------------------
(* sys_pause() and clockintr()                                             *)

PauseLock(p) ==
    /\ Enters(p) /\ Free("ticks")
    /\ Holds(p, "ticks")
    /\ lk' = [lk EXCEPT ![p] = "ticks"]
    /\ GoesTo(p, "pause")
    /\ UNCHANGED <<state, parent, killed, chan, plocks, child, elapsed, asked>>

\* The loop: the time has passed, or the process is killed, or sleep().
PauseLook(p) ==
    /\ Doing(p, "pause")
    /\ IF elapsed[p] \/ killed[p]
       THEN /\ Holds(NoTask, "ticks")
            /\ lk' = [lk EXCEPT ![p] = "none"]
            /\ elapsed' = [elapsed EXCEPT ![p] = FALSE]
            /\ GoesTo(p, "user")
       ELSE GoesTo(p, "tosleep") /\ UNCHANGED <<lk, holder, elapsed>>
    /\ UNCHANGED <<state, parent, killed, chan, plocks, child, asked>>

\* The channel that clockintr() wakes.
TickWakes == {"ticks"}

Tick ==
    /\ Free("ticks") /\ plocks = {}
    /\ elapsed' = [p \in Tasks |-> lk[p] = "ticks"]
    /\ state' = Woken(TickWakes)
    /\ UNCHANGED <<parent, killed, chan, place, lk, holder, plocks, child, asked>>
-----------------------------------------------------------------------------
\* kkill() of a process by its pid.
Kill(q) ==
    /\ state[q] # "UNUSED" /\ q # InitTask /\ q \notin plocks
    /\ killed' = [killed EXCEPT ![q] = TRUE]
    /\ state' = [state EXCEPT ![q] = IF @ = "SLEEPING" THEN "RUNNABLE" ELSE @]
    /\ asked' = asked \union {q}
    /\ UNCHANGED <<parent, chan, place, lk, holder, plocks, child, elapsed>>

\* kill(0): an unused entry has pid 0 and is marked.  allocproc() does not clear it.
KillZero(q) ==
    /\ state[q] = "UNUSED" /\ q \notin plocks
    /\ killed' = [killed EXCEPT ![q] = TRUE]
    /\ asked' = asked \union {q}
    /\ UNCHANGED <<state, parent, chan, place, lk, holder, plocks, child, elapsed>>

\* The steps that a process in the kernel does not wait for user code to take.
InKernel(p) ==
    \/ ForkParent(p) \/ ForkRun(p)
    \/ ExitReparent(p) \/ ExitZombie(p) \/ ExitSched(p)
    \/ WaitFails(p) \/ WaitSleep(p) \/ \E q \in Tasks : Reap(p, q)
    \/ SleepLock(p) \/ SleepEnd(p) \/ Resume(p) \/ PauseLook(p)

ProcNext ==
    \/ \E p \in Tasks :
        \/ InKernel(p)
        \/ \E q \in Tasks : ForkAlloc(p, q)
        \/ ExitLock(p) \/ WaitLock(p) \/ PauseLock(p)
        \/ Kill(p) \/ KillZero(p)
    \/ Tick

ProcSpec == ProcInit /\ [][ProcNext]_taskVars
-----------------------------------------------------------------------------
(* Properties                                                              *)

\* reparent(): a process that runs, sleeps or has exited has a parent that can still
\* wait for it, however forks, exits and kills of several generations interleave.
ParentLives ==
    \A q \in Tasks \ {InitTask} :
        state[q] \in {"RUNNABLE", "SLEEPING", "ZOMBIE"} =>
            /\ parent[q] \in Tasks
            /\ state[parent[q]] \in {"RUNNABLE", "SLEEPING"}

\* A process that sleeps in kwait() while wait_lock is free has something to wait
\* for: a child, and none that has exited already.
NoLostExit ==
    \A p \in Tasks :
        state[p] = "SLEEPING" /\ chan[p] = p /\ Free("wait")
            => Kids(p) # {} /\ Zombies(p) = {}

\* kwait() frees an entry, with its kernel stack for reuse, only when the child and
\* sched() have left that stack.
ReapedIsGone ==
    \A q \in Tasks : state[q] \in {"UNUSED", "USED"} => place[q] = "none"

\* A process is killed only by a kill() since its entry was last freed.
KilledIsMeant == \A q \in Tasks : killed[q] => q \in asked

\* Processes, parents and entries fit together: every child has a parent to wait for it,
\* an entry is reused only when its process has left it, and with no mark of its own.
FamilySound == ParentLives /\ ReapedIsGone /\ KilledIsMeant
=============================================================================
