------------------------- MODULE Xv6SchedulersProofs ------------------------
(***************************************************************************)
(* Proofs about what the CPUs of xv6 share.                                *)
(*                                                                         *)
(* Xv6Schedulers, for any number of CPUs, slots and queues: the lock of a  *)
(* process is handed over correctly, no process runs twice, and FCFS and   *)
(* MLFQ choose the best process.                                           *)
(*                                                                         *)
(* Xv6Spinlock, for any CPUs and locks: a lock has one owner, nothing      *)
(* panics and interrupts are restored.  All three follow from one          *)
(* inductive invariant: who owns which lock (Owners), and what noff,       *)
(* intena and the interrupt flag of a CPU say about the thread that is     *)
(* running on it (Cpu).                                                    *)
(***************************************************************************)
EXTENDS Xv6Schedulers, Xv6Spinlock, FiniteSetTheorems, TLAPS

\* What a CPU holds while it has a candidate, and around swtch().
Keeps(c, p) ==
    \/ at[c] \in {"scan", "switch", "log", "panic"} /\ chosen[c] = p
    \/ at[c] \in {"enter", "leave"} /\ proc[c] = p

\* A CPU holds the lock of its candidate or of the process it is switching, and no other.
LocksOK == \A c \in Cpus, p \in Procs : lock[p] = c <=> Keeps(c, p)

\* A candidate stays runnable, and what runs is marked as running.
CpuIs(c) ==
    /\ chosen[c] # None => /\ at[c] \in {"scan", "switch", "log", "panic"}
                           /\ state[chosen[c]] = "RUNNABLE"
    /\ at[c] = "switch" => chosen[c] # None
    /\ at[c] = "log" => chosen[c] # None /\ next[c] <= chosen[c]
    /\ proc[c] # None <=> at[c] \in {"enter", "run", "leave"}
    /\ at[c] \in {"enter", "run"} => state[proc[c]] = "RUNNING"
CpuOK == \A c \in Cpus : CpuIs(c)

\* No process is that of two CPUs.
OneCpu == \A c, d \in Cpus : c # d /\ proc[c] # None => proc[c] # proc[d]

\* What waits since the scan began is runnable.
WaitedOK == \A c \in Cpus : \A p \in waited[c] : state[p] = "RUNNABLE"

\* The candidate of FCFS is the oldest of the slots seen so far.
Oldest(c) ==
    policy = "FCFS" /\ at[c] \in {"scan", "switch"} =>
        /\ at[c] = "switch" => next[c] > NProc
        /\ \A p \in waited[c] : p < next[c]
              => chosen[c] # None /\ ctime[chosen[c]] <= ctime[p]
OldestSoFar == \A c \in Cpus : Oldest(c)

\* MLFQ has passed by the processes of higher queues only when they were not runnable.
Highest(c) ==
    policy = "MLFQ" /\ at[c] \in {"scan", "switch"} =>
        \A p \in waited[c] :
            /\ level[c] <= queue[p]
            /\ at[c] = "scan" /\ p < next[c] => level[c] < queue[p]
HighestSoFar == \A c \in Cpus : Highest(c)

SchedInv ==
    TypeOK /\ LocksOK /\ CpuOK /\ OneCpu /\ WaitedOK /\ OldestSoFar /\ HighestSoFar
-----------------------------------------------------------------------------
\* What the constants are, without counting.
LEMMA Constants ==
    /\ NProc \in Nat \ {0} /\ BoostInterval \in Nat \ {0} /\ MaxTime \in Nat
    /\ None = 0 /\ None \notin Cpus /\ Procs = 1 .. NProc /\ None \notin Procs
    /\ LastQueue \in Nat /\ Queues = 0 .. LastQueue
    /\ \A q \in Queues : QueueSlices[q] \in Nat \ {0}
  <1>1. Cardinality(Queues) \in Nat /\ Cardinality(Queues) # 0
    BY Xv6SchedulersAssumption, FS_CardinalityType, FS_EmptySet
  <1> QED BY <1>1, Xv6SchedulersAssumption DEF Procs, None, LastQueue

\* The types, element by element.
EachTyped ==
    /\ \A c \in Cpus : /\ proc[c] = None \/ proc[c] \in Procs
                       /\ chosen[c] = None \/ chosen[c] \in Procs
                       /\ next[c] \in Nat /\ next[c] >= 1 /\ level[c] \in Nat
                       /\ \A p \in waited[c] : p \in Procs
    /\ \A p \in Procs : p \in Nat /\ p >= 1 /\ p <= NProc
                        /\ ctime[p] \in Nat /\ queue[p] \in Nat /\ queue[p] <= LastQueue

\* They follow from the type invariant, now and after a step.
LEMMA Elements == TypeOK => EachTyped
  BY Constants DEF TypeOK, EachTyped
\* The same for the state after a step.
LEMMA ElementsNext == TypeOK' => EachTyped'
  <1> SUFFICES ASSUME TypeOK' PROVE EachTyped'
    OBVIOUS
  <1>1. ASSUME NEW c \in Cpus
        PROVE  /\ proc'[c] = None \/ proc'[c] \in Procs
               /\ chosen'[c] = None \/ chosen'[c] \in Procs
               /\ next'[c] \in Nat /\ next'[c] >= 1 /\ level'[c] \in Nat
    BY <1>1, Constants DEF TypeOK
  <1>3. ASSUME NEW c \in Cpus PROVE \A p \in waited'[c] : p \in Procs
    <2>1. waited' \in [Cpus -> SUBSET Procs]
      BY DEF TypeOK
    <2> QED BY <2>1, <1>3
  <1>2. ASSUME NEW p \in Procs
        PROVE  /\ p \in Nat /\ p >= 1 /\ p <= NProc
               /\ ctime'[p] \in Nat /\ queue'[p] \in Nat /\ queue'[p] <= LastQueue
    BY <1>2, Constants DEF TypeOK
  <1> QED BY <1>1, <1>2, <1>3 DEF EachTyped

\* Nobody but the CPU itself can lock its candidate, or the process that it is switching.
Holds ==
    \A c \in Cpus :
        /\ chosen[c] # None => chosen[c] \in Procs /\ lock[chosen[c]] = c
        /\ at[c] \in {"enter", "leave"} => proc[c] \in Procs /\ lock[proc[c]] = c
        /\ at[c] = "run" => proc[c] \in Procs
\* It is part of the invariant.
LEMMA HoldsNow == SchedInv => Holds
  BY Elements, Constants DEF SchedInv, EachTyped, LocksOK, Keeps, CpuOK, CpuIs, Holds

\* What a step of others leaves as it is.
LEMMA FrameCpu ==
    ASSUME NEW d \in Cpus, CpuIs(d),
           at'[d] = at[d], chosen'[d] = chosen[d], proc'[d] = proc[d], next'[d] = next[d],
           chosen[d] # None => state'[chosen[d]] = state[chosen[d]],
           at[d] \in {"enter", "run"} => state'[proc[d]] = state[proc[d]]
    PROVE  CpuIs(d)'
  BY DEF CpuIs
\* The same for the search of FCFS.
LEMMA FrameOldest ==
    ASSUME NEW d \in Cpus, Oldest(d), policy' = policy,
           at'[d] = at[d], chosen'[d] = chosen[d], next'[d] = next[d], waited'[d] \subseteq waited[d],
           chosen[d] # None => ctime'[chosen[d]] = ctime[chosen[d]],
           \A p \in waited'[d] : ctime'[p] = ctime[p]
    PROVE  Oldest(d)'
  BY DEF Oldest
\* The same for the search of MLFQ.
LEMMA FrameHighest ==
    ASSUME NEW d \in Cpus, Highest(d), policy' = policy,
           at'[d] = at[d], level'[d] = level[d], next'[d] = next[d], waited'[d] \subseteq waited[d],
           \A p \in waited'[d] : queue'[p] = queue[p]
    PROVE  Highest(d)'
  BY DEF Highest
-----------------------------------------------------------------------------
(* The steps: one lemma for each.  What the step changes is stated first,  *)
(* then the parts of the invariant follow for any CPU.                     *)

\* A scan begins with no candidate and with what is runnable.
LEMMA TopStep ==
    ASSUME SchedInv, NEW c \in Cpus, Top(c)
    PROVE  SchedInv'
  <1>1. TypeOK /\ LocksOK /\ CpuOK /\ OneCpu /\ WaitedOK /\ OldestSoFar /\ HighestSoFar
    BY DEF SchedInv
  <1>2. EachTyped /\ Holds
    BY <1>1, Elements, HoldsNow
  <1>3. at[c] = "top"
    BY <1>1, <1>2, Constants DEF EachTyped, Holds, CpuOK, CpuIs, Top, BeginScan, Runnable
  <1>4. /\ policy' = policy /\ state' = state /\ lock' = lock /\ ctime' = ctime
        /\ queue' = queue /\ slice' = slice /\ ticks' = ticks /\ boosted' = boosted
        /\ proc' = proc /\ ran' = ran /\ due' = due
    BY DEF Top, BeginScan, Runnable, procVars, timeVars, cpuVars
  <1>5. at'[c] = "scan" /\ \A x \in Cpus \ {c} : at'[x] = at[x]
    BY <1>1, <1>2, <1>3, Constants DEF TypeOK, Top, BeginScan, Runnable
  <1>6. next'[c] = 1 /\ \A x \in Cpus \ {c} : next'[x] = next[x]
    BY <1>1, <1>2, <1>3, Constants DEF TypeOK, Top, BeginScan, Runnable
  <1>7. level'[c] = 0 /\ \A x \in Cpus \ {c} : level'[x] = level[x]
    BY <1>1, <1>2, <1>3, Constants DEF TypeOK, Top, BeginScan, Runnable
  <1>8. chosen'[c] = None /\ \A x \in Cpus \ {c} : chosen'[x] = chosen[x]
    BY <1>1, <1>2, <1>3, Constants DEF TypeOK, Top, BeginScan, Runnable
  <1>9. /\ \A x \in waited'[c] : state[x] = "RUNNABLE"
        /\ \A x \in Cpus \ {c} : waited'[x] = waited[x]
    BY <1>1, <1>2, <1>3, Constants DEF TypeOK, Top, BeginScan, Runnable
  <1>10. TypeOK'
    <2>1. at' \in [Cpus -> {"top", "boost", "scan", "switch",
                            "enter", "run", "leave", "log", "panic"}]
      BY <1>1, <1>2, <1>3, <1>5, Constants DEF TypeOK, EachTyped, Top, BeginScan, Runnable
    <2>2. next' \in [Cpus -> 1 .. NProc + 1]
      BY <1>1, <1>2, <1>3, <1>6, Constants DEF TypeOK, EachTyped, Top, BeginScan, Runnable
    <2>3. level' \in [Cpus -> Queues]
      BY <1>1, <1>2, <1>3, <1>7, Constants DEF TypeOK, EachTyped, Top, BeginScan, Runnable
    <2>4. chosen' \in [Cpus -> Procs \union {None}]
      BY <1>1, <1>2, <1>3, <1>8, Constants DEF TypeOK, EachTyped, Top, BeginScan, Runnable
    <2>5. waited' \in [Cpus -> SUBSET Procs]
      BY <1>1, <1>2, <1>3, <1>9, Constants DEF TypeOK, EachTyped, Top, BeginScan, Runnable
    <2> QED BY <1>1, <1>4, <2>1, <2>2, <2>3, <2>4, <2>5 DEF TypeOK
  <1>11. EachTyped'
    BY <1>10, ElementsNext
  <1>12. LocksOK'
    <2> SUFFICES ASSUME NEW d \in Cpus, NEW q \in Procs PROVE (lock[q] = d <=> Keeps(d, q))'
      BY DEF LocksOK
    <2>1. (lock[q] = d <=> Keeps(d, q)) /\ (lock[q] = c <=> Keeps(c, q))
      BY <1>1 DEF LocksOK
    <2>2. CASE d = c
      BY <2>1, <2>2, <1>2, <1>3, <1>4, <1>5, <1>8, Constants DEF Keeps
    <2>3. CASE d # c
      BY <2>1, <2>3, <1>2, <1>3, <1>4, <1>5, <1>8, Constants DEF Keeps
    <2> QED BY <2>2, <2>3
  <1>13. CpuOK'
    BY <1>1, <1>2, <1>3, <1>4, <1>5, <1>6, <1>8, Constants DEF CpuOK, EachTyped, Holds, CpuIs
  <1>14. OneCpu'
    BY <1>1, <1>2, <1>3, <1>4, Constants DEF OneCpu
  <1>15. WaitedOK'
    <2> SUFFICES ASSUME NEW d \in Cpus, NEW q \in waited'[d] PROVE state'[q] = "RUNNABLE"
      BY DEF WaitedOK
    <2>1. CASE d = c
      BY <1>1, <1>2, <1>3, <1>4, <1>9, Constants, <2>1 DEF EachTyped, Holds, WaitedOK
    <2>2. CASE d # c
      BY <1>1, <1>2, <1>3, <1>4, <1>9, Constants, <2>2 DEF EachTyped, Holds, WaitedOK
    <2> QED BY <2>1, <2>2
  <1>16. OldestSoFar'
    <2> SUFFICES ASSUME NEW d \in Cpus PROVE Oldest(d)'
      BY DEF OldestSoFar
    <2>1. CASE d = c
      BY <1>1, <1>2, <1>3, <1>4, <1>5, <1>6, <1>8, <1>9, <1>11, Constants, <2>1 DEF EachTyped,
         Holds, WaitedOK, OldestSoFar, Oldest
    <2>2. CASE d # c
      <3>1. Oldest(d) /\ policy' = policy
        BY <1>1, <1>4 DEF OldestSoFar
      <3>2. /\ at'[d] = at[d] /\ chosen'[d] = chosen[d] /\ next'[d] = next[d]
            /\ waited'[d] \subseteq waited[d]
        BY <1>4, <1>5, <1>6, <1>8, <1>9, <2>2
      <3>3. chosen[d] # None => ctime'[chosen[d]] = ctime[chosen[d]]
        BY <1>2, <1>4, <2>2 DEF EachTyped
      <3>4. \A q \in waited'[d] : ctime'[q] = ctime[q]
        BY <1>2, <1>4, <1>9, <2>2 DEF EachTyped
      <3> QED BY <3>1, <3>2, <3>3, <3>4, FrameOldest
    <2> QED BY <2>1, <2>2
  <1>17. HighestSoFar'
    <2> SUFFICES ASSUME NEW d \in Cpus PROVE Highest(d)'
      BY DEF HighestSoFar
    <2>1. CASE d = c
      BY <1>1, <1>2, <1>3, <1>4, <1>5, <1>6, <1>7, <1>9, <1>11, Constants, <2>1 DEF EachTyped,
         Holds, WaitedOK, HighestSoFar, Highest
    <2>2. CASE d # c
      <3>1. Highest(d) /\ policy' = policy
        BY <1>1, <1>4 DEF HighestSoFar
      <3>2. /\ at'[d] = at[d] /\ level'[d] = level[d] /\ next'[d] = next[d]
            /\ waited'[d] \subseteq waited[d]
        BY <1>4, <1>5, <1>6, <1>7, <1>9, <2>2
      <3>3. \A q \in waited'[d] : queue'[q] = queue[q]
        BY <1>2, <1>4, <1>9, <2>2 DEF EachTyped
      <3> QED BY <3>1, <3>2, <3>3, FrameHighest
    <2> QED BY <2>1, <2>2
  <1> QED BY <1>10, <1>12, <1>13, <1>14, <1>15, <1>16, <1>17 DEF SchedInv

\* A boost begins.
LEMMA TopBoostStep ==
    ASSUME SchedInv, NEW c \in Cpus, TopBoost(c)
    PROVE  SchedInv'
  <1>1. TypeOK /\ LocksOK /\ CpuOK /\ OneCpu /\ WaitedOK /\ OldestSoFar /\ HighestSoFar
    BY DEF SchedInv
  <1>2. EachTyped /\ Holds
    BY <1>1, Elements, HoldsNow
  <1>3. at[c] = "top"
    BY <1>1, <1>2, Constants DEF EachTyped, Holds, CpuOK, CpuIs, TopBoost
  <1>4. /\ policy' = policy /\ state' = state /\ lock' = lock /\ ctime' = ctime
        /\ queue' = queue /\ slice' = slice /\ ticks' = ticks /\ boosted' = boosted
        /\ proc' = proc /\ level' = level /\ chosen' = chosen /\ ran' = ran /\ due' = due
        /\ waited' = waited
    BY DEF TopBoost, procVars, timeVars, cpuVars
  <1>5. at'[c] = "boost" /\ \A x \in Cpus \ {c} : at'[x] = at[x]
    BY <1>1, <1>2, <1>3, Constants DEF TypeOK, TopBoost
  <1>6. next'[c] = 1 /\ \A x \in Cpus \ {c} : next'[x] = next[x]
    BY <1>1, <1>2, <1>3, Constants DEF TypeOK, TopBoost
  <1>7. TypeOK'
    <2>1. at' \in [Cpus -> {"top", "boost", "scan", "switch",
                            "enter", "run", "leave", "log", "panic"}]
      BY <1>1, <1>2, <1>3, <1>5, Constants DEF TypeOK, EachTyped, TopBoost
    <2>2. next' \in [Cpus -> 1 .. NProc + 1]
      BY <1>1, <1>2, <1>3, <1>6, Constants DEF TypeOK, EachTyped, TopBoost
    <2> QED BY <1>1, <1>4, <2>1, <2>2 DEF TypeOK
  <1>8. EachTyped'
    BY <1>7, ElementsNext
  <1>9. LocksOK'
    <2> SUFFICES ASSUME NEW d \in Cpus, NEW q \in Procs PROVE (lock[q] = d <=> Keeps(d, q))'
      BY DEF LocksOK
    <2>1. (lock[q] = d <=> Keeps(d, q)) /\ (lock[q] = c <=> Keeps(c, q))
      BY <1>1 DEF LocksOK
    <2>2. CASE d = c
      BY <2>1, <2>2, <1>2, <1>3, <1>4, <1>5, Constants DEF Keeps
    <2>3. CASE d # c
      BY <2>1, <2>3, <1>2, <1>3, <1>4, <1>5, Constants DEF Keeps
    <2> QED BY <2>2, <2>3
  <1>10. CpuOK'
    BY <1>1, <1>2, <1>3, <1>4, <1>5, <1>6, Constants DEF CpuOK, EachTyped, Holds, CpuIs
  <1>11. OneCpu'
    BY <1>1, <1>2, <1>3, <1>4, Constants DEF OneCpu
  <1>12. WaitedOK'
    BY <1>1, <1>2, <1>3, <1>4, Constants DEF WaitedOK, EachTyped, Holds
  <1>13. OldestSoFar'
    BY <1>1, <1>2, <1>3, <1>4, <1>5, <1>6, <1>8, Constants DEF OldestSoFar, EachTyped, Holds,
       WaitedOK, Oldest
  <1>14. HighestSoFar'
    BY <1>1, <1>2, <1>3, <1>4, <1>5, <1>6, <1>8, Constants DEF HighestSoFar, EachTyped, Holds,
       WaitedOK, Highest
  <1> QED BY <1>7, <1>9, <1>10, <1>11, <1>12, <1>13, <1>14 DEF SchedInv

\* The boost of a process: it counts no longer as waiting.
LEMMA BoostStep ==
    ASSUME SchedInv, NEW c \in Cpus, Boost(c)
    PROVE  SchedInv'
  <1>1. TypeOK /\ LocksOK /\ CpuOK /\ OneCpu /\ WaitedOK /\ OldestSoFar /\ HighestSoFar
    BY DEF SchedInv
  <1>2. EachTyped /\ Holds
    BY <1>1, Elements, HoldsNow
  <1>3. at[c] = "boost" /\ next[c] \in Procs /\ lock[next[c]] = None
    BY <1>1, <1>2, Constants DEF EachTyped, Holds, CpuOK, CpuIs, Boost
  <1>4. /\ policy' = policy /\ state' = state /\ lock' = lock /\ ctime' = ctime
        /\ ticks' = ticks /\ boosted' = boosted /\ at' = at /\ proc' = proc /\ level' = level
        /\ chosen' = chosen /\ ran' = ran /\ due' = due
    BY DEF Boost, procVars, timeVars, cpuVars
  <1>5. \A x \in Procs \ {next[c]} : queue'[x] = queue[x]
    BY <1>1, <1>2, <1>3, Constants DEF TypeOK, Boost
  <1>6. \A x \in Procs \ {next[c]} : slice'[x] = slice[x]
    BY <1>1, <1>2, <1>3, Constants DEF TypeOK, Boost
  <1>7. next'[c] = next[c] + 1 /\ \A x \in Cpus \ {c} : next'[x] = next[x]
    BY <1>1, <1>2, <1>3, Constants DEF TypeOK, Boost
  <1>8. \A x \in Cpus : waited'[x] = waited[x] \ {next[c]}
    BY <1>1, <1>2, <1>3, Constants DEF TypeOK, Boost
  <1>9. TypeOK'
    <2>1. queue' \in [Procs -> Queues]
      BY <1>1, <1>2, <1>3, <1>5, Constants DEF TypeOK, EachTyped, Boost
    <2>2. slice' \in [Procs -> Nat \ {0}]
      BY <1>1, <1>2, <1>3, <1>6, Constants DEF TypeOK, EachTyped, Boost
    <2>3. next' \in [Cpus -> 1 .. NProc + 1]
      <3>1. next \in [Cpus -> 1 .. NProc + 1]
        BY <1>1 DEF TypeOK
      <3> QED BY <1>2, <1>3, <3>1, <1>7, Constants DEF EachTyped, Boost
    <2>4. waited' \in [Cpus -> SUBSET Procs]
      BY <1>1, <1>2, <1>3, <1>8, Constants DEF TypeOK, EachTyped, Boost
    <2> QED BY <1>1, <1>4, <2>1, <2>2, <2>3, <2>4 DEF TypeOK
  <1>10. EachTyped'
    BY <1>9, ElementsNext
  <1>11. LocksOK'
    <2> SUFFICES ASSUME NEW d \in Cpus, NEW q \in Procs PROVE (lock[q] = d <=> Keeps(d, q))'
      BY DEF LocksOK
    <2>1. (lock[q] = d <=> Keeps(d, q)) /\ (lock[q] = c <=> Keeps(c, q))
      BY <1>1 DEF LocksOK
    <2>2. CASE d = c
      BY <2>1, <2>2, <1>2, <1>3, <1>4, Constants DEF Keeps
    <2>3. CASE d # c
      BY <2>1, <2>3, <1>2, <1>3, <1>4, Constants DEF Keeps
    <2> QED BY <2>2, <2>3
  <1>12. CpuOK'
    BY <1>1, <1>2, <1>3, <1>4, <1>7, Constants DEF CpuOK, EachTyped, Holds, CpuIs
  <1>13. OneCpu'
    BY <1>1, <1>2, <1>3, <1>4, Constants DEF OneCpu
  <1>14. WaitedOK'
    BY <1>1, <1>2, <1>3, <1>4, <1>8, Constants DEF WaitedOK, EachTyped, Holds
  <1>15. OldestSoFar'
    <2> SUFFICES ASSUME NEW d \in Cpus PROVE Oldest(d)'
      BY DEF OldestSoFar
    <2>1. CASE d = c
      BY <1>1, <1>2, <1>3, <1>4, <1>7, <1>8, <1>10, Constants, <2>1 DEF EachTyped, Holds,
         WaitedOK, OldestSoFar, Oldest
    <2>2. CASE d # c
      <3>1. Oldest(d) /\ policy' = policy
        BY <1>1, <1>4 DEF OldestSoFar
      <3>2. /\ at'[d] = at[d] /\ chosen'[d] = chosen[d] /\ next'[d] = next[d]
            /\ waited'[d] \subseteq waited[d]
        BY <1>4, <1>7, <1>8, <2>2
      <3>3. chosen[d] # None => ctime'[chosen[d]] = ctime[chosen[d]]
        BY <1>2, <1>4, <2>2 DEF EachTyped
      <3>4. \A q \in waited'[d] : ctime'[q] = ctime[q]
        BY <1>2, <1>4, <1>8, <2>2 DEF EachTyped
      <3> QED BY <3>1, <3>2, <3>3, <3>4, FrameOldest
    <2> QED BY <2>1, <2>2
  <1>16. HighestSoFar'
    <2> SUFFICES ASSUME NEW d \in Cpus PROVE Highest(d)'
      BY DEF HighestSoFar
    <2>1. CASE d = c
      BY <1>1, <1>2, <1>3, <1>4, <1>5, <1>7, <1>8, <1>10, Constants, <2>1 DEF EachTyped, Holds,
         WaitedOK, HighestSoFar, Highest
    <2>2. CASE d # c
      <3>1. Highest(d) /\ policy' = policy
        BY <1>1, <1>4 DEF HighestSoFar
      <3>2. /\ at'[d] = at[d] /\ level'[d] = level[d] /\ next'[d] = next[d]
            /\ waited'[d] \subseteq waited[d]
        BY <1>4, <1>7, <1>8, <2>2
      <3>3. \A q \in waited'[d] : queue'[q] = queue[q]
        BY <1>2, <1>4, <1>5, <1>8, <2>2 DEF EachTyped
      <3> QED BY <3>1, <3>2, <3>3, FrameHighest
    <2> QED BY <2>1, <2>2
  <1> QED BY <1>9, <1>11, <1>12, <1>13, <1>14, <1>15, <1>16 DEF SchedInv

\* After the boost a scan begins.
LEMMA BoostedStep ==
    ASSUME SchedInv, NEW c \in Cpus, Boosted(c)
    PROVE  SchedInv'
  <1>1. TypeOK /\ LocksOK /\ CpuOK /\ OneCpu /\ WaitedOK /\ OldestSoFar /\ HighestSoFar
    BY DEF SchedInv
  <1>2. EachTyped /\ Holds
    BY <1>1, Elements, HoldsNow
  <1>3. at[c] = "boost"
    BY <1>1, <1>2, Constants DEF EachTyped, Holds, CpuOK, CpuIs, Boosted, BeginScan, Runnable
  <1>4. /\ policy' = policy /\ state' = state /\ lock' = lock /\ ctime' = ctime
        /\ queue' = queue /\ slice' = slice /\ ticks' = ticks /\ proc' = proc /\ ran' = ran
        /\ due' = due
    BY DEF Boosted, BeginScan, Runnable, procVars, timeVars, cpuVars
  <1>5. at'[c] = "scan" /\ \A x \in Cpus \ {c} : at'[x] = at[x]
    BY <1>1, <1>2, <1>3, Constants DEF TypeOK, Boosted, BeginScan, Runnable
  <1>6. next'[c] = 1 /\ \A x \in Cpus \ {c} : next'[x] = next[x]
    BY <1>1, <1>2, <1>3, Constants DEF TypeOK, Boosted, BeginScan, Runnable
  <1>7. level'[c] = 0 /\ \A x \in Cpus \ {c} : level'[x] = level[x]
    BY <1>1, <1>2, <1>3, Constants DEF TypeOK, Boosted, BeginScan, Runnable
  <1>8. chosen'[c] = None /\ \A x \in Cpus \ {c} : chosen'[x] = chosen[x]
    BY <1>1, <1>2, <1>3, Constants DEF TypeOK, Boosted, BeginScan, Runnable
  <1>9. /\ \A x \in waited'[c] : state[x] = "RUNNABLE"
        /\ \A x \in Cpus \ {c} : waited'[x] = waited[x]
    BY <1>1, <1>2, <1>3, Constants DEF TypeOK, Boosted, BeginScan, Runnable
  <1>10. boosted' = 0
    BY <1>1, <1>2, <1>3, Constants DEF TypeOK, Boosted, BeginScan, Runnable
  <1>11. TypeOK'
    <2>1. at' \in [Cpus -> {"top", "boost", "scan", "switch",
                            "enter", "run", "leave", "log", "panic"}]
      BY <1>1, <1>2, <1>3, <1>5, Constants DEF TypeOK, EachTyped, Boosted, BeginScan, Runnable
    <2>2. next' \in [Cpus -> 1 .. NProc + 1]
      BY <1>1, <1>2, <1>3, <1>6, Constants DEF TypeOK, EachTyped, Boosted, BeginScan, Runnable
    <2>3. level' \in [Cpus -> Queues]
      BY <1>1, <1>2, <1>3, <1>7, Constants DEF TypeOK, EachTyped, Boosted, BeginScan, Runnable
    <2>4. chosen' \in [Cpus -> Procs \union {None}]
      BY <1>1, <1>2, <1>3, <1>8, Constants DEF TypeOK, EachTyped, Boosted, BeginScan, Runnable
    <2>5. waited' \in [Cpus -> SUBSET Procs]
      BY <1>1, <1>2, <1>3, <1>9, Constants DEF TypeOK, EachTyped, Boosted, BeginScan, Runnable
    <2>6. boosted' \in 0 .. BoostInterval
      BY <1>1, <1>2, <1>3, <1>10, Constants DEF TypeOK, EachTyped, Boosted, BeginScan, Runnable
    <2> QED BY <1>1, <1>4, <2>1, <2>2, <2>3, <2>4, <2>5, <2>6 DEF TypeOK
  <1>12. EachTyped'
    BY <1>11, ElementsNext
  <1>13. LocksOK'
    <2> SUFFICES ASSUME NEW d \in Cpus, NEW q \in Procs PROVE (lock[q] = d <=> Keeps(d, q))'
      BY DEF LocksOK
    <2>1. (lock[q] = d <=> Keeps(d, q)) /\ (lock[q] = c <=> Keeps(c, q))
      BY <1>1 DEF LocksOK
    <2>2. CASE d = c
      BY <2>1, <2>2, <1>2, <1>3, <1>4, <1>5, <1>8, Constants DEF Keeps
    <2>3. CASE d # c
      BY <2>1, <2>3, <1>2, <1>3, <1>4, <1>5, <1>8, Constants DEF Keeps
    <2> QED BY <2>2, <2>3
  <1>14. CpuOK'
    BY <1>1, <1>2, <1>3, <1>4, <1>5, <1>6, <1>8, Constants DEF CpuOK, EachTyped, Holds, CpuIs
  <1>15. OneCpu'
    BY <1>1, <1>2, <1>3, <1>4, Constants DEF OneCpu
  <1>16. WaitedOK'
    BY <1>1, <1>2, <1>3, <1>4, <1>9, Constants DEF WaitedOK, EachTyped, Holds
  <1>17. OldestSoFar'
    <2> SUFFICES ASSUME NEW d \in Cpus PROVE Oldest(d)'
      BY DEF OldestSoFar
    <2>1. CASE d = c
      BY <1>1, <1>2, <1>3, <1>4, <1>5, <1>6, <1>8, <1>9, <1>12, Constants, <2>1 DEF EachTyped,
         Holds, WaitedOK, OldestSoFar, Oldest
    <2>2. CASE d # c
      <3>1. Oldest(d) /\ policy' = policy
        BY <1>1, <1>4 DEF OldestSoFar
      <3>2. /\ at'[d] = at[d] /\ chosen'[d] = chosen[d] /\ next'[d] = next[d]
            /\ waited'[d] \subseteq waited[d]
        BY <1>4, <1>5, <1>6, <1>8, <1>9, <2>2
      <3>3. chosen[d] # None => ctime'[chosen[d]] = ctime[chosen[d]]
        BY <1>2, <1>4, <2>2 DEF EachTyped
      <3>4. \A q \in waited'[d] : ctime'[q] = ctime[q]
        BY <1>2, <1>4, <1>9, <2>2 DEF EachTyped
      <3> QED BY <3>1, <3>2, <3>3, <3>4, FrameOldest
    <2> QED BY <2>1, <2>2
  <1>18. HighestSoFar'
    <2> SUFFICES ASSUME NEW d \in Cpus PROVE Highest(d)'
      BY DEF HighestSoFar
    <2>1. CASE d = c
      BY <1>1, <1>2, <1>3, <1>4, <1>5, <1>6, <1>7, <1>9, <1>12, Constants, <2>1 DEF EachTyped,
         Holds, WaitedOK, HighestSoFar, Highest
    <2>2. CASE d # c
      <3>1. Highest(d) /\ policy' = policy
        BY <1>1, <1>4 DEF HighestSoFar
      <3>2. /\ at'[d] = at[d] /\ level'[d] = level[d] /\ next'[d] = next[d]
            /\ waited'[d] \subseteq waited[d]
        BY <1>4, <1>5, <1>6, <1>7, <1>9, <2>2
      <3>3. \A q \in waited'[d] : queue'[q] = queue[q]
        BY <1>2, <1>4, <1>9, <2>2 DEF EachTyped
      <3> QED BY <3>1, <3>2, <3>3, FrameHighest
    <2> QED BY <2>1, <2>2
  <1> QED BY <1>11, <1>13, <1>14, <1>15, <1>16, <1>17, <1>18 DEF SchedInv

\* The scan meets a better process: it gives one lock for the other.
LEMMA KeepStep ==
    ASSUME SchedInv, NEW c \in Cpus, Scan(c), IsBetter(c, next[c])
    PROVE  SchedInv'
  <1>1. TypeOK /\ LocksOK /\ CpuOK /\ OneCpu /\ WaitedOK /\ OldestSoFar /\ HighestSoFar
    BY DEF SchedInv
  <1>2. EachTyped /\ Holds
    BY <1>1, Elements, HoldsNow
  <1>3. /\ at[c] = "scan" /\ next[c] \in Procs /\ lock[next[c]] = None
        /\ state[next[c]] = "RUNNABLE"
        /\ (policy = "MLFQ" => queue[next[c]] = level[c])
        /\ (policy = "FCFS" /\ chosen[c] # None => ctime[next[c]] < ctime[chosen[c]])
    BY <1>1, <1>2, Constants DEF EachTyped, Holds, CpuOK, CpuIs, Scan, Keep, IsBetter
  <1>4. /\ policy' = policy /\ state' = state /\ ctime' = ctime /\ queue' = queue
        /\ slice' = slice /\ ticks' = ticks /\ boosted' = boosted /\ proc' = proc
        /\ level' = level /\ ran' = ran /\ due' = due /\ waited' = waited
    BY DEF Scan, Keep, IsBetter, procVars, timeVars, cpuVars
  <1>5. /\ lock'[next[c]] = c
        /\ \A x \in Procs \ {next[c]} : lock'[x] = IF x = chosen[c] THEN None ELSE lock[x]
    BY <1>1, <1>2, <1>3, Constants DEF TypeOK, Scan, Keep
  <1>6. chosen'[c] = next[c] /\ \A x \in Cpus \ {c} : chosen'[x] = chosen[x]
    BY <1>1, <1>2, <1>3, Constants DEF TypeOK, Scan, Keep
  <1>7. /\ at'[c] = IF policy \in {"RR", "MLFQ"} THEN "switch" ELSE "scan"
        /\ \A x \in Cpus \ {c} : at'[x] = at[x]
    BY <1>1, <1>2, <1>3, Constants DEF TypeOK, Scan, Keep
  <1>8. next'[c] = next[c] + 1 /\ \A x \in Cpus \ {c} : next'[x] = next[x]
    BY <1>1, <1>2, <1>3, Constants DEF TypeOK, Scan, Keep
  <1>9. TypeOK'
    <2>1. lock' \in [Procs -> Cpus \union {None}]
      <3>1. lock \in [Procs -> Cpus \union {None}]
        BY <1>1 DEF TypeOK
      <3>2. lock' = [q \in Procs |-> IF q = next[c] THEN c ELSE IF q = chosen[c] THEN None ELSE lock[q]]
        BY DEF Scan, Keep
      <3> QED BY <3>1, <3>2
    <2>2. chosen' \in [Cpus -> Procs \union {None}]
      BY <1>1, <1>2, <1>3, <1>6, Constants DEF TypeOK, EachTyped, Scan, Keep
    <2>3. at' \in [Cpus -> {"top", "boost", "scan", "switch",
                            "enter", "run", "leave", "log", "panic"}]
      <3>1. at \in [Cpus -> {"top", "boost", "scan", "switch",
                             "enter", "run", "leave", "log", "panic"}]
        BY <1>1 DEF TypeOK
      <3> QED BY <1>2, <1>3, <3>1, <1>7, Constants DEF EachTyped, Scan, Keep
    <2>4. next' \in [Cpus -> 1 .. NProc + 1]
      <3>1. next \in [Cpus -> 1 .. NProc + 1]
        BY <1>1 DEF TypeOK
      <3> QED BY <1>2, <1>3, <3>1, <1>8, Constants DEF EachTyped, Scan, Keep
    <2> QED BY <1>1, <1>4, <2>1, <2>2, <2>3, <2>4 DEF TypeOK
  <1>10. EachTyped'
    BY <1>9, ElementsNext
  <1>11. LocksOK'
    <2> SUFFICES ASSUME NEW d \in Cpus, NEW q \in Procs PROVE (lock[q] = d <=> Keeps(d, q))'
      BY DEF LocksOK
    <2>1. (lock[q] = d <=> Keeps(d, q)) /\ (lock[q] = c <=> Keeps(c, q))
      BY <1>1 DEF LocksOK
    <2>2. CASE q = next[c]
      BY <1>1, <1>2, <1>3, <1>4, <1>5, <1>6, <1>7, Constants, <2>1, <2>2 DEF Keeps
    <2>3. CASE q # next[c] /\ d = c
      BY <1>1, <1>2, <1>3, <1>4, <1>5, <1>6, <1>7, Constants, <2>1, <2>3 DEF Keeps
    <2>4. CASE q # next[c] /\ d # c
      BY <1>1, <1>2, <1>3, <1>4, <1>5, <1>6, <1>7, Constants, <2>1, <2>4 DEF Keeps, Holds
    <2> QED BY <2>2, <2>3, <2>4
  <1>12. CpuOK'
    <2> SUFFICES ASSUME NEW d \in Cpus PROVE CpuIs(d)'
      BY DEF CpuOK
    <2>1. CASE d = c
      BY <1>1, <1>2, <1>3, <1>4, <1>6, <1>7, <1>8, Constants, <2>1 DEF EachTyped, Holds, CpuOK,
         CpuIs
    <2>2. CASE d # c
      <3>1. CpuIs(d)
        BY <1>1, <1>4 DEF CpuOK
      <3>2. at'[d] = at[d] /\ chosen'[d] = chosen[d] /\ proc'[d] = proc[d] /\ next'[d] = next[d]
        BY <1>4, <1>6, <1>7, <1>8, <2>2
      <3>3. chosen[d] # None => state'[chosen[d]] = state[chosen[d]]
        BY <1>2, <1>4, <2>2 DEF EachTyped
      <3>4. at[d] \in {"enter", "run"} => state'[proc[d]] = state[proc[d]]
        BY <1>2, <1>4, <2>2 DEF Holds
      <3> QED BY <3>1, <3>2, <3>3, <3>4, FrameCpu
    <2> QED BY <2>1, <2>2
  <1>13. OneCpu'
    BY <1>1, <1>2, <1>3, <1>4, Constants DEF OneCpu
  <1>14. WaitedOK'
    BY <1>1, <1>2, <1>3, <1>4, Constants DEF WaitedOK, EachTyped, Holds
  <1>15. OldestSoFar'
    <2> SUFFICES ASSUME NEW d \in Cpus PROVE Oldest(d)'
      BY DEF OldestSoFar
    <2>1. CASE d = c
      <3>1. ASSUME NEW q \in waited[c], q < next[c] + 1, policy = "FCFS"
            PROVE  ctime[next[c]] <= ctime[q]
        <4>1. q \in Nat /\ ctime[q] \in Nat /\ ctime[next[c]] \in Nat /\ next[c] \in Nat
          BY <1>2, <1>3 DEF EachTyped
        <4>2. CASE q = next[c]
          BY <4>1, <4>2
        <4>3. CASE q # next[c]
          <5>1. chosen[c] # None /\ ctime[chosen[c]] <= ctime[q]
            BY <1>1, <1>3, <3>1, <4>1, <4>3 DEF OldestSoFar, Oldest
          <5>2. ctime[chosen[c]] \in Nat /\ ctime[next[c]] < ctime[chosen[c]]
            BY <1>2, <1>3, <3>1, <5>1 DEF EachTyped
          <5> QED BY <4>1, <5>1, <5>2
        <4> QED BY <4>2, <4>3
      <3>2. policy = "FCFS" => at'[c] = "scan"
        BY <1>3, <1>7
      <3>3. chosen'[c] = next[c] /\ next[c] # None
        BY <1>3, <1>6, Constants
      <3>4. next'[c] = next[c] + 1
        BY <1>8
      <3> QED BY <1>4, <2>1, <3>1, <3>2, <3>3, <3>4 DEF Oldest
    <2>2. CASE d # c
      <3>1. Oldest(d) /\ at'[d] = at[d] /\ chosen'[d] = chosen[d] /\ next'[d] = next[d]
        BY <1>1, <2>2, <1>7, <1>6, <1>8 DEF OldestSoFar
      <3> QED BY <1>4, <3>1, FrameOldest
    <2> QED BY <2>1, <2>2
  <1>16. HighestSoFar'
    BY <1>1, <1>2, <1>3, <1>4, <1>7, <1>8, <1>10, Constants DEF HighestSoFar, EachTyped, Holds,
       WaitedOK, Highest
  <1> QED BY <1>9, <1>11, <1>12, <1>13, <1>14, <1>15, <1>16 DEF SchedInv

\* The scan goes past a process.
LEMMA PassStep ==
    ASSUME SchedInv, NEW c \in Cpus, Scan(c), ~IsBetter(c, next[c])
    PROVE  SchedInv'
  <1>1. TypeOK /\ LocksOK /\ CpuOK /\ OneCpu /\ WaitedOK /\ OldestSoFar /\ HighestSoFar
    BY DEF SchedInv
  <1>2. EachTyped /\ Holds
    BY <1>1, Elements, HoldsNow
  <1>3. at[c] = "scan" /\ next[c] \in Procs /\ lock[next[c]] = None
        /\ (policy = "MLFQ" => state[next[c]] # "RUNNABLE" \/ queue[next[c]] # level[c])
        /\ (policy = "FCFS" => state[next[c]] # "RUNNABLE" \/ (chosen[c] # None /\ ctime[next[c]] >= ctime[chosen[c]]))
    BY <1>1, <1>2, Constants DEF EachTyped, Holds, CpuOK, CpuIs, Scan, IsBetter
  <1>4. /\ policy' = policy /\ state' = state /\ lock' = lock /\ ctime' = ctime
        /\ queue' = queue /\ slice' = slice /\ ticks' = ticks /\ boosted' = boosted /\ at' = at
        /\ proc' = proc /\ level' = level /\ chosen' = chosen /\ ran' = ran /\ due' = due
        /\ waited' = waited
    BY DEF Scan, IsBetter, procVars, timeVars, cpuVars
  <1>5. next'[c] = next[c] + 1 /\ \A x \in Cpus \ {c} : next'[x] = next[x]
    BY <1>1, <1>2, <1>3, Constants DEF TypeOK, Scan, IsBetter
  <1>6. TypeOK'
    <2>1. next' \in [Cpus -> 1 .. NProc + 1]
      <3>1. next \in [Cpus -> 1 .. NProc + 1]
        BY <1>1 DEF TypeOK
      <3> QED BY <1>2, <1>3, <3>1, <1>5, Constants DEF EachTyped, Scan, IsBetter
    <2> QED BY <1>1, <1>4, <2>1 DEF TypeOK
  <1>7. EachTyped'
    BY <1>6, ElementsNext
  <1>8. LocksOK'
    <2> SUFFICES ASSUME NEW d \in Cpus, NEW q \in Procs PROVE (lock[q] = d <=> Keeps(d, q))'
      BY DEF LocksOK
    <2>1. (lock[q] = d <=> Keeps(d, q)) /\ (lock[q] = c <=> Keeps(c, q))
      BY <1>1 DEF LocksOK
    <2>2. CASE d = c
      BY <2>1, <2>2, <1>2, <1>3, <1>4, Constants DEF Keeps
    <2>3. CASE d # c
      BY <2>1, <2>3, <1>2, <1>3, <1>4, Constants DEF Keeps
    <2> QED BY <2>2, <2>3
  <1>9. CpuOK'
    BY <1>1, <1>2, <1>3, <1>4, <1>5, Constants DEF CpuOK, EachTyped, Holds, CpuIs
  <1>10. OneCpu'
    BY <1>1, <1>2, <1>3, <1>4, Constants DEF OneCpu
  <1>11. WaitedOK'
    BY <1>1, <1>2, <1>3, <1>4, Constants DEF WaitedOK, EachTyped, Holds
  <1>12. OldestSoFar'
    <2> SUFFICES ASSUME NEW d \in Cpus PROVE Oldest(d)'
      BY DEF OldestSoFar
    <2>1. Oldest(d)
      BY <1>1 DEF OldestSoFar
    <2>2. CASE d = c
      <3>1. ASSUME NEW q \in waited[c], q < next[c] + 1, policy = "FCFS"
            PROVE  chosen[c] # None /\ ctime[chosen[c]] <= ctime[q]
        <4>1. q \in Nat /\ next[c] \in Nat /\ state[q] = "RUNNABLE"
          BY <1>1, <1>2 DEF EachTyped, WaitedOK
        <4>2. CASE q = next[c]
          <5>1. chosen[c] # None /\ ctime[next[c]] >= ctime[chosen[c]]
            BY <1>3, <3>1, <4>1, <4>2
          <5>2. ctime[next[c]] \in Nat /\ ctime[chosen[c]] \in Nat
            BY <1>2, <1>3, <5>1 DEF EachTyped
          <5> QED BY <4>2, <5>1, <5>2
        <4>3. CASE q # next[c]
          BY <1>3, <2>1, <2>2, <3>1, <4>1, <4>3 DEF Oldest
        <4> QED BY <4>2, <4>3
      <3> QED BY <1>3, <1>4, <1>5, <2>2, <3>1 DEF Oldest
    <2>3. CASE d # c
      BY <1>4, <1>5, <2>1, <2>3, FrameOldest
    <2> QED BY <2>2, <2>3
  <1>13. HighestSoFar'
    <2> SUFFICES ASSUME NEW d \in Cpus PROVE Highest(d)'
      BY DEF HighestSoFar
    <2>1. CASE d = c
      BY <1>1, <1>2, <1>3, <1>4, <1>5, <1>7, Constants, <2>1 DEF EachTyped, Holds, WaitedOK,
         HighestSoFar, Highest
    <2>2. CASE d # c
      <3>1. Highest(d) /\ policy' = policy
        BY <1>1, <1>4 DEF HighestSoFar
      <3>2. /\ at'[d] = at[d] /\ level'[d] = level[d] /\ next'[d] = next[d]
            /\ waited'[d] \subseteq waited[d]
        BY <1>4, <1>5, <2>2
      <3>3. \A q \in waited'[d] : queue'[q] = queue[q]
        BY <1>2, <1>4, <2>2 DEF EachTyped
      <3> QED BY <3>1, <3>2, <3>3, FrameHighest
    <2> QED BY <2>1, <2>2
  <1> QED BY <1>6, <1>8, <1>9, <1>10, <1>11, <1>12, <1>13 DEF SchedInv

\* MLFQ has seen all slots: every process that waits is in a lower queue.
LEMMA NextLevelStep ==
    ASSUME SchedInv, NEW c \in Cpus, NextLevel(c)
    PROVE  SchedInv'
  <1>1. TypeOK /\ LocksOK /\ CpuOK /\ OneCpu /\ WaitedOK /\ OldestSoFar /\ HighestSoFar
    BY DEF SchedInv
  <1>2. EachTyped /\ Holds
    BY <1>1, Elements, HoldsNow
  <1>3. at[c] = "scan" /\ next[c] > NProc /\ policy = "MLFQ" /\ level[c] < LastQueue
    BY <1>1, <1>2, Constants DEF EachTyped, Holds, CpuOK, CpuIs, NextLevel
  <1>4. /\ policy' = policy /\ state' = state /\ lock' = lock /\ ctime' = ctime
        /\ queue' = queue /\ slice' = slice /\ ticks' = ticks /\ boosted' = boosted /\ at' = at
        /\ proc' = proc /\ chosen' = chosen /\ ran' = ran /\ due' = due /\ waited' = waited
    BY DEF NextLevel, procVars, timeVars, cpuVars
  <1>5. level'[c] = level[c] + 1 /\ \A x \in Cpus \ {c} : level'[x] = level[x]
    BY <1>1, <1>2, <1>3, Constants DEF TypeOK, NextLevel
  <1>6. next'[c] = 1 /\ \A x \in Cpus \ {c} : next'[x] = next[x]
    BY <1>1, <1>2, <1>3, Constants DEF TypeOK, NextLevel
  <1>7. TypeOK'
    <2>1. level' \in [Cpus -> Queues]
      BY <1>1, <1>2, <1>3, <1>5, Constants DEF TypeOK, EachTyped, NextLevel
    <2>2. next' \in [Cpus -> 1 .. NProc + 1]
      BY <1>1, <1>2, <1>3, <1>6, Constants DEF TypeOK, EachTyped, NextLevel
    <2> QED BY <1>1, <1>4, <2>1, <2>2 DEF TypeOK
  <1>8. EachTyped'
    BY <1>7, ElementsNext
  <1>9. LocksOK'
    <2> SUFFICES ASSUME NEW d \in Cpus, NEW q \in Procs PROVE (lock[q] = d <=> Keeps(d, q))'
      BY DEF LocksOK
    <2>1. (lock[q] = d <=> Keeps(d, q)) /\ (lock[q] = c <=> Keeps(c, q))
      BY <1>1 DEF LocksOK
    <2>2. CASE d = c
      BY <2>1, <2>2, <1>2, <1>3, <1>4, Constants DEF Keeps
    <2>3. CASE d # c
      BY <2>1, <2>3, <1>2, <1>3, <1>4, Constants DEF Keeps
    <2> QED BY <2>2, <2>3
  <1>10. CpuOK'
    BY <1>1, <1>2, <1>3, <1>4, <1>6, Constants DEF CpuOK, EachTyped, Holds, CpuIs
  <1>11. OneCpu'
    BY <1>1, <1>2, <1>3, <1>4, Constants DEF OneCpu
  <1>12. WaitedOK'
    BY <1>1, <1>2, <1>3, <1>4, Constants DEF WaitedOK, EachTyped, Holds
  <1>13. OldestSoFar'
    BY <1>1, <1>2, <1>3, <1>4, <1>6, <1>8, Constants DEF OldestSoFar, EachTyped, Holds,
       WaitedOK, Oldest
  <1>14. HighestSoFar'
    <2> SUFFICES ASSUME NEW d \in Cpus PROVE Highest(d)'
      BY DEF HighestSoFar
    <2>1. Highest(d)
      BY <1>1 DEF HighestSoFar
    <2>2. CASE d = c
      <3>1. ASSUME NEW q \in waited[c] PROVE level[c] + 1 <= queue[q] /\ ~(q < 1)
        <4>1. /\ q \in Nat /\ q >= 1 /\ q <= NProc /\ next[c] \in Nat /\ level[c] \in Nat
              /\ queue[q] \in Nat
          BY <1>2 DEF EachTyped
        <4>2. q < next[c]
          BY <1>3, <4>1, Constants
        <4>3. level[c] < queue[q]
          BY <1>3, <2>1, <2>2, <4>2 DEF Highest
        <4> QED BY <4>1, <4>3
      <3> QED BY <1>4, <1>5, <1>6, <2>2, <3>1 DEF Highest
    <2>3. CASE d # c
      BY <1>4, <1>5, <1>6, <2>1, <2>3, FrameHighest
    <2> QED BY <2>2, <2>3
  <1> QED BY <1>7, <1>9, <1>10, <1>11, <1>12, <1>13, <1>14 DEF SchedInv

\* The end of a scan.
LEMMA ScanDoneStep ==
    ASSUME SchedInv, NEW c \in Cpus, ScanDone(c)
    PROVE  SchedInv'
  <1>1. TypeOK /\ LocksOK /\ CpuOK /\ OneCpu /\ WaitedOK /\ OldestSoFar /\ HighestSoFar
    BY DEF SchedInv
  <1>2. EachTyped /\ Holds
    BY <1>1, Elements, HoldsNow
  <1>3. at[c] = "scan" /\ next[c] > NProc /\ (policy = "MLFQ" => level[c] = LastQueue)
    BY <1>1, <1>2, Constants DEF EachTyped, Holds, CpuOK, CpuIs, ScanDone
  <1>4. /\ policy' = policy /\ state' = state /\ lock' = lock /\ ctime' = ctime
        /\ queue' = queue /\ slice' = slice /\ ticks' = ticks /\ boosted' = boosted
        /\ proc' = proc /\ level' = level /\ chosen' = chosen /\ ran' = ran /\ due' = due
        /\ waited' = waited
    BY DEF ScanDone, procVars, timeVars, cpuVars
  <1>5. /\ at'[c] = IF chosen[c] = None THEN "top" ELSE IF policy = "CFS" THEN "log" ELSE "switch"
        /\ \A x \in Cpus \ {c} : at'[x] = at[x]
    BY <1>1, <1>2, <1>3, Constants DEF TypeOK, ScanDone
  <1>6. /\ next'[c] = IF policy = "CFS" THEN 1 ELSE next[c]
        /\ \A x \in Cpus \ {c} : next'[x] = next[x]
    BY <1>1, <1>2, <1>3, Constants DEF TypeOK, ScanDone
  <1>7. TypeOK'
    <2>1. at' \in [Cpus -> {"top", "boost", "scan", "switch",
                            "enter", "run", "leave", "log", "panic"}]
      BY <1>1, <1>2, <1>3, <1>5, Constants DEF TypeOK, EachTyped, ScanDone
    <2>2. next' \in [Cpus -> 1 .. NProc + 1]
      BY <1>1, <1>2, <1>3, <1>6, Constants DEF TypeOK, EachTyped, ScanDone
    <2> QED BY <1>1, <1>4, <2>1, <2>2 DEF TypeOK
  <1>8. EachTyped'
    BY <1>7, ElementsNext
  <1>9. LocksOK'
    <2> SUFFICES ASSUME NEW d \in Cpus, NEW q \in Procs PROVE (lock[q] = d <=> Keeps(d, q))'
      BY DEF LocksOK
    <2>1. (lock[q] = d <=> Keeps(d, q)) /\ (lock[q] = c <=> Keeps(c, q))
      BY <1>1 DEF LocksOK
    <2>2. CASE d = c
      BY <2>1, <2>2, <1>2, <1>3, <1>4, <1>5, Constants DEF Keeps
    <2>3. CASE d # c
      BY <2>1, <2>3, <1>2, <1>3, <1>4, <1>5, Constants DEF Keeps
    <2> QED BY <2>2, <2>3
  <1>10. CpuOK'
    BY <1>1, <1>2, <1>3, <1>4, <1>5, <1>6, Constants DEF CpuOK, EachTyped, Holds, CpuIs
  <1>11. OneCpu'
    BY <1>1, <1>2, <1>3, <1>4, Constants DEF OneCpu
  <1>12. WaitedOK'
    BY <1>1, <1>2, <1>3, <1>4, Constants DEF WaitedOK, EachTyped, Holds
  <1>13. OldestSoFar'
    <2> SUFFICES ASSUME NEW d \in Cpus PROVE Oldest(d)'
      BY DEF OldestSoFar
    <2>1. CASE d = c
      BY <1>1, <1>2, <1>3, <1>4, <1>5, <1>6, <1>8, Constants, <2>1 DEF EachTyped, Holds,
         WaitedOK, OldestSoFar, Oldest
    <2>2. CASE d # c
      <3>1. Oldest(d) /\ policy' = policy
        BY <1>1, <1>4 DEF OldestSoFar
      <3>2. /\ at'[d] = at[d] /\ chosen'[d] = chosen[d] /\ next'[d] = next[d]
            /\ waited'[d] \subseteq waited[d]
        BY <1>4, <1>5, <1>6, <2>2
      <3>3. chosen[d] # None => ctime'[chosen[d]] = ctime[chosen[d]]
        BY <1>2, <1>4, <2>2 DEF EachTyped
      <3>4. \A q \in waited'[d] : ctime'[q] = ctime[q]
        BY <1>2, <1>4, <2>2 DEF EachTyped
      <3> QED BY <3>1, <3>2, <3>3, <3>4, FrameOldest
    <2> QED BY <2>1, <2>2
  <1>14. HighestSoFar'
    BY <1>1, <1>2, <1>3, <1>4, <1>5, <1>6, <1>8, Constants DEF HighestSoFar, EachTyped, Holds,
       WaitedOK, Highest
  <1> QED BY <1>7, <1>9, <1>10, <1>11, <1>12, <1>13, <1>14 DEF SchedInv

\* The listing of CFS ends at the candidate, whose lock is held.
LEMMA LogStep ==
    ASSUME SchedInv, NEW c \in Cpus, Log(c)
    PROVE  SchedInv'
  <1>1. TypeOK /\ LocksOK /\ CpuOK /\ OneCpu /\ WaitedOK /\ OldestSoFar /\ HighestSoFar
    BY DEF SchedInv
  <1>2. EachTyped /\ Holds
    BY <1>1, Elements, HoldsNow
  <1>3. /\ at[c] = "log" /\ chosen[c] \in Procs /\ next[c] \in Procs /\ next[c] <= chosen[c]
        /\ (lock[next[c]] = c <=> next[c] = chosen[c])
    <2>1. /\ at[c] = "log" /\ chosen[c] \in Procs /\ next[c] \in Nat /\ next[c] >= 1
          /\ next[c] <= chosen[c]
      BY <1>1, <1>2 DEF EachTyped, Holds, CpuOK, CpuIs, Log
    <2>2. next[c] \in Procs
      BY <1>2, <2>1, Constants DEF EachTyped
    <2>3. lock[next[c]] = c <=> Keeps(c, next[c])
      BY <1>1, <2>2 DEF LocksOK
    <2> QED BY <2>1, <2>2, <2>3 DEF Keeps
  <1>4. /\ policy' = policy /\ state' = state /\ lock' = lock /\ ctime' = ctime
        /\ queue' = queue /\ slice' = slice /\ ticks' = ticks /\ boosted' = boosted
        /\ proc' = proc /\ level' = level /\ chosen' = chosen /\ ran' = ran /\ due' = due
        /\ waited' = waited
    BY DEF Log, procVars, timeVars, cpuVars
  <1>5. /\ at'[c] = IF next[c] = chosen[c] THEN "panic" ELSE "log"
        /\ \A x \in Cpus \ {c} : at'[x] = at[x]
    BY <1>1, <1>2, <1>3, Constants DEF TypeOK, Log
  <1>6. /\ next'[c] = IF next[c] = chosen[c] THEN next[c] ELSE next[c] + 1
        /\ \A x \in Cpus \ {c} : next'[x] = next[x]
    BY <1>1, <1>2, <1>3, Constants DEF TypeOK, Log
  <1>7. TypeOK'
    <2>1. at' \in [Cpus -> {"top", "boost", "scan", "switch",
                            "enter", "run", "leave", "log", "panic"}]
      BY <1>1, <1>2, <1>3, <1>5, Constants DEF TypeOK, EachTyped, Log
    <2>2. next' \in [Cpus -> 1 .. NProc + 1]
      <3>1. next \in [Cpus -> 1 .. NProc + 1]
        BY <1>1 DEF TypeOK
      <3> QED BY <1>2, <1>3, <3>1, <1>6, Constants DEF EachTyped, Log
    <2> QED BY <1>1, <1>4, <2>1, <2>2 DEF TypeOK
  <1>8. EachTyped'
    BY <1>7, ElementsNext
  <1>9. LocksOK'
    <2> SUFFICES ASSUME NEW d \in Cpus, NEW q \in Procs PROVE (lock[q] = d <=> Keeps(d, q))'
      BY DEF LocksOK
    <2>1. (lock[q] = d <=> Keeps(d, q)) /\ (lock[q] = c <=> Keeps(c, q))
      BY <1>1 DEF LocksOK
    <2>2. CASE d = c
      BY <2>1, <2>2, <1>2, <1>3, <1>4, <1>5, Constants DEF Keeps
    <2>3. CASE d # c
      BY <2>1, <2>3, <1>2, <1>3, <1>4, <1>5, Constants DEF Keeps
    <2> QED BY <2>2, <2>3
  <1>10. CpuOK'
    BY <1>1, <1>2, <1>3, <1>4, <1>5, <1>6, Constants DEF CpuOK, EachTyped, Holds, CpuIs
  <1>11. OneCpu'
    BY <1>1, <1>2, <1>3, <1>4, Constants DEF OneCpu
  <1>12. WaitedOK'
    BY <1>1, <1>2, <1>3, <1>4, Constants DEF WaitedOK, EachTyped, Holds
  <1>13. OldestSoFar'
    BY <1>1, <1>2, <1>3, <1>4, <1>5, <1>6, <1>8, Constants DEF OldestSoFar, EachTyped, Holds,
       WaitedOK, Oldest
  <1>14. HighestSoFar'
    BY <1>1, <1>2, <1>3, <1>4, <1>5, <1>6, <1>8, Constants DEF HighestSoFar, EachTyped, Holds,
       WaitedOK, Highest
  <1> QED BY <1>7, <1>9, <1>10, <1>11, <1>12, <1>13, <1>14 DEF SchedInv

\* The candidate runs, and no other CPU waits for it.
LEMMA SwitchStep ==
    ASSUME SchedInv, NEW c \in Cpus, Switch(c)
    PROVE  SchedInv'
  <1>1. TypeOK /\ LocksOK /\ CpuOK /\ OneCpu /\ WaitedOK /\ OldestSoFar /\ HighestSoFar
    BY DEF SchedInv
  <1>2. EachTyped /\ Holds
    BY <1>1, Elements, HoldsNow
  <1>3. /\ at[c] = "switch" /\ chosen[c] \in Procs /\ lock[chosen[c]] = c
        /\ state[chosen[c]] = "RUNNABLE"
    BY <1>1, <1>2, Constants DEF EachTyped, Holds, CpuOK, CpuIs, Switch
  <1>4. /\ policy' = policy /\ lock' = lock /\ ctime' = ctime /\ queue' = queue
        /\ slice' = slice /\ ticks' = ticks /\ boosted' = boosted /\ ran' = ran /\ due' = due
    BY DEF Switch, procVars, timeVars, cpuVars
  <1>5. state'[chosen[c]] = "RUNNING" /\ \A x \in Procs \ {chosen[c]} : state'[x] = state[x]
    BY <1>1, <1>2, <1>3, Constants DEF TypeOK, Switch
  <1>6. proc'[c] = chosen[c] /\ \A x \in Cpus \ {c} : proc'[x] = proc[x]
    BY <1>1, <1>2, <1>3, Constants DEF TypeOK, Switch
  <1>7. at'[c] = "enter" /\ \A x \in Cpus \ {c} : at'[x] = at[x]
    BY <1>1, <1>2, <1>3, Constants DEF TypeOK, Switch
  <1>8. chosen'[c] = None /\ \A x \in Cpus \ {c} : chosen'[x] = chosen[x]
    BY <1>1, <1>2, <1>3, Constants DEF TypeOK, Switch
  <1>9. \A x \in Cpus \ {c} : next'[x] = next[x]
    BY <1>1, <1>2, <1>3, Constants DEF TypeOK, Switch
  <1>10. \A x \in Cpus \ {c} : level'[x] = level[x]
    BY <1>1, <1>2, <1>3, Constants DEF TypeOK, Switch
  <1>11. /\ waited'[c] = {}
        /\ \A x \in Cpus \ {c} : waited'[x] = waited[x] \ {chosen[c]}
    BY <1>1, <1>2, <1>3, Constants DEF TypeOK, Switch
  <1>12. \A d \in Cpus \ {c} : /\ chosen[d] # None => chosen[d] \in Procs \ {chosen[c]}
                          /\ proc[d] # chosen[c]
                          /\ chosen[c] \notin waited'[d]
    BY <1>1, <1>2, <1>3, <1>4, <1>11, Constants DEF EachTyped, Holds, CpuOK, CpuIs, OneCpu,
       WaitedOK
  <1>13. TypeOK'
    <2>1. state' \in [Procs -> {"UNUSED", "SLEEPING", "RUNNABLE", "RUNNING", "ZOMBIE"}]
      BY <1>1, <1>2, <1>3, <1>5, Constants DEF TypeOK, EachTyped, Switch
    <2>2. proc' \in [Cpus -> Procs \union {None}]
      BY <1>1, <1>2, <1>3, <1>6, Constants DEF TypeOK, EachTyped, Switch
    <2>3. at' \in [Cpus -> {"top", "boost", "scan", "switch",
                            "enter", "run", "leave", "log", "panic"}]
      BY <1>1, <1>2, <1>3, <1>7, Constants DEF TypeOK, EachTyped, Switch
    <2>4. chosen' \in [Cpus -> Procs \union {None}]
      BY <1>1, <1>2, <1>3, <1>8, Constants DEF TypeOK, EachTyped, Switch
    <2>5. next' \in [Cpus -> 1 .. NProc + 1]
      BY <1>1, <1>2, <1>3, <1>9, Constants DEF TypeOK, EachTyped, Switch
    <2>6. level' \in [Cpus -> Queues]
      BY <1>1, <1>2, <1>3, <1>10, Constants DEF TypeOK, EachTyped, Switch
    <2>7. waited' \in [Cpus -> SUBSET Procs]
      BY <1>1, <1>2, <1>3, <1>11, Constants DEF TypeOK, EachTyped, Switch
    <2> QED BY <1>1, <1>4, <2>1, <2>2, <2>3, <2>4, <2>5, <2>6, <2>7 DEF TypeOK
  <1>14. EachTyped'
    BY <1>13, ElementsNext
  <1>15. LocksOK'
    <2> SUFFICES ASSUME NEW d \in Cpus, NEW q \in Procs PROVE (lock[q] = d <=> Keeps(d, q))'
      BY DEF LocksOK
    <2>1. (lock[q] = d <=> Keeps(d, q)) /\ (lock[q] = c <=> Keeps(c, q))
      BY <1>1 DEF LocksOK
    <2>2. CASE d = c
      BY <2>1, <2>2, <1>2, <1>3, <1>4, <1>6, <1>7, <1>8, Constants DEF Keeps
    <2>3. CASE d # c
      BY <2>1, <2>3, <1>2, <1>3, <1>4, <1>6, <1>7, <1>8, Constants DEF Keeps
    <2> QED BY <2>2, <2>3
  <1>16. CpuOK'
    <2> SUFFICES ASSUME NEW d \in Cpus PROVE CpuIs(d)'
      BY DEF CpuOK
    <2>1. CASE d = c
      BY <1>1, <1>2, <1>3, <1>4, <1>5, <1>6, <1>7, <1>8, <1>9, <1>12, Constants, <2>1
         DEF EachTyped, Holds, CpuOK, CpuIs
    <2>2. CASE d # c
      <3>1. CpuIs(d)
        BY <1>1, <1>4 DEF CpuOK
      <3>2. at'[d] = at[d] /\ chosen'[d] = chosen[d] /\ proc'[d] = proc[d] /\ next'[d] = next[d]
        BY <1>4, <1>6, <1>7, <1>8, <1>9, <2>2
      <3>3. chosen[d] # None => state'[chosen[d]] = state[chosen[d]]
        BY <1>2, <1>4, <1>5, <1>12, <2>2 DEF EachTyped
      <3>4. at[d] \in {"enter", "run"} => state'[proc[d]] = state[proc[d]]
        BY <1>2, <1>4, <1>5, <1>12, <2>2 DEF Holds
      <3> QED BY <3>1, <3>2, <3>3, <3>4, FrameCpu
    <2> QED BY <2>1, <2>2
  <1>17. OneCpu'
    BY <1>1, <1>2, <1>3, <1>4, <1>6, <1>12, Constants DEF OneCpu
  <1>18. WaitedOK'
    <2> SUFFICES ASSUME NEW d \in Cpus, NEW q \in waited'[d] PROVE state'[q] = "RUNNABLE"
      BY DEF WaitedOK
    <2>1. q \in waited[d] /\ q # chosen[c]
      BY <1>1, <1>2, <1>3, <1>4, <1>12, <1>11 DEF WaitedOK
    <2>2. q \in Procs /\ state[q] = "RUNNABLE"
      BY <1>1, <1>2, <2>1 DEF WaitedOK, EachTyped
    <2> QED BY <1>4, <1>5, <2>1, <2>2
  <1>19. OldestSoFar'
    <2> SUFFICES ASSUME NEW d \in Cpus PROVE Oldest(d)'
      BY DEF OldestSoFar
    <2>1. CASE d = c
      BY <1>1, <1>2, <1>3, <1>4, <1>7, <1>8, <1>9, <1>11, <1>12, <1>14, Constants, <2>1
         DEF EachTyped, Holds, WaitedOK, OldestSoFar, Oldest
    <2>2. CASE d # c
      <3>1. Oldest(d) /\ policy' = policy
        BY <1>1, <1>4 DEF OldestSoFar
      <3>2. /\ at'[d] = at[d] /\ chosen'[d] = chosen[d] /\ next'[d] = next[d]
            /\ waited'[d] \subseteq waited[d]
        BY <1>4, <1>7, <1>8, <1>9, <1>11, <2>2
      <3>3. chosen[d] # None => ctime'[chosen[d]] = ctime[chosen[d]]
        BY <1>2, <1>4, <1>12, <2>2 DEF EachTyped
      <3>4. \A q \in waited'[d] : ctime'[q] = ctime[q]
        BY <1>2, <1>4, <1>11, <1>12, <2>2 DEF EachTyped
      <3> QED BY <3>1, <3>2, <3>3, <3>4, FrameOldest
    <2> QED BY <2>1, <2>2
  <1>20. HighestSoFar'
    <2> SUFFICES ASSUME NEW d \in Cpus PROVE Highest(d)'
      BY DEF HighestSoFar
    <2>1. CASE d = c
      BY <1>1, <1>2, <1>3, <1>4, <1>7, <1>9, <1>10, <1>11, <1>12, <1>14, Constants, <2>1
         DEF EachTyped, Holds, WaitedOK, HighestSoFar, Highest
    <2>2. CASE d # c
      <3>1. Highest(d) /\ policy' = policy
        BY <1>1, <1>4 DEF HighestSoFar
      <3>2. /\ at'[d] = at[d] /\ level'[d] = level[d] /\ next'[d] = next[d]
            /\ waited'[d] \subseteq waited[d]
        BY <1>4, <1>7, <1>9, <1>10, <1>11, <2>2
      <3>3. \A q \in waited'[d] : queue'[q] = queue[q]
        BY <1>2, <1>4, <1>11, <1>12, <2>2 DEF EachTyped
      <3> QED BY <3>1, <3>2, <3>3, FrameHighest
    <2> QED BY <2>1, <2>2
  <1> QED BY <1>13, <1>15, <1>16, <1>17, <1>18, <1>19, <1>20 DEF SchedInv

\* The process releases its lock.
LEMMA EnterStep ==
    ASSUME SchedInv, NEW c \in Cpus, Enter(c)
    PROVE  SchedInv'
  <1>1. TypeOK /\ LocksOK /\ CpuOK /\ OneCpu /\ WaitedOK /\ OldestSoFar /\ HighestSoFar
    BY DEF SchedInv
  <1>2. EachTyped /\ Holds
    BY <1>1, Elements, HoldsNow
  <1>3. /\ at[c] = "enter" /\ proc[c] \in Procs /\ lock[proc[c]] = c
        /\ state[proc[c]] = "RUNNING" /\ chosen[c] = None
    BY <1>1, <1>2, Constants DEF EachTyped, Holds, CpuOK, CpuIs, Enter
  <1>4. /\ policy' = policy /\ state' = state /\ ctime' = ctime /\ queue' = queue
        /\ slice' = slice /\ ticks' = ticks /\ boosted' = boosted /\ proc' = proc
        /\ next' = next /\ level' = level /\ chosen' = chosen /\ ran' = ran /\ due' = due
        /\ waited' = waited
    BY DEF Enter, procVars, timeVars, cpuVars
  <1>5. lock'[proc[c]] = None /\ \A x \in Procs \ {proc[c]} : lock'[x] = lock[x]
    BY <1>1, <1>2, <1>3, Constants DEF TypeOK, Enter
  <1>6. at'[c] = "run" /\ \A x \in Cpus \ {c} : at'[x] = at[x]
    BY <1>1, <1>2, <1>3, Constants DEF TypeOK, Enter
  <1>7. TypeOK'
    <2>1. lock' \in [Procs -> Cpus \union {None}]
      BY <1>1, <1>2, <1>3, <1>5, Constants DEF TypeOK, EachTyped, Enter
    <2>2. at' \in [Cpus -> {"top", "boost", "scan", "switch",
                            "enter", "run", "leave", "log", "panic"}]
      BY <1>1, <1>2, <1>3, <1>6, Constants DEF TypeOK, EachTyped, Enter
    <2> QED BY <1>1, <1>4, <2>1, <2>2 DEF TypeOK
  <1>8. EachTyped'
    BY <1>7, ElementsNext
  <1>9. LocksOK'
    <2> SUFFICES ASSUME NEW d \in Cpus, NEW q \in Procs PROVE (lock[q] = d <=> Keeps(d, q))'
      BY DEF LocksOK
    <2>1. (lock[q] = d <=> Keeps(d, q)) /\ (lock[q] = c <=> Keeps(c, q))
      BY <1>1 DEF LocksOK
    <2>2. CASE d = c
      BY <2>1, <2>2, <1>2, <1>3, <1>4, <1>5, <1>6, Constants DEF Keeps
    <2>3. CASE d # c
      BY <2>1, <2>3, <1>2, <1>3, <1>4, <1>5, <1>6, Constants DEF Keeps
    <2> QED BY <2>2, <2>3
  <1>10. CpuOK'
    BY <1>1, <1>2, <1>3, <1>4, <1>6, Constants DEF CpuOK, EachTyped, Holds, CpuIs
  <1>11. OneCpu'
    BY <1>1, <1>2, <1>3, <1>4, Constants DEF OneCpu
  <1>12. WaitedOK'
    BY <1>1, <1>2, <1>3, <1>4, Constants DEF WaitedOK, EachTyped, Holds
  <1>13. OldestSoFar'
    BY <1>1, <1>2, <1>3, <1>4, <1>6, <1>8, Constants DEF OldestSoFar, EachTyped, Holds,
       WaitedOK, Oldest
  <1>14. HighestSoFar'
    BY <1>1, <1>2, <1>3, <1>4, <1>6, <1>8, Constants DEF HighestSoFar, EachTyped, Holds,
       WaitedOK, Highest
  <1> QED BY <1>7, <1>9, <1>10, <1>11, <1>12, <1>13, <1>14 DEF SchedInv

\* A running process takes its lock and gives up the CPU.
LEMMA LeaveStep ==
    ASSUME SchedInv, NEW c \in Cpus, NEW s \in {"RUNNABLE", "SLEEPING", "ZOMBIE"}, Leave(c, s)
    PROVE  SchedInv'
  <1>1. TypeOK /\ LocksOK /\ CpuOK /\ OneCpu /\ WaitedOK /\ OldestSoFar /\ HighestSoFar
    BY DEF SchedInv
  <1>2. EachTyped /\ Holds
    BY <1>1, Elements, HoldsNow
  <1>3. /\ at[c] = "run" /\ proc[c] \in Procs /\ lock[proc[c]] = None
        /\ state[proc[c]] = "RUNNING" /\ chosen[c] = None
    BY <1>1, <1>2, Constants DEF EachTyped, Holds, CpuOK, CpuIs, Leave
  <1>4. /\ policy' = policy /\ ctime' = ctime /\ queue' = queue /\ slice' = slice
        /\ ticks' = ticks /\ boosted' = boosted /\ proc' = proc /\ next' = next
        /\ level' = level /\ chosen' = chosen /\ ran' = ran /\ due' = due /\ waited' = waited
    BY DEF Leave, procVars, timeVars, cpuVars
  <1>5. lock'[proc[c]] = c /\ \A x \in Procs \ {proc[c]} : lock'[x] = lock[x]
    BY <1>1, <1>2, <1>3, Constants DEF TypeOK, Leave
  <1>6. state'[proc[c]] = s /\ \A x \in Procs \ {proc[c]} : state'[x] = state[x]
    BY <1>1, <1>2, <1>3, Constants DEF TypeOK, Leave
  <1>7. at'[c] = "leave" /\ \A x \in Cpus \ {c} : at'[x] = at[x]
    BY <1>1, <1>2, <1>3, Constants DEF TypeOK, Leave
  <1>8. \A d \in Cpus \ {c} : /\ chosen[d] # None => chosen[d] \in Procs \ {proc[c]}
                          /\ proc[d] # proc[c]
                          /\ proc[c] \notin waited'[d]
    BY <1>1, <1>2, <1>3, <1>4, Constants DEF EachTyped, Holds, CpuOK, CpuIs, OneCpu, WaitedOK
  <1>9. TypeOK'
    <2>1. lock' \in [Procs -> Cpus \union {None}]
      BY <1>1, <1>2, <1>3, <1>5, Constants DEF TypeOK, EachTyped, Leave
    <2>2. state' \in [Procs -> {"UNUSED", "SLEEPING", "RUNNABLE", "RUNNING", "ZOMBIE"}]
      BY <1>1, <1>2, <1>3, <1>6, Constants DEF TypeOK, EachTyped, Leave
    <2>3. at' \in [Cpus -> {"top", "boost", "scan", "switch",
                            "enter", "run", "leave", "log", "panic"}]
      BY <1>1, <1>2, <1>3, <1>7, Constants DEF TypeOK, EachTyped, Leave
    <2> QED BY <1>1, <1>4, <2>1, <2>2, <2>3 DEF TypeOK
  <1>10. EachTyped'
    BY <1>9, ElementsNext
  <1>11. LocksOK'
    <2> SUFFICES ASSUME NEW d \in Cpus, NEW q \in Procs PROVE (lock[q] = d <=> Keeps(d, q))'
      BY DEF LocksOK
    <2>1. (lock[q] = d <=> Keeps(d, q)) /\ (lock[q] = c <=> Keeps(c, q))
      BY <1>1 DEF LocksOK
    <2>2. CASE d = c
      BY <2>1, <2>2, <1>2, <1>3, <1>4, <1>5, <1>7, Constants DEF Keeps
    <2>3. CASE d # c
      BY <2>1, <2>3, <1>2, <1>3, <1>4, <1>5, <1>7, Constants DEF Keeps
    <2> QED BY <2>2, <2>3
  <1>12. CpuOK'
    BY <1>1, <1>2, <1>3, <1>4, <1>6, <1>7, <1>8, Constants DEF CpuOK, EachTyped, Holds, CpuIs
  <1>13. OneCpu'
    BY <1>1, <1>2, <1>3, <1>4, <1>8, Constants DEF OneCpu
  <1>14. WaitedOK'
    BY <1>1, <1>2, <1>3, <1>4, <1>6, <1>8, Constants DEF WaitedOK, EachTyped, Holds
  <1>15. OldestSoFar'
    BY <1>1, <1>2, <1>3, <1>4, <1>7, <1>8, <1>10, Constants DEF OldestSoFar, EachTyped, Holds,
       WaitedOK, Oldest
  <1>16. HighestSoFar'
    BY <1>1, <1>2, <1>3, <1>4, <1>7, <1>8, <1>10, Constants DEF HighestSoFar, EachTyped, Holds,
       WaitedOK, Highest
  <1> QED BY <1>9, <1>11, <1>12, <1>13, <1>14, <1>15, <1>16 DEF SchedInv

\* scheduler() gets the lock back, and MLFQ changes the queue of a process that it holds.
LEMMA ReturnStep ==
    ASSUME SchedInv, NEW c \in Cpus, Return(c)
    PROVE  SchedInv'
  <1>1. TypeOK /\ LocksOK /\ CpuOK /\ OneCpu /\ WaitedOK /\ OldestSoFar /\ HighestSoFar
    BY DEF SchedInv
  <1>2. EachTyped /\ Holds
    BY <1>1, Elements, HoldsNow
  <1>3. at[c] = "leave" /\ proc[c] \in Procs /\ lock[proc[c]] = c /\ chosen[c] = None
    BY <1>1, <1>2, Constants DEF EachTyped, Holds, CpuOK, CpuIs, Return, Charge, GoesOnAt, Min
  <1>4. /\ policy' = policy /\ state' = state /\ ctime' = ctime /\ ticks' = ticks
        /\ boosted' = boosted /\ next' = next /\ level' = level /\ chosen' = chosen
        /\ waited' = waited
    BY DEF Return, Charge, GoesOnAt, Min, procVars, timeVars, cpuVars
  <1>5. /\ \A x \in Procs \ {proc[c]} : queue'[x] = queue[x]
        /\ queue'[proc[c]] \in Queues /\ queue'[proc[c]] >= queue[proc[c]]
    <2>1. queue \in [Procs -> Queues]
      BY <1>1 DEF TypeOK
    <2>2. \/ queue' = queue
          \/ queue' = [queue EXCEPT ![proc[c]] = Min(@ + 1, LastQueue)]
      BY DEF Return, Charge
    <2>3. queue[proc[c]] \in Nat /\ queue[proc[c]] <= LastQueue
      BY <1>2, <1>3 DEF EachTyped
    <2> QED BY <1>3, <2>1, <2>2, <2>3, Constants DEF Min
  <1>6. /\ \A x \in Procs \ {proc[c]} : slice'[x] = slice[x]
        /\ slice'[proc[c]] \in Nat \ {0}
    <2>1. slice \in [Procs -> Nat \ {0}]
      BY <1>1 DEF TypeOK
    <2>2. ran[c] \in Nat
      BY <1>1 DEF TypeOK
    <2>3. \/ slice' = slice
          \/ slice[proc[c]] - ran[c] > 0 /\ slice' = [slice EXCEPT ![proc[c]] = @ - ran[c]]
          \/ slice' = [slice EXCEPT ![proc[c]] = QueueSlices[Min(queue[proc[c]] + 1, LastQueue)]]
      BY DEF Return, Charge
    <2>4. QueueSlices[Min(queue[proc[c]] + 1, LastQueue)] \in Nat \ {0}
      BY <1>2, <1>3, Constants DEF EachTyped, Min
    <2>5. slice[proc[c]] - ran[c] > 0 => slice[proc[c]] - ran[c] \in Nat \ {0}
      BY <1>3, <2>1, <2>2
    <2> QED BY <1>3, <2>1, <2>3, <2>4, <2>5
  <1>7. proc'[c] = None /\ \A x \in Cpus \ {c} : proc'[x] = proc[x]
    BY <1>1, <1>2, <1>3, Constants DEF TypeOK, Return, Charge, GoesOnAt, Min
  <1>8. lock'[proc[c]] = None /\ \A x \in Procs \ {proc[c]} : lock'[x] = lock[x]
    BY <1>1, <1>2, <1>3, Constants DEF TypeOK, Return, Charge, GoesOnAt, Min
  <1>9. ran'[c] = 0 /\ \A x \in Cpus \ {c} : ran'[x] = ran[x]
    BY <1>1, <1>2, <1>3, Constants DEF TypeOK, Return, Charge, GoesOnAt, Min
  <1>10. \A x \in Cpus \ {c} : due'[x] = due[x]
    BY <1>1, <1>2, <1>3, Constants DEF TypeOK, Return, Charge, GoesOnAt, Min
  <1>11. /\ at'[c] = IF policy = "RR" THEN "scan" ELSE "top"
        /\ \A x \in Cpus \ {c} : at'[x] = at[x]
    BY <1>1, <1>2, <1>3, Constants DEF TypeOK, Return, Charge, GoesOnAt, Min
  <1>12. \A d \in Cpus \ {c} : /\ chosen[d] # None => chosen[d] \in Procs \ {proc[c]}
                          /\ proc[d] # proc[c]
    BY <1>1, <1>2, <1>3, <1>4, Constants DEF EachTyped, Holds, CpuOK, CpuIs, OneCpu, WaitedOK
  <1>13. TypeOK'
    <2>1. queue' \in [Procs -> Queues]
      BY <1>1, <1>2, <1>3, <1>5, Constants DEF TypeOK, EachTyped, Return, Charge, GoesOnAt, Min
    <2>2. slice' \in [Procs -> Nat \ {0}]
      BY <1>1, <1>2, <1>3, <1>6, Constants DEF TypeOK, EachTyped, Return, Charge, GoesOnAt, Min
    <2>3. proc' \in [Cpus -> Procs \union {None}]
      BY <1>1, <1>2, <1>3, <1>7, Constants DEF TypeOK, EachTyped, Return, Charge, GoesOnAt, Min
    <2>4. lock' \in [Procs -> Cpus \union {None}]
      BY <1>1, <1>2, <1>3, <1>8, Constants DEF TypeOK, EachTyped, Return, Charge, GoesOnAt, Min
    <2>5. ran' \in [Cpus -> Nat]
      BY <1>1, <1>2, <1>3, <1>9, Constants DEF TypeOK, EachTyped, Return, Charge, GoesOnAt, Min
    <2>6. due' \in [Cpus -> BOOLEAN]
      BY <1>1, <1>2, <1>3, <1>10, Constants DEF TypeOK, EachTyped, Return, Charge, GoesOnAt, Min
    <2>7. at' \in [Cpus -> {"top", "boost", "scan", "switch",
                            "enter", "run", "leave", "log", "panic"}]
      BY <1>1, <1>2, <1>3, <1>11, Constants DEF TypeOK, EachTyped, Return, Charge, GoesOnAt, Min
    <2> QED BY <1>1, <1>4, <2>1, <2>2, <2>3, <2>4, <2>5, <2>6, <2>7 DEF TypeOK
  <1>14. EachTyped'
    BY <1>13, ElementsNext
  <1>15. LocksOK'
    <2> SUFFICES ASSUME NEW d \in Cpus, NEW q \in Procs PROVE (lock[q] = d <=> Keeps(d, q))'
      BY DEF LocksOK
    <2>1. (lock[q] = d <=> Keeps(d, q)) /\ (lock[q] = c <=> Keeps(c, q))
      BY <1>1 DEF LocksOK
    <2>2. CASE d = c
      BY <2>1, <2>2, <1>2, <1>3, <1>4, <1>7, <1>8, <1>11, Constants DEF Keeps
    <2>3. CASE d # c
      BY <2>1, <2>3, <1>2, <1>3, <1>4, <1>7, <1>8, <1>11, Constants DEF Keeps
    <2> QED BY <2>2, <2>3
  <1>16. CpuOK'
    <2> SUFFICES ASSUME NEW d \in Cpus PROVE CpuIs(d)'
      BY DEF CpuOK
    <2>1. CASE d = c
      BY <1>1, <1>2, <1>3, <1>4, <1>7, <1>11, <1>12, Constants, <2>1 DEF EachTyped, Holds,
         CpuOK, CpuIs
    <2>2. CASE d # c
      <3>1. CpuIs(d)
        BY <1>1, <1>4 DEF CpuOK
      <3>2. at'[d] = at[d] /\ chosen'[d] = chosen[d] /\ proc'[d] = proc[d] /\ next'[d] = next[d]
        BY <1>4, <1>7, <1>11, <2>2
      <3>3. chosen[d] # None => state'[chosen[d]] = state[chosen[d]]
        BY <1>2, <1>4, <1>12, <2>2 DEF EachTyped
      <3>4. at[d] \in {"enter", "run"} => state'[proc[d]] = state[proc[d]]
        BY <1>2, <1>4, <1>12, <2>2 DEF Holds
      <3> QED BY <3>1, <3>2, <3>3, <3>4, FrameCpu
    <2> QED BY <2>1, <2>2
  <1>17. OneCpu'
    BY <1>1, <1>2, <1>3, <1>4, <1>7, <1>12, Constants DEF OneCpu
  <1>18. WaitedOK'
    BY <1>1, <1>2, <1>3, <1>4, <1>12, Constants DEF WaitedOK, EachTyped, Holds
  <1>19. OldestSoFar'
    <2> SUFFICES ASSUME NEW d \in Cpus PROVE Oldest(d)'
      BY DEF OldestSoFar
    <2>1. CASE d = c
      BY <1>1, <1>2, <1>3, <1>4, <1>11, <1>12, <1>14, Constants, <2>1 DEF EachTyped, Holds,
         WaitedOK, OldestSoFar, Oldest
    <2>2. CASE d # c
      <3>1. Oldest(d) /\ policy' = policy
        BY <1>1, <1>4 DEF OldestSoFar
      <3>2. /\ at'[d] = at[d] /\ chosen'[d] = chosen[d] /\ next'[d] = next[d]
            /\ waited'[d] \subseteq waited[d]
        BY <1>4, <1>11, <2>2
      <3>3. chosen[d] # None => ctime'[chosen[d]] = ctime[chosen[d]]
        BY <1>2, <1>4, <1>12, <2>2 DEF EachTyped
      <3>4. \A q \in waited'[d] : ctime'[q] = ctime[q]
        BY <1>2, <1>4, <1>12, <2>2 DEF EachTyped
      <3> QED BY <3>1, <3>2, <3>3, <3>4, FrameOldest
    <2> QED BY <2>1, <2>2
  <1>20. HighestSoFar'
    <2> SUFFICES ASSUME NEW d \in Cpus PROVE Highest(d)'
      BY DEF HighestSoFar
    <2>1. CASE d = c
      BY <1>1, <1>2, <1>3, <1>4, <1>5, <1>11, <1>12, <1>14, Constants, <2>1 DEF Highest
    <2>2. CASE d # c
      <3>1. /\ Highest(d) /\ at'[d] = at[d] /\ level'[d] \in Nat /\ level'[d] = level[d]
            /\ next'[d] = next[d] /\ waited'[d] = waited[d]
        BY <1>1, <1>2, <1>3, <1>4, <1>5, <1>11, <1>12, <1>14, Constants, <2>2 DEF HighestSoFar,
           EachTyped
      <3>2. \A q \in waited'[d] : q \in Procs /\ queue[q] \in Nat /\ queue'[q] \in Nat /\ queue'[q] >= queue[q]
        <4> SUFFICES ASSUME NEW q \in waited[d]
                     PROVE  q \in Procs /\ queue[q] \in Nat /\ queue'[q] \in Nat /\ queue'[q] >= queue[q]
          BY <3>1
        <4>1. q \in Procs /\ queue[q] \in Nat /\ queue'[q] \in Nat
          BY <1>2, <1>14 DEF EachTyped
        <4> QED BY <1>3, <1>5, <4>1
      <3> QED BY <1>4, <3>1, <3>2 DEF Highest
    <2> QED BY <2>1, <2>2
  <1> QED BY <1>13, <1>15, <1>16, <1>17, <1>18, <1>19, <1>20 DEF SchedInv

\* A process that sleeps is no candidate and nobody waits for it.
LEMMA WakeStep ==
    ASSUME SchedInv, NEW p \in Procs, Wake(p)
    PROVE  SchedInv'
  <1>1. TypeOK /\ LocksOK /\ CpuOK /\ OneCpu /\ WaitedOK /\ OldestSoFar /\ HighestSoFar
    BY DEF SchedInv
  <1>2. EachTyped /\ Holds
    BY <1>1, Elements, HoldsNow
  <1>3. state[p] = "SLEEPING" /\ lock[p] = None
    BY <1>1, <1>2, Constants DEF EachTyped, Holds, CpuOK, CpuIs, Wake
  <1>4. /\ policy' = policy /\ lock' = lock /\ ctime' = ctime /\ queue' = queue
        /\ slice' = slice /\ ticks' = ticks /\ boosted' = boosted /\ at' = at /\ proc' = proc
        /\ next' = next /\ level' = level /\ chosen' = chosen /\ ran' = ran /\ due' = due
        /\ waited' = waited
    BY DEF Wake, procVars, timeVars, cpuVars
  <1>5. state'[p] = "RUNNABLE" /\ \A x \in Procs \ {p} : state'[x] = state[x]
    BY <1>1, <1>2, <1>3, Constants DEF TypeOK, Wake
  <1>6. \A d \in Cpus : /\ chosen[d] # None => chosen[d] \in Procs \ {p}
                    /\ proc[d] # p
                    /\ p \notin waited'[d]
    BY <1>1, <1>2, <1>3, <1>4, Constants DEF EachTyped, Holds, CpuOK, CpuIs, OneCpu, WaitedOK
  <1>7. TypeOK'
    <2>1. state' \in [Procs -> {"UNUSED", "SLEEPING", "RUNNABLE", "RUNNING", "ZOMBIE"}]
      BY <1>1, <1>2, <1>3, <1>5, Constants DEF TypeOK, EachTyped, Wake
    <2> QED BY <1>1, <1>4, <2>1 DEF TypeOK
  <1>8. EachTyped'
    BY <1>7, ElementsNext
  <1>9. LocksOK'
    BY <1>1, <1>2, <1>3, <1>4, Constants DEF LocksOK, EachTyped, Holds, CpuOK, CpuIs, Keeps
  <1>10. CpuOK'
    <2> SUFFICES ASSUME NEW d \in Cpus PROVE CpuIs(d)'
      BY DEF CpuOK
    <2>1. CpuIs(d)
      BY <1>1, <1>4 DEF CpuOK
    <2>2. at'[d] = at[d] /\ chosen'[d] = chosen[d] /\ proc'[d] = proc[d] /\ next'[d] = next[d]
      BY <1>4
    <2>3. chosen[d] # None => state'[chosen[d]] = state[chosen[d]]
      BY <1>2, <1>4, <1>5, <1>6 DEF EachTyped
    <2>4. at[d] \in {"enter", "run"} => state'[proc[d]] = state[proc[d]]
      BY <1>2, <1>4, <1>5, <1>6 DEF Holds
    <2> QED BY <2>1, <2>2, <2>3, <2>4, FrameCpu
  <1>11. OneCpu'
    BY <1>1, <1>2, <1>3, <1>4, <1>6, Constants DEF OneCpu
  <1>12. WaitedOK'
    BY <1>1, <1>2, <1>3, <1>4, <1>5, <1>6, Constants DEF WaitedOK, EachTyped, Holds
  <1>13. OldestSoFar'
    BY <1>1, <1>2, <1>3, <1>4, <1>6, <1>8, Constants DEF OldestSoFar, EachTyped, Holds,
       WaitedOK, Oldest
  <1>14. HighestSoFar'
    BY <1>1, <1>2, <1>3, <1>4, <1>6, <1>8, Constants DEF HighestSoFar, EachTyped, Holds,
       WaitedOK, Highest
  <1> QED BY <1>7, <1>9, <1>10, <1>11, <1>12, <1>13, <1>14 DEF SchedInv

\* A new process is in the first queue, and no scan has it among those that wait.
LEMMA ForkStep ==
    ASSUME SchedInv, NEW p \in Procs, Fork(p)
    PROVE  SchedInv'
  <1>1. TypeOK /\ LocksOK /\ CpuOK /\ OneCpu /\ WaitedOK /\ OldestSoFar /\ HighestSoFar
    BY DEF SchedInv
  <1>2. EachTyped /\ Holds
    BY <1>1, Elements, HoldsNow
  <1>3. state[p] = "UNUSED" /\ lock[p] = None
    BY <1>1, <1>2, Constants DEF EachTyped, Holds, CpuOK, CpuIs, Fork
  <1>4. /\ policy' = policy /\ lock' = lock /\ ticks' = ticks /\ boosted' = boosted /\ at' = at
        /\ proc' = proc /\ next' = next /\ level' = level /\ chosen' = chosen /\ ran' = ran
        /\ due' = due /\ waited' = waited
    BY DEF Fork, procVars, timeVars, cpuVars
  <1>5. state'[p] = "RUNNABLE" /\ \A x \in Procs \ {p} : state'[x] = state[x]
    BY <1>1, <1>2, <1>3, Constants DEF TypeOK, Fork
  <1>6. \A x \in Procs \ {p} : ctime'[x] = ctime[x]
    BY <1>1, <1>2, <1>3, Constants DEF TypeOK, Fork
  <1>7. \A x \in Procs \ {p} : queue'[x] = queue[x]
    BY <1>1, <1>2, <1>3, Constants DEF TypeOK, Fork
  <1>8. \A x \in Procs \ {p} : slice'[x] = slice[x]
    BY <1>1, <1>2, <1>3, Constants DEF TypeOK, Fork
  <1>9. \A d \in Cpus : /\ chosen[d] # None => chosen[d] \in Procs \ {p}
                    /\ proc[d] # p
                    /\ p \notin waited'[d]
    BY <1>1, <1>2, <1>3, <1>4, Constants DEF EachTyped, Holds, CpuOK, CpuIs, OneCpu, WaitedOK
  <1>10. TypeOK'
    <2>1. state' \in [Procs -> {"UNUSED", "SLEEPING", "RUNNABLE", "RUNNING", "ZOMBIE"}]
      BY <1>1, <1>2, <1>3, <1>5, Constants DEF TypeOK, EachTyped, Fork
    <2>2. ctime' \in [Procs -> Nat]
      <3>1. ctime \in [Procs -> Nat] /\ ticks \in Nat
        BY <1>1, Constants DEF TypeOK
      <3>2. ctime' = [ctime EXCEPT ![p] = ticks]
        BY DEF Fork
      <3> QED BY <3>1, <3>2
    <2>3. queue' \in [Procs -> Queues]
      BY <1>1, <1>2, <1>3, <1>7, Constants DEF TypeOK, EachTyped, Fork
    <2>4. slice' \in [Procs -> Nat \ {0}]
      BY <1>1, <1>2, <1>3, <1>8, Constants DEF TypeOK, EachTyped, Fork
    <2> QED BY <1>1, <1>4, <2>1, <2>2, <2>3, <2>4 DEF TypeOK
  <1>11. EachTyped'
    BY <1>10, ElementsNext
  <1>12. LocksOK'
    BY <1>1, <1>2, <1>3, <1>4, Constants DEF LocksOK, EachTyped, Holds, CpuOK, CpuIs, Keeps
  <1>13. CpuOK'
    <2> SUFFICES ASSUME NEW d \in Cpus PROVE CpuIs(d)'
      BY DEF CpuOK
    <2>1. CpuIs(d)
      BY <1>1, <1>4 DEF CpuOK
    <2>2. at'[d] = at[d] /\ chosen'[d] = chosen[d] /\ proc'[d] = proc[d] /\ next'[d] = next[d]
      BY <1>4
    <2>3. chosen[d] # None => state'[chosen[d]] = state[chosen[d]]
      BY <1>2, <1>4, <1>5, <1>9 DEF EachTyped
    <2>4. at[d] \in {"enter", "run"} => state'[proc[d]] = state[proc[d]]
      BY <1>2, <1>4, <1>5, <1>9 DEF Holds
    <2> QED BY <2>1, <2>2, <2>3, <2>4, FrameCpu
  <1>14. OneCpu'
    BY <1>1, <1>2, <1>3, <1>4, <1>9, Constants DEF OneCpu
  <1>15. WaitedOK'
    <2> SUFFICES ASSUME NEW d \in Cpus, NEW q \in waited'[d] PROVE state'[q] = "RUNNABLE"
      BY DEF WaitedOK
    <2> QED BY <1>1, <1>2, <1>3, <1>4, <1>5, <1>9, Constants DEF EachTyped, Holds, WaitedOK
  <1>16. OldestSoFar'
    <2> SUFFICES ASSUME NEW d \in Cpus PROVE Oldest(d)'
      BY DEF OldestSoFar
    <2>1. Oldest(d) /\ policy' = policy
      BY <1>1, <1>4 DEF OldestSoFar
    <2>2. /\ at'[d] = at[d] /\ chosen'[d] = chosen[d] /\ next'[d] = next[d]
          /\ waited'[d] \subseteq waited[d]
      BY <1>4
    <2>3. chosen[d] # None => ctime'[chosen[d]] = ctime[chosen[d]]
      BY <1>2, <1>4, <1>6, <1>9 DEF EachTyped
    <2>4. \A q \in waited'[d] : ctime'[q] = ctime[q]
      BY <1>2, <1>4, <1>6, <1>9 DEF EachTyped
    <2> QED BY <2>1, <2>2, <2>3, <2>4, FrameOldest
  <1>17. HighestSoFar'
    BY <1>1, <1>2, <1>3, <1>4, <1>7, <1>9, <1>11, Constants DEF HighestSoFar, EachTyped, Holds,
       WaitedOK, Highest
  <1> QED BY <1>10, <1>12, <1>13, <1>14, <1>15, <1>16, <1>17 DEF SchedInv

\* A zombie is nobody's candidate.
LEMMA ReapStep ==
    ASSUME SchedInv, NEW p \in Procs, Reap(p)
    PROVE  SchedInv'
  <1>1. TypeOK /\ LocksOK /\ CpuOK /\ OneCpu /\ WaitedOK /\ OldestSoFar /\ HighestSoFar
    BY DEF SchedInv
  <1>2. EachTyped /\ Holds
    BY <1>1, Elements, HoldsNow
  <1>3. state[p] = "ZOMBIE" /\ lock[p] = None
    BY <1>1, <1>2, Constants DEF EachTyped, Holds, CpuOK, CpuIs, Reap
  <1>4. /\ policy' = policy /\ lock' = lock /\ ticks' = ticks /\ boosted' = boosted /\ at' = at
        /\ proc' = proc /\ next' = next /\ level' = level /\ chosen' = chosen /\ ran' = ran
        /\ due' = due /\ waited' = waited
    BY DEF Reap, procVars, timeVars, cpuVars
  <1>5. state'[p] = "UNUSED" /\ \A x \in Procs \ {p} : state'[x] = state[x]
    BY <1>1, <1>2, <1>3, Constants DEF TypeOK, Reap
  <1>6. \A x \in Procs \ {p} : ctime'[x] = ctime[x]
    BY <1>1, <1>2, <1>3, Constants DEF TypeOK, Reap
  <1>7. \A x \in Procs \ {p} : queue'[x] = queue[x]
    BY <1>1, <1>2, <1>3, Constants DEF TypeOK, Reap
  <1>8. \A x \in Procs \ {p} : slice'[x] = slice[x]
    BY <1>1, <1>2, <1>3, Constants DEF TypeOK, Reap
  <1>9. \A d \in Cpus : /\ chosen[d] # None => chosen[d] \in Procs \ {p}
                    /\ proc[d] # p
                    /\ p \notin waited'[d]
    BY <1>1, <1>2, <1>3, <1>4, Constants DEF EachTyped, Holds, CpuOK, CpuIs, OneCpu, WaitedOK
  <1>10. TypeOK'
    <2>1. state' \in [Procs -> {"UNUSED", "SLEEPING", "RUNNABLE", "RUNNING", "ZOMBIE"}]
      BY <1>1, <1>2, <1>3, <1>5, Constants DEF TypeOK, EachTyped, Reap
    <2>2. ctime' \in [Procs -> Nat]
      BY <1>1, <1>2, <1>3, <1>6, Constants DEF TypeOK, EachTyped, Reap
    <2>3. queue' \in [Procs -> Queues]
      BY <1>1, <1>2, <1>3, <1>7, Constants DEF TypeOK, EachTyped, Reap
    <2>4. slice' \in [Procs -> Nat \ {0}]
      BY <1>1, <1>2, <1>3, <1>8, Constants DEF TypeOK, EachTyped, Reap
    <2> QED BY <1>1, <1>4, <2>1, <2>2, <2>3, <2>4 DEF TypeOK
  <1>11. EachTyped'
    BY <1>10, ElementsNext
  <1>12. LocksOK'
    BY <1>1, <1>2, <1>3, <1>4, Constants DEF LocksOK, EachTyped, Holds, CpuOK, CpuIs, Keeps
  <1>13. CpuOK'
    <2> SUFFICES ASSUME NEW d \in Cpus PROVE CpuIs(d)'
      BY DEF CpuOK
    <2>1. CpuIs(d)
      BY <1>1, <1>4 DEF CpuOK
    <2>2. at'[d] = at[d] /\ chosen'[d] = chosen[d] /\ proc'[d] = proc[d] /\ next'[d] = next[d]
      BY <1>4
    <2>3. chosen[d] # None => state'[chosen[d]] = state[chosen[d]]
      BY <1>2, <1>4, <1>5, <1>9 DEF EachTyped
    <2>4. at[d] \in {"enter", "run"} => state'[proc[d]] = state[proc[d]]
      BY <1>2, <1>4, <1>5, <1>9 DEF Holds
    <2> QED BY <2>1, <2>2, <2>3, <2>4, FrameCpu
  <1>14. OneCpu'
    BY <1>1, <1>2, <1>3, <1>4, <1>9, Constants DEF OneCpu
  <1>15. WaitedOK'
    <2> SUFFICES ASSUME NEW d \in Cpus, NEW q \in waited'[d] PROVE state'[q] = "RUNNABLE"
      BY DEF WaitedOK
    <2> QED BY <1>1, <1>2, <1>3, <1>4, <1>5, <1>9, Constants DEF EachTyped, Holds, WaitedOK
  <1>16. OldestSoFar'
    <2> SUFFICES ASSUME NEW d \in Cpus PROVE Oldest(d)'
      BY DEF OldestSoFar
    <2>1. Oldest(d) /\ policy' = policy
      BY <1>1, <1>4 DEF OldestSoFar
    <2>2. /\ at'[d] = at[d] /\ chosen'[d] = chosen[d] /\ next'[d] = next[d]
          /\ waited'[d] \subseteq waited[d]
      BY <1>4
    <2>3. chosen[d] # None => ctime'[chosen[d]] = ctime[chosen[d]]
      BY <1>2, <1>4, <1>6, <1>9 DEF EachTyped
    <2>4. \A q \in waited'[d] : ctime'[q] = ctime[q]
      BY <1>2, <1>4, <1>6, <1>9 DEF EachTyped
    <2> QED BY <2>1, <2>2, <2>3, <2>4, FrameOldest
  <1>17. HighestSoFar'
    BY <1>1, <1>2, <1>3, <1>4, <1>7, <1>9, <1>11, Constants DEF HighestSoFar, EachTyped, Holds,
       WaitedOK, Highest
  <1> QED BY <1>10, <1>12, <1>13, <1>14, <1>15, <1>16, <1>17 DEF SchedInv

\* The clock touches no candidate, lock or state.
LEMMA TickStep ==
    ASSUME SchedInv, Tick
    PROVE  SchedInv'
  <1>1. TypeOK /\ LocksOK /\ CpuOK /\ OneCpu /\ WaitedOK /\ OldestSoFar /\ HighestSoFar
    BY DEF SchedInv
  <1>2. EachTyped /\ Holds
    BY <1>1, Elements, HoldsNow
  <1>3. \A x \in Cpus : ran[x] \in Nat
    BY <1>1 DEF TypeOK
  <1>4. /\ policy' = policy /\ state' = state /\ lock' = lock /\ ctime' = ctime
        /\ queue' = queue /\ slice' = slice /\ at' = at /\ proc' = proc /\ next' = next
        /\ level' = level /\ chosen' = chosen /\ waited' = waited
    BY DEF Tick, Min, procVars, timeVars, cpuVars
  <1>5. ticks' \in 0 .. MaxTime
    BY <1>1, <1>2, <1>3, Constants DEF TypeOK, Tick, Min
  <1>6. boosted' \in 0 .. BoostInterval
    BY <1>1, <1>2, <1>3, Constants DEF TypeOK, Tick, Min
  <1>7. ran' \in [Cpus -> Nat]
    BY <1>1, <1>2, <1>3, Constants DEF TypeOK, Tick, Min
  <1>8. due' \in [Cpus -> BOOLEAN]
    BY <1>1, <1>2, <1>3, Constants DEF TypeOK, Tick, Min
  <1>9. TypeOK'
    <2>1. ticks' \in 0 .. MaxTime
      BY <1>1, <1>2, <1>3, <1>5, Constants DEF TypeOK, EachTyped, Tick, Min
    <2>2. boosted' \in 0 .. BoostInterval
      BY <1>1, <1>2, <1>3, <1>6, Constants DEF TypeOK, EachTyped, Tick, Min
    <2>3. ran' \in [Cpus -> Nat]
      BY <1>1, <1>2, <1>3, <1>7, Constants DEF TypeOK, EachTyped, Tick, Min
    <2>4. due' \in [Cpus -> BOOLEAN]
      BY <1>1, <1>2, <1>3, <1>8, Constants DEF TypeOK, EachTyped, Tick, Min
    <2> QED BY <1>1, <1>4, <2>1, <2>2, <2>3, <2>4 DEF TypeOK
  <1>10. EachTyped'
    BY <1>9, ElementsNext
  <1>11. LocksOK'
    BY <1>1, <1>2, <1>3, <1>4, Constants DEF LocksOK, EachTyped, Holds, CpuOK, CpuIs, Keeps
  <1>12. CpuOK'
    BY <1>1, <1>2, <1>3, <1>4, Constants DEF CpuOK, EachTyped, Holds, CpuIs
  <1>13. OneCpu'
    BY <1>1, <1>2, <1>3, <1>4, Constants DEF OneCpu
  <1>14. WaitedOK'
    BY <1>1, <1>2, <1>3, <1>4, Constants DEF WaitedOK, EachTyped, Holds
  <1>15. OldestSoFar'
    BY <1>1, <1>2, <1>3, <1>4, <1>10, Constants DEF OldestSoFar, EachTyped, Holds, WaitedOK,
       Oldest
  <1>16. HighestSoFar'
    BY <1>1, <1>2, <1>3, <1>4, <1>10, Constants DEF HighestSoFar, EachTyped, Holds, WaitedOK,
       Highest
  <1> QED BY <1>9, <1>11, <1>12, <1>13, <1>14, <1>15, <1>16 DEF SchedInv

-----------------------------------------------------------------------------
(* The theorems                                                            *)

\* The first state: one runnable process, no CPU has a candidate.
LEMMA SchedInit == Init => SchedInv
  <1> SUFFICES ASSUME Init PROVE SchedInv
    OBVIOUS
  <1>1. TypeOK
    <2>1. 0 \in Queues /\ 0 \in 0 .. MaxTime /\ 0 \in 0 .. BoostInterval /\ 1 \in 1 .. NProc + 1
      BY Constants
    <2>2. /\ policy \in Policies
          /\ state \in [Procs -> {"UNUSED", "SLEEPING", "RUNNABLE", "RUNNING", "ZOMBIE"}]
          /\ lock \in [Procs -> Cpus \union {None}]
      BY DEF Init
    <2>3. /\ ctime \in [Procs -> Nat] /\ queue \in [Procs -> Queues]
          /\ slice \in [Procs -> Nat \ {0}]
      BY <2>1 DEF Init
    <2>4. ticks \in 0 .. MaxTime /\ boosted \in 0 .. BoostInterval
      BY <2>1 DEF Init
    <2>5. /\ at \in [Cpus -> {"top", "boost", "scan", "switch",
                              "enter", "run", "leave", "log", "panic"}]
          /\ proc \in [Cpus -> Procs \union {None}] /\ chosen \in [Cpus -> Procs \union {None}]
      BY DEF Init
    <2>6. /\ next \in [Cpus -> 1 .. NProc + 1] /\ level \in [Cpus -> Queues]
          /\ ran \in [Cpus -> Nat]
      BY <2>1 DEF Init
    <2>7. due \in [Cpus -> BOOLEAN] /\ waited \in [Cpus -> SUBSET Procs]
      BY DEF Init
    <2> QED BY <2>2, <2>3, <2>4, <2>5, <2>6, <2>7 DEF TypeOK
  <1>2. \A c \in Cpus : at[c] = "top" /\ proc[c] = None /\ chosen[c] = None /\ waited[c] = {}
    BY DEF Init
  <1>3. \A p \in Procs : lock[p] = None
    BY DEF Init
  <1>4. LocksOK
    BY <1>2, <1>3, Constants DEF LocksOK, Keeps
  <1>5. CpuOK
    BY <1>2 DEF CpuOK, CpuIs
  <1>6. OneCpu /\ WaitedOK
    BY <1>2 DEF OneCpu, WaitedOK
  <1>7. OldestSoFar /\ HighestSoFar
    BY <1>2 DEF OldestSoFar, HighestSoFar, Oldest, Highest
  <1> QED BY <1>1, <1>4, <1>5, <1>6, <1>7 DEF SchedInv

\* Every step keeps the invariant.
LEMMA SchedNext == SchedInv /\ [Next]_vars => SchedInv'
  <1> SUFFICES ASSUME SchedInv, [Next]_vars PROVE SchedInv'
    OBVIOUS
  <1>1. ASSUME NEW c \in Cpus, CpuStep(c) \/ Sleep(c) \/ Exit(c) PROVE SchedInv'
    <2>1. CASE Top(c) \/ TopBoost(c) \/ Boost(c) \/ Boosted(c)
      BY <2>1, TopStep, TopBoostStep, BoostStep, BoostedStep
    <2>2. CASE Scan(c)
      BY <2>2, KeepStep, PassStep
    <2>3. CASE NextLevel(c) \/ ScanDone(c) \/ Log(c)
      BY <2>3, NextLevelStep, ScanDoneStep, LogStep
    <2>4. CASE Switch(c) \/ Enter(c) \/ Return(c)
      BY <2>4, SwitchStep, EnterStep, ReturnStep
    <2>5. CASE Yield(c) \/ Sleep(c) \/ Exit(c)
      BY <2>5, LeaveStep DEF Yield, Sleep, Exit
    <2> QED BY <1>1, <2>1, <2>2, <2>3, <2>4, <2>5 DEF CpuStep
  <1>2. ASSUME NEW p \in Procs, Wake(p) \/ Fork(p) \/ Reap(p) PROVE SchedInv'
    BY <1>2, WakeStep, ForkStep, ReapStep
  <1>3. CASE Tick
    BY <1>3, TickStep
  <1>4. CASE UNCHANGED vars
    <2>1. UNCHANGED <<policy, state, lock, ctime, queue, slice, ticks, boosted, ran, due,
                      at, proc, next, level, chosen, waited>>
      BY <1>4 DEF vars, procVars, timeVars, cpuVars
    <2>2. TypeOK' /\ LocksOK' /\ CpuOK'
      BY <2>1 DEF SchedInv, TypeOK, LocksOK, Keeps, CpuOK, CpuIs
    <2>3. OneCpu' /\ WaitedOK' /\ OldestSoFar' /\ HighestSoFar'
      BY <2>1 DEF SchedInv, OneCpu, WaitedOK, OldestSoFar, Oldest, HighestSoFar, Highest
    <2> QED BY <2>2, <2>3 DEF SchedInv
  <1> QED BY <1>1, <1>2, <1>3, <1>4 DEF Next

\* The invariant holds in every state, for any CPUs, slots, queues and time slices.
THEOREM SchedulersInvariant == Spec => []SchedInv
  BY SchedInit, SchedNext, PTL DEF Spec

\* The locks of p->lock that scheduler(), sched() and swtch() hand over: a switch hands
\* over one process with its lock, and to one CPU; no process runs twice.
THEOREM SwitchesAreSound == Spec => []SwitchSound
  <1>1. SchedInv => SwitchSound
    <2> SUFFICES ASSUME SchedInv PROVE SwitchSound
      OBVIOUS
    <2>1. EachTyped /\ Holds /\ TypeOK /\ LocksOK /\ CpuOK /\ OneCpu
      BY HoldsNow, Elements DEF SchedInv
    <2>2. RunsOnce
      BY <2>1 DEF RunsOnce, OneCpu, CpuOK, CpuIs
    <2>3. ASSUME NEW c \in Cpus
          PROVE  /\ at[c] = "switch" => Held(c) = {chosen[c]}
                 /\ at[c] \in {"enter", "leave"} => Held(c) = {proc[c]}
                 /\ at[c] \in {"run", "top", "boost"} => Held(c) = {}
      <3>1. \A p \in Procs : p \in Held(c) <=> Keeps(c, p)
        BY <2>1 DEF Held, LocksOK
      <3>2. Held(c) \subseteq Procs
        BY DEF Held
      <3>3. /\ at[c] = "switch" => chosen[c] \in Procs
            /\ at[c] \in {"enter", "leave"} => proc[c] \in Procs
        BY <2>1 DEF Holds, CpuOK, CpuIs
      <3>4. CASE at[c] = "switch"
        BY <3>1, <3>2, <3>3, <3>4 DEF Keeps
      <3>5. CASE at[c] \in {"enter", "leave"}
        BY <3>1, <3>2, <3>3, <3>5 DEF Keeps
      <3>6. CASE at[c] \in {"run", "top", "boost"}
        BY <3>1, <3>2, <3>6 DEF Keeps
      <3> QED BY <3>4, <3>5, <3>6
    <2> QED BY <2>1, <2>2, <2>3 DEF SwitchSound, SchedLocks
  <1> QED BY <1>1, SchedulersInvariant, PTL

\* FCFS switches to the oldest process that could have been chosen during the whole scan,
\* MLFQ to one of the highest queue, whatever the other CPUs do meanwhile.
THEOREM TheBestRunsFirst == Spec => []BestFirst
  <1>1. SchedInv => BestFirst
    <2> SUFFICES ASSUME SchedInv, NEW c \in Cpus, at[c] = "switch", NEW p \in waited[c]
                 PROVE  /\ policy = "FCFS" => ctime[chosen[c]] <= ctime[p]
                        /\ policy = "MLFQ" => level[c] <= queue[p]
      BY DEF BestFirst
    <2>1. EachTyped /\ Oldest(c) /\ Highest(c)
      BY Elements DEF SchedInv, OldestSoFar, HighestSoFar
    <2>2. p \in Procs /\ p \in Nat /\ p <= NProc /\ next[c] \in Nat
      BY <2>1 DEF EachTyped
    <2> QED BY <2>1, <2>2, Constants DEF Oldest, Highest
  <1> QED BY <1>1, SchedulersInvariant, PTL
-----------------------------------------------------------------------------
(* Spin locks                                                              *)

SpinTypes ==
    /\ locked \in [SpinLocks -> BOOLEAN]
    /\ lkCpu \in [SpinLocks -> CPUs \union {NoCPU}]
    /\ on \in [CPUs -> BOOLEAN] /\ intena \in [CPUs -> BOOLEAN]
    /\ noff \in [CPUs -> Nat]
    /\ spc \in [Threads -> Places]
    /\ arg \in [Threads -> SpinLocks]
    /\ old \in [Threads -> BOOLEAN]
    /\ own \in [Threads -> SUBSET SpinLocks]
    /\ \A t \in Threads : IsFiniteSet(own[t])

\* A lock has one owner and is locked.
Disjoint == \A t, u \in Threads : t # u => own[t] \intersect own[u] = {}
OwnedLocked == \A t \in Threads : \A l \in own[t] : locked[l]

\* lk->cpu names the owner's CPU but at the ends of a critical section.
OwnedCpu ==
    \A t \in Threads : \A l \in own[t] :
        lkCpu[l] = CpuOf(t) \/ (spc[t] \in {"own", "free"} /\ arg[t] = l)
CpuOwns ==
    \A l \in SpinLocks : lkCpu[l] # NoCPU =>
        \E t \in Threads : l \in own[t] /\ CpuOf(t) = lkCpu[l]

\* acquire() is for a lock that is not owned, release() for one that is.
Args ==
    \A t \in Threads :
        /\ spc[t] \in {"off", "check", "spin"} => arg[t] \notin own[t]
        /\ spc[t] \in {"own", "free"} => arg[t] \in own[t]
        /\ spc[t] = "free" => lkCpu[arg[t]] = NoCPU

Owners == Disjoint /\ OwnedLocked /\ OwnedCpu /\ CpuOwns /\ Args

\* The push_off() without pop_off() of a thread.
Pushed(t) == Cardinality(own[t]) + IF spc[t] \in {"check", "spin", "pop"} THEN 1 ELSE 0

\* A CPU whose code runs: noff counts its push_off(), and interrupts are on, or will be
\* after the last pop_off().
CodeRuns(c) ==
    /\ own[Handler(c)] = {}
    /\ noff[c] = Pushed(Code(c))
    /\ on[c] <=> noff[c] = 0
    /\ noff[c] > 0 => intena[c]
    /\ spc[Code(c)] = "off" /\ noff[c] = 0 => old[Code(c)]

\* One whose handler runs: the code was interrupted outside critical sections, and
\* interrupts stay off.
HandlerRuns(c) ==
    /\ own[Code(c)] = {} /\ spc[Code(c)] \in {"run", "off"}
    /\ spc[Code(c)] = "off" => old[Code(c)]
    /\ noff[c] = Pushed(Handler(c))
    /\ ~on[c]
    /\ noff[c] > 0 => ~intena[c]
    /\ spc[Handler(c)] = "off" => ~old[Handler(c)]

Cpu(c) ==
    /\ spc[Code(c)] # "none"
    /\ spc[Handler(c)] = "none" => CodeRuns(c)
    /\ spc[Handler(c)] # "none" => HandlerRuns(c)

SpinInv == SpinTypes /\ Owners /\ (\A c \in CPUs : Cpu(c)) /\ spanic = ""
-----------------------------------------------------------------------------
(* Lemmas                                                                  *)

\* Threads are the code and the handlers of CPUs.
LEMMA ThreadShape ==
    /\ \A t \in Threads : CpuOf(t) \in CPUs /\ (t = Code(CpuOf(t)) \/ t = Handler(CpuOf(t)))
    /\ \A c \in CPUs : /\ Code(c) \in Threads /\ CpuOf(Code(c)) = c
                       /\ Handler(c) \in Threads /\ CpuOf(Handler(c)) = c
    /\ \A c, d : Code(c) # Handler(d) /\ (Code(c) = Code(d) => c = d)
                 /\ (Handler(c) = Handler(d) => c = d)
  BY DEF Threads, Code, Handler, CpuOf

\* The locks of a thread can be counted.
LEMMA Counts ==
    ASSUME SpinTypes
    PROVE  \A t \in Threads : /\ Cardinality(own[t]) \in Nat
                              /\ Cardinality(own[t]) = 0 <=> own[t] = {}
  BY FS_CardinalityType, FS_EmptySet DEF SpinTypes

\* A thread that makes a step is the one that runs on its CPU.
LEMMA Running ==
    ASSUME SpinInv, NEW t \in Threads, NEW s \in Places \ {"none"}, Reached(t, s)
    PROVE  /\ CpuOf(t) \in CPUs /\ spc[t] = s
           /\ \/ t = Code(CpuOf(t)) /\ spc[Handler(CpuOf(t))] = "none" /\ CodeRuns(CpuOf(t))
              \/ t = Handler(CpuOf(t)) /\ HandlerRuns(CpuOf(t))
  BY ThreadShape DEF SpinInv, Reached, Cpu

\* A step of other CPUs leaves a CPU as it is.
LEMMA Frame ==
    ASSUME NEW c \in CPUs, Cpu(c),
           spc'[Code(c)] = spc[Code(c)], spc'[Handler(c)] = spc[Handler(c)],
           own'[Code(c)] = own[Code(c)], own'[Handler(c)] = own[Handler(c)],
           old'[Code(c)] = old[Code(c)], old'[Handler(c)] = old[Handler(c)],
           on'[c] = on[c], noff'[c] = noff[c], intena'[c] = intena[c]
    PROVE  Cpu(c)'
  BY DEF Cpu, CodeRuns, HandlerRuns, Pushed

-----------------------------------------------------------------------------
(* The steps: one lemma for each.  The primed variables are first stated   *)
(* one by one; the parts of the invariant follow from that.                *)

\* acquire() reads the interrupt flag: nothing that the invariant counts changes.
LEMMA AcquireStartStep ==
    ASSUME SpinInv, NEW t \in Threads, NEW l \in SpinLocks, AcquireStart(t, l)
    PROVE  SpinInv'
  <1>1. Reached(t, "run") /\ SpinTypes /\ Owners /\ spanic = ""
    BY DEF AcquireStart, SpinInv
  <1>2. /\ CpuOf(t) \in CPUs /\ spc[t] = "run"
        /\ \/ t = Code(CpuOf(t)) /\ spc[Handler(CpuOf(t))] = "none" /\ CodeRuns(CpuOf(t))
           \/ t = Handler(CpuOf(t)) /\ HandlerRuns(CpuOf(t))
    BY <1>1, Running DEF Places
  <1>3. /\ Cardinality(own[t]) \in Nat /\ (Cardinality(own[t]) = 0 <=> own[t] = {})
        /\ noff[CpuOf(t)] \in Nat /\ arg[t] \in SpinLocks /\ own[t] \subseteq SpinLocks
        /\ on[CpuOf(t)] \in BOOLEAN /\ IsFiniteSet(own[t])
    <2>1. Cardinality(own[t]) \in Nat /\ (Cardinality(own[t]) = 0 <=> own[t] = {})
      BY <1>1, Counts
    <2> QED BY <1>1, <1>2, <2>1 DEF SpinTypes
  <1>5. /\ spc' = [spc EXCEPT ![t] = "off"] /\ spanic' = ""
        /\ spc'[t] = "off" /\ arg'[t] = l /\ l \notin own[t]
        /\ \A u \in Threads \ {t} : /\ spc'[u] = spc[u] /\ arg'[u] = arg[u]
                                     /\ own'[u] = own[u] /\ old'[u] = old[u]
    BY <1>1 DEF SpinTypes, AcquireStart, Moves
  <1>6. /\ own' = own
        /\ locked' = locked
        /\ lkCpu' = lkCpu
    BY <1>1 DEF SpinTypes, AcquireStart, Moves
  <1>7. /\ noff'[CpuOf(t)] = noff[CpuOf(t)]
        /\ on'[CpuOf(t)] = on[CpuOf(t)]
        /\ intena'[CpuOf(t)] = intena[CpuOf(t)]
        /\ old'[t] = on[CpuOf(t)]
    BY <1>1, <1>2 DEF SpinTypes, AcquireStart, Moves
  <1>9. SpinTypes'
    <2>1. /\ locked' \in [SpinLocks -> BOOLEAN]
          /\ lkCpu' \in [SpinLocks -> CPUs \union {NoCPU}]
          /\ on' \in [CPUs -> BOOLEAN] /\ intena' \in [CPUs -> BOOLEAN]
      BY <1>1, <1>2 DEF SpinTypes, AcquireStart, Moves
    <2>2. noff' \in [CPUs -> Nat]
      BY <1>1 DEF SpinTypes, AcquireStart, Moves
    <2>3. spc' \in [Threads -> Places] /\ arg' \in [Threads -> SpinLocks]
          /\ old' \in [Threads -> BOOLEAN]
      BY <1>1, <1>2, <1>5 DEF SpinTypes, AcquireStart, Moves, Places
    <2>4. own' \in [Threads -> SUBSET SpinLocks] /\ \A u \in Threads : IsFiniteSet(own'[u])
      BY <1>1, <1>5, <1>6 DEF SpinTypes, AcquireStart, Moves
    <2> QED BY <2>1, <2>2, <2>3, <2>4 DEF SpinTypes
  <1>10. Owners'
    <2>1. Disjoint'
      BY <1>1, <1>6 DEF Owners, Disjoint
    <2>2. OwnedLocked'
      BY <1>1, <1>6 DEF Owners, OwnedLocked
    <2>3. ASSUME NEW u \in Threads, NEW k \in own'[u]
          PROVE  lkCpu'[k] = CpuOf(u) \/ (spc'[u] \in {"own", "free"} /\ arg'[u] = k)
      BY <1>1, <1>2, <1>5, <1>6 DEF Owners, OwnedCpu
    <2>4. ASSUME NEW k \in SpinLocks, lkCpu'[k] # NoCPU
          PROVE  \E u \in Threads : k \in own'[u] /\ CpuOf(u) = lkCpu'[k]
      BY <1>1, <1>6, <2>4 DEF Owners, CpuOwns
    <2>5. Args'
      BY <1>1, <1>2, <1>5, <1>6 DEF Owners, Args
    <2> QED BY <2>1, <2>2, <2>3, <2>4, <2>5 DEF Owners, OwnedCpu, CpuOwns
  <1>11. ASSUME NEW c \in CPUs PROVE Cpu(c)'
    <2>1. CASE c # CpuOf(t)
      <3>1. /\ Code(c) \in Threads \ {t} /\ Handler(c) \in Threads \ {t}
        BY <2>1, ThreadShape
      <3>2. on'[c] = on[c] /\ noff'[c] = noff[c] /\ intena'[c] = intena[c]
        BY <1>1, <1>2, <2>1 DEF SpinTypes, AcquireStart, Moves
      <3> QED BY <1>5, <3>1, <3>2, Frame DEF SpinInv
    <2>2. CASE c = CpuOf(t) /\ t = Code(c)
      <3>1. Handler(c) \in Threads \ {t} /\ spc[Handler(c)] = "none" /\ CodeRuns(c)
        BY <1>2, <2>2, ThreadShape DEF HandlerRuns
      <3>2. CodeRuns(c)'
        BY <1>2, <1>3, <1>5, <1>6, <1>7, <2>2, <3>1 DEF CodeRuns, Pushed
      <3> QED BY <1>5, <2>2, <3>1, <3>2 DEF Cpu
    <2>3. CASE c = CpuOf(t) /\ t = Handler(c)
      <3>1. Code(c) \in Threads \ {t} /\ HandlerRuns(c)
        BY <1>2, <2>3, ThreadShape
      <3>2. HandlerRuns(c)'
        BY <1>2, <1>3, <1>5, <1>6, <1>7, <2>3, <3>1 DEF HandlerRuns, Pushed
      <3> QED BY <1>5, <2>3, <3>1, <3>2 DEF Cpu, HandlerRuns
    <2> QED BY <1>2, <2>1, <2>2, <2>3
  <1> QED BY <1>5, <1>9, <1>10, <1>11 DEF SpinInv

\* push_off() turns interrupts off; the outermost one saves what they were.
LEMMA PushOffStep ==
    ASSUME SpinInv, NEW t \in Threads, PushOff(t)
    PROVE  SpinInv'
  <1>1. Reached(t, "off") /\ SpinTypes /\ Owners /\ spanic = ""
    BY DEF PushOff, SpinInv
  <1>2. /\ CpuOf(t) \in CPUs /\ spc[t] = "off"
        /\ \/ t = Code(CpuOf(t)) /\ spc[Handler(CpuOf(t))] = "none" /\ CodeRuns(CpuOf(t))
           \/ t = Handler(CpuOf(t)) /\ HandlerRuns(CpuOf(t))
    BY <1>1, Running DEF Places
  <1>3. /\ Cardinality(own[t]) \in Nat /\ (Cardinality(own[t]) = 0 <=> own[t] = {})
        /\ noff[CpuOf(t)] \in Nat /\ arg[t] \in SpinLocks /\ own[t] \subseteq SpinLocks
        /\ on[CpuOf(t)] \in BOOLEAN /\ IsFiniteSet(own[t])
    <2>1. Cardinality(own[t]) \in Nat /\ (Cardinality(own[t]) = 0 <=> own[t] = {})
      BY <1>1, Counts
    <2> QED BY <1>1, <1>2, <2>1 DEF SpinTypes
  <1>5. /\ spc' = [spc EXCEPT ![t] = "check"] /\ spanic' = ""
        /\ spc'[t] = "check" /\ arg'[t] = arg[t]
        /\ \A u \in Threads \ {t} : /\ spc'[u] = spc[u] /\ arg'[u] = arg[u]
                                     /\ own'[u] = own[u] /\ old'[u] = old[u]
    BY <1>1 DEF SpinTypes, PushOff, Moves, IntrOff
  <1>6. /\ own' = own
        /\ locked' = locked
        /\ lkCpu' = lkCpu
    BY <1>1 DEF SpinTypes, PushOff, Moves, IntrOff
  <1>7. /\ noff'[CpuOf(t)] = noff[CpuOf(t)] + 1
        /\ ~on'[CpuOf(t)]
        /\ intena'[CpuOf(t)] = IF noff[CpuOf(t)] = 0 THEN old[t] ELSE intena[CpuOf(t)]
        /\ old'[t] = old[t]
    BY <1>1, <1>2 DEF SpinTypes, PushOff, Moves, IntrOff
  <1>9. SpinTypes'
    <2>1. /\ locked' \in [SpinLocks -> BOOLEAN]
          /\ lkCpu' \in [SpinLocks -> CPUs \union {NoCPU}]
          /\ on' \in [CPUs -> BOOLEAN] /\ intena' \in [CPUs -> BOOLEAN]
      BY <1>1, <1>2 DEF SpinTypes, PushOff, Moves, IntrOff
    <2>2. noff' \in [CPUs -> Nat]
      <3>1. noff \in [CPUs -> Nat]
        BY <1>1 DEF SpinTypes
      <3>2. noff[CpuOf(t)] + 1 \in Nat
        BY <1>3
      <3>3. noff' = [noff EXCEPT ![CpuOf(t)] = noff[CpuOf(t)] + 1]
        BY <1>1, <1>3 DEF PushOff
      <3> QED BY <1>2, <3>1, <3>3, <3>2
    <2>3. spc' \in [Threads -> Places] /\ arg' \in [Threads -> SpinLocks]
          /\ old' \in [Threads -> BOOLEAN]
      BY <1>1, <1>2, <1>5 DEF SpinTypes, PushOff, Moves, IntrOff, Places
    <2>4. own' \in [Threads -> SUBSET SpinLocks] /\ \A u \in Threads : IsFiniteSet(own'[u])
      BY <1>1, <1>5, <1>6 DEF SpinTypes, PushOff, Moves, IntrOff
    <2> QED BY <2>1, <2>2, <2>3, <2>4 DEF SpinTypes
  <1>10. Owners'
    <2>1. Disjoint'
      BY <1>1, <1>6 DEF Owners, Disjoint
    <2>2. OwnedLocked'
      BY <1>1, <1>6 DEF Owners, OwnedLocked
    <2>3. ASSUME NEW u \in Threads, NEW k \in own'[u]
          PROVE  lkCpu'[k] = CpuOf(u) \/ (spc'[u] \in {"own", "free"} /\ arg'[u] = k)
      BY <1>1, <1>2, <1>5, <1>6 DEF Owners, OwnedCpu
    <2>4. ASSUME NEW k \in SpinLocks, lkCpu'[k] # NoCPU
          PROVE  \E u \in Threads : k \in own'[u] /\ CpuOf(u) = lkCpu'[k]
      BY <1>1, <1>6, <2>4 DEF Owners, CpuOwns
    <2>5. Args'
      BY <1>1, <1>2, <1>5, <1>6 DEF Owners, Args
    <2> QED BY <2>1, <2>2, <2>3, <2>4, <2>5 DEF Owners, OwnedCpu, CpuOwns
  <1>11. ASSUME NEW c \in CPUs PROVE Cpu(c)'
    <2>1. CASE c # CpuOf(t)
      <3>1. /\ Code(c) \in Threads \ {t} /\ Handler(c) \in Threads \ {t}
        BY <2>1, ThreadShape
      <3>2. on'[c] = on[c] /\ noff'[c] = noff[c] /\ intena'[c] = intena[c]
        BY <1>1, <1>2, <2>1 DEF SpinTypes, PushOff, Moves, IntrOff
      <3> QED BY <1>5, <3>1, <3>2, Frame DEF SpinInv
    <2>2. CASE c = CpuOf(t) /\ t = Code(c)
      <3>1. Handler(c) \in Threads \ {t} /\ spc[Handler(c)] = "none" /\ CodeRuns(c)
        BY <1>2, <2>2, ThreadShape DEF HandlerRuns
      <3>2. /\ own[Handler(c)] = {} /\ noff[c] = Cardinality(own[t])
            /\ (on[c] <=> noff[c] = 0) /\ (noff[c] > 0 => intena[c])
            /\ noff[c] = 0 => old[t]
        BY <1>2, <1>3, <2>2, <3>1 DEF CodeRuns, Pushed
      <3>3. own'[Handler(c)] = {}
        BY <1>5, <3>1, <3>2
      <3>4. noff'[c] = Cardinality(own'[t]) + 1
        BY <1>3, <1>6, <1>7, <2>2, <3>2
      <3>5. (on'[c] <=> noff'[c] = 0) /\ (noff'[c] > 0 => intena'[c])
        BY <1>3, <1>7, <2>2, <3>2
      <3>6. Cardinality(own'[t]) + 0 = Cardinality(own'[t])
        BY <1>3, <1>6
      <3>7. CodeRuns(c)'
        BY <1>5, <2>2, <3>4, <3>5, <3>3, <3>6 DEF CodeRuns, Pushed
      <3> QED BY <1>5, <2>2, <3>1, <3>7 DEF Cpu
    <2>3. CASE c = CpuOf(t) /\ t = Handler(c)
      <3>1. Code(c) \in Threads \ {t} /\ HandlerRuns(c)
        BY <1>2, <2>3, ThreadShape
      <3>2. /\ own[Code(c)] = {} /\ spc[Code(c)] \in {"run", "off"}
            /\ spc[Code(c)] = "off" => old[Code(c)]
            /\ noff[c] = Cardinality(own[t]) /\ ~on[c]
            /\ (noff[c] > 0 => ~intena[c]) /\ ~old[t]
        BY <1>2, <1>3, <2>3, <3>1 DEF HandlerRuns, Pushed
      <3>3. noff'[c] = Cardinality(own'[t]) + 1
        BY <1>3, <1>6, <1>7, <2>3, <3>2
      <3>4. ~on'[c] /\ (noff'[c] > 0 => ~intena'[c])
        BY <1>3, <1>7, <2>3, <3>2
      <3>5. Cardinality(own'[t]) + 0 = Cardinality(own'[t])
        BY <1>3, <1>6
      <3>6. HandlerRuns(c)'
        BY <1>5, <3>5, <2>3, <3>1, <3>2, <3>3, <3>4 DEF HandlerRuns, Pushed
      <3> QED BY <1>5, <2>3, <3>1, <3>2, <3>6 DEF Cpu
    <2> QED BY <1>2, <2>1, <2>2, <2>3
  <1> QED BY <1>5, <1>9, <1>10, <1>11 DEF SpinInv

\* acquire() does not panic: the owner that lk->cpu names would be this very thread.
LEMMA AcquireCheckStep ==
    ASSUME SpinInv, NEW t \in Threads, AcquireCheck(t)
    PROVE  SpinInv'
  <1>1. Reached(t, "check") /\ SpinTypes /\ Owners /\ spanic = ""
    BY DEF AcquireCheck, SpinInv
  <1>2. /\ CpuOf(t) \in CPUs /\ spc[t] = "check"
        /\ \/ t = Code(CpuOf(t)) /\ spc[Handler(CpuOf(t))] = "none" /\ CodeRuns(CpuOf(t))
           \/ t = Handler(CpuOf(t)) /\ HandlerRuns(CpuOf(t))
    BY <1>1, Running DEF Places
  <1>3. /\ Cardinality(own[t]) \in Nat /\ (Cardinality(own[t]) = 0 <=> own[t] = {})
        /\ noff[CpuOf(t)] \in Nat /\ arg[t] \in SpinLocks /\ own[t] \subseteq SpinLocks
        /\ on[CpuOf(t)] \in BOOLEAN /\ IsFiniteSet(own[t])
    <2>1. Cardinality(own[t]) \in Nat /\ (Cardinality(own[t]) = 0 <=> own[t] = {})
      BY <1>1, Counts
    <2> QED BY <1>1, <1>2, <2>1 DEF SpinTypes
  <1>4. ~Holding(arg[t], CpuOf(t))
    <2> SUFFICES ASSUME lkCpu[arg[t]] = CpuOf(t) PROVE FALSE
      BY DEF Holding
    <2>1. arg[t] \in SpinLocks /\ CpuOf(t) # NoCPU
      BY <1>1, <1>2, SpinAssumption DEF SpinTypes
    <2>2. PICK u \in Threads : arg[t] \in own[u] /\ CpuOf(u) = CpuOf(t)
      BY <1>1, <2>1 DEF Owners, CpuOwns
    <2>3. u # t
      BY <1>1, <1>2, <2>2 DEF Owners, Args
    <2> QED BY <1>2, <2>2, <2>3, ThreadShape DEF CodeRuns, HandlerRuns
  <1>5. /\ spc' = [spc EXCEPT ![t] = "spin"] /\ spanic' = ""
        /\ spc'[t] = "spin" /\ arg'[t] = arg[t]
        /\ \A u \in Threads \ {t} : /\ spc'[u] = spc[u] /\ arg'[u] = arg[u]
                                     /\ own'[u] = own[u] /\ old'[u] = old[u]
    BY <1>4, <1>1 DEF SpinTypes, AcquireCheck, Moves
  <1>6. /\ own' = own
        /\ locked' = locked
        /\ lkCpu' = lkCpu
    BY <1>4, <1>1 DEF SpinTypes, AcquireCheck, Moves
  <1>7. /\ noff'[CpuOf(t)] = noff[CpuOf(t)]
        /\ on'[CpuOf(t)] = on[CpuOf(t)]
        /\ intena'[CpuOf(t)] = intena[CpuOf(t)]
        /\ old'[t] = old[t]
    BY <1>4, <1>1, <1>2 DEF SpinTypes, AcquireCheck, Moves
  <1>9. SpinTypes'
    <2>1. /\ locked' \in [SpinLocks -> BOOLEAN]
          /\ lkCpu' \in [SpinLocks -> CPUs \union {NoCPU}]
          /\ on' \in [CPUs -> BOOLEAN] /\ intena' \in [CPUs -> BOOLEAN]
      BY <1>4, <1>1, <1>2 DEF SpinTypes, AcquireCheck, Moves
    <2>2. noff' \in [CPUs -> Nat]
      BY <1>1 DEF SpinTypes, AcquireCheck, Moves
    <2>3. spc' \in [Threads -> Places] /\ arg' \in [Threads -> SpinLocks]
          /\ old' \in [Threads -> BOOLEAN]
      BY <1>4, <1>1, <1>2, <1>5 DEF SpinTypes, AcquireCheck, Moves, Places
    <2>4. own' \in [Threads -> SUBSET SpinLocks] /\ \A u \in Threads : IsFiniteSet(own'[u])
      BY <1>1, <1>5, <1>6 DEF SpinTypes, AcquireCheck, Moves
    <2> QED BY <2>1, <2>2, <2>3, <2>4 DEF SpinTypes
  <1>10. Owners'
    <2>1. Disjoint'
      BY <1>1, <1>6 DEF Owners, Disjoint
    <2>2. OwnedLocked'
      BY <1>1, <1>6 DEF Owners, OwnedLocked
    <2>3. ASSUME NEW u \in Threads, NEW k \in own'[u]
          PROVE  lkCpu'[k] = CpuOf(u) \/ (spc'[u] \in {"own", "free"} /\ arg'[u] = k)
      BY <1>1, <1>2, <1>5, <1>6 DEF Owners, OwnedCpu
    <2>4. ASSUME NEW k \in SpinLocks, lkCpu'[k] # NoCPU
          PROVE  \E u \in Threads : k \in own'[u] /\ CpuOf(u) = lkCpu'[k]
      BY <1>1, <1>6, <2>4 DEF Owners, CpuOwns
    <2>5. Args'
      BY <1>1, <1>2, <1>5, <1>6 DEF Owners, Args
    <2> QED BY <2>1, <2>2, <2>3, <2>4, <2>5 DEF Owners, OwnedCpu, CpuOwns
  <1>11. ASSUME NEW c \in CPUs PROVE Cpu(c)'
    <2>1. CASE c # CpuOf(t)
      <3>1. /\ Code(c) \in Threads \ {t} /\ Handler(c) \in Threads \ {t}
        BY <2>1, ThreadShape
      <3>2. on'[c] = on[c] /\ noff'[c] = noff[c] /\ intena'[c] = intena[c]
        BY <1>4, <1>1, <1>2, <2>1 DEF SpinTypes, AcquireCheck, Moves
      <3> QED BY <1>5, <3>1, <3>2, Frame DEF SpinInv
    <2>2. CASE c = CpuOf(t) /\ t = Code(c)
      <3>1. Handler(c) \in Threads \ {t} /\ spc[Handler(c)] = "none" /\ CodeRuns(c)
        BY <1>2, <2>2, ThreadShape DEF HandlerRuns
      <3>2. CodeRuns(c)'
        BY <1>2, <1>3, <1>5, <1>6, <1>7, <2>2, <3>1 DEF CodeRuns, Pushed
      <3> QED BY <1>5, <2>2, <3>1, <3>2 DEF Cpu
    <2>3. CASE c = CpuOf(t) /\ t = Handler(c)
      <3>1. Code(c) \in Threads \ {t} /\ HandlerRuns(c)
        BY <1>2, <2>3, ThreadShape
      <3>2. HandlerRuns(c)'
        BY <1>2, <1>3, <1>5, <1>6, <1>7, <2>3, <3>1 DEF HandlerRuns, Pushed
      <3> QED BY <1>5, <2>3, <3>1, <3>2 DEF Cpu, HandlerRuns
    <2> QED BY <1>2, <2>1, <2>2, <2>3
  <1> QED BY <1>5, <1>9, <1>10, <1>11 DEF SpinInv

\* The test-and-set gives the lock to a thread when nobody owns it.
LEMMA AcquireSpinStep ==
    ASSUME SpinInv, NEW t \in Threads, AcquireSpin(t)
    PROVE  SpinInv'
  <1>1. Reached(t, "spin") /\ SpinTypes /\ Owners /\ spanic = ""
    BY DEF AcquireSpin, SpinInv
  <1>2. /\ CpuOf(t) \in CPUs /\ spc[t] = "spin"
        /\ \/ t = Code(CpuOf(t)) /\ spc[Handler(CpuOf(t))] = "none" /\ CodeRuns(CpuOf(t))
           \/ t = Handler(CpuOf(t)) /\ HandlerRuns(CpuOf(t))
    BY <1>1, Running DEF Places
  <1>3. /\ Cardinality(own[t]) \in Nat /\ (Cardinality(own[t]) = 0 <=> own[t] = {})
        /\ noff[CpuOf(t)] \in Nat /\ arg[t] \in SpinLocks /\ own[t] \subseteq SpinLocks
        /\ on[CpuOf(t)] \in BOOLEAN /\ IsFiniteSet(own[t])
    <2>1. Cardinality(own[t]) \in Nat /\ (Cardinality(own[t]) = 0 <=> own[t] = {})
      BY <1>1, Counts
    <2> QED BY <1>1, <1>2, <2>1 DEF SpinTypes
  <1>5. /\ spc' = [spc EXCEPT ![t] = "own"] /\ spanic' = ""
        /\ spc'[t] = "own" /\ arg'[t] = arg[t]
        /\ \A u \in Threads \ {t} : /\ spc'[u] = spc[u] /\ arg'[u] = arg[u]
                                     /\ own'[u] = own[u] /\ old'[u] = old[u]
    BY <1>1 DEF SpinTypes, AcquireSpin, Moves, MayTake
  <1>6. /\ own'[t] = own[t] \union {arg[t]}
        /\ ~locked[arg[t]] /\ locked'[arg[t]]
        /\ \A k \in SpinLocks \ {arg[t]} : locked'[k] = locked[k]
        /\ lkCpu' = lkCpu
    BY <1>1 DEF SpinTypes, AcquireSpin, Moves, MayTake
  <1>7. /\ noff'[CpuOf(t)] = noff[CpuOf(t)]
        /\ on'[CpuOf(t)] = on[CpuOf(t)]
        /\ intena'[CpuOf(t)] = intena[CpuOf(t)]
        /\ old'[t] = old[t]
    BY <1>1, <1>2 DEF SpinTypes, AcquireSpin, Moves, MayTake
  <1>8. IsFiniteSet(own'[t]) /\ Cardinality(own'[t]) = Cardinality(own[t]) + 1
    <2>1. arg[t] \notin own[t]
      BY <1>1, <1>2 DEF Owners, Args
    <2>2. IsFiniteSet(own[t])
      BY <1>3
    <2>3. own'[t] = own[t] \union {arg[t]}
      BY <1>6
    <2>4. /\ IsFiniteSet(own[t] \union {arg[t]})
          /\ Cardinality(own[t] \union {arg[t]}) = Cardinality(own[t]) + 1
      BY <2>1, <2>2, FS_AddElement
    <2> QED BY <2>3, <2>4
  <1>9. SpinTypes'
    <2>1. /\ locked' \in [SpinLocks -> BOOLEAN]
          /\ lkCpu' \in [SpinLocks -> CPUs \union {NoCPU}]
          /\ on' \in [CPUs -> BOOLEAN] /\ intena' \in [CPUs -> BOOLEAN]
      BY <1>1, <1>2 DEF SpinTypes, AcquireSpin, Moves, MayTake
    <2>2. noff' \in [CPUs -> Nat]
      BY <1>1 DEF SpinTypes, AcquireSpin, Moves, MayTake
    <2>3. spc' \in [Threads -> Places] /\ arg' \in [Threads -> SpinLocks]
          /\ old' \in [Threads -> BOOLEAN]
      BY <1>1, <1>2, <1>5 DEF SpinTypes, AcquireSpin, Moves, MayTake, Places
    <2>4. own' \in [Threads -> SUBSET SpinLocks] /\ \A u \in Threads : IsFiniteSet(own'[u])
      BY <1>1, <1>5, <1>6, <1>8 DEF SpinTypes, AcquireSpin, Moves, MayTake
    <2> QED BY <2>1, <2>2, <2>3, <2>4 DEF SpinTypes
  <1>10. Owners'
    <2>0. \A u \in Threads : arg[t] \notin own[u]
      BY <1>1, <1>6 DEF Owners, OwnedLocked
    <2>1. Disjoint'
      <3> SUFFICES ASSUME NEW u \in Threads, NEW v \in Threads, u # v, NEW k,
                          k \in own'[u], k \in own'[v]
                   PROVE  FALSE
        BY DEF Disjoint
      <3>1. (k \in own[u] \/ (u = t /\ k = arg[t])) /\ (k \in own[v] \/ (v = t /\ k = arg[t]))
        BY <1>5, <1>6
      <3>2. ~(k \in own[u] /\ k \in own[v])
        BY <1>1 DEF Owners, Disjoint
      <3> QED BY <2>0, <3>1, <3>2
    <2>2. OwnedLocked'
      <3> SUFFICES ASSUME NEW u \in Threads, NEW k \in own'[u] PROVE locked'[k]
        BY DEF OwnedLocked
      <3>1. k = arg[t] \/ k \in own[u]
        BY <1>5, <1>6
      <3>2. k \in own[u] => k \in SpinLocks /\ locked[k]
        BY <1>1 DEF SpinTypes, Owners, OwnedLocked
      <3> QED BY <1>6, <3>1, <3>2
    <2>3. ASSUME NEW u \in Threads, NEW k \in own'[u]
          PROVE  lkCpu'[k] = CpuOf(u) \/ (spc'[u] \in {"own", "free"} /\ arg'[u] = k)
      <3>1. k \in own[u] => lkCpu[k] = CpuOf(u) \/ (spc[u] \in {"own", "free"} /\ arg[u] = k)
        BY <1>1 DEF Owners, OwnedCpu
      <3>2. CASE u = t
        BY <1>2, <1>5, <1>6, <3>1, <3>2
      <3>3. CASE u # t
        BY <1>5, <1>6, <3>1, <3>3
      <3> QED BY <3>2, <3>3
    <2>4. ASSUME NEW k \in SpinLocks, lkCpu'[k] # NoCPU
          PROVE  \E u \in Threads : k \in own'[u] /\ CpuOf(u) = lkCpu'[k]
      <3>1. PICK u \in Threads : k \in own[u] /\ CpuOf(u) = lkCpu[k]
        BY <1>1, <1>6, <2>4 DEF Owners, CpuOwns
      <3>2. k \in own'[u]
        BY <1>5, <1>6, <3>1
      <3> QED BY <1>6, <3>1, <3>2
    <2>5. Args'
      <3> SUFFICES ASSUME NEW u \in Threads
                   PROVE  /\ spc'[u] \in {"off", "check", "spin"} => arg'[u] \notin own'[u]
                          /\ spc'[u] \in {"own", "free"} => arg'[u] \in own'[u]
                          /\ spc'[u] = "free" => lkCpu'[arg'[u]] = NoCPU
        BY DEF Args
      <3>1. CASE u = t
        BY <1>5, <1>6, <3>1
      <3>2. CASE u # t
        BY <1>1, <1>5, <1>6, <3>2 DEF Owners, Args
      <3> QED BY <3>1, <3>2
    <2> QED BY <2>1, <2>2, <2>3, <2>4, <2>5 DEF Owners, OwnedCpu, CpuOwns
  <1>11. ASSUME NEW c \in CPUs PROVE Cpu(c)'
    <2>1. CASE c # CpuOf(t)
      <3>1. /\ Code(c) \in Threads \ {t} /\ Handler(c) \in Threads \ {t}
        BY <2>1, ThreadShape
      <3>2. on'[c] = on[c] /\ noff'[c] = noff[c] /\ intena'[c] = intena[c]
        BY <1>1, <1>2, <2>1 DEF SpinTypes, AcquireSpin, Moves, MayTake
      <3> QED BY <1>5, <3>1, <3>2, Frame DEF SpinInv
    <2>2. CASE c = CpuOf(t) /\ t = Code(c)
      <3>1. Handler(c) \in Threads \ {t} /\ spc[Handler(c)] = "none" /\ CodeRuns(c)
        BY <1>2, <2>2, ThreadShape DEF HandlerRuns
      <3>2. /\ own[Handler(c)] = {} /\ noff[c] = Cardinality(own[t]) + 1
            /\ (on[c] <=> noff[c] = 0) /\ (noff[c] > 0 => intena[c])
        BY <1>2, <1>3, <2>2, <3>1 DEF CodeRuns, Pushed
      <3>3. own'[Handler(c)] = {}
        BY <1>5, <3>1, <3>2
      <3>4. noff'[c] = Cardinality(own'[t])
        BY <1>3, <1>6, <1>7, <1>8, <2>2, <3>2
      <3>5. (on'[c] <=> noff'[c] = 0) /\ (noff'[c] > 0 => intena'[c])
        BY <1>3, <1>7, <2>2, <3>2
      <3>6. Cardinality(own'[t]) + 0 = Cardinality(own'[t])
        BY <1>3, <1>6, <1>8
      <3>7. CodeRuns(c)'
        BY <1>5, <2>2, <3>4, <3>5, <3>3, <3>6 DEF CodeRuns, Pushed
      <3> QED BY <1>5, <2>2, <3>1, <3>7 DEF Cpu
    <2>3. CASE c = CpuOf(t) /\ t = Handler(c)
      <3>1. Code(c) \in Threads \ {t} /\ HandlerRuns(c)
        BY <1>2, <2>3, ThreadShape
      <3>2. /\ own[Code(c)] = {} /\ spc[Code(c)] \in {"run", "off"}
            /\ spc[Code(c)] = "off" => old[Code(c)]
            /\ noff[c] = Cardinality(own[t]) + 1 /\ ~on[c]
            /\ (noff[c] > 0 => ~intena[c])
        BY <1>2, <1>3, <2>3, <3>1 DEF HandlerRuns, Pushed
      <3>3. noff'[c] = Cardinality(own'[t])
        BY <1>3, <1>6, <1>7, <1>8, <2>3, <3>2
      <3>4. ~on'[c] /\ (noff'[c] > 0 => ~intena'[c])
        BY <1>3, <1>7, <2>3, <3>2
      <3>5. Cardinality(own'[t]) + 0 = Cardinality(own'[t])
        BY <1>3, <1>6, <1>8
      <3>6. HandlerRuns(c)'
        BY <1>5, <3>5, <2>3, <3>1, <3>2, <3>3, <3>4 DEF HandlerRuns, Pushed
      <3> QED BY <1>5, <2>3, <3>1, <3>2, <3>6 DEF Cpu
    <2> QED BY <1>2, <2>1, <2>2, <2>3
  <1> QED BY <1>5, <1>9, <1>10, <1>11 DEF SpinInv

\* acquire() notes the CPU of the owner.
LEMMA AcquireEndStep ==
    ASSUME SpinInv, NEW t \in Threads, AcquireEnd(t)
    PROVE  SpinInv'
  <1>1. Reached(t, "own") /\ SpinTypes /\ Owners /\ spanic = ""
    BY DEF AcquireEnd, SpinInv
  <1>2. /\ CpuOf(t) \in CPUs /\ spc[t] = "own"
        /\ \/ t = Code(CpuOf(t)) /\ spc[Handler(CpuOf(t))] = "none" /\ CodeRuns(CpuOf(t))
           \/ t = Handler(CpuOf(t)) /\ HandlerRuns(CpuOf(t))
    BY <1>1, Running DEF Places
  <1>3. /\ Cardinality(own[t]) \in Nat /\ (Cardinality(own[t]) = 0 <=> own[t] = {})
        /\ noff[CpuOf(t)] \in Nat /\ arg[t] \in SpinLocks /\ own[t] \subseteq SpinLocks
        /\ on[CpuOf(t)] \in BOOLEAN /\ IsFiniteSet(own[t])
    <2>1. Cardinality(own[t]) \in Nat /\ (Cardinality(own[t]) = 0 <=> own[t] = {})
      BY <1>1, Counts
    <2> QED BY <1>1, <1>2, <2>1 DEF SpinTypes
  <1>5. /\ spc' = [spc EXCEPT ![t] = "run"] /\ spanic' = ""
        /\ spc'[t] = "run" /\ arg'[t] = arg[t]
        /\ \A u \in Threads \ {t} : /\ spc'[u] = spc[u] /\ arg'[u] = arg[u]
                                     /\ own'[u] = own[u] /\ old'[u] = old[u]
    BY <1>1 DEF SpinTypes, AcquireEnd, Moves
  <1>6. /\ own' = own
        /\ locked' = locked
        /\ lkCpu'[arg[t]] = CpuOf(t)
        /\ \A k \in SpinLocks \ {arg[t]} : lkCpu'[k] = lkCpu[k]
    BY <1>1 DEF SpinTypes, AcquireEnd, Moves
  <1>7. /\ noff'[CpuOf(t)] = noff[CpuOf(t)]
        /\ on'[CpuOf(t)] = on[CpuOf(t)]
        /\ intena'[CpuOf(t)] = intena[CpuOf(t)]
        /\ old'[t] = old[t]
    BY <1>1, <1>2 DEF SpinTypes, AcquireEnd, Moves
  <1>9. SpinTypes'
    <2>1. /\ locked' \in [SpinLocks -> BOOLEAN]
          /\ lkCpu' \in [SpinLocks -> CPUs \union {NoCPU}]
          /\ on' \in [CPUs -> BOOLEAN] /\ intena' \in [CPUs -> BOOLEAN]
      BY <1>1, <1>2 DEF SpinTypes, AcquireEnd, Moves
    <2>2. noff' \in [CPUs -> Nat]
      BY <1>1 DEF SpinTypes, AcquireEnd, Moves
    <2>3. spc' \in [Threads -> Places] /\ arg' \in [Threads -> SpinLocks]
          /\ old' \in [Threads -> BOOLEAN]
      BY <1>1, <1>2, <1>5 DEF SpinTypes, AcquireEnd, Moves, Places
    <2>4. own' \in [Threads -> SUBSET SpinLocks] /\ \A u \in Threads : IsFiniteSet(own'[u])
      BY <1>1, <1>5, <1>6 DEF SpinTypes, AcquireEnd, Moves
    <2> QED BY <2>1, <2>2, <2>3, <2>4 DEF SpinTypes
  <1>10. Owners'
    <2>0. /\ arg[t] \in own[t] /\ arg[t] \in SpinLocks
          /\ \A u \in Threads \ {t} : arg[t] \notin own[u]
      <3>1. arg[t] \in own[t] /\ arg[t] \in SpinLocks
        BY <1>1, <1>2, <1>3, <1>5 DEF Owners, Args
      <3> QED BY <1>1, <3>1 DEF Owners, Disjoint
    <2>1. Disjoint'
      BY <1>1, <1>6 DEF Owners, Disjoint
    <2>2. OwnedLocked'
      BY <1>1, <1>6 DEF Owners, OwnedLocked
    <2>3. ASSUME NEW u \in Threads, NEW k \in own'[u]
          PROVE  lkCpu'[k] = CpuOf(u) \/ (spc'[u] \in {"own", "free"} /\ arg'[u] = k)
      <3>1. /\ k \in own[u] /\ k \in SpinLocks
            /\ lkCpu[k] = CpuOf(u) \/ (spc[u] \in {"own", "free"} /\ arg[u] = k)
        BY <1>1, <1>6 DEF Owners, OwnedCpu, SpinTypes
      <3>2. CASE u = t
        BY <1>2, <1>5, <1>6, <3>1, <3>2
      <3>3. CASE u # t
        <4>1. k # arg[t]
          BY <2>0, <3>1, <3>3
        <4> QED BY <1>5, <1>6, <3>1, <3>3, <4>1
      <3> QED BY <3>2, <3>3
    <2>4. ASSUME NEW k \in SpinLocks, lkCpu'[k] # NoCPU
          PROVE  \E u \in Threads : k \in own'[u] /\ CpuOf(u) = lkCpu'[k]
      <3>1. CASE k = arg[t]
        BY <1>6, <2>0, <2>4, <3>1
      <3>2. CASE k # arg[t]
        <4>1. lkCpu'[k] = lkCpu[k]
          BY <1>6, <3>2
        <4>2. PICK u \in Threads : k \in own[u] /\ CpuOf(u) = lkCpu[k]
          BY <1>1, <2>4, <4>1 DEF Owners, CpuOwns
        <4> QED BY <1>6, <4>1, <4>2
      <3> QED BY <3>1, <3>2
    <2>5. Args'
      <3> SUFFICES ASSUME NEW u \in Threads
                   PROVE  /\ spc'[u] \in {"off", "check", "spin"} => arg'[u] \notin own'[u]
                          /\ spc'[u] \in {"own", "free"} => arg'[u] \in own'[u]
                          /\ spc'[u] = "free" => lkCpu'[arg'[u]] = NoCPU
        BY DEF Args
      <3>1. CASE u = t
        BY <1>5, <1>6, <2>0, <3>1
      <3>2. CASE u # t
        <4>1. /\ spc[u] \in {"off", "check", "spin"} => arg[u] \notin own[u]
              /\ spc[u] \in {"own", "free"} => arg[u] \in own[u]
              /\ spc[u] = "free" => lkCpu[arg[u]] = NoCPU
              /\ arg[u] \in SpinLocks
          BY <1>1 DEF Owners, Args, SpinTypes
        <4>2. spc[u] = "free" => arg[u] # arg[t]
          BY <2>0, <3>2, <4>1
        <4>3. spc'[u] = spc[u] /\ arg'[u] = arg[u] /\ own'[u] = own[u]
          BY <1>5, <3>2
        <4>4. spc[u] = "free" => lkCpu'[arg[u]] = lkCpu[arg[u]]
          BY <1>6, <4>1, <4>2
        <4> QED BY <4>1, <4>3, <4>4
      <3> QED BY <3>1, <3>2
    <2> QED BY <2>1, <2>2, <2>3, <2>4, <2>5 DEF Owners, OwnedCpu, CpuOwns
  <1>11. ASSUME NEW c \in CPUs PROVE Cpu(c)'
    <2>1. CASE c # CpuOf(t)
      <3>1. /\ Code(c) \in Threads \ {t} /\ Handler(c) \in Threads \ {t}
        BY <2>1, ThreadShape
      <3>2. on'[c] = on[c] /\ noff'[c] = noff[c] /\ intena'[c] = intena[c]
        BY <1>1, <1>2, <2>1 DEF SpinTypes, AcquireEnd, Moves
      <3> QED BY <1>5, <3>1, <3>2, Frame DEF SpinInv
    <2>2. CASE c = CpuOf(t) /\ t = Code(c)
      <3>1. Handler(c) \in Threads \ {t} /\ spc[Handler(c)] = "none" /\ CodeRuns(c)
        BY <1>2, <2>2, ThreadShape DEF HandlerRuns
      <3>2. CodeRuns(c)'
        BY <1>2, <1>3, <1>5, <1>6, <1>7, <2>2, <3>1 DEF CodeRuns, Pushed
      <3> QED BY <1>5, <2>2, <3>1, <3>2 DEF Cpu
    <2>3. CASE c = CpuOf(t) /\ t = Handler(c)
      <3>1. Code(c) \in Threads \ {t} /\ HandlerRuns(c)
        BY <1>2, <2>3, ThreadShape
      <3>2. HandlerRuns(c)'
        BY <1>2, <1>3, <1>5, <1>6, <1>7, <2>3, <3>1 DEF HandlerRuns, Pushed
      <3> QED BY <1>5, <2>3, <3>1, <3>2 DEF Cpu, HandlerRuns
    <2> QED BY <1>2, <2>1, <2>2, <2>3
  <1> QED BY <1>5, <1>9, <1>10, <1>11 DEF SpinInv

\* release() does not panic: lk->cpu names the CPU of the owner.
LEMMA ReleaseStartStep ==
    ASSUME SpinInv, NEW t \in Threads, NEW l \in SpinLocks, ReleaseStart(t, l)
    PROVE  SpinInv'
  <1>1. Reached(t, "run") /\ SpinTypes /\ Owners /\ spanic = ""
    BY DEF ReleaseStart, SpinInv
  <1>2. /\ CpuOf(t) \in CPUs /\ spc[t] = "run"
        /\ \/ t = Code(CpuOf(t)) /\ spc[Handler(CpuOf(t))] = "none" /\ CodeRuns(CpuOf(t))
           \/ t = Handler(CpuOf(t)) /\ HandlerRuns(CpuOf(t))
    BY <1>1, Running DEF Places
  <1>3. /\ Cardinality(own[t]) \in Nat /\ (Cardinality(own[t]) = 0 <=> own[t] = {})
        /\ noff[CpuOf(t)] \in Nat /\ arg[t] \in SpinLocks /\ own[t] \subseteq SpinLocks
        /\ on[CpuOf(t)] \in BOOLEAN /\ IsFiniteSet(own[t])
    <2>1. Cardinality(own[t]) \in Nat /\ (Cardinality(own[t]) = 0 <=> own[t] = {})
      BY <1>1, Counts
    <2> QED BY <1>1, <1>2, <2>1 DEF SpinTypes
  <1>4. Holding(l, CpuOf(t))
    BY <1>1, <1>2 DEF Holding, ReleaseStart, Owners, OwnedLocked, OwnedCpu
  <1>5. /\ spc' = [spc EXCEPT ![t] = "free"] /\ spanic' = ""
        /\ spc'[t] = "free" /\ arg'[t] = l /\ l \in own[t]
        /\ \A u \in Threads \ {t} : /\ spc'[u] = spc[u] /\ arg'[u] = arg[u]
                                     /\ own'[u] = own[u] /\ old'[u] = old[u]
    BY <1>4, <1>1 DEF SpinTypes, ReleaseStart, Moves
  <1>6. /\ own' = own
        /\ locked' = locked
        /\ lkCpu'[l] = NoCPU
        /\ \A k \in SpinLocks \ {l} : lkCpu'[k] = lkCpu[k]
    BY <1>4, <1>1 DEF SpinTypes, ReleaseStart, Moves
  <1>7. /\ noff'[CpuOf(t)] = noff[CpuOf(t)]
        /\ on'[CpuOf(t)] = on[CpuOf(t)]
        /\ intena'[CpuOf(t)] = intena[CpuOf(t)]
        /\ old'[t] = old[t]
    BY <1>4, <1>1, <1>2 DEF SpinTypes, ReleaseStart, Moves
  <1>9. SpinTypes'
    <2>1. /\ locked' \in [SpinLocks -> BOOLEAN]
          /\ lkCpu' \in [SpinLocks -> CPUs \union {NoCPU}]
          /\ on' \in [CPUs -> BOOLEAN] /\ intena' \in [CPUs -> BOOLEAN]
      BY <1>4, <1>1, <1>2 DEF SpinTypes, ReleaseStart, Moves
    <2>2. noff' \in [CPUs -> Nat]
      BY <1>1 DEF SpinTypes, ReleaseStart, Moves
    <2>3. spc' \in [Threads -> Places] /\ arg' \in [Threads -> SpinLocks]
          /\ old' \in [Threads -> BOOLEAN]
      BY <1>4, <1>1, <1>2, <1>5 DEF SpinTypes, ReleaseStart, Moves, Places
    <2>4. own' \in [Threads -> SUBSET SpinLocks] /\ \A u \in Threads : IsFiniteSet(own'[u])
      BY <1>1, <1>5, <1>6 DEF SpinTypes, ReleaseStart, Moves
    <2> QED BY <2>1, <2>2, <2>3, <2>4 DEF SpinTypes
  <1>10. Owners'
    <2>0. /\ l \in own[t] /\ l \in SpinLocks
          /\ \A u \in Threads \ {t} : l \notin own[u]
      <3>1. l \in own[t] /\ l \in SpinLocks
        BY <1>1, <1>2, <1>3, <1>5 DEF Owners, Args
      <3> QED BY <1>1, <3>1 DEF Owners, Disjoint
    <2>1. Disjoint'
      BY <1>1, <1>6 DEF Owners, Disjoint
    <2>2. OwnedLocked'
      BY <1>1, <1>6 DEF Owners, OwnedLocked
    <2>3. ASSUME NEW u \in Threads, NEW k \in own'[u]
          PROVE  lkCpu'[k] = CpuOf(u) \/ (spc'[u] \in {"own", "free"} /\ arg'[u] = k)
      <3>1. /\ k \in own[u] /\ k \in SpinLocks
            /\ lkCpu[k] = CpuOf(u) \/ (spc[u] \in {"own", "free"} /\ arg[u] = k)
        BY <1>1, <1>6 DEF Owners, OwnedCpu, SpinTypes
      <3>2. CASE u = t
        BY <1>2, <1>5, <1>6, <3>1, <3>2
      <3>3. CASE u # t
        <4>1. k # l
          BY <2>0, <3>1, <3>3
        <4> QED BY <1>5, <1>6, <3>1, <3>3, <4>1
      <3> QED BY <3>2, <3>3
    <2>4. ASSUME NEW k \in SpinLocks, lkCpu'[k] # NoCPU
          PROVE  \E u \in Threads : k \in own'[u] /\ CpuOf(u) = lkCpu'[k]
      <3>1. CASE k = l
        BY <1>6, <2>0, <2>4, <3>1
      <3>2. CASE k # l
        <4>1. lkCpu'[k] = lkCpu[k]
          BY <1>6, <3>2
        <4>2. PICK u \in Threads : k \in own[u] /\ CpuOf(u) = lkCpu[k]
          BY <1>1, <2>4, <4>1 DEF Owners, CpuOwns
        <4> QED BY <1>6, <4>1, <4>2
      <3> QED BY <3>1, <3>2
    <2>5. Args'
      <3> SUFFICES ASSUME NEW u \in Threads
                   PROVE  /\ spc'[u] \in {"off", "check", "spin"} => arg'[u] \notin own'[u]
                          /\ spc'[u] \in {"own", "free"} => arg'[u] \in own'[u]
                          /\ spc'[u] = "free" => lkCpu'[arg'[u]] = NoCPU
        BY DEF Args
      <3>1. CASE u = t
        BY <1>5, <1>6, <2>0, <3>1
      <3>2. CASE u # t
        <4>1. /\ spc[u] \in {"off", "check", "spin"} => arg[u] \notin own[u]
              /\ spc[u] \in {"own", "free"} => arg[u] \in own[u]
              /\ spc[u] = "free" => lkCpu[arg[u]] = NoCPU
              /\ arg[u] \in SpinLocks
          BY <1>1 DEF Owners, Args, SpinTypes
        <4>2. spc[u] = "free" => arg[u] # l
          BY <2>0, <3>2, <4>1
        <4>3. spc'[u] = spc[u] /\ arg'[u] = arg[u] /\ own'[u] = own[u]
          BY <1>5, <3>2
        <4>4. spc[u] = "free" => lkCpu'[arg[u]] = lkCpu[arg[u]]
          BY <1>6, <4>1, <4>2
        <4> QED BY <4>1, <4>3, <4>4
      <3> QED BY <3>1, <3>2
    <2> QED BY <2>1, <2>2, <2>3, <2>4, <2>5 DEF Owners, OwnedCpu, CpuOwns
  <1>11. ASSUME NEW c \in CPUs PROVE Cpu(c)'
    <2>1. CASE c # CpuOf(t)
      <3>1. /\ Code(c) \in Threads \ {t} /\ Handler(c) \in Threads \ {t}
        BY <2>1, ThreadShape
      <3>2. on'[c] = on[c] /\ noff'[c] = noff[c] /\ intena'[c] = intena[c]
        BY <1>4, <1>1, <1>2, <2>1 DEF SpinTypes, ReleaseStart, Moves
      <3> QED BY <1>5, <3>1, <3>2, Frame DEF SpinInv
    <2>2. CASE c = CpuOf(t) /\ t = Code(c)
      <3>1. Handler(c) \in Threads \ {t} /\ spc[Handler(c)] = "none" /\ CodeRuns(c)
        BY <1>2, <2>2, ThreadShape DEF HandlerRuns
      <3>2. CodeRuns(c)'
        BY <1>2, <1>3, <1>5, <1>6, <1>7, <2>2, <3>1 DEF CodeRuns, Pushed
      <3> QED BY <1>5, <2>2, <3>1, <3>2 DEF Cpu
    <2>3. CASE c = CpuOf(t) /\ t = Handler(c)
      <3>1. Code(c) \in Threads \ {t} /\ HandlerRuns(c)
        BY <1>2, <2>3, ThreadShape
      <3>2. HandlerRuns(c)'
        BY <1>2, <1>3, <1>5, <1>6, <1>7, <2>3, <3>1 DEF HandlerRuns, Pushed
      <3> QED BY <1>5, <2>3, <3>1, <3>2 DEF Cpu, HandlerRuns
    <2> QED BY <1>2, <2>1, <2>2, <2>3
  <1> QED BY <1>5, <1>9, <1>10, <1>11 DEF SpinInv

\* release() gives the lock back, which is still counted until pop_off().
LEMMA ReleaseFreeStep ==
    ASSUME SpinInv, NEW t \in Threads, ReleaseFree(t)
    PROVE  SpinInv'
  <1>1. Reached(t, "free") /\ SpinTypes /\ Owners /\ spanic = ""
    BY DEF ReleaseFree, SpinInv
  <1>2. /\ CpuOf(t) \in CPUs /\ spc[t] = "free"
        /\ \/ t = Code(CpuOf(t)) /\ spc[Handler(CpuOf(t))] = "none" /\ CodeRuns(CpuOf(t))
           \/ t = Handler(CpuOf(t)) /\ HandlerRuns(CpuOf(t))
    BY <1>1, Running DEF Places
  <1>3. /\ Cardinality(own[t]) \in Nat /\ (Cardinality(own[t]) = 0 <=> own[t] = {})
        /\ noff[CpuOf(t)] \in Nat /\ arg[t] \in SpinLocks /\ own[t] \subseteq SpinLocks
        /\ on[CpuOf(t)] \in BOOLEAN /\ IsFiniteSet(own[t])
    <2>1. Cardinality(own[t]) \in Nat /\ (Cardinality(own[t]) = 0 <=> own[t] = {})
      BY <1>1, Counts
    <2> QED BY <1>1, <1>2, <2>1 DEF SpinTypes
  <1>5. /\ spc' = [spc EXCEPT ![t] = "pop"] /\ spanic' = ""
        /\ spc'[t] = "pop" /\ arg'[t] = arg[t]
        /\ \A u \in Threads \ {t} : /\ spc'[u] = spc[u] /\ arg'[u] = arg[u]
                                     /\ own'[u] = own[u] /\ old'[u] = old[u]
    BY <1>1 DEF SpinTypes, ReleaseFree, Moves
  <1>6. /\ own'[t] = own[t] \ {arg[t]}
        /\ \A k \in SpinLocks \ {arg[t]} : locked'[k] = locked[k]
        /\ lkCpu' = lkCpu
    BY <1>1 DEF SpinTypes, ReleaseFree, Moves
  <1>7. /\ noff'[CpuOf(t)] = noff[CpuOf(t)]
        /\ on'[CpuOf(t)] = on[CpuOf(t)]
        /\ intena'[CpuOf(t)] = intena[CpuOf(t)]
        /\ old'[t] = old[t]
    BY <1>1, <1>2 DEF SpinTypes, ReleaseFree, Moves
  <1>8. IsFiniteSet(own'[t]) /\ Cardinality(own'[t]) = Cardinality(own[t]) - 1
    <2>1. arg[t] \in own[t]
      BY <1>1, <1>2 DEF Owners, Args
    <2>2. IsFiniteSet(own[t])
      BY <1>3
    <2>3. own'[t] = own[t] \ {arg[t]}
      BY <1>6
    <2>4. /\ IsFiniteSet(own[t] \ {arg[t]})
          /\ Cardinality(own[t] \ {arg[t]}) = Cardinality(own[t]) - 1
      BY <2>1, <2>2, FS_RemoveElement
    <2> QED BY <2>3, <2>4
  <1>9. SpinTypes'
    <2>1. /\ locked' \in [SpinLocks -> BOOLEAN]
          /\ lkCpu' \in [SpinLocks -> CPUs \union {NoCPU}]
          /\ on' \in [CPUs -> BOOLEAN] /\ intena' \in [CPUs -> BOOLEAN]
      BY <1>1, <1>2 DEF SpinTypes, ReleaseFree, Moves
    <2>2. noff' \in [CPUs -> Nat]
      BY <1>1 DEF SpinTypes, ReleaseFree, Moves
    <2>3. spc' \in [Threads -> Places] /\ arg' \in [Threads -> SpinLocks]
          /\ old' \in [Threads -> BOOLEAN]
      BY <1>1, <1>2, <1>5 DEF SpinTypes, ReleaseFree, Moves, Places
    <2>4. own' \in [Threads -> SUBSET SpinLocks] /\ \A u \in Threads : IsFiniteSet(own'[u])
      BY <1>1, <1>5, <1>6, <1>8 DEF SpinTypes, ReleaseFree, Moves
    <2> QED BY <2>1, <2>2, <2>3, <2>4 DEF SpinTypes
  <1>10. Owners'
    <2>0. \A u \in Threads \ {t} : arg[t] \notin own[u]
      <3>1. arg[t] \in own[t]
        BY <1>1, <1>2 DEF Owners, Args
      <3> QED BY <1>1, <3>1 DEF Owners, Disjoint
    <2>1. Disjoint'
      <3> SUFFICES ASSUME NEW u \in Threads, NEW v \in Threads, u # v, NEW k,
                          k \in own'[u], k \in own'[v]
                   PROVE  FALSE
        BY DEF Disjoint
      <3>1. k \in own[u] /\ k \in own[v]
        BY <1>5, <1>6
      <3> QED BY <1>1, <3>1 DEF Owners, Disjoint
    <2>2. OwnedLocked'
      <3> SUFFICES ASSUME NEW u \in Threads, NEW k \in own'[u] PROVE locked'[k]
        BY DEF OwnedLocked
      <3>1. k # arg[t] /\ k \in own[u]
        BY <1>5, <1>6, <2>0
      <3>2. k \in SpinLocks /\ locked[k]
        BY <1>1, <3>1 DEF SpinTypes, Owners, OwnedLocked
      <3> QED BY <1>6, <3>1, <3>2
    <2>3. ASSUME NEW u \in Threads, NEW k \in own'[u]
          PROVE  lkCpu'[k] = CpuOf(u) \/ (spc'[u] \in {"own", "free"} /\ arg'[u] = k)
      <3>1. k \in own[u] => lkCpu[k] = CpuOf(u) \/ (spc[u] \in {"own", "free"} /\ arg[u] = k)
        BY <1>1 DEF Owners, OwnedCpu
      <3>2. CASE u = t
        BY <1>2, <1>5, <1>6, <3>1, <3>2
      <3>3. CASE u # t
        BY <1>5, <1>6, <3>1, <3>3
      <3> QED BY <3>2, <3>3
    <2>4. ASSUME NEW k \in SpinLocks, lkCpu'[k] # NoCPU
          PROVE  \E u \in Threads : k \in own'[u] /\ CpuOf(u) = lkCpu'[k]
      <3>1. PICK u \in Threads : k \in own[u] /\ CpuOf(u) = lkCpu[k]
        BY <1>1, <1>6, <2>4 DEF Owners, CpuOwns
      <3>2. k # arg[t]
        <4>1. lkCpu[arg[t]] = NoCPU
          BY <1>1, <1>2 DEF Owners, Args
        <4> QED BY <1>6, <2>4, <4>1
      <3>3. k \in own'[u]
        BY <1>5, <1>6, <3>1, <3>2
      <3> QED BY <1>6, <3>1, <3>3
    <2>5. Args'
      <3> SUFFICES ASSUME NEW u \in Threads
                   PROVE  /\ spc'[u] \in {"off", "check", "spin"} => arg'[u] \notin own'[u]
                          /\ spc'[u] \in {"own", "free"} => arg'[u] \in own'[u]
                          /\ spc'[u] = "free" => lkCpu'[arg'[u]] = NoCPU
        BY DEF Args
      <3>1. CASE u = t
        BY <1>5, <1>6, <3>1
      <3>2. CASE u # t
        BY <1>1, <1>5, <1>6, <3>2 DEF Owners, Args
      <3> QED BY <3>1, <3>2
    <2> QED BY <2>1, <2>2, <2>3, <2>4, <2>5 DEF Owners, OwnedCpu, CpuOwns
  <1>11. ASSUME NEW c \in CPUs PROVE Cpu(c)'
    <2>1. CASE c # CpuOf(t)
      <3>1. /\ Code(c) \in Threads \ {t} /\ Handler(c) \in Threads \ {t}
        BY <2>1, ThreadShape
      <3>2. on'[c] = on[c] /\ noff'[c] = noff[c] /\ intena'[c] = intena[c]
        BY <1>1, <1>2, <2>1 DEF SpinTypes, ReleaseFree, Moves
      <3> QED BY <1>5, <3>1, <3>2, Frame DEF SpinInv
    <2>2. CASE c = CpuOf(t) /\ t = Code(c)
      <3>1. Handler(c) \in Threads \ {t} /\ spc[Handler(c)] = "none" /\ CodeRuns(c)
        BY <1>2, <2>2, ThreadShape DEF HandlerRuns
      <3>2. /\ own[Handler(c)] = {} /\ noff[c] = Cardinality(own[t])
            /\ (on[c] <=> noff[c] = 0) /\ (noff[c] > 0 => intena[c])
        BY <1>2, <1>3, <2>2, <3>1 DEF CodeRuns, Pushed
      <3>3. own'[Handler(c)] = {}
        BY <1>5, <3>1, <3>2
      <3>4. noff'[c] = Cardinality(own'[t]) + 1
        BY <1>3, <1>6, <1>7, <1>8, <2>2, <3>2
      <3>5. (on'[c] <=> noff'[c] = 0) /\ (noff'[c] > 0 => intena'[c])
        BY <1>3, <1>7, <2>2, <3>2
      <3>6. Cardinality(own'[t]) + 0 = Cardinality(own'[t])
        BY <1>3, <1>6, <1>8
      <3>7. CodeRuns(c)'
        BY <1>5, <2>2, <3>4, <3>5, <3>3, <3>6 DEF CodeRuns, Pushed
      <3> QED BY <1>5, <2>2, <3>1, <3>7 DEF Cpu
    <2>3. CASE c = CpuOf(t) /\ t = Handler(c)
      <3>1. Code(c) \in Threads \ {t} /\ HandlerRuns(c)
        BY <1>2, <2>3, ThreadShape
      <3>2. /\ own[Code(c)] = {} /\ spc[Code(c)] \in {"run", "off"}
            /\ spc[Code(c)] = "off" => old[Code(c)]
            /\ noff[c] = Cardinality(own[t]) /\ ~on[c]
            /\ (noff[c] > 0 => ~intena[c])
        BY <1>2, <1>3, <2>3, <3>1 DEF HandlerRuns, Pushed
      <3>3. noff'[c] = Cardinality(own'[t]) + 1
        BY <1>3, <1>6, <1>7, <1>8, <2>3, <3>2
      <3>4. ~on'[c] /\ (noff'[c] > 0 => ~intena'[c])
        BY <1>3, <1>7, <2>3, <3>2
      <3>5. Cardinality(own'[t]) + 0 = Cardinality(own'[t])
        BY <1>3, <1>6, <1>8
      <3>6. HandlerRuns(c)'
        BY <1>5, <3>5, <2>3, <3>1, <3>2, <3>3, <3>4 DEF HandlerRuns, Pushed
      <3> QED BY <1>5, <2>3, <3>1, <3>2, <3>6 DEF Cpu
    <2> QED BY <1>2, <2>1, <2>2, <2>3
  <1> QED BY <1>5, <1>9, <1>10, <1>11 DEF SpinInv

\* pop_off() does not panic: its push_off() is counted and keeps interrupts off.
LEMMA PopOffStep ==
    ASSUME SpinInv, NEW t \in Threads, PopOff(t)
    PROVE  SpinInv'
  <1>1. Reached(t, "pop") /\ SpinTypes /\ Owners /\ spanic = ""
    BY DEF PopOff, SpinInv
  <1>2. /\ CpuOf(t) \in CPUs /\ spc[t] = "pop"
        /\ \/ t = Code(CpuOf(t)) /\ spc[Handler(CpuOf(t))] = "none" /\ CodeRuns(CpuOf(t))
           \/ t = Handler(CpuOf(t)) /\ HandlerRuns(CpuOf(t))
    BY <1>1, Running DEF Places
  <1>3. /\ Cardinality(own[t]) \in Nat /\ (Cardinality(own[t]) = 0 <=> own[t] = {})
        /\ noff[CpuOf(t)] \in Nat /\ arg[t] \in SpinLocks /\ own[t] \subseteq SpinLocks
        /\ on[CpuOf(t)] \in BOOLEAN /\ IsFiniteSet(own[t])
    <2>1. Cardinality(own[t]) \in Nat /\ (Cardinality(own[t]) = 0 <=> own[t] = {})
      BY <1>1, Counts
    <2> QED BY <1>1, <1>2, <2>1 DEF SpinTypes
  <1>4. ~(on[CpuOf(t)] \/ noff[CpuOf(t)] < 1)
    <2>1. CASE t = Code(CpuOf(t))
      BY <1>2, <1>3, <2>1, ThreadShape DEF CodeRuns, HandlerRuns, Pushed
    <2>2. CASE t = Handler(CpuOf(t))
      BY <1>2, <1>3, <2>2, ThreadShape DEF HandlerRuns, CodeRuns, Pushed
    <2> QED BY <1>2, <2>1, <2>2
  <1>5. /\ spc' = [spc EXCEPT ![t] = "run"] /\ spanic' = ""
        /\ spc'[t] = "run" /\ arg'[t] = arg[t]
        /\ \A u \in Threads \ {t} : /\ spc'[u] = spc[u] /\ arg'[u] = arg[u]
                                     /\ own'[u] = own[u] /\ old'[u] = old[u]
    BY <1>4, <1>1 DEF SpinTypes, PopOff, Moves, Enables
  <1>6. /\ own' = own
        /\ locked' = locked
        /\ lkCpu' = lkCpu
    BY <1>4, <1>1 DEF SpinTypes, PopOff, Moves, Enables
  <1>7. /\ noff'[CpuOf(t)] = noff[CpuOf(t)] - 1
        /\ on'[CpuOf(t)] <=> noff[CpuOf(t)] = 1 /\ intena[CpuOf(t)]
        /\ intena'[CpuOf(t)] = intena[CpuOf(t)]
        /\ old'[t] = old[t]
    BY <1>4, <1>1, <1>2 DEF SpinTypes, PopOff, Moves, Enables
  <1>9. SpinTypes'
    <2>1. /\ locked' \in [SpinLocks -> BOOLEAN]
          /\ lkCpu' \in [SpinLocks -> CPUs \union {NoCPU}]
          /\ on' \in [CPUs -> BOOLEAN] /\ intena' \in [CPUs -> BOOLEAN]
      BY <1>4, <1>1, <1>2 DEF SpinTypes, PopOff, Moves, Enables
    <2>2. noff' \in [CPUs -> Nat]
      <3>1. noff \in [CPUs -> Nat]
        BY <1>1 DEF SpinTypes
      <3>2. noff[CpuOf(t)] - 1 \in Nat
        BY <1>4, <1>3
      <3>3. noff' = [noff EXCEPT ![CpuOf(t)] = noff[CpuOf(t)] - 1]
        BY <1>4, <1>1, <1>3 DEF PopOff
      <3> QED BY <1>2, <3>1, <3>3, <3>2
    <2>3. spc' \in [Threads -> Places] /\ arg' \in [Threads -> SpinLocks]
          /\ old' \in [Threads -> BOOLEAN]
      BY <1>4, <1>1, <1>2, <1>5 DEF SpinTypes, PopOff, Moves, Enables, Places
    <2>4. own' \in [Threads -> SUBSET SpinLocks] /\ \A u \in Threads : IsFiniteSet(own'[u])
      BY <1>1, <1>5, <1>6 DEF SpinTypes, PopOff, Moves, Enables
    <2> QED BY <2>1, <2>2, <2>3, <2>4 DEF SpinTypes
  <1>10. Owners'
    <2>1. Disjoint'
      BY <1>1, <1>6 DEF Owners, Disjoint
    <2>2. OwnedLocked'
      BY <1>1, <1>6 DEF Owners, OwnedLocked
    <2>3. ASSUME NEW u \in Threads, NEW k \in own'[u]
          PROVE  lkCpu'[k] = CpuOf(u) \/ (spc'[u] \in {"own", "free"} /\ arg'[u] = k)
      BY <1>1, <1>2, <1>5, <1>6 DEF Owners, OwnedCpu
    <2>4. ASSUME NEW k \in SpinLocks, lkCpu'[k] # NoCPU
          PROVE  \E u \in Threads : k \in own'[u] /\ CpuOf(u) = lkCpu'[k]
      BY <1>1, <1>6, <2>4 DEF Owners, CpuOwns
    <2>5. Args'
      BY <1>1, <1>2, <1>5, <1>6 DEF Owners, Args
    <2> QED BY <2>1, <2>2, <2>3, <2>4, <2>5 DEF Owners, OwnedCpu, CpuOwns
  <1>11. ASSUME NEW c \in CPUs PROVE Cpu(c)'
    <2>1. CASE c # CpuOf(t)
      <3>1. /\ Code(c) \in Threads \ {t} /\ Handler(c) \in Threads \ {t}
        BY <2>1, ThreadShape
      <3>2. on'[c] = on[c] /\ noff'[c] = noff[c] /\ intena'[c] = intena[c]
        BY <1>4, <1>1, <1>2, <2>1 DEF SpinTypes, PopOff, Moves, Enables
      <3> QED BY <1>5, <3>1, <3>2, Frame DEF SpinInv
    <2>2. CASE c = CpuOf(t) /\ t = Code(c)
      <3>1. Handler(c) \in Threads \ {t} /\ spc[Handler(c)] = "none" /\ CodeRuns(c)
        BY <1>2, <2>2, ThreadShape DEF HandlerRuns
      <3>2. /\ own[Handler(c)] = {} /\ noff[c] = Cardinality(own[t]) + 1
            /\ (on[c] <=> noff[c] = 0) /\ (noff[c] > 0 => intena[c])
        BY <1>2, <1>3, <2>2, <3>1 DEF CodeRuns, Pushed
      <3>3. own'[Handler(c)] = {}
        BY <1>5, <3>1, <3>2
      <3>4. noff'[c] = Cardinality(own'[t])
        BY <1>4, <1>3, <1>6, <1>7, <2>2, <3>2
      <3>5. (on'[c] <=> noff'[c] = 0) /\ (noff'[c] > 0 => intena'[c])
        BY <1>4, <1>3, <1>7, <2>2, <3>2
      <3>6. Cardinality(own'[t]) + 0 = Cardinality(own'[t])
        BY <1>3, <1>6
      <3>7. CodeRuns(c)'
        BY <1>5, <2>2, <3>4, <3>5, <3>3, <3>6 DEF CodeRuns, Pushed
      <3> QED BY <1>5, <2>2, <3>1, <3>7 DEF Cpu
    <2>3. CASE c = CpuOf(t) /\ t = Handler(c)
      <3>1. Code(c) \in Threads \ {t} /\ HandlerRuns(c)
        BY <1>2, <2>3, ThreadShape
      <3>2. /\ own[Code(c)] = {} /\ spc[Code(c)] \in {"run", "off"}
            /\ spc[Code(c)] = "off" => old[Code(c)]
            /\ noff[c] = Cardinality(own[t]) + 1 /\ ~on[c]
            /\ (noff[c] > 0 => ~intena[c])
        BY <1>2, <1>3, <2>3, <3>1 DEF HandlerRuns, Pushed
      <3>3. noff'[c] = Cardinality(own'[t])
        BY <1>4, <1>3, <1>6, <1>7, <2>3, <3>2
      <3>4. ~on'[c] /\ (noff'[c] > 0 => ~intena'[c])
        BY <1>4, <1>3, <1>7, <2>3, <3>2
      <3>5. Cardinality(own'[t]) + 0 = Cardinality(own'[t])
        BY <1>3, <1>6
      <3>6. HandlerRuns(c)'
        BY <1>5, <3>5, <2>3, <3>1, <3>2, <3>3, <3>4 DEF HandlerRuns, Pushed
      <3> QED BY <1>5, <2>3, <3>1, <3>2, <3>6 DEF Cpu
    <2> QED BY <1>2, <2>1, <2>2, <2>3
  <1> QED BY <1>5, <1>9, <1>10, <1>11 DEF SpinInv

\* Steps of the handler's thread that leave the locks alone.
LEMMA HandlerMoves ==
    ASSUME SpinInv, NEW c \in CPUs, NEW s \in {"none", "run"},
           own[Handler(c)] = {},
           spc' = [spc EXCEPT ![Handler(c)] = s],
           on' \in [CPUs -> BOOLEAN],
           \A d \in CPUs \ {c} : on'[d] = on[d],
           UNCHANGED <<locked, lkCpu, noff, intena, arg, old, own, spanic>>
    PROVE  SpinTypes' /\ Owners' /\ (\A d \in CPUs \ {c} : Cpu(d)') /\ spanic' = ""
  <1>1. SpinTypes /\ Owners /\ spanic = "" /\ Handler(c) \in Threads
    BY ThreadShape DEF SpinInv
  <1>2. /\ spc'[Handler(c)] = s
        /\ \A u \in Threads \ {Handler(c)} : spc'[u] = spc[u]
    BY <1>1 DEF SpinTypes
  <1>3. SpinTypes'
    BY <1>1 DEF SpinTypes, Places
  <1>4. Owners'
    <2>1. Disjoint' /\ OwnedLocked' /\ CpuOwns'
      BY <1>1 DEF Owners, Disjoint, OwnedLocked, CpuOwns
    <2>2. OwnedCpu'
      BY <1>1, <1>2 DEF Owners, OwnedCpu
    <2>3. Args'
      BY <1>1, <1>2 DEF Owners, Args
    <2> QED BY <2>1, <2>2, <2>3 DEF Owners
  <1>5. ASSUME NEW d \in CPUs \ {c} PROVE Cpu(d)'
    <2>1. Code(d) \in Threads \ {Handler(c)} /\ Handler(d) \in Threads \ {Handler(c)}
      BY ThreadShape
    <2>2. Cpu(d)
      BY DEF SpinInv
    <2> QED BY <1>2, <2>1, <2>2, Frame
  <1> QED BY <1>1, <1>3, <1>4, <1>5

\* An interrupt comes only outside critical sections: interrupts are on.
LEMMA InterruptStep ==
    ASSUME SpinInv, NEW c \in CPUs, Interrupt(c)
    PROVE  SpinInv'
  <1>1. SpinTypes /\ Owners /\ Code(c) \in Threads /\ Handler(c) \in Threads
        /\ Code(c) # Handler(c)
    BY ThreadShape DEF SpinInv
  <1>2. CodeRuns(c) /\ spc[Code(c)] # "none" /\ on[c]
    BY DEF Interrupt, SpinInv, Cpu
  <1>3. /\ Cardinality(own[Code(c)]) \in Nat
        /\ Cardinality(own[Code(c)]) = 0 <=> own[Code(c)] = {}
        /\ Cardinality(own[Handler(c)]) = 0 <=> own[Handler(c)] = {}
    BY <1>1, Counts
  <1>4. /\ noff[c] = 0 /\ own[Handler(c)] = {} /\ own[Code(c)] = {}
        /\ spc[Code(c)] \notin {"check", "spin", "pop"}
        /\ spc[Code(c)] = "off" => old[Code(c)]
    BY <1>2, <1>3 DEF CodeRuns, Pushed
  <1>5. spc[Code(c)] \in {"run", "off"}
    <2>1. spc[Code(c)] \notin {"own", "free"}
      BY <1>1, <1>4 DEF Owners, Args
    <2>2. spc[Code(c)] \in Places
      BY <1>1 DEF SpinTypes
    <2> QED BY <1>2, <1>4, <2>1, <2>2 DEF Places
  <1>6. /\ spc' = [spc EXCEPT ![Handler(c)] = "run"]
        /\ spc'[Handler(c)] = "run" /\ spc'[Code(c)] = spc[Code(c)]
        /\ on' \in [CPUs -> BOOLEAN] /\ ~on'[c] /\ \A d \in CPUs \ {c} : on'[d] = on[d]
        /\ UNCHANGED <<locked, lkCpu, noff, intena, arg, old, own, spanic>>
    BY <1>1 DEF Interrupt, Moves, SpinTypes
  <1>7. SpinTypes' /\ Owners' /\ (\A d \in CPUs \ {c} : Cpu(d)') /\ spanic' = ""
    BY <1>4, <1>6, HandlerMoves
  <1>8. HandlerRuns(c)'
    <2>1. Cardinality(own[Handler(c)]) + 0 = 0
      BY <1>3, <1>4
    <2> QED BY <1>4, <1>5, <1>6, <2>1 DEF HandlerRuns, Pushed
  <1>9. Cpu(c)'
    BY <1>2, <1>6, <1>8 DEF Cpu
  <1> QED BY <1>7, <1>9 DEF SpinInv

\* The handler leaves the CPU as it found it.
LEMMA InterruptReturnStep ==
    ASSUME SpinInv, NEW c \in CPUs, InterruptReturn(c)
    PROVE  SpinInv'
  <1>1. SpinTypes /\ Code(c) \in Threads /\ Handler(c) \in Threads /\ Code(c) # Handler(c)
    BY ThreadShape DEF SpinInv
  <1>2. /\ HandlerRuns(c) /\ spc[Code(c)] # "none" /\ own[Handler(c)] = {}
        /\ spc[Handler(c)] = "run"
    BY DEF InterruptReturn, Reached, SpinInv, Cpu
  <1>3. /\ Cardinality(own[Code(c)]) = 0 <=> own[Code(c)] = {}
        /\ Cardinality(own[Handler(c)]) = 0 <=> own[Handler(c)] = {}
    BY <1>1, Counts
  <1>4. /\ noff[c] = 0 /\ own[Code(c)] = {} /\ spc[Code(c)] \in {"run", "off"}
        /\ spc[Code(c)] = "off" => old[Code(c)]
    BY <1>2, <1>3 DEF HandlerRuns, Pushed
  <1>5. /\ spc' = [spc EXCEPT ![Handler(c)] = "none"]
        /\ spc'[Handler(c)] = "none" /\ spc'[Code(c)] = spc[Code(c)]
        /\ on' \in [CPUs -> BOOLEAN] /\ on'[c] /\ \A d \in CPUs \ {c} : on'[d] = on[d]
        /\ UNCHANGED <<locked, lkCpu, noff, intena, arg, old, own, spanic>>
    BY <1>1 DEF InterruptReturn, Moves, SpinTypes
  <1>6. SpinTypes' /\ Owners' /\ (\A d \in CPUs \ {c} : Cpu(d)') /\ spanic' = ""
    BY <1>2, <1>5, HandlerMoves
  <1>7. CodeRuns(c)'
    <2>1. Cardinality(own[Code(c)]) + 0 = 0
      BY <1>3, <1>4
    <2> QED BY <1>2, <1>4, <1>5, <2>1 DEF CodeRuns, Pushed
  <1>8. Cpu(c)'
    BY <1>2, <1>5, <1>7 DEF Cpu
  <1> QED BY <1>6, <1>8 DEF SpinInv

\* Steps of other components change nothing here.
LEMMA StutterStep ==
    ASSUME SpinInv, UNCHANGED spinVars
    PROVE  SpinInv'
  <1>1. SpinTypes' /\ spanic' = ""
    BY DEF SpinInv, spinVars, SpinTypes
  <1>2. Owners'
    <2>1. Disjoint' /\ OwnedLocked' /\ OwnedCpu'
      BY DEF SpinInv, spinVars, Owners, Disjoint, OwnedLocked, OwnedCpu
    <2>2. CpuOwns' /\ Args'
      BY DEF SpinInv, spinVars, Owners, CpuOwns, Args
    <2> QED BY <2>1, <2>2 DEF Owners
  <1>3. ASSUME NEW c \in CPUs PROVE Cpu(c)'
    BY Frame DEF SpinInv, spinVars
  <1> QED BY <1>1, <1>2, <1>3 DEF SpinInv

\* All locks are free and interrupts on at the start.
LEMMA InitLemma ==
    ASSUME SpinInit
    PROVE  SpinInv
  <1>1. \A t \in Threads : own[t] = {} /\ spc[t] \in {"run", "none"}
    BY DEF SpinInit
  <1>2. SpinTypes
    <2>1. (CHOOSE l \in SpinLocks : TRUE) \in SpinLocks
      BY SpinAssumption
    <2>2. \A t \in Threads : IsFiniteSet(own[t])
      BY <1>1, FS_EmptySet
    <2> QED BY <2>1, <2>2 DEF SpinInit, SpinTypes, Places
  <1>3. \A l \in SpinLocks : lkCpu[l] = NoCPU
    BY DEF SpinInit
  <1>4. Owners
    BY <1>1, <1>3 DEF Owners, Disjoint, OwnedLocked, OwnedCpu, CpuOwns, Args
  <1>5. ASSUME NEW c \in CPUs PROVE Cpu(c)
    <2>1. spc[Code(c)] = "run" /\ spc[Handler(c)] = "none"
      BY ThreadShape DEF SpinInit
    <2>2. own[Code(c)] = {} /\ own[Handler(c)] = {} /\ Cardinality(own[Code(c)]) = 0
      BY <1>1, <1>2, Counts, ThreadShape
    <2>3. noff[c] = 0 /\ on[c]
      BY DEF SpinInit
    <2>4. CodeRuns(c)
      BY <2>1, <2>2, <2>3 DEF CodeRuns, Pushed
    <2> QED BY <2>1, <2>4 DEF Cpu
  <1> QED BY <1>2, <1>4, <1>5 DEF SpinInv, SpinInit

-----------------------------------------------------------------------------
(* Theorems                                                                *)

\* The invariant holds on every CPU, whatever handlers interrupt: acquire(), release(),
\* push_off() and pop_off() keep it step by step.
THEOREM Inductive == SpinSpec => []SpinInv
  <1>1. SpinInit => SpinInv
    BY InitLemma
  <1>2. SpinInv /\ [SpinNext]_spinVars => SpinInv'
    <2> SUFFICES ASSUME SpinInv, [SpinNext]_spinVars PROVE SpinInv'
      OBVIOUS
    <2>1. ASSUME NEW t \in Threads, NEW l \in SpinLocks,
                 AcquireStart(t, l) \/ ReleaseStart(t, l)
          PROVE  SpinInv'
      BY <2>1, AcquireStartStep, ReleaseStartStep
    <2>2. ASSUME NEW t \in Threads,
                 PushOff(t) \/ AcquireCheck(t) \/ AcquireSpin(t) \/ AcquireEnd(t)
          PROVE  SpinInv'
      BY <2>2, PushOffStep, AcquireCheckStep, AcquireSpinStep, AcquireEndStep
    <2>3. ASSUME NEW t \in Threads, ReleaseFree(t) \/ PopOff(t)
          PROVE  SpinInv'
      BY <2>3, ReleaseFreeStep, PopOffStep
    <2>4. ASSUME NEW c \in CPUs, Interrupt(c) \/ InterruptReturn(c)
          PROVE  SpinInv'
      BY <2>4, InterruptStep, InterruptReturnStep
    <2> QED BY <2>1, <2>2, <2>3, <2>4, StutterStep DEF SpinNext
  <1> QED BY <1>1, <1>2, PTL DEF SpinSpec

\* acquire() and release() give a lock to one thread at a time.
THEOREM OneOwner == SpinSpec => []MutualExclusion
  <1>1. SpinInv => MutualExclusion
    BY DEF SpinInv, Owners, Disjoint, MutualExclusion
  <1> QED BY <1>1, Inductive, PTL

\* None of the panic() calls of spinlock.c is reached.
THEOREM NeverPanics == SpinSpec => []SpinNoPanic
  <1>1. SpinInv => SpinNoPanic
    BY DEF SpinInv, SpinNoPanic
  <1> QED BY <1>1, Inductive, PTL

\* push_off() and pop_off() restore interrupts, nested and interrupted as they may be.
THEOREM Restored == SpinSpec => []InterruptsRestored
  <1>1. SpinInv => InterruptsRestored
    <2> SUFFICES ASSUME SpinInv, NEW c \in CPUs, Reached(Code(c), "run")
                 PROVE  /\ on[c] = (own[Code(c)] = {})
                        /\ noff[c] = Cardinality(own[Code(c)])
      BY DEF InterruptsRestored
    <2>1. /\ SpinTypes /\ Code(c) \in Threads /\ CpuOf(Code(c)) = c
          /\ spc[Code(c)] = "run" /\ spc[Handler(c)] = "none"
      BY ThreadShape DEF SpinInv, Reached
    <2>2. CodeRuns(c) /\ on[c] \in BOOLEAN
      BY <2>1 DEF SpinInv, Cpu, SpinTypes
    <2>3. /\ Cardinality(own[Code(c)]) \in Nat
          /\ Cardinality(own[Code(c)]) = 0 <=> own[Code(c)] = {}
      BY <2>1, Counts
    <2>4. noff[c] = Cardinality(own[Code(c)]) /\ (on[c] <=> noff[c] = 0)
      BY <2>1, <2>2, <2>3 DEF CodeRuns, Pushed
    <2>5. on[c] <=> own[Code(c)] = {}
      BY <2>3, <2>4
    <2> QED BY <2>2, <2>4, <2>5
  <1> QED BY <1>1, Inductive, PTL

\* spinlock.c as a whole: one owner, no panic, interrupts as they were.
THEOREM SpinLocksSound == SpinSpec => []SpinSound
  <1>1. MutualExclusion /\ SpinNoPanic /\ InterruptsRestored => SpinSound
    BY DEF SpinSound
  <1> QED BY <1>1, OneOwner, NeverPanics, Restored, PTL
=============================================================================
