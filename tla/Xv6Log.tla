------------------------------- MODULE Xv6Log -------------------------------
(***************************************************************************)
(* The redo log of the xv6 file system (xv6-source/kernel/log.c) with      *)
(* group commit, crashes at any disk write, and recovery at boot.          *)
(*                                                                         *)
(* Processes are system calls of the file system.  bwrite() of one block   *)
(* is atomic and in program order (virtio_disk_rw() waits for it).  The    *)
(* buffer cache keeps one copy per block (bio.c); a block that is neither  *)
(* pinned nor in use may be recycled at any time.  log.lock and the sleep  *)
(* locks of the buffers make the handlers below atomic.                    *)
(***************************************************************************)
EXTENDS Integers, Sequences, FiniteSets

CONSTANTS
    Procs,          \* processes
    Blocks,         \* data blocks of the file system
    Values,         \* contents of a block
    NoBuf,          \* the block is not in the cache
    InitialDisk,    \* what mkfs wrote
    MaxOpBlocks,    \* MAXOPBLOCKS: blocks reserved for a system call
    LogBlocks       \* LOGBLOCKS: data blocks of the log

ASSUME Xv6LogAssumption ==
    /\ NoBuf \notin Values
    /\ InitialDisk \in [Blocks -> Values]
    /\ MaxOpBlocks \in Nat \ {0}
    /\ LogBlocks \in Nat \ {0}
    /\ MaxOpBlocks <= LogBlocks     \* param.h: LOGBLOCKS is MAXOPBLOCKS*3
    /\ IsFiniteSet(Procs)

VARIABLES
    home,           \* disk: the data blocks
    logged,         \* disk: the log's data blocks
    header,         \* disk: block numbers in the log's header block
    cache,          \* buffer cache: block -> contents
    pinned,         \* buffer cache: blocks pinned by log_write()
    lh,             \* log.lh: block numbers
    outstanding,    \* log.outstanding
    committing,     \* log.committing
    call,           \* process -> idle, asleep, woken, op, commit, panic
    wrote,          \* process -> blocks its system call has written
    phase,          \* what is going on with the log
    tail            \* loop variable of write_log() and install_trans()

diskVars    == <<home, logged, header>>
bufVars     == <<cache, pinned>>
logVars     == <<lh, outstanding, committing>>
diskLogVars == <<diskVars, bufVars, logVars, call, wrote, phase, tail>>

\* normal: system calls run; write_log, install, clear, done: commit();
\* boot, recover, finish: recover_from_log().
Phase == {"normal", "write_log", "install", "clear", "done",
          "boot", "recover", "finish"}
Up == phase \notin {"boot", "recover", "finish"}

Elems(s) == {s[i] : i \in 1 .. Len(s)}
-----------------------------------------------------------------------------
LogInit ==
    /\ home = InitialDisk
    /\ logged \in [1 .. LogBlocks -> {InitialDisk[b] : b \in Blocks}]
    /\ header = <<>>
    /\ cache = [b \in Blocks |-> NoBuf]
    /\ pinned = {}
    /\ lh = <<>>
    /\ outstanding = 0
    /\ committing = FALSE
    /\ call = [p \in Procs |-> "idle"]
    /\ wrote = [p \in Procs |-> {}]
    /\ phase = "boot"
    /\ tail = 0

\* bread() of block b: the cached copy, or the one on disk.
Contents(b) == IF cache[b] = NoBuf THEN home[b] ELSE cache[b]

\* bread() and brelse() of a block that is only read.
Fill(b) ==
    /\ Up
    /\ cache[b] = NoBuf
    /\ cache' = [cache EXCEPT ![b] = home[b]]
    /\ UNCHANGED <<diskVars, pinned, logVars, call, wrote, phase, tail>>

\* bget() recycles an unused buffer, for another block.
Recycle(b) ==
    /\ Up
    /\ cache[b] # NoBuf
    /\ b \notin pinned
    /\ cache' = [cache EXCEPT ![b] = NoBuf]
    /\ UNCHANGED <<diskVars, pinned, logVars, call, wrote, phase, tail>>
-----------------------------------------------------------------------------
(* System calls                                                            *)

\* wakeup(&log)
Wakeup(f) == [q \in Procs |-> IF f[q] = "asleep" THEN "woken" ELSE f[q]]

\* Mutant: the space that other system calls have reserved is not counted.
MustWait_NoReserve ==
    committing \/ Len(lh) + MaxOpBlocks > LogBlocks

\* The condition under which begin_op() sleeps.
MustWait ==
    \/ committing
    \/ Len(lh) + (outstanding + 1) * MaxOpBlocks > LogBlocks

\* begin_op()
BeginOp(p) ==
    /\ Up
    /\ call[p] \in {"idle", "woken"}
    /\ IF MustWait
         THEN /\ call' = [call EXCEPT ![p] = "asleep"]
              /\ UNCHANGED outstanding
         ELSE /\ call' = [call EXCEPT ![p] = "op"]
              /\ outstanding' = outstanding + 1
    /\ wrote' = [wrote EXCEPT ![p] = {}]
    /\ UNCHANGED <<diskVars, bufVars, lh, committing, phase, tail>>

\* log_write() of p: it panics when the log is full, also when b is in it.
LogWrite(p, b) ==
    IF Len(lh) >= LogBlocks
      THEN call' = [call EXCEPT ![p] = "panic"] /\ UNCHANGED <<lh, pinned>>
      ELSE /\ UNCHANGED call
           /\ IF b \in Elems(lh)
                THEN UNCHANGED <<lh, pinned>>
                ELSE lh' = Append(lh, b) /\ pinned' = pinned \union {b}

\* bread(), a change of the data, log_write(), brelse().  The calls of the
\* file system write fewer blocks than MAXOPBLOCKS and some of them again
\* and again; one that has written MAXOPBLOCKS may not write on, not even a
\* block that is in the log.
Write(p, b, v) ==
    /\ call[p] = "op"
    /\ Cardinality(wrote[p]) < MaxOpBlocks
    /\ wrote' = [wrote EXCEPT ![p] = @ \union {b}]
    /\ cache' = [cache EXCEPT ![b] = v]
    /\ LogWrite(p, b)
    /\ UNCHANGED <<diskVars, outstanding, committing, phase, tail>>

\* end_op() up to commit(): the last system call commits.
EndOp(p) ==
    /\ call[p] = "op"
    /\ outstanding' = outstanding - 1
    /\ IF outstanding' = 0
         THEN /\ committing' = TRUE
              /\ call' = [call EXCEPT ![p] = "commit"]
              /\ phase' = "write_log" /\ tail' = 0
         ELSE /\ call' = Wakeup([call EXCEPT ![p] = "idle"])
              /\ UNCHANGED <<committing, phase, tail>>
    /\ UNCHANGED <<diskVars, bufVars, lh, wrote>>
-----------------------------------------------------------------------------
(* commit()                                                                *)

\* write_log(): one block from the cache to the log.
WriteLog ==
    /\ phase = "write_log" /\ tail < Len(lh)
    /\ logged' = [logged EXCEPT ![tail + 1] = Contents(lh[tail + 1])]
    /\ tail' = tail + 1
    /\ UNCHANGED <<home, header, bufVars, logVars, call, wrote, phase>>

\* Mutant: the header is written before the log's blocks.
WriteHead_Early ==
    /\ phase = "write_log" /\ Len(lh) > 0
    /\ header' = lh
    /\ IF tail = Len(lh)
         THEN phase' = "install" /\ tail' = 0
         ELSE UNCHANGED <<phase, tail>>
    /\ UNCHANGED <<home, logged, bufVars, logVars, call, wrote>>

\* write_head(): the transaction commits.
WriteHead ==
    /\ phase = "write_log" /\ tail = Len(lh) /\ Len(lh) > 0
    /\ header' = lh
    /\ phase' = "install" /\ tail' = 0
    /\ UNCHANGED <<home, logged, bufVars, logVars, call, wrote>>

\* There is nothing to commit.
NothingToCommit ==
    /\ phase = "write_log" /\ Len(lh) = 0
    /\ phase' = "done"
    /\ UNCHANGED <<diskVars, bufVars, logVars, call, wrote, tail>>

\* install_trans(): one block from the log to its home, on disk and in the
\* cache; a commit also unpins it.
Install ==
    /\ phase \in {"install", "recover"} /\ tail < Len(lh)
    /\ LET b == lh[tail + 1]
       IN  /\ home'   = [home  EXCEPT ![b] = logged[tail + 1]]
           /\ cache'  = [cache EXCEPT ![b] = logged[tail + 1]]
           /\ pinned' = IF phase = "install" THEN pinned \ {b} ELSE pinned
    /\ tail' = tail + 1
    /\ UNCHANGED <<logged, header, logVars, call, wrote, phase>>

\* The loop of install_trans() ends.
Installed ==
    /\ phase \in {"install", "recover"} /\ tail = Len(lh)
    /\ phase' = IF phase = "install" THEN "clear" ELSE "finish"
    /\ tail' = 0
    /\ UNCHANGED <<diskVars, bufVars, logVars, call, wrote>>

\* log.lh.n = 0 and write_head(): the transaction is erased.
ClearLog ==
    /\ phase \in {"clear", "finish"}
    /\ lh' = <<>>
    /\ header' = <<>>
    /\ phase' = IF phase = "clear" THEN "done" ELSE "normal"
    /\ UNCHANGED <<home, logged, bufVars, outstanding, committing, call, wrote, tail>>

\* Mutant: the processes that sleep in begin_op() are not woken.
CommitDone_NoWakeup(p) ==
    /\ call[p] = "commit" /\ phase = "done"
    /\ committing' = FALSE
    /\ phase' = "normal"
    /\ call' = [call EXCEPT ![p] = "idle"]
    /\ UNCHANGED <<diskVars, bufVars, lh, outstanding, wrote, tail>>

\* The end of end_op() after commit().
CommitDone(p) ==
    /\ call[p] = "commit" /\ phase = "done"
    /\ committing' = FALSE
    /\ phase' = "normal"
    /\ call' = Wakeup([call EXCEPT ![p] = "idle"])
    /\ UNCHANGED <<diskVars, bufVars, lh, outstanding, wrote, tail>>
-----------------------------------------------------------------------------
(* Crash and recovery                                                      *)

\* The machine stops, and boots with an empty memory.
Crash ==
    /\ cache' = [b \in Blocks |-> NoBuf]
    /\ pinned' = {}
    /\ lh' = <<>> /\ outstanding' = 0 /\ committing' = FALSE
    /\ call' = [p \in Procs |-> "idle"]
    /\ wrote' = [p \in Procs |-> {}]
    /\ phase' = "boot" /\ tail' = 0
    /\ UNCHANGED diskVars

\* read_head()
ReadHead ==
    /\ phase = "boot"
    /\ lh' = header
    /\ phase' = "recover" /\ tail' = 0
    /\ UNCHANGED <<diskVars, bufVars, outstanding, committing, call, wrote>>
-----------------------------------------------------------------------------
\* What the kernel does by itself.
KernelStep ==
    \/ WriteLog \/ WriteHead \/ NothingToCommit \/ Install \/ Installed
    \/ ClearLog \/ ReadHead
    \/ \E p \in Procs : CommitDone(p)

LogNext ==
    \/ KernelStep
    \/ Crash
    \/ \E b \in Blocks : Fill(b) \/ Recycle(b)
    \/ \E p \in Procs : BeginOp(p) \/ EndOp(p)
    \/ \E p \in Procs, b \in Blocks, v \in Values : Write(p, b, v)

LogSpec == LogInit /\ [][LogNext]_diskLogVars

\* Every system call ends, commits and recovery go on, and a process that
\* was woken runs again.
LogFairness ==
    /\ WF_diskLogVars(KernelStep)
    /\ \A p \in Procs : WF_diskLogVars(EndOp(p)) /\ WF_diskLogVars(call[p] = "woken" /\ BeginOp(p))

LogFairSpec == LogSpec /\ LogFairness
-----------------------------------------------------------------------------
(* Properties                                                              *)

\* Types of all variables.
LogTypeOK ==
    /\ home \in [Blocks -> Values]
    /\ logged \in [1 .. LogBlocks -> Values]
    /\ header \in Seq(Blocks) /\ Len(header) <= LogBlocks
    /\ cache \in [Blocks -> Values \union {NoBuf}]
    /\ pinned \subseteq Blocks
    /\ lh \in Seq(Blocks) /\ Len(lh) <= LogBlocks
    /\ outstanding \in Nat
    /\ committing \in BOOLEAN
    /\ call \in [Procs -> {"idle", "asleep", "woken", "op", "commit", "panic"}]
    /\ wrote \in [Procs -> SUBSET Blocks]
    /\ phase \in Phase
    /\ tail \in 0 .. LogBlocks

\* "if it thinks the log is close to running out, it sleeps": the log is
\* never full for a system call that begin_op() has let in, whatever the
\* others write meanwhile, and log_write() does not panic.
LogNeverPanics == \A p \in Procs : call[p] # "panic"

\* No lost wakeup: when a process sleeps in begin_op(), somebody is there
\* who will call wakeup().
SleeperHasWaker ==
    (\E p \in Procs : call[p] = "asleep") =>
        committing \/ \E q \in Procs : call[q] = "op"

\* Admission to the log: who is admitted finds room, and who waits is not forgotten.
LogAdmits == LogTypeOK /\ LogNeverPanics /\ SleeperHasWaker

\* The block as recovery would leave it.
Recovered ==
    [b \in Blocks |->
        IF b \in Elems(header)
          THEN logged[CHOOSE i \in 1 .. Len(header) : header[i] = b]
          ELSE home[b]]

\* The blocks as system calls see them.
Current == IF Up THEN [b \in Blocks |-> Contents(b)] ELSE Recovered

Service == INSTANCE TransactionalDisk
             WITH mem <- Current, stable <- Recovered,
                  active <- {p \in Procs : call[p] = "op"}

\* The log implements transactions: whatever interleaving of system calls,
\* recycled buffers and crashes, also during commit and recovery, the disk
\* comes back as it was when no system call was in progress.
Transactional == Service!Spec

\* A process that sleeps in begin_op() is woken, unless the machine crashes.
SleepersWake == \A p \in Procs : call[p] = "asleep" ~> call[p] # "asleep"
=============================================================================
