------------------------------- MODULE Xv6Pipe ------------------------------
(***************************************************************************)
(* A pipe of xv6 (xv6-source/kernel/pipe.c) between processes that got its *)
(* two files by fork(), with what it stands on: sleep(), wakeup() and      *)
(* kkill() of proc.c with the locks pi->lock and p->lock, and the          *)
(* reference counts of the files, file.c.                                  *)
(*                                                                         *)
(* A process that reads or writes holds pi->lock except while it sleeps.   *)
(* The steps are those between which another process can do something that *)
(* matters: kkill() takes p->lock only, so it comes between the look at    *)
(* p->killed and sleep().  wakeup() is one step, since whoever calls it    *)
(* holds pi->lock and nobody can go to sleep on its channels meanwhile; it *)
(* waits for the p->lock of a process that is on its way to sleep.         *)
(*                                                                         *)
(* nread and nwrite wrap around, at Modulus instead of 2^32.  A byte is    *)
(* represented by its number, also modulo Modulus.                         *)
(***************************************************************************)
EXTENDS Integers, FiniteSets

CONSTANTS
    Procs,          \* processes
    First,          \* the process that called pipe()
    None,           \* no process
    PipeSize,       \* PIPESIZE
    Modulus,        \* 2^32
    Sizes           \* sizes of reads and writes

Ends == {"read", "write"}

ASSUME Xv6PipeAssumption ==
    /\ First \in Procs /\ IsFiniteSet(Procs)
    /\ None \notin Procs \union {"nread", "nwrite"}
    /\ PipeSize \in Nat \ {0} /\ Modulus \in Nat \ {0}
    /\ Modulus % PipeSize = 0 /\ Modulus > PipeSize
    /\ Sizes \subseteq Nat \ {0}

VARIABLES
    data, nread, nwrite,    \* pi->data, pi->nread, pi->nwrite
    open,                   \* the ends with pi->readopen, pi->writeopen
    freed,                  \* how often kfree() was called for pi
    lock,                   \* the holder of pi->lock
    plock,                  \* the processes whose p->lock sleep() holds
    at,                     \* where the process is
    chan,                   \* the channel it sleeps on, or None
    killed,                 \* p->killed
    files,                  \* the ends the process has open
    todo, done,             \* n and i of pipewrite() and piperead()
    sent, got,              \* history: how many bytes were written and read
    ordered,                \* history: the bytes read were the next ones
    untold                  \* history: bytes of a killed writer that woke nobody

pipeVars == <<data, nread, nwrite, open, freed>>
history  == <<sent, got, ordered, untold>>
vars == <<pipeVars, lock, plock, at, chan, killed, files, todo, done, history>>

Min(a, b)  == IF a < b THEN a ELSE b
Buffered   == (nwrite - nread) % Modulus
Ref(e)     == Cardinality({p \in Procs : e \in files[p]})
Goes(p, s) == at' = [at EXCEPT ![p] = s]
-----------------------------------------------------------------------------
\* nread or nwrite, k bytes later.
Advance(n, k) == (n + k) % Modulus

\* pipealloc(), and sys_pipe() of the first process.
Init ==
    /\ data = [i \in 0 .. PipeSize - 1 |-> 0]
    /\ nread = 0 /\ nwrite = 0
    /\ open = Ends
    /\ freed = 0
    /\ lock = None
    /\ plock = {}
    /\ at = [p \in Procs |-> IF p = First THEN "user" ELSE "unused"]
    /\ chan = [p \in Procs |-> None]
    /\ killed = [p \in Procs |-> FALSE]
    /\ files = [p \in Procs |-> IF p = First THEN Ends ELSE {}]
    /\ todo = [p \in Procs |-> 0] /\ done = [p \in Procs |-> 0]
    /\ sent = 0 /\ got = 0 /\ ordered = TRUE /\ untold = FALSE
-----------------------------------------------------------------------------
(* sleep(), wakeup(), kkill()                                              *)

\* Mutant: the condition lock is released before p->lock is acquired.
FallAsleep_NoLock(p) ==
    /\ lock' = None
    /\ UNCHANGED plock

\* sleep(): acquire(&p->lock), release(lk).
FallAsleep(p) ==
    /\ lock' = None
    /\ plock' = plock \union {p}

\* sleep(): SLEEPING on channel c; the scheduler releases p->lock.
Sleep(p, from, c, to) ==
    /\ at[p] = from
    /\ Goes(p, to)
    /\ chan' = [chan EXCEPT ![p] = c]
    /\ plock' = plock \ {p}
    /\ UNCHANGED <<pipeVars, lock, killed, files, todo, done, history>>

\* wakeup() of all who sleep on channel c.
Wakeup(c) ==
    /\ plock = {}
    /\ chan' = [p \in Procs |-> IF chan[p] = c THEN None ELSE chan[p]]
    /\ untold' = (untold /\ c # "nread")

\* kkill(): a sleeping process wakes up.
Kill(p) ==
    /\ at[p] \notin {"unused", "gone"} /\ p \notin plock
    /\ ~killed[p]
    /\ killed' = [killed EXCEPT ![p] = TRUE]
    /\ chan' = [chan EXCEPT ![p] = None]
    /\ UNCHANGED <<pipeVars, lock, plock, at, files, todo, done, history>>

\* The end of sleep() after a wakeup, and of every other wait for pi->lock.
Acquire(p, from, to) ==
    /\ at[p] = from /\ chan[p] = None
    /\ lock = None
    /\ lock' = p
    /\ Goes(p, to)
    /\ UNCHANGED <<pipeVars, plock, chan, killed, files, todo, done, history>>
-----------------------------------------------------------------------------
(* pipewrite()                                                             *)

Write(p, n) ==
    /\ at[p] = "user" /\ ~killed[p] /\ "write" \in files[p]
    /\ Goes(p, "write")
    /\ todo' = [todo EXCEPT ![p] = n] /\ done' = [done EXCEPT ![p] = 0]
    /\ UNCHANGED <<pipeVars, lock, plock, chan, killed, files, history>>

WriteLock(p) == Acquire(p, "write", "writing")

\* The system call returns.
Return(p) ==
    /\ lock' = None
    /\ Goes(p, "user")
    /\ todo' = [todo EXCEPT ![p] = 0] /\ done' = [done EXCEPT ![p] = 0]
    /\ UNCHANGED <<plock, killed, files>>

\* Nobody can read any more, or the writer was killed.  Nobody is woken, also
\* when bytes were written before.
WriteFails(p) ==
    /\ at[p] = "writing" /\ done[p] < todo[p]
    /\ "read" \notin open \/ killed[p]
    /\ untold' = (untold \/ done[p] > 0)
    /\ Return(p)
    /\ UNCHANGED <<pipeVars, chan, sent, got, ordered>>

\* One byte.
WriteByte(p) ==
    /\ at[p] = "writing" /\ done[p] < todo[p]
    /\ "read" \in open /\ ~killed[p]
    /\ nwrite # Advance(nread, PipeSize)
    /\ data' = [data EXCEPT ![nwrite % PipeSize] = sent]
    /\ nwrite' = Advance(nwrite, 1)
    /\ done' = [done EXCEPT ![p] = @ + 1]
    /\ sent' = (sent + 1) % Modulus
    /\ UNCHANGED <<nread, open, freed, lock, plock, at, chan, killed, files, todo, got,
                   ordered, untold>>

\* The pipe is full: the readers are woken.
WriteFull(p) ==
    /\ at[p] = "writing" /\ done[p] < todo[p]
    /\ "read" \in open /\ ~killed[p]
    /\ nwrite = Advance(nread, PipeSize)
    /\ Wakeup("nread")
    /\ Goes(p, "writeSleep")
    /\ UNCHANGED <<pipeVars, lock, plock, killed, files, todo, done, sent, got, ordered>>

WriteSleep(p) ==
    /\ at[p] = "writeSleep"
    /\ FallAsleep(p)
    /\ Goes(p, "writeDozes")
    /\ UNCHANGED <<pipeVars, chan, killed, files, todo, done, history>>

WriteAsleep(p) == Sleep(p, "writeDozes", "nwrite", "write")

\* All is written, or copyin() failed: the readers are woken.
WriteDone(p) ==
    /\ at[p] = "writing"
    /\ done[p] = todo[p] \/ ("read" \in open /\ ~killed[p] /\ Buffered < PipeSize)
    /\ Wakeup("nread")
    /\ Return(p)
    /\ UNCHANGED <<pipeVars, sent, got, ordered>>
-----------------------------------------------------------------------------
(* piperead()                                                              *)

Read(p, n) ==
    /\ at[p] = "user" /\ ~killed[p] /\ "read" \in files[p]
    /\ Goes(p, "read")
    /\ todo' = [todo EXCEPT ![p] = n]
    /\ UNCHANGED <<pipeVars, lock, plock, chan, killed, files, done, history>>

ReadLock(p) == Acquire(p, "read", "reading")

\* The pipe is empty and the reader was killed.
ReadFails(p) ==
    /\ at[p] = "reading"
    /\ nread = nwrite /\ "write" \in open /\ killed[p]
    /\ Return(p)
    /\ UNCHANGED <<pipeVars, chan, history>>

\* The pipe is empty.
ReadEmpty(p) ==
    /\ at[p] = "reading"
    /\ nread = nwrite /\ "write" \in open /\ ~killed[p]
    /\ Goes(p, "readSleep")
    /\ UNCHANGED <<pipeVars, lock, plock, chan, killed, files, todo, done, history>>

ReadSleep(p) ==
    /\ at[p] = "readSleep"
    /\ FallAsleep(p)
    /\ Goes(p, "readDozes")
    /\ UNCHANGED <<pipeVars, chan, killed, files, todo, done, history>>

ReadAsleep(p) == Sleep(p, "readDozes", "nread", "read")

\* Mutant: nread is incremented too early.
Byte_Shifted(i) == data[Advance(nread, i + 1) % PipeSize]

\* The i-th byte to be read.
Byte(i) == data[Advance(nread, i) % PipeSize]

\* The copy loop, which ends early when copyout() fails, and the wakeup of the
\* writers.
ReadBytes(p) ==
    /\ at[p] = "reading"
    /\ nread # nwrite \/ "write" \notin open
    /\ \E k \in 0 .. Min(todo[p], Buffered) :
        /\ nread' = Advance(nread, k)
        /\ got' = (got + k) % Modulus
        /\ ordered' = (ordered /\ \A i \in 0 .. k - 1 : Byte(i) = (got + i) % Modulus)
    /\ Wakeup("nwrite")
    /\ Return(p)
    /\ UNCHANGED <<data, nwrite, open, freed, sent>>
-----------------------------------------------------------------------------
(* Files                                                                   *)

\* kfork(): filedup() of both files.
Fork(p, q) ==
    /\ at[p] = "user" /\ ~killed[p]
    /\ at[q] = "unused"
    /\ Goes(q, "user")
    /\ files' = [files EXCEPT ![q] = files[p]]
    /\ UNCHANGED <<pipeVars, lock, plock, chan, killed, todo, done, history>>

\* fileclose(): the last reference closes the end of the pipe.
Close(p, e) ==
    /\ at[p] = "user" /\ e \in files[p]
    /\ files' = [files EXCEPT ![p] = @ \ {e}]
    /\ IF Ref(e) > 1 THEN UNCHANGED at
       ELSE Goes(p, IF e = "read" THEN "closeRead" ELSE "closeWrite")
    /\ UNCHANGED <<pipeVars, lock, plock, chan, killed, todo, done, history>>

CloseLock(p) ==
    \/ Acquire(p, "closeRead", "closingRead")
    \/ Acquire(p, "closeWrite", "closingWrite")

\* Mutant: the pipe is freed when its write end is closed.
Frees_WriteClosed(e) == e = "write" \/ open = {e}

\* pipeclose() of end e is the last one.
Frees(e) == open = {e}

\* The channel that pipeclose() of end e wakes.
WokenByClose(e) == IF e = "write" THEN "nread" ELSE "nwrite"

\* pipeclose()
PipeClose(p, e) ==
    /\ at[p] = IF e = "read" THEN "closingRead" ELSE "closingWrite"
    /\ open' = open \ {e}
    /\ Wakeup(WokenByClose(e))
    /\ freed' = IF Frees(e) THEN freed + 1 ELSE freed
    /\ Return(p)
    /\ UNCHANGED <<data, nread, nwrite, sent, got, ordered>>

\* kexit(), after it has closed all files.
Exit(p) ==
    /\ at[p] = "user" /\ files[p] = {}
    /\ Goes(p, "gone")
    /\ killed' = [killed EXCEPT ![p] = FALSE]
    /\ UNCHANGED <<pipeVars, lock, plock, chan, files, todo, done, history>>
-----------------------------------------------------------------------------
Next ==
    \E p \in Procs :
        \/ \E n \in Sizes : Write(p, n) \/ Read(p, n)
        \/ WriteLock(p) \/ WriteFails(p) \/ WriteByte(p) \/ WriteFull(p)
        \/ WriteSleep(p) \/ WriteAsleep(p) \/ WriteDone(p)
        \/ ReadLock(p) \/ ReadFails(p) \/ ReadEmpty(p) \/ ReadSleep(p)
        \/ ReadAsleep(p) \/ ReadBytes(p)
        \/ CloseLock(p)
        \/ \E e \in Ends : Close(p, e) \/ PipeClose(p, e)
        \/ \E q \in Procs : Fork(p, q)
        \/ Kill(p) \/ Exit(p)

Spec == Init /\ [][Next]_vars
-----------------------------------------------------------------------------
(* Properties                                                              *)

\* Types of all variables.
TypeOK ==
    /\ data \in [0 .. PipeSize - 1 -> Nat]
    /\ nread \in 0 .. Modulus - 1 /\ nwrite \in 0 .. Modulus - 1
    /\ open \subseteq Ends /\ freed \in {0, 1}
    /\ lock \in Procs \union {None} /\ plock \subseteq Procs
    /\ chan \in [Procs -> {"nread", "nwrite", None}]
    /\ killed \in [Procs -> BOOLEAN]
    /\ files \in [Procs -> SUBSET Ends]
    /\ todo \in [Procs -> Nat] /\ done \in [Procs -> Nat]

\* Every byte is read once, in the order written, also when the counters wrap
\* around: all bytes read were the next ones, and the buffer holds what was
\* written since.
PipeIsFifo ==
    /\ ordered
    /\ sent = (got + Buffered) % Modulus
    /\ \A i \in 0 .. Buffered - 1 : Byte(i) = (got + i) % Modulus

\* While nobody holds the lock a process sleeps only for a good reason: no
\* wakeup is lost, neither for bytes, for space, for a close nor because
\* another reader or writer was quicker.  The one exception are the bytes of a
\* writer that was killed: pipewrite() then returns without a wakeup.
SleepsForAReason ==
    lock = None => \A p \in Procs :
        /\ chan[p] = "nread"  => (nread = nwrite \/ untold) /\ "write" \in open
        /\ chan[p] = "nwrite" => Buffered = PipeSize /\ "read" \in open

\* pi is freed exactly once, when no process has one of its files or is
\* inside one of its functions.
NoUseAfterFree ==
    /\ freed <= 1
    /\ freed = 1 => \A p \in Procs : files[p] = {} /\ at[p] \in {"user", "unused", "gone"}
    /\ freed = 0 => open # {}

\* The pipe is what its files say it is, and gone when they are.
PipeLives == TypeOK /\ NoUseAfterFree
=============================================================================
