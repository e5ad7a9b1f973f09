------------------------------- MODULE Xv6Disk ------------------------------
(***************************************************************************)
(* The buffer cache of xv6 (kernel/bio.c) with its sleep locks             *)
(* (sleeplock.c) and the virtio disk driver under it (virtio_disk.c).      *)
(*                                                                         *)
(* Clients read, modify and write blocks as log.c and fs.c do: a buffer    *)
(* that was modified is written, or pinned until it has been, before it is *)
(* released.  The device takes requests in any order; what it does is      *)
(* modelled from how the driver uses it.  A step is what happens under     *)
(* bcache.lock, under the spin lock of a sleep lock or under vdisk_lock;   *)
(* virtio_disk_intr() has two, since the device works on meanwhile.        *)
(* The avail and used rings are sets: there are never more requests than   *)
(* entries, and the interrupt handler takes all that are there.  Which     *)
(* unused buffer bget() recycles makes no difference.  Of the content of a *)
(* buffer and of a block on the disk only matters whether it is the latest *)
(* that was given to the block.                                            *)
(***************************************************************************)
EXTENDS Naturals, FiniteSets

CONSTANTS
    Clients,        \* processes that use the disk
    Nobody,         \* no process
    Bufs,           \* NBUF buffers
    Sectors,        \* blocks of the disk
    NDescs,         \* NUM, the number of descriptors: one of these
    MaxPinned       \* how many buffers the log pins at most

Descs == UNION {0 .. n - 1 : n \in NDescs}

\* A request takes three descriptors.  0 stands for no buffer and for no block.
ASSUME DiskAssumption ==
    /\ Nobody \notin Clients /\ IsFiniteSet(Clients)
    /\ 0 \notin Bufs \union Sectors
    /\ \A n \in NDescs : n \in Nat /\ n >= 3
    /\ MaxPinned \in Nat /\ MaxPinned < Cardinality(Bufs)

VARIABLES
    buf,        \* buffer -> block, valid, disk, data, refcnt, owner of its lock
    free,       \* disk.free[]
    info,       \* head of a chain -> buffer, direction, descriptors
    avail,      \* requests that the device has not carried out
    used,       \* requests that virtio_disk_intr() has not seen done
    irq,        \* the device raises its interrupt
    handler,    \* virtio_disk_intr() holds vdisk_lock
    stage,      \* client -> where it is
    has,        \* client -> its buffer
    platter,    \* the blocks whose latest content is on the disk
    pins        \* history: buffers that log_write() pinned

ioVars == <<buf, free, info, avail, used, irq, handler, stage, has, platter,
            pins>>
requestVars == <<free, info, avail, used, irq, handler>>
devVars    == <<requestVars, platter>>

DiskInit ==
    /\ buf = [k \in Bufs |-> [block |-> 0, valid |-> FALSE, disk |-> FALSE, data |-> FALSE,
                              refcnt |-> 0, owner |-> Nobody]]
    /\ \E n \in NDescs : free = 0 .. n - 1
    /\ info = [d \in Descs |-> [buf |-> 0, write |-> FALSE, chain |-> {}]]
    /\ avail = {} /\ used = {} /\ irq = FALSE /\ handler = FALSE
    /\ stage = [c \in Clients |-> "idle"]
    /\ has = [c \in Clients |-> 0]
    /\ platter = Sectors
    /\ pins = {}

Is(c, s)     == stage[c] = s
Turns(c, s)  == stage' = [stage EXCEPT ![c] = s]
Kept(c, r)   == buf' = [buf EXCEPT ![has[c]] = r]       \* r is the client's buffer
MyBuf(c)     == buf[has[c]]

\* wakeup(&disk.free[0]): whoever waits for descriptors tries again.
WakeForDesc  == [d \in Clients |-> IF Is(d, "noDesc")
                                   THEN IF buf[has[d]].valid THEN "write" ELSE "read"
                                   ELSE stage[d]]
-----------------------------------------------------------------------------
(* The buffer cache and sleep locks                                        *)

Cached(s) == {k \in Bufs : buf[k].block = s}

\* bget() takes an unused buffer for another block.
Recycled(k, s) == [buf[k] EXCEPT !.block = s, !.valid = FALSE, !.data = FALSE,
                                   !.refcnt = 1]

\* bget() under bcache.lock: the buffer of the block, or an unused one.  When every buffer is
\* in use it panics (bio.c:88), which ends the system: the model has no such step.  It can
\* happen, for NPROC processes may read files outside any transaction.
Bget(c, s) ==
    /\ Is(c, "idle")
    /\ \E k \in Bufs :
        /\ \/ k \in Cached(s) /\ buf' = [buf EXCEPT ![k].refcnt = @ + 1]
           \/ Cached(s) = {} /\ buf[k].refcnt = 0 /\ buf' = [buf EXCEPT ![k] = Recycled(k, s)]
        /\ has' = [has EXCEPT ![c] = k]
    /\ Turns(c, "lock")
    /\ UNCHANGED <<devVars, pins>>

\* acquiresleep(): takes the lock, or sleeps.  bread() then looks at b->valid.
Acquiresleep(c) ==
    /\ Is(c, "lock")
    /\ IF MyBuf(c).owner = Nobody
       THEN /\ Kept(c, [MyBuf(c) EXCEPT !.owner = c])
            /\ Turns(c, IF MyBuf(c).valid THEN "held" ELSE "read")
       ELSE Turns(c, "waits") /\ UNCHANGED buf
    /\ UNCHANGED <<devVars, has, pins>>

\* brelse(), first releasesleep() with its wakeup, ...
Brelse(c) ==
    /\ Is(c, "held")
    /\ Kept(c, [MyBuf(c) EXCEPT !.owner = Nobody])
    /\ stage' = [d \in Clients |-> IF d = c THEN "release"
                                   ELSE IF Is(d, "waits") /\ has[d] = has[c] THEN "lock"
                                   ELSE stage[d]]
    /\ UNCHANGED <<devVars, has, pins>>

\* ... then refcnt under bcache.lock.
Unref(c) ==
    /\ Is(c, "release")
    /\ Kept(c, [MyBuf(c) EXCEPT !.refcnt = @ - 1])
    /\ has' = [has EXCEPT ![c] = 0]
    /\ Turns(c, "idle")
    /\ UNCHANGED <<devVars, pins>>

\* The holder of the lock changes the content.
Modify(c) ==
    /\ Is(c, "held")
    /\ buf' = [k \in Bufs |-> IF buf[k].block = MyBuf(c).block
                               THEN [buf[k] EXCEPT !.data = (k = has[c])] ELSE buf[k]]
    /\ platter' = platter \ {MyBuf(c).block}
    /\ Turns(c, "dirty")
    /\ UNCHANGED <<requestVars, has, pins>>

\* bwrite()
Bwrite(c) ==
    /\ Is(c, "dirty") \/ (Is(c, "held") /\ has[c] \in pins)
    /\ Turns(c, "write")
    /\ UNCHANGED <<devVars, buf, has, pins>>

\* bpin() by log_write(), which pins a buffer once.
Bpin(c) ==
    /\ Is(c, "dirty")
    /\ Cardinality(pins \union {has[c]}) <= MaxPinned
    /\ Kept(c, [MyBuf(c) EXCEPT !.refcnt = IF has[c] \in pins THEN @ ELSE @ + 1])
    /\ pins' = pins \union {has[c]}
    /\ Turns(c, "held")
    /\ UNCHANGED <<devVars, has>>

\* The block is on the disk: bunpin() by install_trans(), if it was pinned.
Bunpin(c) ==
    /\ Is(c, "written")
    /\ Kept(c, [MyBuf(c) EXCEPT !.refcnt = IF has[c] \in pins THEN @ - 1 ELSE @])
    /\ pins' = pins \ {has[c]}
    /\ Turns(c, "held")
    /\ UNCHANGED <<devVars, has>>
-----------------------------------------------------------------------------
(* virtio_disk_rw()                                                        *)

Lowest(n, S) == {i \in S : Cardinality({j \in S : j < i}) < n}

\* What is free after alloc3_desc() failed: free_desc() of all it got.
AllocFails == free

\* alloc3_desc() and the request to the device, which sleep() follows.
Submit(c) ==
    /\ Is(c, "read") \/ Is(c, "write")
    /\ ~handler /\ Cardinality(free) >= 3
    /\ \E head \in Lowest(1, free) :
        LET chain == Lowest(3, free)
        IN  /\ free' = free \ chain
            /\ info' = [info EXCEPT ![head] =
                            [buf |-> has[c], write |-> Is(c, "write"), chain |-> chain]]
            /\ avail' = avail \union {head}
    /\ Kept(c, [MyBuf(c) EXCEPT !.disk = TRUE])
    /\ Turns(c, "sleeps")
    /\ UNCHANGED <<used, irq, handler, has, platter, pins>>

\* Not enough descriptors: free_desc() of those it got wakes the others that wait,
\* and sleep().
SubmitFails(c) ==
    /\ Is(c, "read") \/ Is(c, "write")
    /\ ~handler /\ Cardinality(free) < 3
    /\ free' = AllocFails
    /\ stage' = [IF free = {} THEN stage ELSE WakeForDesc EXCEPT ![c] = "noDesc"]
    /\ UNCHANGED <<info, avail, used, irq, handler, buf, has, platter, pins>>

HeadOf(c) == CHOOSE d \in Descs : info[d].buf = has[c] /\ info[d].chain # {}

\* free_chain() with its free_desc().
FreeChain(h) == free \union info[h].chain

\* bread() after the disk has been read.
Bread(b) == [b EXCEPT !.valid = TRUE]

\* Awake after the request: free_chain() and its wakeup; bread() sets b->valid.
Finish(c) ==
    /\ Is(c, "done") /\ ~handler
    /\ free' = FreeChain(HeadOf(c))
    /\ info' = [info EXCEPT ![HeadOf(c)] = [buf |-> 0, write |-> FALSE, chain |-> {}]]
    /\ Kept(c, Bread(MyBuf(c)))
    /\ stage' = [WakeForDesc EXCEPT
                    ![c] = IF info[HeadOf(c)].write THEN "written" ELSE "held"]
    /\ UNCHANGED <<avail, used, irq, handler, has, platter, pins>>
-----------------------------------------------------------------------------
(* The device and virtio_disk_intr()                                       *)

\* External: the device carries out a request and says so.
Device(d) ==
    /\ d \in avail
    /\ LET k == info[d].buf IN
        IF info[d].write
        THEN /\ platter' = IF buf[k].data THEN platter \union {buf[k].block}
                           ELSE platter \ {buf[k].block}
             /\ UNCHANGED buf
        ELSE /\ buf' = [buf EXCEPT ![k].data = buf[k].block \in platter]
             /\ UNCHANGED platter
    /\ avail' = avail \ {d}
    /\ used' = used \union {d}
    /\ irq' = TRUE
    /\ UNCHANGED <<free, info, handler, stage, has, pins>>

\* The loop over the used ring.
Scan ==
    LET seen == {info[d].buf : d \in used} IN
    /\ buf' = [k \in Bufs |-> [buf[k] EXCEPT !.disk = @ /\ k \notin seen]]
    /\ stage' = [c \in Clients |-> IF Is(c, "sleeps") /\ has[c] \in seen THEN "done"
                                   ELSE stage[c]]
    /\ used' = {}

Ack == irq' = FALSE

\* Mutant: the interrupt is acknowledged after the loop.
IntrStep_ScanFirst(n) ==
    \/ n = 1 /\ Scan /\ UNCHANGED irq
    \/ n = 2 /\ Ack /\ UNCHANGED <<buf, stage, used>>

\* virtio_disk_intr() first acknowledges the interrupt, then looks at the ring.
IntrStep(n) ==
    \/ n = 1 /\ Ack /\ UNCHANGED <<buf, stage, used>>
    \/ n = 2 /\ Scan /\ UNCHANGED irq

IntrLock ==
    /\ irq /\ ~handler
    /\ handler' = TRUE
    /\ IntrStep(1)
    /\ UNCHANGED <<free, info, avail, has, platter, pins>>

IntrRelease ==
    /\ handler
    /\ handler' = FALSE
    /\ IntrStep(2)
    /\ UNCHANGED <<free, info, avail, has, platter, pins>>

DiskNext ==
    \/ \E c \in Clients :
        \/ \E s \in Sectors : Bget(c, s)
        \/ Acquiresleep(c) \/ Brelse(c) \/ Unref(c)
        \/ Modify(c) \/ Bwrite(c) \/ Bpin(c) \/ Bunpin(c)
        \/ Submit(c) \/ SubmitFails(c) \/ Finish(c)
    \/ \E d \in Descs : Device(d)
    \/ IntrLock \/ IntrRelease

DiskSpec == DiskInit /\ [][DiskNext]_ioVars
-----------------------------------------------------------------------------
(* Properties                                                              *)

\* Who holds a buffer finds in it what was last put in its block by anybody, however
\* buffers are recycled, shared, pinned and written back meanwhile.
ReadsLatest ==
    \A c \in Clients : stage[c] \in {"held", "dirty", "written"} => buf[has[c]].data

\* Every descriptor is free or in the chain of one request: none is lost, and
\* free_desc() never panics.
DescriptorsAccounted ==
    LET chains == {info[h].chain : h \in Descs} \ {{}} IN
    /\ \A h \in Descs : \A g \in Descs \ {h} : info[h].chain \intersect info[g].chain = {}
    /\ free \intersect UNION chains = {}
    /\ Cardinality(free \union UNION chains) \in NDescs

\* A client that sleeps will be woken: for a request, the device has it, or an
\* interrupt or its handler is to come; for descriptors, another client has some, or
\* is awake and tries itself.
DiskSleeperWakes ==
    \A c \in Clients :
        /\ Is(c, "sleeps") =>
            \E d \in avail \union used :
                info[d].buf = has[c] /\ (d \in used => irq \/ handler)
        /\ Is(c, "noDesc") =>
            \E d \in Clients : stage[d] \in {"sleeps", "done", "read", "write"}
        /\ Is(c, "waits") => buf[has[c]].owner \notin {Nobody, c}

\* Buffers hold what was last put in them, no descriptor is lost and no sleeper forgotten.
DiskSound == ReadsLatest /\ DescriptorsAccounted /\ DiskSleeperWakes
=============================================================================
