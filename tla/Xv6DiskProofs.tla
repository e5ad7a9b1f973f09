---------------------------- MODULE Xv6DiskProofs ---------------------------
(***************************************************************************)
(* Proofs about the blocks of the xv6 disk: the cache with its driver, and *)
(* the log above it.                                                       *)
(*                                                                         *)
(* Xv6Disk, for any number of clients, buffers, blocks and descriptors:    *)
(* who holds a buffer has the latest content of its block, no descriptor   *)
(* is lost, and who sleeps will be woken.  The invariant says what a       *)
(* client has and holds (Uses), how reference counts and owners come from  *)
(* that (Counted, Owned), which request a client waits for (Requests), and *)
(* where the latest content of a block is: on the disk, or in its one      *)
(* buffer, which then is pinned or in the hands of a client that will      *)
(* write it (Latest).                                                      *)
(*                                                                         *)
(* Xv6Log, for any number of processes and blocks and any size of the log  *)
(* that holds one system call:                                             *)
(*                                                                         *)
(*  - whoever begin_op() admits finds room, and whoever sleeps in it is    *)
(*    woken by somebody (LogAdmits);                                       *)
(*  - the log implements TransactionalDisk, whatever is in progress when   *)
(*    the machine stops, a commit and a recovery included.                 *)
(*                                                                         *)
(* Its invariant says where each block is up to date in each phase of a    *)
(* commit or a recovery, and counts the space that is promised.            *)
(***************************************************************************)
EXTENDS Xv6Disk, Xv6Log, FiniteSetTheorems, TLAPS

Stages == {"idle", "lock", "waits", "held", "dirty", "written", "release", "read", "write",
           "noDesc", "sleeps", "done"}

\* Where a client holds the sleep lock of its buffer.
Holding == Stages \ {"idle", "lock", "waits", "release"}

Buffer  == [block : Sectors \union {0}, valid : BOOLEAN, disk : BOOLEAN, data : BOOLEAN,
            refcnt : Nat, owner : Clients \union {Nobody}]
Request == [buf : Bufs \union {0}, write : BOOLEAN, chain : SUBSET Descs]

DiskTypes ==
    /\ buf \in [Bufs -> Buffer]
    /\ free \subseteq Descs
    /\ info \in [Descs -> Request]
    /\ avail \subseteq Descs /\ used \subseteq Descs
    /\ irq \in BOOLEAN /\ handler \in BOOLEAN
    /\ stage \in [Clients -> Stages]
    /\ has \in [Clients -> Bufs \union {0}]
    /\ platter \subseteq Sectors
    /\ pins \subseteq Bufs

\* Client c and its buffer: valid or not yet, with a lock or waiting for it.
Uses(c) ==
    /\ stage[c] = "idle" <=> has[c] = 0
    /\ stage[c] # "idle" => buf[has[c]].block # 0
    /\ stage[c] \in {"held", "dirty", "written", "write"} => buf[has[c]].valid
    /\ stage[c] = "read" => ~ buf[has[c]].valid
    /\ stage[c] = "waits" => buf[has[c]].owner # Nobody

Users(k) == {c \in Clients : has[c] = k}

\* refcnt counts the clients of a buffer, and its pin.
Counted(k) ==
    buf[k].refcnt = Cardinality(Users(k)) + IF k \in pins THEN 1 ELSE 0

\* The owner of a buffer's lock is the client that holds it.
Owned(k) ==
    \A c \in Clients : buf[k].owner = c <=> has[c] = k /\ stage[c] \in Holding

\* A block has one buffer.
OneBuffer(k, j) == k # j /\ buf[k].block = buf[j].block => buf[k].block = 0

Busy(h) == info[h].chain # {}

\* A request is that of a client, until the client has seen it done.
RequestFits(h) ==
    /\ ~ Busy(h) => info[h].buf = 0 /\ h \notin avail /\ h \notin used
    /\ Busy(h) =>
        /\ h \in info[h].chain
        /\ info[h].buf # 0
        /\ info[h].write <=> buf[info[h].buf].valid
        /\ \E c \in Clients :
            /\ has[c] = info[h].buf
            /\ stage[c] = IF h \in avail \union used THEN "sleeps" ELSE "done"
    /\ h \in used \/ (Busy(h) /\ h \notin avail) =>
        buf[info[h].buf].data /\ buf[info[h].buf].block \in platter
    /\ ~ (h \in avail /\ h \in used)

\* A client that waits for a request has one.
HasRequest(c) ==
    stage[c] \in {"sleeps", "done"} => \E h \in Descs : Busy(h) /\ info[h].buf = has[c]

\* No two requests share a descriptor or a buffer, and none has a free descriptor.
Apart(h, g) ==
    h # g => /\ info[h].chain \intersect info[g].chain = {}
             /\ Busy(h) /\ Busy(g) => info[h].buf # info[g].buf

\* All descriptors, free or not.
AllDescs == free \union UNION {info[h].chain : h \in Descs}

Requests ==
    /\ \A h \in Descs : RequestFits(h) /\ info[h].chain \intersect free = {}
    /\ \A c \in Clients : HasRequest(c)
    /\ \A h, g \in Descs : Apart(h, g)
    /\ \E n \in NDescs : AllDescs = 0 .. n - 1

\* Client c will write its buffer, and the device has not yet.
WillWrite(c) ==
    \/ stage[c] \in {"dirty", "write", "noDesc"}
    \/ stage[c] = "sleeps" /\ \E h \in avail : info[h].buf = has[c]

\* The content of buffer k is only there, and safe until it is on the disk.
Dirty(k) ==
    /\ buf[k].valid
    /\ k \in pins \/ \E c \in Clients : has[c] = k /\ WillWrite(c)

Latest ==
    /\ \A k \in Bufs : buf[k].valid => buf[k].data
    /\ \A k \in pins : buf[k].valid
    /\ \A s \in Sectors \ platter : \E k \in Bufs : buf[k].block = s /\ Dirty(k)
    /\ \A c \in Clients : stage[c] = "written" => buf[has[c]].block \in platter

\* Interrupts and wakeups are not lost.
Woken ==
    /\ used # {} => irq \/ handler
    /\ (\E c \in Clients : stage[c] = "noDesc") =>
        \E d \in Clients : stage[d] \in {"sleeps", "done", "read", "write"}

DiskInv ==
    /\ DiskTypes
    /\ \A c \in Clients : Uses(c)
    /\ \A k \in Bufs : Counted(k) /\ Owned(k)
    /\ \A k, j \in Bufs : OneBuffer(k, j)
    /\ Requests
    /\ Latest
    /\ Woken
-----------------------------------------------------------------------------
(* Types                                                                   *)

\* The parts of DiskTypes, one buffer, request and client at a time.
LEMMA DiskTypesLemma ==
    ASSUME DiskTypes
    PROVE  /\ \A k \in Bufs : /\ buf[k] \in Buffer /\ buf[k].block \in Sectors \union {0}
                              /\ buf[k].valid \in BOOLEAN /\ buf[k].data \in BOOLEAN
                              /\ buf[k].refcnt \in Nat
                              /\ buf[k].owner \in Clients \union {Nobody}
           /\ \A h \in Descs : /\ info[h] \in Request /\ info[h].buf \in Bufs \union {0}
                               /\ info[h].write \in BOOLEAN /\ info[h].chain \subseteq Descs
           /\ \A c \in Clients : stage[c] \in Stages /\ has[c] \in Bufs \union {0}
           /\ 0 \notin Bufs /\ 0 \notin Sectors /\ Nobody \notin Clients
  BY DiskAssumption DEF DiskTypes, Buffer, Request

\* A client that is not idle has a buffer.
LEMMA HasBuffer ==
    ASSUME DiskTypes, NEW c \in Clients, Uses(c), stage[c] # "idle"
    PROVE  has[c] \in Bufs /\ buf[has[c]] \in Buffer /\ buf[has[c]].block \in Sectors
<1>1. has[c] \in Bufs
  BY DiskTypesLemma DEF Uses
<1> QED
  BY <1>1, DiskTypesLemma DEF Uses

\* A buffer is changed by the client that has it.
LEMMA KeptEffect ==
    ASSUME DiskTypes, NEW c \in Clients, has[c] \in Bufs, NEW r \in Buffer, Kept(c, r)
    PROVE  /\ buf' \in [Bufs -> Buffer] /\ buf'[has[c]] = r
           /\ \A k \in Bufs \ {has[c]} : buf'[k] = buf[k]
  BY DEF DiskTypes, Kept

\* A client goes on, and the others stay.
LEMMA TurnsEffect ==
    ASSUME DiskTypes, NEW c \in Clients, NEW s \in Stages, Turns(c, s)
    PROVE  /\ stage' \in [Clients -> Stages] /\ stage'[c] = s
           /\ \A d \in Clients \ {c} : stage'[d] = stage[d]
  BY DEF DiskTypes, Turns

\* The lowest n of the free descriptors are free.
LEMMA LowestLemma ==
    ASSUME NEW S \in SUBSET Nat, NEW h \in Lowest(1, S)
    PROVE  h \in Lowest(3, S) /\ Lowest(3, S) \subseteq S
<1>1. h \in S /\ Cardinality({j \in S : j < h}) < 1
  BY DEF Lowest
<1>2. IsFiniteSet({j \in S : j < h})
  <2>1. IsFiniteSet(0 .. h)
    BY <1>1, FS_Interval
  <2>2. ASSUME NEW j \in S, j < h PROVE j \in 0 .. h
    <3>1. j \in Nat /\ h \in Nat
      BY <1>1
    <3> QED
      BY <2>2, <3>1
  <2> QED
    BY <2>1, <2>2, FS_Subset
<1>3. Cardinality({j \in S : j < h}) \in Nat
  BY <1>2, FS_CardinalityType
<1> QED
  BY <1>1, <1>3 DEF Lowest

\* Descriptors are numbers.
LEMMA DescsAreNat == Descs \subseteq Nat
  BY DiskAssumption DEF Descs

\* The wakeup for free descriptors.
LEMMA WakeTypes ==
    ASSUME DiskTypes
    PROVE  /\ WakeForDesc \in [Clients -> Stages]
           /\ \A d \in Clients :
                /\ stage[d] # "noDesc" => WakeForDesc[d] = stage[d]
                /\ stage[d] = "noDesc" /\ buf[has[d]].valid => WakeForDesc[d] = "write"
                /\ stage[d] = "noDesc" /\ ~ buf[has[d]].valid => WakeForDesc[d] = "read"
  BY DEF DiskTypes, WakeForDesc, Is, Stages

\* A buffer is held by one client.
LEMMA OneHolder ==
    ASSUME DiskTypes, \A k \in Bufs : Owned(k), NEW c \in Clients, NEW d \in Clients,
           has[c] = has[d], has[c] \in Bufs, stage[c] \in Holding, stage[d] \in Holding
    PROVE  c = d
<1>1. buf[has[c]].owner = c /\ buf[has[c]].owner = d
  BY DEF Owned
<1> QED
  BY <1>1

\* The request of a client that waits for it, or has seen it done.
LEMMA HeadLemma ==
    ASSUME DiskTypes, Requests, \A k \in Bufs : Owned(k), NEW c \in Clients, Uses(c)
    PROVE  /\ \A h \in Descs :
                Busy(h) /\ info[h].buf = has[c] /\ stage[c] \in Holding =>
                    stage[c] = IF h \in avail \union used THEN "sleeps" ELSE "done"
           /\ stage[c] = "done" =>
                /\ HeadOf(c) \in Descs /\ Busy(HeadOf(c)) /\ info[HeadOf(c)].buf = has[c]
                /\ HeadOf(c) \notin avail /\ HeadOf(c) \notin used
<1>1. ASSUME NEW h \in Descs, Busy(h), info[h].buf = has[c], stage[c] \in Holding
      PROVE  stage[c] = IF h \in avail \union used THEN "sleeps" ELSE "done"
  <2>1. PICK d \in Clients : /\ has[d] = info[h].buf
                             /\ stage[d] = IF h \in avail \union used THEN "sleeps" ELSE "done"
    BY <1>1 DEF Requests, RequestFits
  <2>2. stage[d] \in Holding /\ has[c] \in Bufs
    BY <1>1, <2>1, HasBuffer DEF Holding, Stages
  <2>3. c = d
    BY <1>1, <2>1, <2>2, OneHolder
  <2> QED
    BY <2>1, <2>3
<1>2. ASSUME stage[c] = "done"
      PROVE  /\ HeadOf(c) \in Descs /\ Busy(HeadOf(c)) /\ info[HeadOf(c)].buf = has[c]
             /\ HeadOf(c) \notin avail /\ HeadOf(c) \notin used
  <2>1. \E h \in Descs : info[h].buf = has[c] /\ info[h].chain # {}
    BY <1>2 DEF Requests, HasRequest, Busy
  <2>2. HeadOf(c) \in Descs /\ Busy(HeadOf(c)) /\ info[HeadOf(c)].buf = has[c]
    BY <2>1 DEF HeadOf, Busy
  <2>3. stage[c] \in Holding /\ stage[c] # "sleeps"
    BY <1>2 DEF Holding, Stages
  <2> QED
    BY <1>1, <2>2, <2>3
<1> QED
  BY <1>1, <1>2
-----------------------------------------------------------------------------
(* What steps leave alone                                                  *)

\* Buffer k stays the same but for its lock, its count and its flag of the driver.
SameContent(k) ==
    /\ buf'[k].block = buf[k].block /\ buf'[k].valid = buf[k].valid
    /\ buf'[k].data = buf[k].data

SameClient(c) == stage'[c] = stage[c] /\ has'[c] = has[c]

Waiting(c) == stage[c] \in {"sleeps", "done"}

\* A client that does nothing, and whose buffer stays.
LEMMA UsesFrame ==
    ASSUME NEW c \in Clients, Uses(c), SameClient(c),
           stage[c] # "idle" => SameContent(has[c]),
           stage[c] = "waits" => buf'[has[c]].owner # Nobody
    PROVE  Uses(c)'
  BY DEF Uses, SameClient, SameContent

\* Nothing is referenced or released.
LEMMA CountedFrame ==
    ASSUME NEW k \in Bufs, Counted(k), has' = has, pins' = pins,
           buf'[k].refcnt = buf[k].refcnt
    PROVE  Counted(k)'
  BY DEF Counted, Users

\* No lock is taken or given back.
LEMMA OwnedFrame ==
    ASSUME NEW k \in Bufs, Owned(k), buf'[k].owner = buf[k].owner,
           \A c \in Clients : has'[c] = k /\ stage'[c] \in Holding
                                <=> has[c] = k /\ stage[c] \in Holding
    PROVE  Owned(k)'
  BY DEF Owned

\* The driver and the clients that wait for it stay as they are, and their buffers.
LEMMA RequestsFrame ==
    ASSUME DiskTypes, Requests, UNCHANGED <<free, info, avail, used>>,
           \A c \in Clients : Waiting(c) \/ Waiting(c)' => SameClient(c),
           \A c \in Clients : Waiting(c) =>
                /\ SameContent(has[c])
                /\ buf[has[c]].block \in platter => buf[has[c]].block \in platter'
    PROVE  Requests'
<1>1. ASSUME NEW h \in Descs
      PROVE  RequestFits(h)' /\ (info[h].chain \intersect free = {})'
  <2>1. RequestFits(h) /\ info[h].chain \intersect free = {}
    BY DEF Requests
  <2>2. CASE Busy(h)
    <3>1. PICK c \in Clients :
            /\ has[c] = info[h].buf
            /\ stage[c] = IF h \in avail \union used THEN "sleeps" ELSE "done"
      BY <2>1, <2>2 DEF RequestFits
    <3>2. Waiting(c)
      BY <3>1 DEF Waiting
    <3>3. /\ SameClient(c) /\ SameContent(info[h].buf)
          /\ buf[info[h].buf].block \in platter => buf[info[h].buf].block \in platter'
      BY <3>1, <3>2
    <3>4. /\ has'[c] = info[h].buf
          /\ stage'[c] = IF h \in avail \union used THEN "sleeps" ELSE "done"
      BY <3>1, <3>3 DEF SameClient
    <3> QED
      BY <2>1, <2>2, <3>3, <3>4 DEF RequestFits, Busy, SameContent
  <2>3. CASE ~ Busy(h)
    BY <2>1, <2>3 DEF RequestFits, Busy
  <2> QED
    BY <2>1, <2>2, <2>3
<1>2. ASSUME NEW c \in Clients PROVE HasRequest(c)'
  <2>1. HasRequest(c)
    BY DEF Requests
  <2>2. Waiting(c)' => stage'[c] = stage[c] /\ has'[c] = has[c]
    BY DEF SameClient
  <2> QED
    BY <2>1, <2>2 DEF HasRequest, Waiting, Busy
<1>3. ASSUME NEW h \in Descs, NEW g \in Descs PROVE Apart(h, g)'
  BY DEF Requests, Apart, Busy
<1>4. \E n \in NDescs : AllDescs' = 0 .. n - 1
  BY DEF Requests, AllDescs
<1> QED
  BY <1>1, <1>2, <1>3, <1>4 DEF Requests

\* What was only in a buffer still is, and the client that will write it still will.
LEMMA LatestFrame ==
    ASSUME DiskTypes, Latest, UNCHANGED <<info, avail, platter>>, pins \subseteq pins',
           \A k \in Bufs : SameContent(k),
           \A k \in pins' : k \in Bufs /\ buf[k].valid,
           \A c \in Clients : WillWrite(c) =>
                (WillWrite(c)' /\ has'[c] = has[c]) \/ has[c] \in pins',
           \A c \in Clients : stage'[c] = "written" => SameClient(c) /\ has[c] \in Bufs
    PROVE  Latest'
<1>1. \A k \in Bufs : buf'[k].valid => buf'[k].data
  BY DEF Latest, SameContent
<1>2. \A k \in pins' : buf'[k].valid
  BY DEF SameContent
<1>3. ASSUME NEW s \in Sectors \ platter' PROVE \E k \in Bufs : (buf[k].block = s /\ Dirty(k))'
  <2>1. PICK k \in Bufs : buf[k].block = s /\ Dirty(k)
    BY DEF Latest
  <2>2. buf'[k].block = s /\ buf'[k].valid
    BY <2>1 DEF Dirty, SameContent
  <2>3. k \in pins' \/ \E c \in Clients : has'[c] = k /\ WillWrite(c)'
    BY <2>1 DEF Dirty
  <2> QED
    BY <2>2, <2>3 DEF Dirty
<1>4. \A c \in Clients : stage'[c] = "written" => buf'[has'[c]].block \in platter'
  BY DEF Latest, SameClient, SameContent
<1> QED
  BY <1>1, <1>2, <1>3, <1>4 DEF Latest

\* refcnt and the clients of a buffer.
LEMMA UserCount ==
    ASSUME NEW k, NEW c \in Clients
    PROVE  /\ IsFiniteSet(Users(k)) /\ Cardinality(Users(k)) \in Nat
           /\ IsFiniteSet(Users(k)') /\ Cardinality(Users(k)') \in Nat
           /\ c \in Users(k) => Cardinality(Users(k)) >= 1
           /\ c \notin Users(k) /\ Users(k)' = Users(k) \union {c}
                => Cardinality(Users(k)') = Cardinality(Users(k)) + 1
           /\ c \in Users(k) /\ Users(k)' = Users(k) \ {c}
                => Cardinality(Users(k)') = Cardinality(Users(k)) - 1
<1>1. IsFiniteSet(Users(k)) /\ IsFiniteSet(Users(k)')
  BY DiskAssumption, FS_Subset DEF Users
<1>2. Cardinality(Users(k)) \in Nat /\ Cardinality(Users(k)') \in Nat
  BY <1>1, FS_CardinalityType
<1>3. ASSUME c \in Users(k) PROVE Cardinality(Users(k)) >= 1
  <2>1. Cardinality(Users(k)) # 0
    BY <1>1, <1>3, FS_EmptySet
  <2> QED
    BY <1>2, <2>1
<1>4. Cardinality(Users(k) \union {c}) = IF c \in Users(k) THEN Cardinality(Users(k))
                                         ELSE Cardinality(Users(k)) + 1
  BY <1>1, FS_AddElement
<1>5. Cardinality(Users(k) \ {c}) = IF c \in Users(k) THEN Cardinality(Users(k)) - 1
                                    ELSE Cardinality(Users(k))
  BY <1>1, FS_RemoveElement
<1> QED
  BY <1>1, <1>2, <1>3, <1>4, <1>5

\* The others' references stay.
LEMMA UsersStay ==
    ASSUME NEW k, NEW c \in Clients, \A d \in Clients \ {c} : has'[d] = has[d],
           has[c] = k <=> has'[c] = k
    PROVE  Users(k)' = Users(k)
  BY DEF Users
-----------------------------------------------------------------------------
(* The steps                                                               *)

\* bget() takes a reference to a buffer.
LEMMA BgetStep ==
    ASSUME DiskInv, NEW c \in Clients, NEW s \in Sectors, Bget(c, s)
    PROVE  DiskInv'
<1> USE DEF DiskInv
<1>0. /\ stage[c] = "idle" /\ has[c] = 0 /\ s # 0
      /\ UNCHANGED <<free, info, avail, used, irq, handler, platter, pins>>
  BY DiskTypesLemma DEF Bget, Is, Uses, devVars, requestVars
<1>1. PICK k \in Bufs :
        /\ \/ k \in Cached(s) /\ buf' = [buf EXCEPT ![k].refcnt = @ + 1]
           \/ Cached(s) = {} /\ buf[k].refcnt = 0 /\ buf' = [buf EXCEPT ![k] = Recycled(k, s)]
        /\ has' = [has EXCEPT ![c] = k]
  BY DEF Bget
<1>2. /\ stage' \in [Clients -> Stages] /\ stage'[c] = "lock"
      /\ \A d \in Clients \ {c} : stage'[d] = stage[d]
  BY TurnsEffect DEF Bget, Stages
<1>3. /\ has' \in [Clients -> Bufs \union {0}] /\ has'[c] = k
      /\ \A d \in Clients \ {c} : has'[d] = has[d]
  BY <1>1 DEF DiskTypes
<1>4. buf[k] \in Buffer /\ buf[k].refcnt \in Nat
  BY DiskTypesLemma
<1>5. /\ buf' \in [Bufs -> Buffer] /\ buf'[k].block = s /\ buf'[k].refcnt = buf[k].refcnt + 1
      /\ buf'[k].owner = buf[k].owner
      /\ \A j \in Bufs \ {k} : buf'[j] = buf[j]
  <2>1. CASE k \in Cached(s) /\ buf' = [buf EXCEPT ![k].refcnt = @ + 1]
    <3>1. buf'[k] = [buf[k] EXCEPT !.refcnt = @ + 1]
      BY <2>1 DEF DiskTypes
    <3>2. buf'[k] \in Buffer
      BY <1>4, <3>1 DEF Buffer
    <3> QED
      BY <1>4, <2>1, <3>1, <3>2 DEF DiskTypes, Cached, Buffer
  <2>2. CASE buf[k].refcnt = 0 /\ buf' = [buf EXCEPT ![k] = Recycled(k, s)]
    <3>1. Recycled(k, s) \in Buffer
      BY <1>4 DEF Buffer, Recycled
    <3>2. Recycled(k, s).block = s /\ Recycled(k, s).refcnt = 1
          /\ Recycled(k, s).owner = buf[k].owner
      BY <1>4 DEF Buffer, Recycled
    <3> QED
      BY <2>2, <3>1, <3>2 DEF DiskTypes
  <2> QED
    BY <1>1, <2>1, <2>2
<1>6. \/ buf[k].block = s /\ SameContent(k)
      \/ Cached(s) = {} /\ buf[k].refcnt = 0 /\ ~ buf'[k].valid /\ ~ buf'[k].data
  <2>1. CASE k \in Cached(s) /\ buf' = [buf EXCEPT ![k].refcnt = @ + 1]
    <3>1. buf'[k] = [buf[k] EXCEPT !.refcnt = @ + 1]
      BY <2>1 DEF DiskTypes
    <3> QED
      BY <1>4, <2>1, <3>1 DEF Cached, Buffer, SameContent
  <2>2. CASE Cached(s) = {} /\ buf[k].refcnt = 0 /\ buf' = [buf EXCEPT ![k] = Recycled(k, s)]
    <3>1. ~ Recycled(k, s).valid /\ ~ Recycled(k, s).data
      BY <1>4 DEF Buffer, Recycled
    <3> QED
      BY <2>2, <3>1 DEF DiskTypes
  <2> QED
    BY <1>1, <2>1, <2>2
<1>7. ASSUME buf[k].refcnt = 0 PROVE k \notin pins /\ \A d \in Clients : has[d] # k
  <2>1. Counted(k) /\ \A d \in Clients : Cardinality(Users(k)) \in Nat
                        /\ (d \in Users(k) => Cardinality(Users(k)) >= 1)
    BY UserCount
  <2> QED
    BY <1>7, <2>1 DEF Counted, Users
<1>8. \A d \in Clients \ {c} : has[d] \in Bufs => SameContent(has[d])
  BY <1>5, <1>6, <1>7 DEF SameContent
<1>9. DiskTypes'
  BY <1>0, <1>2, <1>3, <1>5 DEF DiskTypes
<1>10. ASSUME NEW d \in Clients PROVE Uses(d)'
  <2>1. CASE d = c
    BY <1>0, <1>2, <1>3, <1>5, <2>1, DiskTypesLemma DEF Uses
  <2>2. CASE d # c
    <3>1. SameClient(d) /\ (stage[d] # "idle" => has[d] \in Bufs)
      BY <1>2, <1>3, <2>2, HasBuffer DEF SameClient
    <3>2. stage[d] = "waits" => buf'[has[d]].owner = buf[has[d]].owner
      BY <1>5, <3>1
    <3> QED
      BY <1>8, <2>2, <3>1, <3>2, UsesFrame DEF Uses
  <2> QED
    BY <2>1, <2>2
<1>11. ASSUME NEW j \in Bufs PROVE Counted(j)'
  <2>1. Counted(j)
    OBVIOUS
  <2>2. CASE j = k
    <3>1. Users(k)' = Users(k) \union {c} /\ c \notin Users(k)
      BY <1>0, <1>3, DiskTypesLemma DEF Users
    <3>2. Cardinality(Users(k)') = Cardinality(Users(k)) + 1 /\ Cardinality(Users(k)) \in Nat
      BY <3>1, UserCount
    <3> QED
      BY <1>0, <1>5, <2>1, <2>2, <3>2 DEF Counted
  <2>3. CASE j # k
    <3>1. Users(j)' = Users(j)
      BY <1>0, <1>3, <2>3, UsersStay, DiskTypesLemma
    <3> QED
      BY <1>0, <1>5, <2>1, <2>3, <3>1 DEF Counted
  <2> QED
    BY <2>2, <2>3
<1>12. ASSUME NEW j \in Bufs PROVE Owned(j)'
  <2>1. buf'[j].owner = buf[j].owner
    BY <1>5
  <2>2. \A d \in Clients : has'[d] = j /\ stage'[d] \in Holding
                             <=> has[d] = j /\ stage[d] \in Holding
    BY <1>0, <1>2, <1>3 DEF Holding, Stages
  <2> QED
    BY <2>1, <2>2, OwnedFrame
<1>13. ASSUME NEW i \in Bufs, NEW j \in Bufs PROVE OneBuffer(i, j)'
  <2>1. CASE buf[k].block = s
    BY <1>5, <2>1 DEF OneBuffer
  <2>2. CASE Cached(s) = {}
    BY <1>5, <2>2 DEF OneBuffer, Cached
  <2> QED
    BY <1>6, <2>1, <2>2
<1>14. Requests'
  <2>1. ASSUME NEW d \in Clients, Waiting(d) \/ Waiting(d)' PROVE SameClient(d) /\ d # c
    BY <1>0, <1>2, <1>3, <2>1 DEF Waiting, SameClient
  <2>2. ASSUME NEW d \in Clients, Waiting(d) PROVE SameContent(has[d])
    <3>1. d # c /\ has[d] \in Bufs
      BY <2>1, <2>2, HasBuffer DEF Waiting
    <3> QED
      BY <1>8, <3>1
  <2> QED
    BY <1>0, <2>1, <2>2, RequestsFrame
<1>15. Latest'
  <2>1. ASSUME NEW j \in Bufs, j # k \/ SameContent(k) PROVE SameContent(j)
    BY <1>5, <2>1 DEF SameContent
  <2>2. \A d \in Clients : WillWrite(d) => d # c /\ WillWrite(d)' /\ has'[d] = has[d]
    BY <1>0, <1>2, <1>3 DEF WillWrite
  <2>3. ASSUME NEW d \in Clients, stage'[d] = "written"
        PROVE  d # c /\ SameClient(d) /\ has[d] \in Bufs
    BY <1>2, <1>3, <2>3, HasBuffer DEF SameClient
  <2>4. \A j \in Bufs : buf'[j].valid => buf'[j].data
    BY <1>5, <1>6 DEF Latest, SameContent
  <2>5. ASSUME NEW j \in pins' PROVE buf'[j].valid
    <3>1. j \in Bufs /\ buf[j].valid /\ SameContent(j)
      BY <1>0, <1>6, <1>7, <2>1, <2>5 DEF Latest, DiskTypes
    <3> QED
      BY <3>1 DEF SameContent
  <2>6. ASSUME NEW t \in Sectors \ platter'
        PROVE  \E j \in Bufs : (buf[j].block = t /\ Dirty(j))'
    <3>1. PICK j \in Bufs : buf[j].block = t /\ Dirty(j)
      BY <1>0, <2>6 DEF Latest
    <3>2. SameContent(j)
      BY <1>6, <1>7, <2>1, <3>1 DEF Dirty
    <3>3. j \in pins' \/ \E d \in Clients : has'[d] = j /\ WillWrite(d)'
      BY <1>0, <2>2, <3>1 DEF Dirty
    <3> QED
      BY <3>1, <3>2, <3>3 DEF Dirty, SameContent
  <2>7. ASSUME NEW d \in Clients, stage'[d] = "written" PROVE buf'[has'[d]].block \in platter'
    <3>1. SameContent(has[d]) /\ stage[d] = "written" /\ has'[d] = has[d]
      BY <1>8, <2>3, <2>7 DEF SameClient
    <3> QED
      BY <1>0, <3>1 DEF Latest, SameContent
  <2> QED
    BY <2>4, <2>5, <2>6, <2>7 DEF Latest
<1>16. Woken'
  <2>1. \A d \in Clients : stage[d] # "idle" => stage'[d] = stage[d]
    BY <1>0, <1>2
  <2>2. \A d \in Clients : stage'[d] = "noDesc" => stage[d] = "noDesc"
    BY <1>2
  <2> QED
    BY <1>0, <2>1, <2>2 DEF Woken
<1> QED
  BY <1>9, <1>10, <1>11, <1>12, <1>13, <1>14, <1>15, <1>16

\* acquiresleep() takes the lock of the buffer, or waits for it.
LEMMA AcquireStep == ASSUME DiskInv, NEW c \in Clients, Acquiresleep(c) PROVE DiskInv'
<1> USE DEF DiskInv
<1>0. /\ stage[c] = "lock" /\ has[c] \in Bufs /\ buf[has[c]] \in Buffer
      /\ buf[has[c]].block # 0 /\ has' = has
      /\ UNCHANGED <<free, info, avail, used, irq, handler, platter, pins>>
  BY HasBuffer DEF Acquiresleep, Is, devVars, requestVars, Uses
<1>1. /\ buf' \in [Bufs -> Buffer]
      /\ \A k \in Bufs : SameContent(k) /\ buf'[k].refcnt = buf[k].refcnt
      /\ \A k \in Bufs \ {has[c]} : buf'[k] = buf[k]
      /\ \/ /\ buf[has[c]].owner = Nobody /\ buf'[has[c]].owner = c
            /\ Turns(c, IF buf[has[c]].valid THEN "held" ELSE "read")
         \/ buf[has[c]].owner # Nobody /\ buf' = buf /\ Turns(c, "waits")
  <2>1. CASE buf[has[c]].owner = Nobody
    <3> DEFINE r == [buf[has[c]] EXCEPT !.owner = c]
    <3>1. /\ r \in Buffer /\ r.owner = c /\ r.refcnt = buf[has[c]].refcnt
          /\ r.block = buf[has[c]].block /\ r.valid = buf[has[c]].valid
          /\ r.data = buf[has[c]].data
      BY <1>0 DEF Buffer
    <3>2. Kept(c, r) /\ Turns(c, IF buf[has[c]].valid THEN "held" ELSE "read")
      BY <2>1 DEF Acquiresleep, MyBuf
    <3> HIDE DEF r
    <3>3. /\ buf' \in [Bufs -> Buffer] /\ buf'[has[c]] = r
          /\ \A k \in Bufs \ {has[c]} : buf'[k] = buf[k]
      BY <1>0, <3>1, <3>2, KeptEffect
    <3> QED
      BY <2>1, <3>1, <3>2, <3>3 DEF SameContent
  <2>2. CASE buf[has[c]].owner # Nobody
    BY <2>2 DEF Acquiresleep, MyBuf, DiskTypes, SameContent
  <2> QED
    BY <2>1, <2>2
<1>2. /\ stage' \in [Clients -> Stages]
      /\ \A d \in Clients \ {c} : stage'[d] = stage[d]
      /\ \/ /\ buf[has[c]].owner = Nobody /\ buf'[has[c]].owner = c
            /\ stage'[c] = IF buf[has[c]].valid THEN "held" ELSE "read"
         \/ buf[has[c]].owner # Nobody /\ buf' = buf /\ stage'[c] = "waits"
  BY <1>1, TurnsEffect DEF Stages
<1>3. DiskTypes'
  BY <1>0, <1>1, <1>2 DEF DiskTypes
<1>4. ASSUME NEW d \in Clients PROVE Uses(d)'
  <2>1. CASE d = c
    BY <1>0, <1>1, <1>2, <2>1, DiskTypesLemma DEF Uses, SameContent
  <2>2. CASE d # c
    <3>1. SameClient(d) /\ (stage[d] # "idle" => has[d] \in Bufs)
      BY <1>0, <1>2, <2>2, HasBuffer DEF SameClient
    <3>2. stage[d] = "waits" => buf'[has[d]].owner # Nobody
      <4>1. c # Nobody
        BY DiskTypesLemma
      <4> QED
        BY <1>1, <1>2, <3>1, <4>1 DEF Uses
    <3> QED
      BY <1>1, <3>1, <3>2, UsesFrame
  <2> QED
    BY <2>1, <2>2
<1>5. ASSUME NEW k \in Bufs PROVE Counted(k)'
  BY <1>0, <1>1, CountedFrame
<1>6. ASSUME NEW k \in Bufs PROVE Owned(k)'
  <2>1. CASE buf' = buf /\ stage'[c] = "waits"
    <3>1. \A d \in Clients : has'[d] = k /\ stage'[d] \in Holding
                               <=> has[d] = k /\ stage[d] \in Holding
      BY <1>0, <1>2, <2>1 DEF Holding, Stages
    <3> QED
      BY <2>1, <3>1, OwnedFrame
  <2>2. CASE /\ buf[has[c]].owner = Nobody /\ buf'[has[c]].owner = c
             /\ stage'[c] = IF buf[has[c]].valid THEN "held" ELSE "read"
    <3>0. stage'[c] \in Holding /\ stage[c] \notin Holding /\ Owned(k)
      BY <1>0, <2>2 DEF Holding, Stages
    <3>1. CASE k = has[c]
      <4>1. \A d \in Clients \ {c} : ~ (has[d] = k /\ stage[d] \in Holding)
        BY <2>2, <3>0, <3>1, DiskTypesLemma DEF Owned
      <4> QED
        BY <1>0, <1>2, <2>2, <3>0, <3>1, <4>1 DEF Owned
    <3>2. CASE k # has[c]
      BY <1>0, <1>1, <1>2, <3>0, <3>2 DEF Owned
    <3> QED
      BY <3>1, <3>2
  <2> QED
    BY <1>2, <2>1, <2>2
<1>7. ASSUME NEW i \in Bufs, NEW j \in Bufs PROVE OneBuffer(i, j)'
  BY <1>1 DEF OneBuffer, SameContent
<1>8. Requests'
  <2>1. ASSUME NEW d \in Clients, Waiting(d) \/ Waiting(d)' PROVE SameClient(d)
    BY <1>0, <1>2, <2>1 DEF Waiting, SameClient
  <2>2. ASSUME NEW d \in Clients, Waiting(d) PROVE SameContent(has[d])
    BY <1>1, <2>2, HasBuffer DEF Waiting
  <2> QED
    BY <1>0, <2>1, <2>2, RequestsFrame
<1>9. Latest'
  <2>1. \A d \in Clients : WillWrite(d) => WillWrite(d)' /\ has'[d] = has[d]
    BY <1>0, <1>2 DEF WillWrite
  <2>2. ASSUME NEW d \in Clients, stage'[d] = "written" PROVE SameClient(d) /\ has[d] \in Bufs
    <3>1. d # c
      BY <1>2, <2>2
    <3> QED
      BY <1>0, <1>2, <2>2, <3>1, HasBuffer DEF SameClient
  <2>3. \A k \in pins' : k \in Bufs /\ buf[k].valid
    BY <1>0 DEF Latest, DiskTypes
  <2> QED
    BY <1>0, <1>1, <2>1, <2>2, <2>3, LatestFrame
<1>10. Woken'
  <2>1. \A d \in Clients :
            stage[d] \in {"sleeps", "done", "read", "write"} => stage'[d] = stage[d]
    BY <1>0, <1>2
  <2>2. \A d \in Clients : stage'[d] = "noDesc" => stage[d] = "noDesc"
    BY <1>2
  <2> QED
    BY <1>0, <2>1, <2>2 DEF Woken
<1> QED
  BY <1>3, <1>4, <1>5, <1>6, <1>7, <1>8, <1>9, <1>10

\* releasesleep() gives the lock back and wakes who waits for it.
LEMMA BrelseStep == ASSUME DiskInv, NEW c \in Clients, Brelse(c) PROVE DiskInv'
<1> USE DEF DiskInv
<1>0. /\ stage[c] = "held" /\ has[c] \in Bufs /\ buf[has[c]] \in Buffer /\ has' = has
      /\ UNCHANGED <<free, info, avail, used, irq, handler, platter, pins>>
  BY HasBuffer DEF Brelse, Is, devVars, requestVars
<1>1. /\ buf' \in [Bufs -> Buffer] /\ buf'[has[c]].owner = Nobody
      /\ \A k \in Bufs : SameContent(k) /\ buf'[k].refcnt = buf[k].refcnt
      /\ \A k \in Bufs \ {has[c]} : buf'[k] = buf[k]
  <2> DEFINE r == [buf[has[c]] EXCEPT !.owner = Nobody]
  <2>1. /\ r \in Buffer /\ r.owner = Nobody /\ r.refcnt = buf[has[c]].refcnt
        /\ r.block = buf[has[c]].block /\ r.valid = buf[has[c]].valid
        /\ r.data = buf[has[c]].data
    BY <1>0 DEF Buffer
  <2>2. Kept(c, r)
    BY DEF Brelse, MyBuf
  <2> HIDE DEF r
  <2>3. /\ buf' \in [Bufs -> Buffer] /\ buf'[has[c]] = r
        /\ \A k \in Bufs \ {has[c]} : buf'[k] = buf[k]
    BY <1>0, <2>1, <2>2, KeptEffect
  <2> QED
    BY <2>1, <2>3 DEF SameContent
<1>2. /\ stage' = [d \in Clients |-> IF d = c THEN "release"
                                     ELSE IF stage[d] = "waits" /\ has[d] = has[c] THEN "lock"
                                     ELSE stage[d]]
      /\ stage' \in [Clients -> Stages]
  BY DEF Brelse, Is, DiskTypes, Stages
<1>3. DiskTypes'
  BY <1>0, <1>1, <1>2 DEF DiskTypes
<1>4. ASSUME NEW d \in Clients PROVE Uses(d)'
  <2>0. stage[d] # "idle" => has[d] \in Bufs
    BY HasBuffer
  <2>1. CASE d = c \/ (stage[d] = "waits" /\ has[d] = has[c])
    <3>1. stage'[d] \in {"release", "lock"} /\ stage[d] # "idle"
      BY <1>0, <1>2, <2>1
    <3> QED
      BY <1>0, <1>1, <2>0, <3>1 DEF Uses, SameContent
  <2>2. CASE ~ (d = c \/ (stage[d] = "waits" /\ has[d] = has[c]))
    <3>1. SameClient(d)
      BY <1>0, <1>2, <2>2 DEF SameClient
    <3>2. stage[d] = "waits" => buf'[has[d]].owner # Nobody
      BY <1>1, <2>0, <2>2 DEF Uses
    <3> QED
      BY <1>1, <2>0, <3>1, <3>2, UsesFrame
  <2> QED
    BY <2>1, <2>2
<1>5. ASSUME NEW k \in Bufs PROVE Counted(k)'
  BY <1>0, <1>1, CountedFrame
<1>6. ASSUME NEW k \in Bufs PROVE Owned(k)'
  <2>0. /\ \A d \in Clients : stage'[d] \in Holding <=> stage[d] \in Holding /\ d # c
        /\ stage[c] \in Holding
    BY <1>0, <1>2 DEF Holding, Stages
  <2>1. CASE k = has[c]
    <3>1. \A d \in Clients \ {c} : ~ (has[d] = k /\ stage[d] \in Holding)
      BY <1>0, <2>0, <2>1, OneHolder
    <3>2. Nobody \notin Clients
      BY DiskTypesLemma
    <3> QED
      BY <1>0, <1>1, <2>0, <2>1, <3>1, <3>2 DEF Owned
  <2>2. CASE k # has[c]
    BY <1>0, <1>1, <2>0, <2>2 DEF Owned
  <2> QED
    BY <2>1, <2>2
<1>7. ASSUME NEW i \in Bufs, NEW j \in Bufs PROVE OneBuffer(i, j)'
  BY <1>1 DEF OneBuffer, SameContent
<1>8. Requests'
  <2>1. ASSUME NEW d \in Clients, Waiting(d) \/ Waiting(d)' PROVE SameClient(d)
    BY <1>0, <1>2, <2>1 DEF Waiting, SameClient
  <2>2. ASSUME NEW d \in Clients, Waiting(d) PROVE SameContent(has[d])
    BY <1>1, <2>2, HasBuffer DEF Waiting
  <2> QED
    BY <1>0, <2>1, <2>2, RequestsFrame
<1>9. Latest'
  <2>1. \A d \in Clients : WillWrite(d) => WillWrite(d)' /\ has'[d] = has[d]
    BY <1>0, <1>2 DEF WillWrite
  <2>2. ASSUME NEW d \in Clients, stage'[d] = "written" PROVE SameClient(d) /\ has[d] \in Bufs
    <3>1. stage[d] = "written"
      BY <1>2, <2>2
    <3> QED
      BY <1>0, <2>2, <3>1, HasBuffer DEF SameClient
  <2>3. \A k \in pins' : k \in Bufs /\ buf[k].valid
    BY <1>0 DEF Latest, DiskTypes
  <2> QED
    BY <1>0, <1>1, <2>1, <2>2, <2>3, LatestFrame
<1>10. Woken'
  <2>1. \A d \in Clients :
            stage[d] \in {"sleeps", "done", "read", "write"} => stage'[d] = stage[d]
    BY <1>0, <1>2
  <2>2. \A d \in Clients : stage'[d] = "noDesc" => stage[d] = "noDesc"
    BY <1>2
  <2> QED
    BY <1>0, <2>1, <2>2 DEF Woken
<1> QED
  BY <1>3, <1>4, <1>5, <1>6, <1>7, <1>8, <1>9, <1>10

\* brelse() gives the reference back.
LEMMA UnrefStep == ASSUME DiskInv, NEW c \in Clients, Unref(c) PROVE DiskInv'
<1> USE DEF DiskInv
<1>0. /\ stage[c] = "release" /\ has[c] \in Bufs /\ buf[has[c]] \in Buffer
      /\ has' = [has EXCEPT ![c] = 0]
      /\ UNCHANGED <<free, info, avail, used, irq, handler, platter, pins>>
  BY HasBuffer DEF Unref, Is, devVars, requestVars
<1>1. PICK k \in Bufs : k = has[c]
  BY <1>0
<1>2. /\ has' \in [Clients -> Bufs \union {0}] /\ has'[c] = 0
      /\ \A d \in Clients \ {c} : has'[d] = has[d]
  BY <1>0 DEF DiskTypes
<1>3. /\ stage' \in [Clients -> Stages] /\ stage'[c] = "idle"
      /\ \A d \in Clients \ {c} : stage'[d] = stage[d]
  BY TurnsEffect DEF Unref, Stages
<1>4. c \in Users(k) /\ Users(k)' = Users(k) \ {c}
  BY <1>1, <1>2, DiskTypesLemma DEF Users
<1>5. /\ Cardinality(Users(k)) \in Nat /\ Cardinality(Users(k)) >= 1
      /\ Cardinality(Users(k)') = Cardinality(Users(k)) - 1
  BY <1>4, UserCount
<1>6. buf[k].refcnt \in Nat /\ buf[k].refcnt - 1 \in Nat
  <2>1. Counted(k)
    OBVIOUS
  <2> QED
    BY <1>5, <2>1 DEF Counted
<1>7. /\ buf' \in [Bufs -> Buffer] /\ buf'[k].refcnt = buf[k].refcnt - 1
      /\ \A j \in Bufs : SameContent(j) /\ buf'[j].owner = buf[j].owner
      /\ \A j \in Bufs \ {k} : buf'[j] = buf[j]
  <2> DEFINE r == [buf[k] EXCEPT !.refcnt = @ - 1]
  <2>1. /\ r \in Buffer /\ r.owner = buf[k].owner /\ r.refcnt = buf[k].refcnt - 1
        /\ r.block = buf[k].block /\ r.valid = buf[k].valid /\ r.data = buf[k].data
    BY <1>0, <1>1, <1>6 DEF Buffer
  <2>2. Kept(c, r)
    BY <1>1 DEF Unref, MyBuf
  <2> HIDE DEF r
  <2>3. buf' \in [Bufs -> Buffer] /\ buf'[k] = r /\ \A j \in Bufs \ {k} : buf'[j] = buf[j]
    BY <1>0, <1>1, <2>1, <2>2, KeptEffect
  <2> QED
    BY <2>1, <2>3 DEF SameContent
<1>8. k # 0
  BY DiskTypesLemma
<1>9. DiskTypes'
  BY <1>0, <1>2, <1>3, <1>7 DEF DiskTypes
<1>10. ASSUME NEW d \in Clients PROVE Uses(d)'
  <2>1. CASE d = c
    BY <1>2, <1>3, <2>1 DEF Uses
  <2>2. CASE d # c
    <3>1. SameClient(d) /\ (stage[d] # "idle" => has[d] \in Bufs)
      BY <1>2, <1>3, <2>2, HasBuffer DEF SameClient
    <3> QED
      BY <1>7, <3>1, UsesFrame DEF Uses
  <2> QED
    BY <2>1, <2>2
<1>11. ASSUME NEW j \in Bufs PROVE Counted(j)'
  <2>1. Counted(j)
    OBVIOUS
  <2>2. CASE j = k
    BY <1>0, <1>5, <1>6, <1>7, <2>1, <2>2 DEF Counted
  <2>3. CASE j # k
    <3>1. Users(j)' = Users(j)
      BY <1>2, <1>1, <1>8, <2>3, UsersStay, DiskTypesLemma
    <3> QED
      BY <1>0, <1>7, <2>1, <2>3, <3>1 DEF Counted
  <2> QED
    BY <2>2, <2>3
<1>12. ASSUME NEW j \in Bufs PROVE Owned(j)'
  <2>1. \A d \in Clients : has'[d] = j /\ stage'[d] \in Holding
                             <=> has[d] = j /\ stage[d] \in Holding
    BY <1>0, <1>2, <1>3 DEF Holding, Stages
  <2> QED
    BY <1>7, <2>1, OwnedFrame
<1>13. ASSUME NEW i \in Bufs, NEW j \in Bufs PROVE OneBuffer(i, j)'
  BY <1>7 DEF OneBuffer, SameContent
<1>14. Requests'
  <2>1. ASSUME NEW d \in Clients, Waiting(d) \/ Waiting(d)' PROVE SameClient(d)
    BY <1>0, <1>2, <1>3, <2>1 DEF Waiting, SameClient
  <2>2. ASSUME NEW d \in Clients, Waiting(d) PROVE SameContent(has[d])
    BY <1>7, <2>2, HasBuffer DEF Waiting
  <2> QED
    BY <1>0, <2>1, <2>2, RequestsFrame
<1>15. Latest'
  <2>1. \A d \in Clients : WillWrite(d) => WillWrite(d)' /\ has'[d] = has[d]
    BY <1>0, <1>2, <1>3 DEF WillWrite
  <2>2. ASSUME NEW d \in Clients, stage'[d] = "written" PROVE SameClient(d) /\ has[d] \in Bufs
    <3>1. d # c
      BY <1>3, <2>2
    <3> QED
      BY <1>2, <1>3, <2>2, <3>1, HasBuffer DEF SameClient
  <2>3. \A j \in pins' : j \in Bufs /\ buf[j].valid
    BY <1>0 DEF Latest, DiskTypes
  <2> QED
    BY <1>0, <1>7, <2>1, <2>2, <2>3, LatestFrame
<1>16. Woken'
  <2>1. \A d \in Clients :
            stage[d] \in {"sleeps", "done", "read", "write"} => stage'[d] = stage[d]
    BY <1>0, <1>3
  <2>2. \A d \in Clients : stage'[d] = "noDesc" => stage[d] = "noDesc"
    BY <1>3
  <2> QED
    BY <1>0, <2>1, <2>2 DEF Woken
<1> QED
  BY <1>9, <1>10, <1>11, <1>12, <1>13, <1>14, <1>15, <1>16

\* The holder of the lock changes the content: it is in this buffer only.
LEMMA ModifyStep == ASSUME DiskInv, NEW c \in Clients, Modify(c) PROVE DiskInv'
<1> USE DEF DiskInv
<1>0. /\ stage[c] = "held" /\ has[c] \in Bufs /\ buf[has[c]] \in Buffer /\ has' = has
      /\ buf[has[c]].block \in Sectors /\ buf[has[c]].block # 0 /\ buf[has[c]].valid
      /\ platter' = platter \ {buf[has[c]].block}
      /\ UNCHANGED <<free, info, avail, used, irq, handler, pins>>
  BY HasBuffer DEF Modify, Is, requestVars, MyBuf, Uses
<1>1. /\ stage' \in [Clients -> Stages] /\ stage'[c] = "dirty"
      /\ \A d \in Clients \ {c} : stage'[d] = stage[d]
  BY TurnsEffect DEF Modify, Stages
<1>2. \A k \in Bufs : buf[k].block = buf[has[c]].block => k = has[c]
  BY <1>0 DEF OneBuffer
<1>3. /\ buf' \in [Bufs -> Buffer] /\ buf'[has[c]].data
      /\ \A k \in Bufs : /\ buf'[k].block = buf[k].block /\ buf'[k].valid = buf[k].valid
                         /\ buf'[k].owner = buf[k].owner /\ buf'[k].refcnt = buf[k].refcnt
      /\ \A k \in Bufs \ {has[c]} : buf'[k] = buf[k]
  <2>1. ASSUME NEW k \in Bufs
        PROVE  buf'[k] = IF k = has[c] THEN [buf[k] EXCEPT !.data = TRUE] ELSE buf[k]
    BY <1>2, <2>1 DEF Modify, MyBuf
  <2>2. \A k \in Bufs : buf[k] \in Buffer
    BY DiskTypesLemma
  <2>3. ASSUME NEW k \in Bufs
        PROVE  /\ buf'[k] \in Buffer
               /\ buf'[k].block = buf[k].block /\ buf'[k].valid = buf[k].valid
               /\ buf'[k].owner = buf[k].owner /\ buf'[k].refcnt = buf[k].refcnt
               /\ k = has[c] => buf'[k].data
    <3>1. CASE k = has[c]
      BY <2>1, <2>2, <3>1 DEF Buffer
    <3>2. CASE k # has[c]
      BY <2>1, <2>2, <3>2
    <3> QED
      BY <3>1, <3>2
  <2>4. buf' \in [Bufs -> Buffer]
    BY <2>3 DEF Modify
  <2> QED
    BY <1>0, <2>1, <2>3, <2>4
<1>4. DiskTypes'
  BY <1>0, <1>1, <1>3 DEF DiskTypes
<1>5. ASSUME NEW d \in Clients PROVE Uses(d)'
  <2>1. Uses(d) /\ (stage[d] # "idle" => has[d] \in Bufs)
    BY HasBuffer
  <2> QED
    BY <1>0, <1>1, <1>3, <2>1 DEF Uses
<1>6. ASSUME NEW k \in Bufs PROVE Counted(k)'
  BY <1>0, <1>3, CountedFrame
<1>7. ASSUME NEW k \in Bufs PROVE Owned(k)'
  <2>1. \A d \in Clients : stage'[d] \in Holding <=> stage[d] \in Holding
    BY <1>0, <1>1 DEF Holding, Stages
  <2> QED
    BY <1>0, <1>3, <2>1, OwnedFrame
<1>8. ASSUME NEW i \in Bufs, NEW j \in Bufs PROVE OneBuffer(i, j)'
  BY <1>3 DEF OneBuffer
<1>9. ASSUME NEW d \in Clients \ {c}, stage[d] \in Holding
      PROVE  /\ has[d] \in Bufs /\ SameContent(has[d])
             /\ buf[has[d]].block \in platter => buf[has[d]].block \in platter'
  <2>1. has[d] \in Bufs
    BY <1>9, HasBuffer DEF Holding
  <2>2. has[d] # has[c]
    <3>1. stage[c] \in Holding
      BY <1>0 DEF Holding, Stages
    <3> QED
      BY <1>9, <2>1, <3>1, OneHolder
  <2> QED
    BY <1>0, <1>2, <1>3, <2>1, <2>2 DEF SameContent
<1>10. Requests'
  <2>1. ASSUME NEW d \in Clients, Waiting(d) \/ Waiting(d)'
        PROVE  SameClient(d) /\ d # c
    BY <1>0, <1>1, <2>1 DEF Waiting, SameClient
  <2>2. ASSUME NEW d \in Clients, Waiting(d) PROVE stage[d] \in Holding /\ d # c
    BY <2>1, <2>2 DEF Waiting, Holding, Stages
  <2> QED
    BY <1>0, <1>9, <2>1, <2>2, RequestsFrame
<1>11. Latest'
  <2>1. \A k \in Bufs : buf'[k].valid => buf'[k].data
    BY <1>3 DEF Latest
  <2>2. \A k \in pins' : buf'[k].valid
    BY <1>0, <1>3 DEF Latest, DiskTypes
  <2>3. ASSUME NEW s \in Sectors \ platter'
        PROVE  \E k \in Bufs : (buf[k].block = s /\ Dirty(k))'
    <3>1. CASE s = buf[has[c]].block
      <4>1. WillWrite(c)'
        BY <1>1 DEF WillWrite
      <4> QED
        BY <1>0, <1>3, <3>1, <4>1 DEF Dirty
    <3>2. CASE s # buf[has[c]].block
      <4>1. PICK k \in Bufs : buf[k].block = s /\ Dirty(k)
        BY <1>0, <2>3, <3>2 DEF Latest
      <4>2. \A d \in Clients : WillWrite(d) => WillWrite(d)'
        BY <1>0, <1>1 DEF WillWrite
      <4> QED
        BY <1>0, <1>3, <4>1, <4>2 DEF Dirty
    <3> QED
      BY <3>1, <3>2
  <2>4. ASSUME NEW d \in Clients, stage'[d] = "written" PROVE buf'[has'[d]].block \in platter'
    <3>1. d # c /\ stage[d] = "written"
      BY <1>1, <2>4
    <3>2. stage[d] \in Holding /\ buf[has[d]].block \in platter
      BY <3>1 DEF Latest, Holding, Stages
    <3> QED
      BY <1>0, <1>9, <3>1, <3>2 DEF SameContent
  <2> QED
    BY <2>1, <2>2, <2>3, <2>4 DEF Latest
<1>12. Woken'
  <2>1. \A d \in Clients :
            stage[d] \in {"sleeps", "done", "read", "write"} => stage'[d] = stage[d]
    BY <1>0, <1>1
  <2>2. \A d \in Clients : stage'[d] = "noDesc" => stage[d] = "noDesc"
    BY <1>1
  <2> QED
    BY <1>0, <2>1, <2>2 DEF Woken
<1> QED
  BY <1>4, <1>5, <1>6, <1>7, <1>8, <1>10, <1>11, <1>12

\* bwrite() begins.
LEMMA BwriteStep == ASSUME DiskInv, NEW c \in Clients, Bwrite(c) PROVE DiskInv'
<1> USE DEF DiskInv
<1>0. /\ stage[c] \in {"dirty", "held"} /\ has[c] \in Bufs /\ has' = has /\ buf' = buf
      /\ UNCHANGED <<free, info, avail, used, irq, handler, platter, pins>>
  BY HasBuffer DEF Bwrite, Is, devVars, requestVars
<1>1. /\ stage' \in [Clients -> Stages] /\ stage'[c] = "write"
      /\ \A d \in Clients \ {c} : stage'[d] = stage[d]
  BY TurnsEffect DEF Bwrite, Stages
<1>2. DiskTypes'
  BY <1>0, <1>1 DEF DiskTypes
<1>3. ASSUME NEW d \in Clients PROVE Uses(d)'
  BY <1>0, <1>1 DEF Uses
<1>4. ASSUME NEW k \in Bufs PROVE Counted(k)'
  BY <1>0, CountedFrame
<1>5. ASSUME NEW k \in Bufs PROVE Owned(k)'
  <2>1. \A d \in Clients : stage'[d] \in Holding <=> stage[d] \in Holding
    BY <1>0, <1>1 DEF Holding, Stages
  <2> QED
    BY <1>0, <2>1, OwnedFrame
<1>6. ASSUME NEW i \in Bufs, NEW j \in Bufs PROVE OneBuffer(i, j)'
  BY <1>0 DEF OneBuffer
<1>7. Requests'
  <2>1. ASSUME NEW d \in Clients, Waiting(d) \/ Waiting(d)' PROVE SameClient(d)
    BY <1>0, <1>1, <2>1 DEF Waiting, SameClient
  <2>2. \A d \in Clients : SameContent(has[d])
    BY <1>0 DEF SameContent
  <2> QED
    BY <1>0, <2>1, <2>2, RequestsFrame
<1>8. Latest'
  <2>1. \A d \in Clients : WillWrite(d) => WillWrite(d)' /\ has'[d] = has[d]
    BY <1>0, <1>1 DEF WillWrite
  <2>2. ASSUME NEW d \in Clients, stage'[d] = "written" PROVE SameClient(d) /\ has[d] \in Bufs
    <3>1. d # c
      BY <1>1, <2>2
    <3> QED
      BY <1>0, <1>1, <2>2, <3>1, HasBuffer DEF SameClient
  <2>3. \A k \in Bufs : SameContent(k)
    BY <1>0 DEF SameContent
  <2>4. \A k \in pins' : k \in Bufs /\ buf[k].valid
    BY <1>0 DEF Latest, DiskTypes
  <2> QED
    BY <1>0, <2>1, <2>2, <2>3, <2>4, LatestFrame
<1>9. Woken'
  <2>1. \A d \in Clients :
            stage[d] \in {"sleeps", "done", "read", "write"} => stage'[d] = stage[d]
    BY <1>0, <1>1
  <2>2. \A d \in Clients : stage'[d] = "noDesc" => stage[d] = "noDesc"
    BY <1>1
  <2> QED
    BY <1>0, <2>1, <2>2 DEF Woken
<1> QED
  BY <1>2, <1>3, <1>4, <1>5, <1>6, <1>7, <1>8, <1>9

\* bpin() and bunpin() set refcnt and go back to holding the buffer.
LEMMA PinEffect ==
    ASSUME DiskTypes, NEW c \in Clients, has[c] \in Bufs, NEW n \in Nat,
           Kept(c, [buf[has[c]] EXCEPT !.refcnt = n]), Turns(c, "held")
    PROVE  /\ buf' \in [Bufs -> Buffer] /\ buf'[has[c]].refcnt = n
           /\ \A k \in Bufs : SameContent(k) /\ buf'[k].owner = buf[k].owner
           /\ \A k \in Bufs \ {has[c]} : buf'[k] = buf[k]
           /\ stage' \in [Clients -> Stages] /\ stage'[c] = "held"
           /\ \A d \in Clients \ {c} : stage'[d] = stage[d]
<1> DEFINE r == [buf[has[c]] EXCEPT !.refcnt = n]
<1>1. buf[has[c]] \in Buffer
  BY DiskTypesLemma
<1>2. /\ r \in Buffer /\ r.owner = buf[has[c]].owner /\ r.refcnt = n
      /\ r.block = buf[has[c]].block /\ r.valid = buf[has[c]].valid
      /\ r.data = buf[has[c]].data
  BY <1>1 DEF Buffer
<1>3. Kept(c, r)
  OBVIOUS
<1> HIDE DEF r
<1>4. /\ buf' \in [Bufs -> Buffer] /\ buf'[has[c]] = r
      /\ \A k \in Bufs \ {has[c]} : buf'[k] = buf[k]
  BY <1>2, <1>3, KeptEffect
<1>5. /\ stage' \in [Clients -> Stages] /\ stage'[c] = "held"
      /\ \A d \in Clients \ {c} : stage'[d] = stage[d]
  BY TurnsEffect DEF Stages
<1> QED
  BY <1>2, <1>4, <1>5 DEF SameContent

\* What bpin() and bunpin() have in common: k is the buffer of c, pinned or not.
LEMMA PinStep ==
    ASSUME DiskInv, NEW c \in Clients, stage[c] \in {"dirty", "written"}, has' = has,
           NEW k \in Bufs, k = has[c],
           UNCHANGED <<free, info, avail, used, irq, handler, platter>>,
           buf' \in [Bufs -> Buffer],
           \A j \in Bufs : SameContent(j) /\ buf'[j].owner = buf[j].owner,
           \A j \in Bufs \ {k} : buf'[j] = buf[j],
           stage' \in [Clients -> Stages], stage'[c] = "held",
           \A d \in Clients \ {c} : stage'[d] = stage[d],
           \A j \in Bufs \ {k} : j \in pins' <=> j \in pins,
           pins' \subseteq Bufs,
           k \in pins' \/ buf[k].block \in platter,
           buf'[k].refcnt = Cardinality(Users(k)) + IF k \in pins' THEN 1 ELSE 0
    PROVE  DiskInv'
<1> USE DEF DiskInv
<1>1. DiskTypes'
  BY DEF DiskTypes
<1>2. ASSUME NEW d \in Clients PROVE Uses(d)'
  <2>1. Uses(d) /\ (stage[d] # "idle" => has[d] \in Bufs)
    BY HasBuffer
  <2> QED
    BY <2>1 DEF Uses, SameContent
<1>3. ASSUME NEW j \in Bufs PROVE Counted(j)'
  <2>1. Counted(j) /\ Users(j)' = Users(j)
    BY DEF Users
  <2> QED
    BY <2>1 DEF Counted
<1>4. ASSUME NEW j \in Bufs PROVE Owned(j)'
  <2>1. \A d \in Clients : stage'[d] \in Holding <=> stage[d] \in Holding
    BY DEF Holding, Stages
  <2> QED
    BY <2>1, OwnedFrame
<1>5. ASSUME NEW i \in Bufs, NEW j \in Bufs PROVE OneBuffer(i, j)'
  BY DEF OneBuffer, SameContent
<1>6. Requests'
  <2>1. ASSUME NEW d \in Clients, Waiting(d) \/ Waiting(d)' PROVE SameClient(d)
    BY <2>1 DEF Waiting, SameClient
  <2>2. ASSUME NEW d \in Clients, Waiting(d) PROVE SameContent(has[d])
    BY <2>2, HasBuffer DEF Waiting
  <2> QED
    BY <2>1, <2>2, RequestsFrame
<1>7. Latest'
  <2>1. \A j \in Bufs : buf'[j].valid => buf'[j].data
    BY DEF Latest, SameContent
  <2>2. ASSUME NEW j \in pins' PROVE buf'[j].valid
    <3>1. j \in Bufs
      OBVIOUS
    <3>2. CASE j = k
      BY <3>2 DEF Uses, SameContent
    <3>3. CASE j # k
      BY <3>1, <3>3 DEF Latest, SameContent
    <3> QED
      BY <3>2, <3>3
  <2>3. ASSUME NEW s \in Sectors \ platter'
        PROVE  \E j \in Bufs : (buf[j].block = s /\ Dirty(j))'
    <3>1. PICK j \in Bufs : buf[j].block = s /\ Dirty(j)
      BY DEF Latest
    <3>2. buf'[j].block = s /\ buf'[j].valid
      BY <3>1 DEF Dirty, SameContent
    <3>3. CASE j = k
      BY <3>1, <3>2, <3>3 DEF Dirty
    <3>4. CASE j # k
      <4>1. j \in pins \/ \E d \in Clients : has[d] = j /\ WillWrite(d)
        BY <3>1 DEF Dirty
      <4>2. \A d \in Clients : has[d] = j /\ WillWrite(d) => WillWrite(d)'
        BY <3>4 DEF WillWrite
      <4> QED
        BY <3>2, <3>4, <4>1, <4>2 DEF Dirty
    <3> QED
      BY <3>3, <3>4
  <2>4. ASSUME NEW d \in Clients, stage'[d] = "written" PROVE buf'[has'[d]].block \in platter'
    <3>1. d # c /\ stage[d] = "written"
      BY <2>4
    <3>2. has[d] \in Bufs
      BY <3>1, HasBuffer
    <3> QED
      BY <3>1, <3>2 DEF Latest, SameContent
  <2> QED
    BY <2>1, <2>2, <2>3, <2>4 DEF Latest
<1>8. Woken'
  <2>1. \A d \in Clients :
            stage[d] \in {"sleeps", "done", "read", "write"} => stage'[d] = stage[d]
    OBVIOUS
  <2>2. \A d \in Clients : stage'[d] = "noDesc" => stage[d] = "noDesc"
    OBVIOUS
  <2> QED
    BY <2>1, <2>2 DEF Woken
<1> QED
  BY <1>1, <1>2, <1>3, <1>4, <1>5, <1>6, <1>7, <1>8

\* bpin() keeps a buffer with content that is not on the disk.
LEMMA BpinStep == ASSUME DiskInv, NEW c \in Clients, Bpin(c) PROVE DiskInv'
<1> USE DEF DiskInv
<1>0. /\ stage[c] = "dirty" /\ has[c] \in Bufs /\ has' = has
      /\ pins' = pins \union {has[c]}
      /\ UNCHANGED <<free, info, avail, used, irq, handler, platter>>
  BY HasBuffer DEF Bpin, Is, devVars, requestVars
<1>1. PICK k \in Bufs : k = has[c]
  BY <1>0
<1> DEFINE n == IF k \in pins THEN buf[k].refcnt ELSE buf[k].refcnt + 1
<1>2. Counted(k) /\ buf[k].refcnt \in Nat /\ Cardinality(Users(k)) \in Nat
  BY UserCount, DiskTypesLemma
<1>3. n \in Nat /\ n = Cardinality(Users(k)) + 1
  BY <1>2 DEF Counted
<1>4. Kept(c, [buf[has[c]] EXCEPT !.refcnt = n]) /\ Turns(c, "held")
  BY <1>1 DEF Bpin, MyBuf
<1> HIDE DEF n
<1>5. /\ buf' \in [Bufs -> Buffer] /\ buf'[has[c]].refcnt = n
      /\ \A j \in Bufs : SameContent(j) /\ buf'[j].owner = buf[j].owner
      /\ \A j \in Bufs \ {has[c]} : buf'[j] = buf[j]
      /\ stage' \in [Clients -> Stages] /\ stage'[c] = "held"
      /\ \A d \in Clients \ {c} : stage'[d] = stage[d]
  BY <1>0, <1>3, <1>4, PinEffect
<1>6. /\ \A j \in Bufs \ {k} : j \in pins' <=> j \in pins
      /\ pins' \subseteq Bufs /\ k \in pins'
  BY <1>0, <1>1 DEF DiskTypes
<1>7. buf'[k].refcnt = Cardinality(Users(k)) + IF k \in pins' THEN 1 ELSE 0
  BY <1>1, <1>3, <1>5, <1>6
<1> QED
  BY <1>0, <1>1, <1>5, <1>6, <1>7, PinStep

\* bunpin() when the content is on the disk.
LEMMA BunpinStep == ASSUME DiskInv, NEW c \in Clients, Bunpin(c) PROVE DiskInv'
<1> USE DEF DiskInv
<1>0. /\ stage[c] = "written" /\ has[c] \in Bufs /\ has' = has
      /\ pins' = pins \ {has[c]} /\ buf[has[c]].block \in platter
      /\ UNCHANGED <<free, info, avail, used, irq, handler, platter>>
  BY HasBuffer DEF Bunpin, Is, devVars, requestVars, Latest
<1>1. PICK k \in Bufs : k = has[c]
  BY <1>0
<1> DEFINE n == IF k \in pins THEN buf[k].refcnt - 1 ELSE buf[k].refcnt
<1>2. Counted(k) /\ buf[k].refcnt \in Nat /\ Cardinality(Users(k)) \in Nat
  BY UserCount, DiskTypesLemma
<1>3. n \in Nat /\ n = Cardinality(Users(k))
  BY <1>2 DEF Counted
<1>4. Kept(c, [buf[has[c]] EXCEPT !.refcnt = n]) /\ Turns(c, "held")
  BY <1>1 DEF Bunpin, MyBuf
<1> HIDE DEF n
<1>5. /\ buf' \in [Bufs -> Buffer] /\ buf'[has[c]].refcnt = n
      /\ \A j \in Bufs : SameContent(j) /\ buf'[j].owner = buf[j].owner
      /\ \A j \in Bufs \ {has[c]} : buf'[j] = buf[j]
      /\ stage' \in [Clients -> Stages] /\ stage'[c] = "held"
      /\ \A d \in Clients \ {c} : stage'[d] = stage[d]
  BY <1>0, <1>3, <1>4, PinEffect
<1>6. /\ \A j \in Bufs \ {k} : j \in pins' <=> j \in pins
      /\ pins' \subseteq Bufs /\ k \notin pins'
  BY <1>0, <1>1 DEF DiskTypes
<1>7. buf'[k].refcnt = Cardinality(Users(k)) + IF k \in pins' THEN 1 ELSE 0
  BY <1>1, <1>2, <1>3, <1>5, <1>6
<1> QED
  BY <1>0, <1>1, <1>5, <1>6, <1>7, PinStep

\* A request for the driver: alloc3_desc() found three descriptors.
LEMMA SubmitStep == ASSUME DiskInv, NEW c \in Clients, Submit(c) PROVE DiskInv'
<1> USE DEF DiskInv
<1>0. /\ stage[c] \in {"read", "write"} /\ has[c] \in Bufs /\ buf[has[c]] \in Buffer
      /\ has[c] # 0
      /\ stage[c] = "write" <=> buf[has[c]].valid
      /\ UNCHANGED <<used, irq, handler, has, platter, pins>>
  BY HasBuffer, DiskTypesLemma DEF Submit, Is, Uses
<1>1. PICK head \in Lowest(1, free) :
        /\ free' = free \ Lowest(3, free)
        /\ info' = [info EXCEPT ![head] = [buf |-> has[c], write |-> Is(c, "write"),
                                           chain |-> Lowest(3, free)]]
        /\ avail' = avail \union {head}
  BY DEF Submit
<1>2. PICK chain \in SUBSET Descs :
        chain = Lowest(3, free) /\ head \in chain /\ chain \subseteq free
  <2>1. free \subseteq Descs /\ free \subseteq Nat
    BY DescsAreNat DEF DiskTypes
  <2>2. head \in Lowest(3, free) /\ Lowest(3, free) \subseteq free
    BY <2>1, LowestLemma
  <2> QED
    BY <2>1, <2>2
<1>3. /\ head \in Descs /\ head \in free /\ info[head].chain = {}
      /\ head \notin avail /\ head \notin used
  BY <1>2 DEF Requests, RequestFits, Busy
<1>4. /\ info' \in [Descs -> Request]
      /\ info'[head].buf = has[c] /\ info'[head].chain = chain
      /\ info'[head].write <=> buf[has[c]].valid
      /\ \A h \in Descs \ {head} : info'[h] = info[h]
  <2> DEFINE r == [buf |-> has[c], write |-> Is(c, "write"), chain |-> chain]
  <2>1. /\ r \in Request /\ r.buf = has[c] /\ r.chain = chain
        /\ r.write <=> buf[has[c]].valid
    <3>1. /\ r \in Request /\ r.buf = has[c] /\ r.chain = chain
          /\ r.write = (stage[c] = "write")
      BY <1>0 DEF Request, Is
    <3> QED
      BY <1>0, <3>1, Zenon
  <2>2. info' = [info EXCEPT ![head] = r] /\ info \in [Descs -> Request]
    BY <1>1, <1>2 DEF DiskTypes
  <2> HIDE DEF r
  <2> QED
    BY <1>3, <2>1, <2>2
<1>5. /\ buf' \in [Bufs -> Buffer]
      /\ \A k \in Bufs : /\ SameContent(k) /\ buf'[k].owner = buf[k].owner
                         /\ buf'[k].refcnt = buf[k].refcnt
  <2> DEFINE r == [buf[has[c]] EXCEPT !.disk = TRUE]
  <2>1. /\ r \in Buffer /\ r.owner = buf[has[c]].owner /\ r.refcnt = buf[has[c]].refcnt
        /\ r.block = buf[has[c]].block /\ r.valid = buf[has[c]].valid
        /\ r.data = buf[has[c]].data
    BY <1>0 DEF Buffer
  <2>2. Kept(c, r)
    BY DEF Submit, MyBuf
  <2> HIDE DEF r
  <2>3. /\ buf' \in [Bufs -> Buffer] /\ buf'[has[c]] = r
        /\ \A k \in Bufs \ {has[c]} : buf'[k] = buf[k]
    BY <1>0, <2>1, <2>2, KeptEffect
  <2> QED
    BY <2>1, <2>3 DEF SameContent
<1>6. /\ stage' \in [Clients -> Stages] /\ stage'[c] = "sleeps"
      /\ \A d \in Clients \ {c} : stage'[d] = stage[d]
  BY TurnsEffect DEF Submit, Stages
<1>7. DiskTypes'
  BY <1>0, <1>1, <1>3, <1>4, <1>5, <1>6 DEF DiskTypes
<1>8. ASSUME NEW d \in Clients PROVE Uses(d)'
  <2>1. Uses(d) /\ (stage[d] # "idle" => has[d] \in Bufs)
    BY HasBuffer
  <2> QED
    BY <1>0, <1>5, <1>6, <2>1 DEF Uses, SameContent
<1>9. ASSUME NEW k \in Bufs PROVE Counted(k)'
  BY <1>0, <1>5, CountedFrame
<1>10. ASSUME NEW k \in Bufs PROVE Owned(k)'
  <2>1. \A d \in Clients : stage'[d] \in Holding <=> stage[d] \in Holding
    BY <1>0, <1>6 DEF Holding, Stages
  <2> QED
    BY <1>0, <1>5, <2>1, OwnedFrame
<1>11. ASSUME NEW i \in Bufs, NEW j \in Bufs PROVE OneBuffer(i, j)'
  BY <1>5 DEF OneBuffer, SameContent
<1>12. ASSUME NEW h \in Descs \ {head}
       PROVE  /\ RequestFits(h)' /\ (Busy(h)' <=> Busy(h))
              /\ Busy(h) => info[h].buf # has[c]
              /\ info'[h].chain = info[h].chain
  <2>1. RequestFits(h) /\ info'[h] = info[h]
    BY <1>4 DEF Requests
  <2>2. CASE ~ Busy(h)
    BY <1>0, <1>1, <2>1, <2>2 DEF RequestFits, Busy
  <2>3. CASE Busy(h)
    <3>1. PICK d \in Clients :
            /\ has[d] = info[h].buf
            /\ stage[d] = IF h \in avail \union used THEN "sleeps" ELSE "done"
      BY <2>1, <2>3 DEF RequestFits
    <3>2. d # c /\ stage'[d] = stage[d] /\ has'[d] = has[d]
      BY <1>0, <1>6, <3>1
    <3>3. stage[d] \in Holding /\ stage[c] \in Holding
      BY <1>0, <3>1 DEF Holding, Stages
    <3>4. info[h].buf # has[c]
      BY <1>0, <3>1, <3>2, <3>3, OneHolder
    <3>5. info[h].buf \in Bufs /\ SameContent(info[h].buf)
      BY <1>5, <2>1, <2>3, DiskTypesLemma DEF RequestFits
    <3>6. h \in avail' <=> h \in avail
      BY <1>1
    <3> QED
      BY <1>0, <2>1, <2>3, <3>1, <3>2, <3>4, <3>5, <3>6 DEF RequestFits, Busy, SameContent
  <2> QED
    BY <2>2, <2>3
<1>13. Requests'
  <2>1. RequestFits(head)' /\ Busy(head)'
    <3>1. info'[head].write <=> buf'[info'[head].buf].valid
      <4>1. buf'[has[c]].valid = buf[has[c]].valid
        BY <1>0, <1>5 DEF SameContent
      <4> QED
        BY <1>4, <4>1, Zenon
    <3>2. has'[c] = info'[head].buf /\ stage'[c] = "sleeps" /\ head \in avail'
      BY <1>0, <1>1, <1>4, <1>6
    <3>3. Busy(head)' /\ head \in info'[head].chain /\ head \notin used' /\ info'[head].buf # 0
      BY <1>0, <1>2, <1>3, <1>4 DEF Busy
    <3> QED
      BY <3>1, <3>2, <3>3 DEF RequestFits
  <2>2. ASSUME NEW h \in Descs PROVE RequestFits(h)' /\ (info[h].chain \intersect free = {})'
    <3>1. info[h].chain \intersect free = {}
      BY DEF Requests
    <3>2. CASE h = head
      BY <1>1, <1>2, <1>4, <2>1, <3>2
    <3>3. CASE h # head
      BY <1>1, <1>12, <3>1, <3>3
    <3> QED
      BY <3>2, <3>3
  <2>3. ASSUME NEW d \in Clients PROVE HasRequest(d)'
    <3>1. CASE d = c
      BY <1>0, <1>3, <1>4, <2>1, <3>1 DEF HasRequest, Busy
    <3>2. CASE d # c
      <4>1. HasRequest(d)
        BY DEF Requests
      <4>2. \A h \in Descs : Busy(h) => h # head
        BY <1>3 DEF Busy
      <4> QED
        BY <1>0, <1>4, <1>6, <3>2, <4>1, <4>2 DEF HasRequest, Busy
    <3> QED
      BY <3>1, <3>2
  <2>4. ASSUME NEW h \in Descs, NEW g \in Descs PROVE Apart(h, g)'
    <3>1. Apart(h, g)
      BY DEF Requests
    <3>2. ASSUME NEW i \in Descs \ {head}
          PROVE  info[i].chain \intersect chain = {} /\ (Busy(i)' => info'[i].buf # has[c])
      BY <1>2, <1>4, <1>12 DEF Requests
    <3>3. CASE h = head /\ g # head
      BY <1>4, <3>2, <3>3 DEF Apart
    <3>4. CASE g = head /\ h # head
      BY <1>4, <3>2, <3>4 DEF Apart
    <3>5. CASE g # head /\ h # head
      BY <1>4, <1>12, <3>1, <3>5 DEF Apart, Busy
    <3> QED
      BY <3>3, <3>4, <3>5 DEF Apart
  <2>5. AllDescs' = AllDescs
    <3>1. ASSUME NEW x \in AllDescs' PROVE x \in AllDescs
      <4>1. CASE x \in free'
        BY <1>1, <4>1 DEF AllDescs
      <4>2. ASSUME NEW h \in Descs, x \in info'[h].chain PROVE x \in AllDescs
        BY <1>2, <1>4, <4>2 DEF AllDescs
      <4> QED
        BY <4>1, <4>2 DEF AllDescs
    <3>2. ASSUME NEW x \in AllDescs PROVE x \in AllDescs'
      <4>1. CASE x \in free
        BY <1>1, <1>2, <1>3, <1>4, <4>1 DEF AllDescs
      <4>2. ASSUME NEW h \in Descs, x \in info[h].chain PROVE x \in AllDescs'
        <5>1. h # head
          BY <1>3, <4>2
        <5> QED
          BY <1>4, <4>2, <5>1 DEF AllDescs
      <4> QED
        BY <4>1, <4>2 DEF AllDescs
    <3> QED
      BY <3>1, <3>2
  <2> QED
    BY <2>2, <2>3, <2>4, <2>5 DEF Requests
<1>14. Latest'
  <2>1. \A k \in Bufs : buf'[k].valid => buf'[k].data
    BY <1>5 DEF Latest, SameContent
  <2>2. \A k \in pins' : buf'[k].valid
    BY <1>0, <1>5 DEF Latest, SameContent, DiskTypes
  <2>3. ASSUME NEW d \in Clients, WillWrite(d) PROVE WillWrite(d)'
    <3>1. CASE d = c
      BY <1>0, <1>1, <1>4, <1>6, <3>1 DEF WillWrite
    <3>2. CASE d # c /\ stage[d] = "sleeps"
      <4>1. PICK h \in avail : info[h].buf = has[d]
        BY <2>3, <3>2 DEF WillWrite
      <4>2. h \in Descs \ {head}
        BY <1>3 DEF DiskTypes
      <4> QED
        BY <1>0, <1>1, <1>4, <1>6, <3>2, <4>1, <4>2 DEF WillWrite
    <3>3. CASE d # c /\ stage[d] # "sleeps"
      BY <1>6, <2>3, <3>3 DEF WillWrite
    <3> QED
      BY <3>1, <3>2, <3>3
  <2>4. ASSUME NEW s \in Sectors \ platter'
        PROVE  \E k \in Bufs : (buf[k].block = s /\ Dirty(k))'
    <3>1. PICK k \in Bufs : buf[k].block = s /\ Dirty(k)
      BY <1>0 DEF Latest
    <3> QED
      BY <1>0, <1>5, <2>3, <3>1 DEF Dirty, SameContent
  <2>5. ASSUME NEW d \in Clients, stage'[d] = "written" PROVE buf'[has'[d]].block \in platter'
    <3>1. stage[d] = "written"
      BY <1>6, <2>5
    <3>2. has[d] \in Bufs
      BY <3>1, HasBuffer
    <3> QED
      BY <1>0, <1>5, <3>1, <3>2 DEF Latest, SameContent
  <2> QED
    BY <2>1, <2>2, <2>4, <2>5 DEF Latest
<1>15. Woken'
  BY <1>0, <1>6 DEF Woken
<1> QED
  BY <1>7, <1>8, <1>9, <1>10, <1>11, <1>13, <1>14, <1>15

\* When fewer than three descriptors are free, a request is under way.
LEMMA NotAllFree ==
    ASSUME DiskTypes, Requests, Cardinality(free) < 3
    PROVE  \E d \in Clients : stage[d] \in {"sleeps", "done"}
<1>1. PICK n \in NDescs : AllDescs = 0 .. n - 1
  BY DEF Requests
<1>2. n \in Nat /\ n >= 3 /\ 0 \in Int /\ n - 1 \in Int
  BY <1>1, DiskAssumption
<1>3. Cardinality(0 .. n - 1) = n
  <2>1. Cardinality(0 .. n - 1) = IF 0 > n - 1 THEN 0 ELSE (n - 1) - 0 + 1
    BY <1>2, FS_Interval
  <2> QED
    BY <1>2, <2>1
<1>4. free # AllDescs
  BY <1>1, <1>2, <1>3
<1>5. PICK h \in Descs : info[h].chain # {}
  BY <1>4 DEF AllDescs
<1> QED
  BY <1>5 DEF Requests, RequestFits, Busy

\* alloc3_desc() failed: the client waits for descriptors.
LEMMA SubmitFailsStep == ASSUME DiskInv, NEW c \in Clients, SubmitFails(c) PROVE DiskInv'
<1> USE DEF DiskInv
<1>0. /\ stage[c] \in {"read", "write"} /\ has' = has /\ buf' = buf
      /\ UNCHANGED <<free, info, avail, used, irq, handler, platter, pins>>
  BY DEF SubmitFails, Is, AllocFails
<1>1. /\ stage' \in [Clients -> Stages] /\ stage'[c] = "noDesc"
      /\ \A d \in Clients \ {c} :
            stage'[d] = stage[d] \/ (stage[d] = "noDesc" /\ stage'[d] = WakeForDesc[d])
  <2>1. CASE free = {}
    <3>1. stage' = [stage EXCEPT ![c] = "noDesc"]
      BY <2>1 DEF SubmitFails
    <3> QED
      BY <3>1 DEF DiskTypes, Stages
  <2>2. CASE free # {}
    <3>1. stage' = [WakeForDesc EXCEPT ![c] = "noDesc"]
      BY <2>2 DEF SubmitFails
    <3>2. WakeForDesc \in [Clients -> Stages]
          /\ \A d \in Clients : stage[d] # "noDesc" => WakeForDesc[d] = stage[d]
      BY WakeTypes
    <3> HIDE DEF WakeForDesc
    <3> QED
      BY <3>1, <3>2 DEF Stages
  <2> QED
    BY <2>1, <2>2
<1>2. \A d \in Clients \ {c} :
        \/ stage'[d] = stage[d]
        \/ stage[d] = "noDesc" /\ stage'[d] = IF buf[has[d]].valid THEN "write" ELSE "read"
  BY <1>1, WakeTypes
<1>3. DiskTypes'
  BY <1>0, <1>1 DEF DiskTypes
<1>4. ASSUME NEW d \in Clients PROVE Uses(d)'
  BY <1>0, <1>1, <1>2 DEF Uses
<1>5. ASSUME NEW k \in Bufs PROVE Counted(k)'
  BY <1>0, CountedFrame
<1>6. ASSUME NEW k \in Bufs PROVE Owned(k)'
  <2>1. \A d \in Clients : stage'[d] \in Holding <=> stage[d] \in Holding
    BY <1>0, <1>1, <1>2 DEF Holding, Stages
  <2> QED
    BY <1>0, <2>1, OwnedFrame
<1>7. ASSUME NEW i \in Bufs, NEW j \in Bufs PROVE OneBuffer(i, j)'
  BY <1>0 DEF OneBuffer
<1>8. Requests'
  <2>1. ASSUME NEW d \in Clients, Waiting(d) \/ Waiting(d)' PROVE SameClient(d)
    BY <1>0, <1>1, <1>2, <2>1 DEF Waiting, SameClient
  <2>2. \A d \in Clients : SameContent(has[d])
    BY <1>0 DEF SameContent
  <2> QED
    BY <1>0, <2>1, <2>2, RequestsFrame
<1>9. Latest'
  <2>1. \A k \in Bufs : buf'[k].valid => buf'[k].data
    BY <1>0 DEF Latest
  <2>2. \A k \in pins' : buf'[k].valid
    BY <1>0 DEF Latest
  <2>3. ASSUME NEW d \in Clients, WillWrite(d), buf[has[d]].valid PROVE WillWrite(d)'
    BY <1>0, <1>1, <1>2, <2>3 DEF WillWrite
  <2>4. ASSUME NEW s \in Sectors \ platter'
        PROVE  \E k \in Bufs : (buf[k].block = s /\ Dirty(k))'
    <3>1. PICK k \in Bufs : buf[k].block = s /\ Dirty(k)
      BY <1>0 DEF Latest
    <3> QED
      BY <1>0, <2>3, <3>1 DEF Dirty
  <2>5. ASSUME NEW d \in Clients, stage'[d] = "written" PROVE buf'[has'[d]].block \in platter'
    BY <1>0, <1>1, <1>2, <2>5 DEF Latest
  <2> QED
    BY <2>1, <2>2, <2>4, <2>5 DEF Latest
<1>10. Woken'
  <2>1. PICK d \in Clients : stage[d] \in {"sleeps", "done"}
    BY NotAllFree DEF SubmitFails
  <2>2. stage'[d] = stage[d]
    BY <1>0, <1>1, <2>1
  <2> QED
    BY <1>0, <2>1, <2>2 DEF Woken
<1> QED
  BY <1>3, <1>4, <1>5, <1>6, <1>7, <1>8, <1>9, <1>10

\* The client goes on after its request, and gives the descriptors back.
LEMMA FinishStep == ASSUME DiskInv, NEW c \in Clients, Finish(c) PROVE DiskInv'
<1> USE DEF DiskInv
<1>0. /\ stage[c] = "done" /\ has[c] \in Bufs /\ buf[has[c]] \in Buffer
      /\ has[c] # 0 /\ UNCHANGED <<avail, used, irq, handler, has, platter, pins>>
  BY HasBuffer, DiskTypesLemma DEF Finish, Is
<1>1. PICK h \in Descs : h = HeadOf(c) /\ Busy(h) /\ info[h].buf = has[c]
                         /\ h \notin avail /\ h \notin used
  BY <1>0, HeadLemma
<1>2. /\ free' = free \union info[h].chain
      /\ info' = [info EXCEPT ![h] = [buf |-> 0, write |-> FALSE, chain |-> {}]]
      /\ stage' = [WakeForDesc EXCEPT ![c] = IF info[h].write THEN "written" ELSE "held"]
  BY <1>1 DEF Finish, FreeChain
<1>3. /\ info' \in [Descs -> Request] /\ info'[h].chain = {} /\ info'[h].buf = 0
      /\ \A g \in Descs \ {h} : info'[g] = info[g]
  <2> DEFINE r == [buf |-> 0, write |-> FALSE, chain |-> {}]
  <2>1. r \in Request /\ r.chain = {} /\ r.buf = 0
    BY DEF Request
  <2>2. info' = [info EXCEPT ![h] = r] /\ info \in [Descs -> Request]
    BY <1>2 DEF DiskTypes
  <2> HIDE DEF r
  <2> QED
    BY <2>1, <2>2
<1>4. free' \subseteq Descs
  BY <1>2, DiskTypesLemma DEF DiskTypes
<1>5. buf[has[c]].data /\ buf[has[c]].block \in platter
  BY <1>1 DEF Requests, RequestFits
<1>6. /\ buf' \in [Bufs -> Buffer] /\ buf'[has[c]].valid
      /\ \A k \in Bufs : /\ buf'[k].block = buf[k].block /\ buf'[k].data = buf[k].data
                         /\ buf'[k].owner = buf[k].owner /\ buf'[k].refcnt = buf[k].refcnt
      /\ \A k \in Bufs \ {has[c]} : buf'[k] = buf[k]
  <2> DEFINE r == Bread(buf[has[c]])
  <2>1. /\ r \in Buffer /\ r.owner = buf[has[c]].owner /\ r.refcnt = buf[has[c]].refcnt
        /\ r.block = buf[has[c]].block /\ r.valid /\ r.data = buf[has[c]].data
    BY <1>0 DEF Buffer, Bread
  <2>2. Kept(c, r)
    BY DEF Finish, MyBuf
  <2> HIDE DEF r
  <2>3. /\ buf' \in [Bufs -> Buffer] /\ buf'[has[c]] = r
        /\ \A k \in Bufs \ {has[c]} : buf'[k] = buf[k]
    BY <1>0, <2>1, <2>2, KeptEffect
  <2> QED
    BY <2>1, <2>3
<1>7. /\ stage' \in [Clients -> Stages] /\ stage'[c] \in {"written", "held"}
      /\ \A d \in Clients \ {c} : stage'[d] = WakeForDesc[d]
  <2>1. WakeForDesc \in [Clients -> Stages]
    BY WakeTypes
  <2> HIDE DEF WakeForDesc
  <2> QED
    BY <1>2, <2>1 DEF Stages
<1>8. \A d \in Clients \ {c} :
        \/ stage'[d] = stage[d] /\ stage[d] # "noDesc"
        \/ stage[d] = "noDesc" /\ buf[has[d]].valid /\ stage'[d] = "write"
        \/ stage[d] = "noDesc" /\ ~ buf[has[d]].valid /\ stage'[d] = "read"
  BY <1>7, WakeTypes
<1>9. ASSUME NEW d \in Clients \ {c}, stage[d] \in Holding
      PROVE  has[d] \in Bufs /\ has[d] # has[c] /\ buf'[has[d]] = buf[has[d]]
  <2>1. has[d] \in Bufs
    BY <1>9, HasBuffer DEF Holding
  <2>2. stage[c] \in Holding
    BY <1>0 DEF Holding, Stages
  <2> QED
    BY <1>6, <1>9, <2>1, <2>2, OneHolder
<1>10. DiskTypes'
  BY <1>0, <1>3, <1>4, <1>6, <1>7 DEF DiskTypes
<1>11. ASSUME NEW d \in Clients PROVE Uses(d)'
  <2>1. Uses(d) /\ (stage[d] # "idle" => has[d] \in Bufs)
    BY HasBuffer
  <2>2. CASE d = c
    BY <1>0, <1>6, <1>7, <2>1, <2>2 DEF Uses
  <2>3. CASE d # c /\ stage[d] \in Holding
    <3>1. has[d] \in Bufs /\ buf'[has[d]] = buf[has[d]]
      BY <1>9, <2>3
    <3> QED
      BY <1>0, <1>8, <2>1, <2>3, <3>1 DEF Uses
  <2>4. CASE d # c /\ stage[d] \notin Holding
    <3>1. stage'[d] = stage[d] /\ stage[d] \in {"idle", "lock", "waits", "release"}
      BY <1>8, <2>4, DiskTypesLemma DEF Holding, Stages
    <3> QED
      BY <1>0, <1>6, <2>1, <3>1 DEF Uses
  <2> QED
    BY <2>2, <2>3, <2>4
<1>12. ASSUME NEW k \in Bufs PROVE Counted(k)'
  BY <1>0, <1>6, CountedFrame
<1>13. ASSUME NEW k \in Bufs PROVE Owned(k)'
  <2>1. \A d \in Clients : stage'[d] \in Holding <=> stage[d] \in Holding
    BY <1>0, <1>7, <1>8 DEF Holding, Stages
  <2> QED
    BY <1>0, <1>6, <2>1, OwnedFrame
<1>14. ASSUME NEW i \in Bufs, NEW j \in Bufs PROVE OneBuffer(i, j)'
  BY <1>6 DEF OneBuffer
<1>15. ASSUME NEW g \in Descs \ {h}
       PROVE  /\ RequestFits(g)' /\ (Busy(g)' <=> Busy(g))
              /\ Busy(g) => info[g].buf # has[c]
              /\ info'[g] = info[g]
              /\ info[g].chain \intersect info[h].chain = {}
  <2>1. RequestFits(g) /\ info'[g] = info[g] /\ Apart(g, h)
    BY <1>3 DEF Requests
  <2>2. info[g].chain \intersect info[h].chain = {} /\ (Busy(g) => info[g].buf # has[c])
    BY <1>1, <2>1 DEF Apart
  <2>3. CASE ~ Busy(g)
    BY <1>0, <2>1, <2>2, <2>3 DEF RequestFits, Busy
  <2>4. CASE Busy(g)
    <3>1. PICK d \in Clients :
            /\ has[d] = info[g].buf
            /\ stage[d] = IF g \in avail \union used THEN "sleeps" ELSE "done"
      BY <2>1, <2>4 DEF RequestFits
    <3>2. d # c /\ stage'[d] = stage[d] /\ has'[d] = has[d]
      BY <1>0, <1>8, <2>2, <2>4, <3>1
    <3>3. info[g].buf \in Bufs /\ buf'[info[g].buf] = buf[info[g].buf]
      BY <1>6, <2>1, <2>2, <2>4, DiskTypesLemma DEF RequestFits
    <3> QED
      BY <1>0, <2>1, <2>2, <2>4, <3>1, <3>2, <3>3 DEF RequestFits, Busy
  <2> QED
    BY <2>3, <2>4
<1>16. Requests'
  <2>1. ASSUME NEW g \in Descs PROVE RequestFits(g)' /\ (info[g].chain \intersect free = {})'
    <3>1. info[g].chain \intersect free = {}
      BY DEF Requests
    <3>2. CASE g = h
      BY <1>0, <1>1, <1>3, <3>2 DEF RequestFits, Busy
    <3>3. CASE g # h
      BY <1>2, <1>15, <3>1, <3>3
    <3> QED
      BY <3>2, <3>3
  <2>2. ASSUME NEW d \in Clients PROVE HasRequest(d)'
    <3>1. CASE d = c
      BY <1>7, <3>1 DEF HasRequest
    <3>2. CASE d # c /\ stage'[d] \in {"sleeps", "done"}
      <4>1. stage'[d] = stage[d]
        BY <1>8, <3>2
      <4>2. PICK g \in Descs : Busy(g) /\ info[g].buf = has[d]
        BY <3>2, <4>1 DEF Requests, HasRequest
      <4>3. has[d] # has[c]
        BY <1>9, <3>2, <4>1 DEF Holding, Stages
      <4>4. g # h
        BY <1>1, <4>2, <4>3
      <4> QED
        BY <1>0, <1>15, <4>2, <4>4 DEF HasRequest
    <3>3. CASE stage'[d] \notin {"sleeps", "done"}
      BY <3>3 DEF HasRequest
    <3> QED
      BY <3>1, <3>2, <3>3
  <2>3. ASSUME NEW i \in Descs, NEW g \in Descs PROVE Apart(i, g)'
    <3>1. CASE i = h \/ g = h
      BY <1>3, <3>1 DEF Apart, Busy
    <3>2. CASE i # h /\ g # h
      <4>1. Apart(i, g)
        BY DEF Requests
      <4> QED
        BY <1>15, <3>2, <4>1 DEF Apart
    <3> QED
      BY <3>1, <3>2
  <2>4. AllDescs' = AllDescs
    <3>1. ASSUME NEW x \in AllDescs' PROVE x \in AllDescs
      <4>1. CASE x \in free'
        BY <1>2, <4>1 DEF AllDescs
      <4>2. ASSUME NEW g \in Descs, x \in info'[g].chain PROVE x \in AllDescs
        BY <1>3, <4>2 DEF AllDescs
      <4> QED
        BY <4>1, <4>2 DEF AllDescs
    <3>2. ASSUME NEW x \in AllDescs PROVE x \in AllDescs'
      <4>1. CASE x \in free
        BY <1>2, <4>1 DEF AllDescs
      <4>2. ASSUME NEW g \in Descs, x \in info[g].chain PROVE x \in AllDescs'
        BY <1>2, <1>3, <4>2 DEF AllDescs
      <4> QED
        BY <4>1, <4>2 DEF AllDescs
    <3> QED
      BY <3>1, <3>2
  <2> QED
    BY <2>1, <2>2, <2>3, <2>4 DEF Requests
<1>17. Latest'
  <2>1. \A k \in Bufs : buf'[k].valid => buf'[k].data
    BY <1>5, <1>6 DEF Latest
  <2>2. \A k \in pins' : buf'[k].valid
    BY <1>0, <1>6 DEF Latest, DiskTypes
  <2>3. ASSUME NEW d \in Clients, d # c, WillWrite(d), buf[has[d]].valid PROVE WillWrite(d)'
    <3>1. CASE stage[d] = "sleeps"
      <4>1. PICK g \in avail : info[g].buf = has[d]
        BY <2>3, <3>1 DEF WillWrite
      <4>2. g \in Descs \ {h}
        BY <1>1 DEF DiskTypes
      <4> QED
        BY <1>0, <1>3, <1>8, <2>3, <3>1, <4>1, <4>2 DEF WillWrite
    <3>2. CASE stage[d] # "sleeps"
      BY <1>8, <2>3, <3>2 DEF WillWrite
    <3> QED
      BY <3>1, <3>2
  <2>4. ASSUME NEW s \in Sectors \ platter'
        PROVE  \E k \in Bufs : (buf[k].block = s /\ Dirty(k))'
    <3>1. PICK k \in Bufs : buf[k].block = s /\ Dirty(k)
      BY <1>0 DEF Latest
    <3>2. k # has[c]
      BY <1>0, <1>5, <2>4, <3>1
    <3>3. buf'[k] = buf[k]
      BY <1>6, <3>2
    <3> QED
      BY <1>0, <2>3, <3>1, <3>2, <3>3 DEF Dirty
  <2>5. ASSUME NEW d \in Clients, stage'[d] = "written" PROVE buf'[has'[d]].block \in platter'
    <3>1. CASE d = c
      BY <1>0, <1>5, <1>6, <3>1
    <3>2. CASE d # c
      <4>1. stage[d] = "written"
        BY <1>8, <2>5, <3>2
      <4>2. has[d] \in Bufs /\ buf[has[d]].block \in platter
        BY <4>1, HasBuffer DEF Latest
      <4> QED
        BY <1>0, <1>6, <4>2
    <3> QED
      BY <3>1, <3>2
  <2> QED
    BY <2>1, <2>2, <2>4, <2>5 DEF Latest
<1>18. Woken'
  <2>1. \A d \in Clients : stage'[d] # "noDesc"
    BY <1>7, <1>8
  <2> QED
    BY <1>0, <2>1 DEF Woken
<1> QED
  BY <1>10, <1>11, <1>12, <1>13, <1>14, <1>16, <1>17, <1>18

\* The device carries out request d: the content is on the disk and in the buffer.
LEMMA DeviceStep == ASSUME DiskInv, NEW d \in Descs, Device(d) PROVE DiskInv'
<1> USE DEF DiskInv
<1>0. /\ d \in avail /\ d \notin used /\ Busy(d)
      /\ avail' = avail \ {d} /\ used' = used \union {d} /\ irq' = TRUE
      /\ UNCHANGED <<free, info, handler, stage, has, pins>>
  BY DEF Device, Requests, RequestFits
<1>1. PICK k \in Bufs : k = info[d].buf
  BY <1>0, DiskTypesLemma DEF Requests, RequestFits
<1>2. PICK c \in Clients : has[c] = k /\ stage[c] = "sleeps"
  BY <1>0, <1>1 DEF Requests, RequestFits
<1>3. buf[k].block \in Sectors /\ buf[k].block # 0 /\ buf[k] \in Buffer
  BY <1>1, <1>2, HasBuffer DEF Uses
<1>4. \A j \in Bufs : buf[j].block = buf[k].block => j = k
  BY <1>3 DEF OneBuffer
<1>5. info[d].write <=> buf[k].valid
  BY <1>0, <1>1 DEF Requests, RequestFits
<1>6. ~ buf[k].valid => buf[k].block \in platter
  BY <1>3, <1>4 DEF Latest, Dirty
<1>7. /\ buf' \in [Bufs -> Buffer] /\ buf'[k].data
      /\ \A j \in Bufs : /\ buf'[j].block = buf[j].block /\ buf'[j].valid = buf[j].valid
                         /\ buf'[j].owner = buf[j].owner /\ buf'[j].refcnt = buf[j].refcnt
      /\ \A j \in Bufs \ {k} : buf'[j] = buf[j]
      /\ platter' = platter \union {buf[k].block}
  <2>1. CASE info[d].write
    <3>1. buf[k].data
      BY <1>5, <2>1 DEF Latest
    <3>2. buf' = buf /\ platter' = platter \union {buf[k].block}
      BY <1>1, <2>1, <3>1 DEF Device
    <3> QED
      BY <3>1, <3>2 DEF DiskTypes
  <2>2. CASE ~ info[d].write
    <3>1. buf[k].block \in platter
      BY <1>5, <1>6, <2>2
    <3>2. buf' = [buf EXCEPT ![k].data = TRUE] /\ platter' = platter
      BY <1>1, <2>2, <3>1 DEF Device
    <3> DEFINE r == [buf[k] EXCEPT !.data = TRUE]
    <3>3. /\ r \in Buffer /\ r.data /\ r.block = buf[k].block /\ r.valid = buf[k].valid
          /\ r.owner = buf[k].owner /\ r.refcnt = buf[k].refcnt
      BY <1>3 DEF Buffer
    <3>4. buf' = [buf EXCEPT ![k] = r]
      BY <3>2
    <3> HIDE DEF r
    <3> QED
      BY <3>1, <3>2, <3>3, <3>4 DEF DiskTypes
  <2> QED
    BY <2>1, <2>2
<1>8. DiskTypes'
  BY <1>0, <1>3, <1>7 DEF DiskTypes
<1>9. ASSUME NEW e \in Clients PROVE Uses(e)'
  <2>1. Uses(e) /\ (stage[e] # "idle" => has[e] \in Bufs)
    BY HasBuffer
  <2> QED
    BY <1>0, <1>7, <2>1 DEF Uses
<1>10. ASSUME NEW j \in Bufs PROVE Counted(j)'
  BY <1>0, <1>7, CountedFrame
<1>11. ASSUME NEW j \in Bufs PROVE Owned(j)'
  BY <1>0, <1>7, OwnedFrame
<1>12. ASSUME NEW i \in Bufs, NEW j \in Bufs PROVE OneBuffer(i, j)'
  BY <1>7 DEF OneBuffer
<1>13. Requests'
  <2>1. ASSUME NEW h \in Descs PROVE RequestFits(h)'
    <3>1. RequestFits(h)
      BY DEF Requests
    <3>2. h \in avail' \union used' <=> h \in avail \union used
      BY <1>0
    <3>3. Busy(h) => info[h].buf \in Bufs
      BY <3>1, DiskTypesLemma DEF RequestFits
    <3>4. CASE h = d
      <4>1. /\ info'[h] = info[h] /\ info[h].buf = k /\ Busy(h)
            /\ h \in info[h].chain /\ k # 0
        BY <1>0, <1>1, <3>1, <3>4 DEF RequestFits
      <4>2. info'[h].write <=> buf'[k].valid
        <5>1. buf'[k].valid = buf[k].valid
          BY <1>7
        <5> QED
          BY <1>5, <3>4, <4>1, <5>1, Zenon
      <4>3. has'[c] = k /\ stage'[c] = "sleeps" /\ h \notin avail' /\ h \in used'
        BY <1>0, <1>2, <3>4
      <4>4. buf'[k].data /\ buf'[k].block \in platter'
        BY <1>7
      <4>5. info'[h].buf = k
        BY <4>1
      <4> QED
        BY <4>1, <4>2, <4>3, <4>4, <4>5 DEF RequestFits, Busy
    <3>5. CASE h # d /\ Busy(h)
      <4>1. info[h].buf # k
        BY <1>0, <1>1, <3>5 DEF Requests, Apart
      <4>2. buf'[info[h].buf] = buf[info[h].buf]
        BY <1>7, <3>3, <3>5, <4>1
      <4> QED
        BY <1>0, <1>7, <3>1, <3>2, <3>5, <4>2 DEF RequestFits, Busy
    <3>6. CASE h # d /\ ~ Busy(h)
      BY <1>0, <3>1, <3>6 DEF RequestFits, Busy
    <3> QED
      BY <3>4, <3>5, <3>6
  <2>2. \A e \in Clients : HasRequest(e)'
    BY <1>0 DEF Requests, HasRequest, Busy
  <2>3. \A h, g \in Descs : Apart(h, g)'
    BY <1>0 DEF Requests, Apart, Busy
  <2>4. AllDescs' = AllDescs /\ \A h \in Descs : (info[h].chain \intersect free = {})'
    BY <1>0 DEF Requests, AllDescs
  <2> QED
    BY <2>1, <2>2, <2>3, <2>4 DEF Requests
<1>14. Latest'
  <2>1. \A j \in Bufs : buf'[j].valid => buf'[j].data
    BY <1>7 DEF Latest
  <2>2. \A j \in pins' : buf'[j].valid
    BY <1>0, <1>7 DEF Latest, DiskTypes
  <2>3. ASSUME NEW s \in Sectors \ platter'
        PROVE  \E j \in Bufs : (buf[j].block = s /\ Dirty(j))'
    <3>1. PICK j \in Bufs : buf[j].block = s /\ Dirty(j)
      BY <1>7, <2>3 DEF Latest
    <3>2. j # k
      BY <1>7, <2>3, <3>1
    <3>3. ASSUME NEW e \in Clients, has[e] = j, WillWrite(e) PROVE WillWrite(e)'
      BY <1>0, <1>1, <3>2, <3>3 DEF WillWrite
    <3> QED
      BY <1>0, <1>7, <3>1, <3>3 DEF Dirty
  <2>4. ASSUME NEW e \in Clients, stage'[e] = "written" PROVE buf'[has'[e]].block \in platter'
    <3>1. has[e] \in Bufs /\ buf[has[e]].block \in platter
      BY <1>0, <2>4, HasBuffer DEF Latest
    <3> QED
      BY <1>0, <1>7, <3>1
  <2> QED
    BY <2>1, <2>2, <2>3, <2>4 DEF Latest
<1>15. Woken'
  BY <1>0 DEF Woken
<1> QED
  BY <1>8, <1>9, <1>10, <1>11, <1>12, <1>13, <1>14, <1>15

\* Only the interrupt and its handler change.
LEMMA InterruptOnly ==
    ASSUME DiskInv, UNCHANGED <<buf, free, info, avail, used, stage, has, platter, pins>>,
           irq' \in BOOLEAN, handler' \in BOOLEAN, used # {} => irq' \/ handler'
    PROVE  DiskInv'
<1> USE DEF DiskInv
<1>1. DiskTypes'
  BY DEF DiskTypes
<1>2. \A c \in Clients : Uses(c)'
  BY DEF Uses
<1>3. ASSUME NEW k \in Bufs PROVE Counted(k)' /\ Owned(k)'
  BY CountedFrame, OwnedFrame
<1>4. \A k, j \in Bufs : OneBuffer(k, j)'
  BY DEF OneBuffer
<1>5. Requests'
  BY RequestsFrame DEF SameClient, SameContent
<1>6. Latest'
  <2>1. \A c \in Clients : WillWrite(c)' <=> WillWrite(c)
    BY DEF WillWrite
  <2>2. \A k \in Bufs : Dirty(k)' <=> Dirty(k)
    BY <2>1 DEF Dirty
  <2> QED
    BY <2>2 DEF Latest
<1>7. Woken'
  BY DEF Woken
<1> QED
  BY <1>1, <1>2, <1>3, <1>4, <1>5, <1>6, <1>7

\* The interrupt is acknowledged, and will be looked into.
LEMMA IntrLockStep == ASSUME DiskInv, IntrLock PROVE DiskInv'
<1>1. /\ UNCHANGED <<buf, free, info, avail, used, stage, has, platter, pins>>
      /\ irq' = FALSE /\ handler' = TRUE
  BY DEF IntrLock, IntrStep, Ack
<1> QED
  BY <1>1, InterruptOnly

\* The handler sees what the device has done, and wakes who waits for it.
LEMMA IntrReleaseStep == ASSUME DiskInv, IntrRelease PROVE DiskInv'
<1> USE DEF DiskInv
<1> DEFINE seen == {info[d].buf : d \in used}
<1>0. /\ UNCHANGED <<free, info, avail, has, platter, pins, irq>>
      /\ handler' = FALSE /\ used' = {}
      /\ buf' = [k \in Bufs |-> [buf[k] EXCEPT !.disk = @ /\ k \notin seen]]
      /\ stage' = [c \in Clients |-> IF Is(c, "sleeps") /\ has[c] \in seen THEN "done"
                                     ELSE stage[c]]
  BY DEF IntrRelease, IntrStep, Scan
<1>1. \A h \in used : h \in Descs /\ Busy(h) /\ h \notin avail /\ info[h].buf \in seen
  BY DEF Requests, RequestFits, DiskTypes
<1>2. ASSUME NEW h \in avail PROVE info[h].buf \notin seen
  <2>1. h \in Descs /\ Busy(h)
    BY DEF Requests, RequestFits, DiskTypes
  <2>2. ASSUME NEW g \in used PROVE info[g].buf # info[h].buf
    BY <1>1, <2>1 DEF Requests, Apart
  <2> QED
    BY <2>2
<1>3. /\ buf' \in [Bufs -> Buffer]
      /\ \A k \in Bufs : /\ SameContent(k) /\ buf'[k].owner = buf[k].owner
                         /\ buf'[k].refcnt = buf[k].refcnt
  <2>1. ASSUME NEW k \in Bufs
        PROVE  /\ buf'[k] \in Buffer /\ SameContent(k) /\ buf'[k].owner = buf[k].owner
               /\ buf'[k].refcnt = buf[k].refcnt
    <3> HIDE DEF seen
    <3>1. PICK v \in BOOLEAN : v = (buf[k].disk /\ k \notin seen)
      OBVIOUS
    <3>2. buf'[k] = [buf[k] EXCEPT !.disk = v] /\ buf[k] \in Buffer
      BY <1>0, <3>1, DiskTypesLemma
    <3> QED
      BY <3>2 DEF Buffer, SameContent
  <2> QED
    BY <1>0, <2>1
<1>4. /\ stage' \in [Clients -> Stages]
      /\ \A c \in Clients :
            /\ stage[c] = "sleeps" /\ has[c] \in seen => stage'[c] = "done"
            /\ ~ (stage[c] = "sleeps" /\ has[c] \in seen) => stage'[c] = stage[c]
  <2> HIDE DEF seen
  <2> QED
    BY <1>0 DEF Is, Stages, DiskTypes
<1> HIDE DEF seen
<1>5. DiskTypes'
  BY <1>0, <1>3, <1>4 DEF DiskTypes
<1>6. ASSUME NEW c \in Clients PROVE Uses(c)'
  <2>1. Uses(c) /\ (stage[c] # "idle" => has[c] \in Bufs)
    BY HasBuffer
  <2>2. CASE stage[c] = "sleeps" /\ has[c] \in seen
    BY <1>0, <1>3, <1>4, <2>1, <2>2 DEF Uses, SameContent
  <2>3. CASE ~ (stage[c] = "sleeps" /\ has[c] \in seen)
    <3>1. SameClient(c)
      BY <1>0, <1>4, <2>3 DEF SameClient
    <3>2. stage[c] = "waits" => buf'[has[c]].owner # Nobody
      BY <1>3, <2>1 DEF Uses
    <3> QED
      BY <1>3, <2>1, <3>1, <3>2, UsesFrame
  <2> QED
    BY <2>2, <2>3
<1>7. ASSUME NEW k \in Bufs PROVE Counted(k)'
  BY <1>0, <1>3, CountedFrame
<1>8. ASSUME NEW k \in Bufs PROVE Owned(k)'
  <2>1. \A c \in Clients : stage'[c] \in Holding <=> stage[c] \in Holding
    BY <1>4 DEF Holding, Stages
  <2> QED
    BY <1>0, <1>3, <2>1, OwnedFrame
<1>9. ASSUME NEW i \in Bufs, NEW j \in Bufs PROVE OneBuffer(i, j)'
  BY <1>3 DEF OneBuffer, SameContent
<1>10. Requests'
  <2>1. ASSUME NEW h \in Descs PROVE RequestFits(h)'
    <3>1. RequestFits(h)
      BY DEF Requests
    <3>2. CASE ~ Busy(h)
      BY <1>0, <3>1, <3>2 DEF RequestFits, Busy
    <3>3. CASE Busy(h)
      <4>1. PICK k \in Bufs : k = info[h].buf
        BY <3>1, <3>3, DiskTypesLemma DEF RequestFits
      <4>2. PICK c \in Clients :
              /\ has[c] = k
              /\ stage[c] = IF h \in avail \union used THEN "sleeps" ELSE "done"
        BY <3>1, <3>3, <4>1 DEF RequestFits
      <4>3. has'[c] = k /\ stage'[c] = IF h \in avail' \union used' THEN "sleeps" ELSE "done"
        <5>1. CASE h \in used
          BY <1>0, <1>1, <1>4, <4>1, <4>2, <5>1
        <5>2. CASE h \in avail
          BY <1>0, <1>2, <1>4, <4>1, <4>2, <5>2
        <5>3. CASE h \notin avail \union used
          BY <1>0, <1>4, <4>2, <5>3
        <5> QED
          BY <5>1, <5>2, <5>3
      <4>4. h \in info'[h].chain /\ info'[h].buf = k /\ k # 0
        BY <1>0, <3>1, <3>3, <4>1 DEF RequestFits
      <4>5. info'[h].write <=> buf'[k].valid
        <5>1. buf'[k].valid = buf[k].valid /\ info'[h].write = info[h].write
          BY <1>0, <1>3 DEF SameContent
        <5>2. info[h].write <=> buf[k].valid
          BY <3>1, <3>3, <4>1 DEF RequestFits
        <5> QED
          BY <5>1, <5>2, Zenon
      <4>6. h \notin avail => buf'[k].data /\ buf'[k].block \in platter'
        <5>1. h \notin avail => buf[k].data /\ buf[k].block \in platter
          BY <3>1, <3>3, <4>1 DEF RequestFits
        <5> QED
          BY <1>0, <1>3, <5>1 DEF SameContent
      <4> QED
        BY <1>0, <3>3, <4>1, <4>3, <4>4, <4>5, <4>6 DEF RequestFits, Busy
    <3> QED
      BY <3>2, <3>3
  <2>2. ASSUME NEW c \in Clients PROVE HasRequest(c)'
    <3>1. HasRequest(c)
      BY DEF Requests
    <3>2. stage'[c] \in {"sleeps", "done"} => stage[c] \in {"sleeps", "done"}
      BY <1>4
    <3> QED
      BY <1>0, <3>1, <3>2 DEF HasRequest, Busy
  <2>3. \A h, g \in Descs : Apart(h, g)'
    BY <1>0 DEF Requests, Apart, Busy
  <2>4. AllDescs' = AllDescs /\ \A h \in Descs : (info[h].chain \intersect free = {})'
    BY <1>0 DEF Requests, AllDescs
  <2> QED
    BY <2>1, <2>2, <2>3, <2>4 DEF Requests
<1>11. Latest'
  <2>1. \A k \in pins' : k \in Bufs /\ buf[k].valid
    BY <1>0 DEF Latest, DiskTypes
  <2>2. ASSUME NEW c \in Clients, WillWrite(c) PROVE WillWrite(c)' /\ has'[c] = has[c]
    <3>1. CASE stage[c] = "sleeps"
      <4>1. PICK h \in avail : info[h].buf = has[c]
        BY <2>2, <3>1 DEF WillWrite
      <4>2. stage'[c] = "sleeps"
        BY <1>2, <1>4, <3>1, <4>1
      <4> QED
        BY <1>0, <4>1, <4>2 DEF WillWrite
    <3>2. CASE stage[c] # "sleeps"
      BY <1>0, <1>4, <2>2, <3>2 DEF WillWrite
    <3> QED
      BY <3>1, <3>2
  <2>3. ASSUME NEW c \in Clients, stage'[c] = "written" PROVE SameClient(c) /\ has[c] \in Bufs
    <3>1. stage[c] = "written"
      BY <1>4, <2>3
    <3> QED
      BY <1>0, <2>3, <3>1, HasBuffer DEF SameClient
  <2> QED
    BY <1>0, <1>3, <2>1, <2>2, <2>3, LatestFrame
<1>12. Woken'
  <2>1. ASSUME NEW c \in Clients, stage'[c] = "noDesc" PROVE stage[c] = "noDesc"
    BY <1>4, <2>1
  <2>2. ASSUME NEW d \in Clients, stage[d] \in {"sleeps", "done", "read", "write"}
        PROVE  stage'[d] \in {"sleeps", "done", "read", "write"}
    BY <1>4, <2>2
  <2> QED
    BY <1>0, <2>1, <2>2 DEF Woken
<1> QED
  BY <1>5, <1>6, <1>7, <1>8, <1>9, <1>10, <1>11, <1>12
-----------------------------------------------------------------------------
(* The theorems                                                            *)

\* Nothing is cached, and all descriptors are free.
LEMMA DiskInitInv == DiskInit => DiskInv
<1> SUFFICES ASSUME DiskInit PROVE DiskInv
  OBVIOUS
<1>0. /\ \A k \in Bufs : buf[k] = [block |-> 0, valid |-> FALSE, disk |-> FALSE,
                                   data |-> FALSE, refcnt |-> 0, owner |-> Nobody]
      /\ \A h \in Descs : info[h] = [buf |-> 0, write |-> FALSE, chain |-> {}]
      /\ \A c \in Clients : stage[c] = "idle" /\ has[c] = 0
      /\ avail = {} /\ used = {} /\ pins = {} /\ platter = Sectors
  BY DEF DiskInit
<1>1. PICK n \in NDescs : free = 0 .. n - 1
  BY DEF DiskInit
<1>2. 0 \notin Bufs /\ Nobody \notin Clients
  BY DiskAssumption
<1>3. DiskTypes
  <2>1. free \subseteq Descs
    BY <1>1 DEF Descs
  <2>2. buf \in [Bufs -> Buffer]
    BY DEF DiskInit, Buffer
  <2>3. info \in [Descs -> Request]
    BY DEF DiskInit, Request
  <2>4. stage \in [Clients -> Stages] /\ has \in [Clients -> Bufs \union {0}]
    BY DEF DiskInit, Stages
  <2> QED
    BY <1>0, <2>1, <2>2, <2>3, <2>4 DEF DiskInit, DiskTypes
<1>4. \A c \in Clients : Uses(c)
  BY <1>0 DEF Uses
<1>5. ASSUME NEW k \in Bufs PROVE Counted(k) /\ Owned(k)
  <2>1. Users(k) = {}
    BY <1>0, <1>2 DEF Users
  <2>2. Cardinality(Users(k)) = 0
    BY <2>1, FS_EmptySet
  <2>3. Counted(k)
    BY <1>0, <2>2 DEF Counted
  <2> QED
    BY <1>0, <1>2, <2>3 DEF Owned, Holding
<1>6. \A k, j \in Bufs : OneBuffer(k, j)
  BY <1>0 DEF OneBuffer
<1>7. Requests
  <2>1. \A h \in Descs : info[h].chain = {} /\ info[h].buf = 0
    BY <1>0
  <2>2. AllDescs = free
    BY <2>1 DEF AllDescs
  <2> QED
    BY <1>0, <1>1, <2>1, <2>2 DEF Requests, RequestFits, Busy, HasRequest, Apart
<1>8. Latest
  BY <1>0 DEF Latest
<1>9. Woken
  BY <1>0 DEF Woken
<1> QED
  BY <1>3, <1>4, <1>5, <1>6, <1>7, <1>8, <1>9 DEF DiskInv

\* Every step keeps the invariant.
LEMMA DiskNextInv == DiskInv /\ [DiskNext]_ioVars => DiskInv'
<1> SUFFICES ASSUME DiskInv, [DiskNext]_ioVars PROVE DiskInv'
  OBVIOUS
<1>1. CASE UNCHANGED ioVars
  <2>1. UNCHANGED <<buf, free, info, avail, used, irq, handler, stage, has, platter, pins>>
    BY <1>1 DEF ioVars, requestVars
  <2>2. irq' \in BOOLEAN /\ handler' \in BOOLEAN /\ (used # {} => irq' \/ handler')
    BY <2>1 DEF DiskInv, DiskTypes, Woken
  <2> QED
    BY <2>1, <2>2, InterruptOnly
<1>2. ASSUME NEW c \in Clients, NEW s \in Sectors, Bget(c, s) PROVE DiskInv'
  BY <1>2, BgetStep
<1>3. ASSUME NEW c \in Clients,
             \/ Acquiresleep(c) \/ Brelse(c) \/ Unref(c)
             \/ Modify(c) \/ Bwrite(c) \/ Bpin(c) \/ Bunpin(c)
      PROVE  DiskInv'
  BY <1>3, AcquireStep, BrelseStep, UnrefStep, ModifyStep, BwriteStep, BpinStep, BunpinStep
<1>4. ASSUME NEW c \in Clients, Submit(c) \/ SubmitFails(c) \/ Finish(c) PROVE DiskInv'
  BY <1>4, SubmitStep, SubmitFailsStep, FinishStep
<1>5. ASSUME NEW d \in Descs, Device(d) PROVE DiskInv'
  BY <1>5, DeviceStep
<1> QED
  BY <1>1, <1>2, <1>3, <1>4, <1>5, IntrLockStep, IntrReleaseStep DEF DiskNext

\* What clients, buffers, requests and descriptors have to do with each other, always.
THEOREM DiskInvariant == DiskSpec => []DiskInv
  BY DiskInitInv, DiskNextInv, PTL DEF DiskSpec

\* bread(), bwrite() and brelse(): who holds a buffer has the latest content of its block.
LEMMA HoldersReadLatest == DiskInv => ReadsLatest
<1> SUFFICES ASSUME DiskInv, NEW c \in Clients, stage[c] \in {"held", "dirty", "written"}
             PROVE  buf[has[c]].data
  BY DEF ReadsLatest
<1>1. has[c] \in Bufs /\ buf[has[c]].valid
  BY HasBuffer DEF DiskInv, Uses
<1> QED
  BY <1>1 DEF DiskInv, Latest

\* alloc3_desc() and free_chain() lose no descriptor.
LEMMA NoDescriptorIsLost == DiskInv => DescriptorsAccounted
<1> SUFFICES ASSUME DiskInv PROVE DescriptorsAccounted
  OBVIOUS
<1> USE DEF DiskInv
<1> DEFINE chains == {info[h].chain : h \in Descs} \ {{}}
<1>1. \A h \in Descs : \A g \in Descs \ {h} : info[h].chain \intersect info[g].chain = {}
  BY DEF Requests, Apart
<1>2. free \intersect UNION chains = {}
  BY DEF Requests
<1>3. free \union UNION chains = AllDescs
  BY DEF AllDescs
<1>4. PICK n \in NDescs : AllDescs = 0 .. n - 1
  BY DEF Requests
<1>5. n \in Nat /\ n >= 3 /\ 0 \in Int /\ n - 1 \in Int
  BY <1>4, DiskAssumption
<1>6. Cardinality(0 .. n - 1) = n
  <2>1. Cardinality(0 .. n - 1) = IF 0 > n - 1 THEN 0 ELSE (n - 1) - 0 + 1
    BY <1>5, FS_Interval
  <2> QED
    BY <1>5, <2>1
<1>7. Cardinality(free \union UNION chains) \in NDescs
  BY <1>3, <1>4, <1>6
<1> QED
  BY <1>1, <1>2, <1>7 DEF DescriptorsAccounted

\* Who sleeps in virtio_disk_rw(), alloc3_desc() or acquiresleep() will be woken.
LEMMA DiskSleepersWake == DiskInv => DiskSleeperWakes
<1> SUFFICES ASSUME DiskInv, NEW c \in Clients
             PROVE  /\ Is(c, "sleeps") =>
                        \E d \in avail \union used :
                            info[d].buf = has[c] /\ (d \in used => irq \/ handler)
                    /\ Is(c, "noDesc") =>
                        \E d \in Clients : stage[d] \in {"sleeps", "done", "read", "write"}
                    /\ Is(c, "waits") => buf[has[c]].owner \notin {Nobody, c}
  BY DEF DiskSleeperWakes
<1> USE DEF DiskInv
<1>1. ASSUME stage[c] = "sleeps"
      PROVE  \E d \in avail \union used :
                info[d].buf = has[c] /\ (d \in used => irq \/ handler)
  <2>1. PICK h \in Descs : Busy(h) /\ info[h].buf = has[c]
    BY <1>1 DEF Requests, HasRequest
  <2>2. stage[c] \in Holding
    BY <1>1 DEF Holding, Stages
  <2>3. h \in avail \union used
    BY <1>1, <2>1, <2>2, HeadLemma
  <2> QED
    BY <2>1, <2>3 DEF Woken
<1>2. ASSUME stage[c] = "noDesc"
      PROVE  \E d \in Clients : stage[d] \in {"sleeps", "done", "read", "write"}
  BY <1>2 DEF Woken
<1>3. ASSUME stage[c] = "waits" PROVE buf[has[c]].owner \notin {Nobody, c}
  <2>1. has[c] \in Bufs /\ buf[has[c]].owner # Nobody
    BY <1>3, HasBuffer DEF Uses
  <2>2. stage[c] \notin Holding
    BY <1>3 DEF Holding
  <2> QED
    BY <2>1, <2>2 DEF Owned
<1> QED
  BY <1>1, <1>2, <1>3 DEF Is

\* The buffer cache, its sleep locks and the driver: who holds a buffer finds the latest
\* content of its block, every descriptor is free or in one chain, and no sleeper is left.
THEOREM DiskIsSound == DiskSpec => []DiskSound
<1>1. DiskInv => DiskSound
  BY HoldersReadLatest, NoDescriptorIsLost, DiskSleepersWake DEF DiskSound
<1> QED
  BY <1>1, DiskInvariant, PTL
-----------------------------------------------------------------------------
(* The log                                                                 *)

\* The system calls between begin_op() and end_op().
Active == {p \in Procs : call[p] = "op"}

\* log.outstanding counts them, and they only run while nothing is
\* committed or recovered; log.committing says that commit() is on its way.
Counting ==
    /\ outstanding = Cardinality(Active)
    /\ Active # {} => phase = "normal"
    /\ committing <=> phase \in {"write_log", "install", "clear", "done"}
    /\ phase = "normal" /\ Active = {} => lh = <<>>

\* The blocks that the system calls in progress may still write: a pair per
\* block of MAXOPBLOCKS that is not used up.
Reserve ==
    {r \in Active \X (1 .. MaxOpBlocks) : r[2] > Cardinality(wrote[r[1]])}

\* The log has room for all of them, and what was written is in the log.
Reserved ==
    /\ Len(lh) + Cardinality(Reserve) <= LogBlocks
    /\ \A p \in Active : wrote[p] \subseteq Elems(lh)

\* No block is twice in s.
Distinct(s) == \A i, j \in 1 .. Len(s) : s[i] = s[j] => i = j

\* What the header on disk says in each phase.
HeaderSound ==
    /\ Distinct(lh)
    /\ Distinct(header)
    /\ phase \in {"normal", "write_log", "done"} => header = <<>>
    /\ phase \in {"install", "clear", "recover", "finish"} => header = lh
    /\ phase \in {"boot", "done"} => lh = <<>>
    /\ phase \in {"write_log", "install", "recover"} => tail <= Len(lh)

\* A buffer that is not pinned is a copy of the block on disk.
BuffersSound ==
    \A b \in Blocks :
        /\ b \notin pinned => cache[b] \in {NoBuf, home[b]}
        /\ b \in pinned => cache[b] # NoBuf

\* The pinned blocks: those of the log, until they are installed.
PinsSound ==
    /\ phase \in {"normal", "write_log"} => \A b \in Blocks : b \in pinned <=> b \in Elems(lh)
    /\ phase = "install" =>
         \A b \in pinned : \E i \in 1 .. Len(lh) : i > tail /\ lh[i] = b
    /\ phase \in {"clear", "done", "boot", "recover", "finish"} => pinned = {}

\* How far the copies in the log and at home have got.
CopiesSound ==
    \A i \in 1 .. Len(lh) :
        /\ phase = "write_log" /\ i <= tail => logged[i] = cache[lh[i]]
        /\ phase = "install" /\ i > tail => lh[i] \in pinned /\ cache[lh[i]] = logged[i]
        /\ phase \in {"install", "recover"} /\ i <= tail => home[lh[i]] = logged[i]
        /\ phase \in {"clear", "finish"} => home[lh[i]] = logged[i]

\* The inductive invariant.
LogInv ==
    /\ LogTypeOK
    /\ LogNeverPanics
    /\ Counting
    /\ Reserved
    /\ SleeperHasWaker
    /\ HeaderSound
    /\ BuffersSound
    /\ PinsSound
    /\ CopiesSound
-----------------------------------------------------------------------------
(* Facts about the operators of the model                                  *)

\* The elements of a sequence of blocks: Elems() of the block numbers in a
\* log header is finite, and each has its place.
LEMMA ElemsLemma ==
    ASSUME NEW s \in Seq(Blocks)
    PROVE  /\ IsFiniteSet(Elems(s))
           /\ Elems(s) \subseteq Blocks
           /\ \A b : b \in Elems(s) <=> \E i \in 1 .. Len(s) : s[i] = b
           /\ s = <<>> <=> Len(s) = 0
<1>1. DEFINE f == [i \in 1 .. Len(s) |-> s[i]]
<1>2. Len(s) \in Nat /\ IsFiniteSet(1 .. Len(s))
  BY FS_Interval
<1>3. f \in Surjection(1 .. Len(s), Elems(s))
  BY DEF Elems, Surjection
<1>4. IsFiniteSet(Elems(s))
  BY <1>2, <1>3, FS_Surjection
<1>5. \A i \in 1 .. Len(s) : s[i] \in Blocks
  OBVIOUS
<1> QED
  BY <1>4, <1>5 DEF Elems

\* log_write() appends the block to the log: the places before it are kept.
LEMMA AppendLemma ==
    ASSUME NEW s \in Seq(Blocks), NEW b \in Blocks
    PROVE  /\ Append(s, b) \in Seq(Blocks)
           /\ Len(Append(s, b)) = Len(s) + 1
           /\ \A i \in 1 .. Len(s) : Append(s, b)[i] = s[i]
           /\ Append(s, b)[Len(s) + 1] = b
           /\ Elems(Append(s, b)) = Elems(s) \union {b}
<1>1. /\ Append(s, b) \in Seq(Blocks)
      /\ Len(Append(s, b)) = Len(s) + 1
      /\ \A i \in 1 .. Len(s) : Append(s, b)[i] = s[i]
      /\ Append(s, b)[Len(s) + 1] = b
      /\ Len(s) \in Nat
  OBVIOUS
<1>2. 1 .. Len(s) + 1 = (1 .. Len(s)) \union {Len(s) + 1}
  BY <1>1
<1> QED
  BY <1>1, <1>2 DEF Elems

\* The block that write_log() or install_trans() copies has one place in the
\* log: looking it up gives that place.
LEMMA LookupLemma ==
    ASSUME NEW s \in Seq(Blocks), Distinct(s), NEW i \in 1 .. Len(s)
    PROVE  (CHOOSE j \in 1 .. Len(s) : s[j] = s[i]) = i
BY DEF Distinct

\* What a crash would leave: the committed block, or the one at home.
LEMMA RecoveredLemma ==
    ASSUME header \in Seq(Blocks), Distinct(header)
    PROVE  /\ \A b \in Blocks : b \notin Elems(header) => Recovered[b] = home[b]
           /\ \A i \in 1 .. Len(header) : Recovered[header[i]] = logged[i]
<1>1. ASSUME NEW i \in 1 .. Len(header)
      PROVE  Recovered[header[i]] = logged[i]
  <2>1. header[i] \in Blocks /\ header[i] \in Elems(header)
    BY DEF Elems
  <2>2. (CHOOSE j \in 1 .. Len(header) : header[j] = header[i]) = i
    BY LookupLemma
  <2> QED
    BY <2>1, <2>2 DEF Recovered
<1> QED
  BY <1>1 DEF Recovered
-----------------------------------------------------------------------------
(* The types, element by element                                           *)

EachTyped ==
    /\ \A b \in Blocks : home[b] \in Values /\ cache[b] \in Values \union {NoBuf}
    /\ \A i \in 1 .. LogBlocks : logged[i] \in Values
    /\ lh \in Seq(Blocks) /\ Len(lh) \in Nat /\ Len(lh) <= LogBlocks
    /\ \A i \in 1 .. Len(lh) : lh[i] \in Blocks
    /\ header \in Seq(Blocks)
    /\ pinned \subseteq Blocks
    /\ outstanding \in Nat
    /\ committing \in BOOLEAN
    /\ \A p \in Procs : call[p] \in {"idle", "asleep", "woken", "op", "commit"}
    /\ \A p \in Procs : wrote[p] \subseteq Blocks
    /\ phase \in Phase
    /\ tail \in Nat
    /\ Len(lh) = 0 <=> lh = <<>>
    /\ IsFiniteSet(Active) /\ Active \subseteq Procs
    /\ \A p : p \in Active <=> p \in Procs /\ call[p] = "op"

\* The types of the variables of the log, for one block, process or place.
LEMMA EachTypedNow == LogTypeOK /\ LogNeverPanics => EachTyped
<1> SUFFICES ASSUME LogTypeOK, LogNeverPanics PROVE EachTyped
  OBVIOUS
<1>1. IsFiniteSet(Active) /\ Active \subseteq Procs
  BY Xv6LogAssumption, FS_Subset DEF Active
<1>2. Len(lh) = 0 <=> lh = <<>>
  BY DEF LogTypeOK
<1>3. Len(lh) \in Nat /\ \A i \in 1 .. Len(lh) : lh[i] \in Blocks
  BY DEF LogTypeOK
<1>4. \A p : p \in Active <=> p \in Procs /\ call[p] = "op"
  BY DEF Active
<1>5. /\ \A b \in Blocks : home[b] \in Values /\ cache[b] \in Values \union {NoBuf}
      /\ \A i \in 1 .. LogBlocks : logged[i] \in Values
      /\ \A p \in Procs : call[p] \in {"idle", "asleep", "woken", "op", "commit"}
      /\ \A p \in Procs : wrote[p] \subseteq Blocks
  BY DEF LogTypeOK, LogNeverPanics
<1>6. tail \in Nat
  BY Xv6LogAssumption DEF LogTypeOK
<1> QED
  BY <1>1, <1>2, <1>3, <1>4, <1>5, <1>6 DEF LogTypeOK, EachTyped
\* The same in the next state.
LEMMA EachTypedNext == LogTypeOK' /\ LogNeverPanics' => EachTyped'
<1> SUFFICES ASSUME LogTypeOK', LogNeverPanics' PROVE EachTyped'
  OBVIOUS
<1>1. IsFiniteSet(Active') /\ Active' \subseteq Procs
  BY Xv6LogAssumption, FS_Subset DEF Active
<1>2. Len(lh') = 0 <=> lh' = <<>>
  BY DEF LogTypeOK
<1>3. Len(lh') \in Nat /\ \A i \in 1 .. Len(lh') : lh'[i] \in Blocks
  BY DEF LogTypeOK
<1>4. \A p : p \in Active' <=> p \in Procs /\ call'[p] = "op"
  BY DEF Active
<1>5. /\ \A b \in Blocks : home'[b] \in Values /\ cache'[b] \in Values \union {NoBuf}
      /\ \A i \in 1 .. LogBlocks : logged'[i] \in Values
      /\ \A p \in Procs : call'[p] \in {"idle", "asleep", "woken", "op", "commit"}
      /\ \A p \in Procs : wrote'[p] \subseteq Blocks
  BY DEF LogTypeOK, LogNeverPanics
<1>6. tail' \in Nat
  BY Xv6LogAssumption DEF LogTypeOK
<1> QED
  BY <1>1, <1>2, <1>3, <1>4, <1>5, <1>6 DEF LogTypeOK, EachTyped

\* An operation in progress is counted, so that end_op() can count it off.
LEMMA CountLemma ==
    ASSUME LogInv, NEW p \in Procs, call[p] = "op"
    PROVE  /\ outstanding > 0
           /\ Cardinality(Active \ {p}) = outstanding - 1
           /\ IsFiniteSet(Active \ {p})
           /\ phase = "normal"
<1>1. EachTyped
  BY EachTypedNow DEF LogInv
<1>2. p \in Active /\ IsFiniteSet(Active) /\ outstanding = Cardinality(Active)
  BY <1>1 DEF EachTyped, LogInv, Counting
<1>3. Cardinality(Active) # 0
  BY <1>2, FS_EmptySet
<1>4. Cardinality(Active) \in Nat
  BY <1>2, FS_CardinalityType
<1>5. /\ IsFiniteSet(Active \ {p})
      /\ Cardinality(Active \ {p}) = Cardinality(Active) - 1
  BY <1>2, FS_RemoveElement
<1>6. phase = "normal"
  BY <1>2 DEF LogInv, Counting
<1> QED
  BY <1>2, <1>3, <1>4, <1>5, <1>6

\* A set of reserved blocks is finite, and reserves no more when it shrinks.
LEMMA ReserveLemma ==
    ASSUME EachTyped
    PROVE  /\ IsFiniteSet(Reserve) /\ Cardinality(Reserve) \in Nat
           /\ \A T : T \subseteq Reserve =>
                 /\ Cardinality(T) \in Nat
                 /\ Cardinality(T) <= Cardinality(Reserve)
<1>1. IsFiniteSet(1 .. MaxOpBlocks)
  BY Xv6LogAssumption, FS_Interval
<1>2. IsFiniteSet(Active \X (1 .. MaxOpBlocks))
  BY <1>1, FS_Product DEF EachTyped
<1>3. Reserve \in SUBSET (Active \X (1 .. MaxOpBlocks))
  BY DEF Reserve
<1>4. IsFiniteSet(Reserve)
  BY <1>2, <1>3, FS_Subset
<1>5. ASSUME NEW T, T \subseteq Reserve
      PROVE  Cardinality(T) \in Nat /\ Cardinality(T) <= Cardinality(Reserve)
  BY <1>4, <1>5, FS_Subset, FS_CardinalityType
<1> QED
  BY <1>4, <1>5, FS_CardinalityType

\* A system call that has written fewer than MAXOPBLOCKS blocks finds room in
\* the log: log_write() does not panic.
LEMMA RoomToWrite ==
    ASSUME LogInv, NEW p \in Procs, NEW b \in Blocks, NEW v \in Values, Write(p, b, v)
    PROVE  /\ Len(lh) < LogBlocks /\ call' = call
           /\ IF b \in Elems(lh)
                THEN lh' = lh /\ pinned' = pinned
                ELSE lh' = Append(lh, b) /\ pinned' = pinned \union {b}
<1>1. EachTyped
  BY EachTypedNow DEF LogInv
<1>2. p \in Active /\ Cardinality(wrote[p]) < MaxOpBlocks
  BY <1>1 DEF Write, EachTyped
<1>3. wrote[p] \subseteq Elems(lh) /\ IsFiniteSet(wrote[p])
  BY <1>1, <1>2, ElemsLemma, FS_Subset DEF LogInv, Reserved, EachTyped
<1>4. Cardinality(wrote[p]) \in Nat
  BY <1>3, FS_CardinalityType
<1>5. <<p, MaxOpBlocks>> \in Reserve
  BY <1>2, <1>4, Xv6LogAssumption DEF Reserve
<1>6. Cardinality(Reserve) \in Nat /\ Cardinality(Reserve) # 0
  BY <1>1, <1>5, ReserveLemma, FS_EmptySet
<1>7. Len(lh) < LogBlocks
  BY <1>1, <1>6, Xv6LogAssumption DEF LogInv, Reserved, EachTyped
<1>8. ~(Len(lh) >= LogBlocks)
  BY <1>1, <1>7, Xv6LogAssumption DEF EachTyped
<1> QED
  BY <1>7, <1>8 DEF Write, LogWrite

\* Every step of the log keeps the types.
LEMMA TypeStep ==
    ASSUME LogInv, LogNext
    PROVE  LogTypeOK'
<1> USE Xv6LogAssumption DEF LogInv
<1>1. CASE WriteLog
  <2>1. lh[tail + 1] \in Blocks /\ tail + 1 \in 1 .. LogBlocks /\ tail + 1 \in 0 .. LogBlocks
    BY <1>1 DEF LogTypeOK, WriteLog
  <2>2. Contents(lh[tail + 1]) \in Values
    BY <2>1 DEF Contents, LogTypeOK
  <2> QED
    BY <1>1, <2>1, <2>2 DEF LogTypeOK, WriteLog, bufVars, logVars
<1>2. CASE WriteHead
  BY <1>2 DEF LogTypeOK, WriteHead, bufVars, logVars, Phase
<1>3. CASE NothingToCommit
  BY <1>3 DEF LogTypeOK, NothingToCommit, diskVars, bufVars, logVars, Phase
<1>4. CASE Install
  <2>1. lh[tail + 1] \in Blocks /\ tail + 1 \in 1 .. LogBlocks /\ tail + 1 \in 0 .. LogBlocks
    BY <1>4 DEF LogTypeOK, Install
  <2>2. logged[tail + 1] \in Values
    BY <2>1 DEF LogTypeOK
  <2>3. home' \in [Blocks -> Values] /\ cache' \in [Blocks -> Values \union {NoBuf}]
    BY <1>4, <2>1, <2>2 DEF LogTypeOK, Install
  <2> QED
    BY <1>4, <2>1, <2>2, <2>3 DEF LogTypeOK, Install, logVars
<1>5. CASE Installed
  BY <1>5 DEF LogTypeOK, Installed, diskVars, bufVars, logVars, Phase
<1>6. CASE ClearLog
  BY <1>6 DEF LogTypeOK, ClearLog, bufVars, Phase
<1>7. CASE ReadHead
  BY <1>7 DEF LogTypeOK, ReadHead, diskVars, bufVars, Phase
<1>8. ASSUME NEW p \in Procs, CommitDone(p) PROVE LogTypeOK'
  BY <1>8 DEF LogTypeOK, CommitDone, Wakeup, diskVars, bufVars, Phase
<1>9. CASE Crash
  <2>1. lh' \in Seq(Blocks) /\ Len(lh') <= LogBlocks /\ pinned' \subseteq Blocks
    BY <1>9 DEF Crash
  <2>2. /\ cache' \in [Blocks -> Values \union {NoBuf}]
        /\ call' \in [Procs -> {"idle", "asleep", "woken", "op", "commit", "panic"}]
        /\ wrote' \in [Procs -> SUBSET Blocks]
    BY <1>9 DEF Crash
  <2>3. outstanding' \in Nat /\ tail' \in 0 .. LogBlocks
    BY <1>9 DEF Crash
  <2>4. committing' \in BOOLEAN /\ phase' \in Phase
    BY <1>9 DEF Crash, Phase
  <2>5. home' = home /\ logged' = logged /\ header' = header
    BY <1>9 DEF Crash, diskVars
  <2> QED
    BY <2>1, <2>2, <2>3, <2>4, <2>5 DEF LogTypeOK
<1>10. ASSUME NEW b \in Blocks, Fill(b) PROVE LogTypeOK'
  BY <1>10 DEF LogTypeOK, Fill, diskVars, logVars
<1>11. ASSUME NEW b \in Blocks, Recycle(b) PROVE LogTypeOK'
  BY <1>11 DEF LogTypeOK, Recycle, diskVars, logVars
<1>12. ASSUME NEW p \in Procs, BeginOp(p) PROVE LogTypeOK'
  <2>1. call' \in [Procs -> {"idle", "asleep", "woken", "op", "commit", "panic"}]
    BY <1>12 DEF LogTypeOK, BeginOp
  <2>2. wrote' \in [Procs -> SUBSET Blocks]
    BY <1>12 DEF LogTypeOK, BeginOp
  <2>3. outstanding' \in Nat
    BY <1>12 DEF LogTypeOK, BeginOp
  <2> QED
    BY <1>12, <2>1, <2>2, <2>3 DEF LogTypeOK, BeginOp, diskVars, bufVars
<1>13. ASSUME NEW p \in Procs, EndOp(p) PROVE LogTypeOK'
  <2>1. call[p] = "op" /\ outstanding \in Nat
    BY <1>13 DEF EndOp, LogTypeOK
  <2>2. outstanding > 0
    BY <2>1, CountLemma
  <2>3. outstanding' \in Nat
    BY <1>13, <2>1, <2>2 DEF EndOp
  <2>4. call' \in [Procs -> {"idle", "asleep", "woken", "op", "commit", "panic"}]
    BY <1>13 DEF EndOp, LogTypeOK, Wakeup
  <2>5. committing' \in BOOLEAN /\ phase' \in Phase /\ tail' \in 0 .. LogBlocks
    <3>1. CASE outstanding' = 0
      <4>1. committing' = TRUE /\ phase' = "write_log" /\ tail' = 0
        BY <1>13, <3>1 DEF EndOp
      <4> QED
        BY <4>1 DEF Phase
    <3>2. CASE outstanding' # 0
      BY <1>13, <3>2 DEF EndOp, LogTypeOK
    <3> QED
      BY <3>1, <3>2
  <2> QED
    BY <1>13, <2>3, <2>4, <2>5 DEF LogTypeOK, EndOp, diskVars, bufVars
<1>14. ASSUME NEW p \in Procs, NEW b \in Blocks, NEW v \in Values, Write(p, b, v)
       PROVE  LogTypeOK'
  <2>1. lh' \in Seq(Blocks) /\ Len(lh') <= LogBlocks /\ pinned' \subseteq Blocks
    <3>1. CASE b \in Elems(lh)
      BY <1>14, <3>1, RoomToWrite DEF LogTypeOK
    <3>2. CASE b \notin Elems(lh)
      <4>1. lh' = Append(lh, b) /\ pinned' = pinned \union {b} /\ Len(lh) < LogBlocks
        BY <1>14, <3>2, RoomToWrite
      <4> QED
        BY <4>1, AppendLemma DEF LogTypeOK
    <3> QED
      BY <3>1, <3>2
  <2>2. cache' \in [Blocks -> Values \union {NoBuf}] /\ wrote' \in [Procs -> SUBSET Blocks]
    BY <1>14 DEF LogTypeOK, Write
  <2>3. call' = call
    BY <1>14, RoomToWrite
  <2> QED
    BY <1>14, <2>1, <2>2, <2>3 DEF LogTypeOK, Write, diskVars
<1> QED
  BY <1>1, <1>2, <1>3, <1>4, <1>5, <1>6, <1>7, <1>8, <1>9, <1>10, <1>11, <1>12,
     <1>13, <1>14 DEF LogNext, KernelStep

\* No step panics: only log_write() could, and it finds room.
LEMMA PanicStep ==
    ASSUME LogInv, LogNext
    PROVE  LogNeverPanics'
<1> USE DEF LogInv, LogNeverPanics
<1>1. CASE call' = call
  BY <1>1
<1>2. ASSUME NEW p \in Procs, BeginOp(p) \/ EndOp(p) \/ CommitDone(p)
      PROVE  LogNeverPanics'
  BY <1>2 DEF LogTypeOK, BeginOp, EndOp, CommitDone, Wakeup
<1>3. CASE Crash
  BY <1>3 DEF Crash
<1>4. ASSUME NEW p \in Procs, NEW b \in Blocks, NEW v \in Values, Write(p, b, v)
      PROVE  call' = call
  BY <1>4, RoomToWrite
<1> QED
  BY <1>1, <1>2, <1>3, <1>4
  DEF LogNext, KernelStep, WriteLog, WriteHead, NothingToCommit, Install, Installed,
      ClearLog, ReadHead, Fill, Recycle
-----------------------------------------------------------------------------
(* Admission: counting, reserving, sleeping                                *)

\* The admission to the log in one formula.
Admission == Counting /\ Reserved /\ SleeperHasWaker

\* With no system call in progress nothing is reserved.
LEMMA IdleNext ==
    ASSUME EachTyped', Active' = {},
           outstanding' = 0,
           committing' <=> phase' \in {"write_log", "install", "clear", "done"},
           phase' = "normal" => lh' = <<>>,
           SleeperHasWaker'
    PROVE  Admission'
<1>1. Reserve' = {}
  BY DEF Reserve
<1>2. Cardinality({}) = 0
  BY FS_EmptySet
<1>3. Counting'
  BY <1>2 DEF Counting
<1>4. Reserved'
  <2>1. Len(lh') + 0 <= LogBlocks
    BY Xv6LogAssumption DEF EachTyped
  <2> QED
    BY <1>1, <1>2, <2>1 DEF Reserved
<1> QED
  BY <1>3, <1>4 DEF Admission

\* A step of the file system that changes nothing of the admission.
LEMMA AdmissionKept ==
    ASSUME LogInv, call' = call, wrote' = wrote, lh' = lh, outstanding' = outstanding,
           committing' = committing, phase' = phase
    PROVE  Admission'
<1>1. Active' = Active
  BY DEF Active
<1>2. Reserve' = Reserve
  BY <1>1 DEF Reserve
<1> QED
  BY <1>1, <1>2 DEF LogInv, Admission, Counting, Reserved, SleeperHasWaker

\* A step of commit() or of the recovery: no system call is in progress.
LEMMA QuietStep ==
    ASSUME LogInv, EachTyped, EachTyped', phase # "normal",
           call' = call, outstanding' = outstanding,
           committing' = committing,
           committing' <=> phase' \in {"write_log", "install", "clear", "done"},
           phase' = "normal" => lh' = <<>>
    PROVE  Admission'
<1>1. Active = {} /\ Active' = Active
  BY DEF LogInv, Counting, Active
<1>2. outstanding = 0
  BY <1>1, FS_EmptySet DEF LogInv, Counting
<1>3. SleeperHasWaker'
  BY DEF LogInv, SleeperHasWaker
<1> QED
  BY <1>1, <1>2, <1>3, IdleNext

\* begin_op() when the process has to wait: somebody is there to wake it.
LEMMA BeginWaits ==
    ASSUME LogInv, EachTyped, EachTyped', NEW p \in Procs, BeginOp(p), MustWait
    PROVE  Admission'
<1>1. /\ Up /\ call[p] # "op" /\ call'[p] = "asleep"
      /\ \A q \in Procs \ {p} : call'[q] = call[q] /\ wrote'[q] = wrote[q]
      /\ outstanding' = outstanding /\ committing' = committing
      /\ phase' = phase /\ lh' = lh
  BY DEF BeginOp, LogInv, LogTypeOK
<1>2. Active' = Active
  BY <1>1 DEF EachTyped
<1>3. p \notin Active
  BY <1>1 DEF EachTyped
<1>4. Reserve' = Reserve
  BY <1>1, <1>2, <1>3 DEF Reserve, Active
<1>5. Counting'
  BY <1>1, <1>2 DEF LogInv, Counting
<1>6. Reserved'
  BY <1>1, <1>2, <1>3, <1>4 DEF LogInv, Reserved, EachTyped
<1>7. committing \/ Active # {}
  <2>1. SUFFICES ASSUME ~committing, Active = {} PROVE FALSE
    OBVIOUS
  <2>2. phase = "normal"
    BY <1>1, <2>1 DEF LogInv, Counting, Up, EachTyped, Phase
  <2>3. lh = <<>> /\ outstanding = 0
    BY <2>1, <2>2, FS_EmptySet DEF LogInv, Counting
  <2>4. Len(lh) = 0
    BY <2>3 DEF EachTyped
  <2>5. (outstanding + 1) * MaxOpBlocks = MaxOpBlocks
    BY <2>3, Xv6LogAssumption
  <2> QED
    BY <2>1, <2>4, <2>5, Xv6LogAssumption DEF MustWait
<1>8. SleeperHasWaker'
  BY <1>1, <1>2, <1>7 DEF SleeperHasWaker, EachTyped
<1> QED
  BY <1>5, <1>6, <1>8 DEF Admission

\* begin_op() admits a system call: there is room for MAXOPBLOCKS blocks of
\* each one in progress.
LEMMA BeginAdmits ==
    ASSUME LogInv, EachTyped, EachTyped', NEW p \in Procs, BeginOp(p), ~MustWait
    PROVE  Admission'
<1>1. /\ Up /\ call[p] # "op" /\ call'[p] = "op" /\ wrote'[p] = {}
      /\ \A q \in Procs \ {p} : call'[q] = call[q] /\ wrote'[q] = wrote[q]
      /\ outstanding' = outstanding + 1 /\ committing' = committing
      /\ phase' = phase /\ lh' = lh
  BY DEF BeginOp, LogInv, LogTypeOK
<1>2. ~committing /\ Len(lh) + (outstanding + 1) * MaxOpBlocks <= LogBlocks
  BY Xv6LogAssumption DEF MustWait, EachTyped
<1>3. phase = "normal"
  BY <1>1, <1>2 DEF LogInv, Counting, Up, EachTyped, Phase
<1>4. p \notin Active /\ Active' = Active \union {p}
  BY <1>1 DEF EachTyped
<1>5. Cardinality(Active') = outstanding + 1 /\ IsFiniteSet(Active')
  BY <1>4, FS_AddElement DEF LogInv, Counting, EachTyped
<1>6. Counting'
  BY <1>1, <1>2, <1>3, <1>4, <1>5 DEF LogInv, Counting
<1>7. Reserved'
  <2>1. IsFiniteSet(1 .. MaxOpBlocks) /\ Cardinality(1 .. MaxOpBlocks) = MaxOpBlocks
    BY Xv6LogAssumption, FS_Interval
  <2>2. /\ IsFiniteSet(Active' \X (1 .. MaxOpBlocks))
        /\ Cardinality(Active' \X (1 .. MaxOpBlocks)) = (outstanding + 1) * MaxOpBlocks
    BY <1>5, <2>1, FS_Product
  <2>3. Reserve' \in SUBSET (Active' \X (1 .. MaxOpBlocks))
    BY DEF Reserve
  <2>4. /\ IsFiniteSet(Reserve')
        /\ Cardinality(Reserve') <= (outstanding + 1) * MaxOpBlocks
    BY <2>2, <2>3, FS_Subset
  <2>5. Cardinality(Reserve') \in Nat
    BY <2>4, FS_CardinalityType
  <2>6. (outstanding + 1) * MaxOpBlocks \in Nat
    BY Xv6LogAssumption DEF EachTyped
  <2>7. Len(lh) + Cardinality(Reserve') <= LogBlocks
    <3>1. ASSUME NEW n \in Nat, NEW k \in Nat, NEW l \in Nat, NEW m \in Nat,
                 l + n <= m, k <= n
          PROVE  l + k <= m
      BY <3>1
    <3> QED
      BY <1>2, <2>4, <2>5, <2>6, <3>1, Xv6LogAssumption DEF EachTyped
  <2>8. \A q \in Active' : wrote'[q] \subseteq Elems(lh')
    BY <1>1, <1>4 DEF LogInv, Reserved, EachTyped
  <2> QED
    BY <1>1, <2>7, <2>8 DEF Reserved
<1>8. SleeperHasWaker'
  BY <1>1 DEF SleeperHasWaker
<1> QED
  BY <1>6, <1>7, <1>8 DEF Admission

\* end_op(): the last system call commits, any other one wakes the sleepers.
LEMMA EndAdmission ==
    ASSUME LogInv, EachTyped, EachTyped', NEW p \in Procs, EndOp(p)
    PROVE  Admission'
<1>1. /\ call[p] = "op" /\ outstanding' = outstanding - 1
      /\ lh' = lh /\ wrote' = wrote
  BY DEF EndOp
<1>2. /\ outstanding > 0 /\ phase = "normal"
      /\ Cardinality(Active \ {p}) = outstanding'
      /\ IsFiniteSet(Active \ {p})
  BY <1>1, CountLemma
<1>3. CASE outstanding' = 0
  <2>1. /\ committing' = TRUE /\ phase' = "write_log"
        /\ call'[p] = "commit" /\ \A q \in Procs \ {p} : call'[q] = call[q]
    BY <1>3 DEF EndOp, LogInv, LogTypeOK
  <2>2. Active' = Active \ {p}
    BY <2>1 DEF EachTyped
  <2>3. Active' = {}
    BY <1>2, <1>3, <2>2, FS_EmptySet
  <2>4. SleeperHasWaker'
    BY <2>1 DEF SleeperHasWaker
  <2> QED
    BY <1>3, <2>1, <2>3, <2>4, IdleNext
<1>4. CASE outstanding' # 0
  <2>1. /\ committing' = committing /\ phase' = phase
        /\ call' = Wakeup([call EXCEPT ![p] = "idle"])
    BY <1>4 DEF EndOp
  <2>2. /\ call'[p] = "idle"
        /\ \A q \in Procs \ {p} : call'[q] = IF call[q] = "asleep" THEN "woken" ELSE call[q]
    BY <2>1 DEF Wakeup, LogInv, LogTypeOK
  <2>3. \A q \in Procs : call'[q] # "asleep"
    BY <2>2
  <2>4. Active' = Active \ {p}
    BY <2>2 DEF EachTyped
  <2>5. Active' # {}
    BY <1>2, <1>4, <2>4, FS_EmptySet
  <2>6. Counting'
    BY <1>2, <2>1, <2>4, <2>5 DEF LogInv, Counting
  <2>7. Reserve' \subseteq Reserve
    BY <1>1, <2>4 DEF Reserve
  <2>8. Len(lh) + Cardinality(Reserve') <= LogBlocks
    <3>1. Cardinality(Reserve) \in Nat /\ Cardinality(Reserve') \in Nat
      BY <2>7, ReserveLemma
    <3>2. Cardinality(Reserve') <= Cardinality(Reserve)
      BY <2>7, ReserveLemma
    <3> QED
      BY <3>1, <3>2, Xv6LogAssumption DEF LogInv, Reserved, EachTyped
  <2>9. Reserved'
    BY <1>1, <2>4, <2>8 DEF LogInv, Reserved
  <2> QED
    BY <2>3, <2>6, <2>9 DEF Admission, SleeperHasWaker
<1> QED
  BY <1>3, <1>4

\* log_write() of a new block uses up one of the blocks that are reserved.
LEMMA WriteAdmission ==
    ASSUME LogInv, EachTyped, EachTyped',
           NEW p \in Procs, NEW b \in Blocks, NEW v \in Values, Write(p, b, v)
    PROVE  Admission'
<1>1. /\ call[p] = "op" /\ call' = call
      /\ Cardinality(wrote[p]) < MaxOpBlocks
      /\ wrote'[p] = wrote[p] \union {b}
      /\ \A q \in Procs \ {p} : wrote'[q] = wrote[q]
      /\ outstanding' = outstanding /\ committing' = committing /\ phase' = phase
  BY RoomToWrite DEF Write, LogInv, LogTypeOK
<1>2. Active' = Active /\ p \in Active
  BY <1>1 DEF Active
<1>3. phase = "normal"
  BY <1>2 DEF LogInv, Counting
<1>4. Counting'
  BY <1>1, <1>2, <1>3 DEF LogInv, Counting
<1>5. SleeperHasWaker'
  BY <1>1 DEF LogInv, SleeperHasWaker
<1>6. wrote[p] \subseteq Elems(lh) /\ IsFiniteSet(wrote[p])
  BY <1>2, ElemsLemma, FS_Subset DEF LogInv, Reserved, EachTyped
<1>7. /\ Cardinality(wrote[p]) \in Nat
      /\ Cardinality(wrote'[p]) =
           IF b \in wrote[p] THEN Cardinality(wrote[p]) ELSE Cardinality(wrote[p]) + 1
  BY <1>1, <1>6, FS_AddElement, FS_CardinalityType
<1>8. Reserve' \subseteq Reserve
  <2> SUFFICES ASSUME NEW q \in Active, NEW k \in 1 .. MaxOpBlocks,
                      k > Cardinality(wrote'[q])
               PROVE  k > Cardinality(wrote[q])
    BY <1>2 DEF Reserve
  <2>1. CASE q = p
    BY <1>7, <2>1
  <2>2. CASE q # p
    BY <1>1, <2>2 DEF EachTyped
  <2> QED
    BY <2>1, <2>2
<1>9. CASE b \in Elems(lh)
  <2>1. lh' = lh
    BY <1>9, RoomToWrite
  <2>2. Len(lh) + Cardinality(Reserve') <= LogBlocks
    <3>1. Cardinality(Reserve) \in Nat /\ Cardinality(Reserve') \in Nat
      BY <1>8, ReserveLemma
    <3>2. Cardinality(Reserve') <= Cardinality(Reserve)
      BY <1>8, ReserveLemma
    <3> QED
      BY <3>1, <3>2, Xv6LogAssumption DEF LogInv, Reserved, EachTyped
  <2>3. \A q \in Active' : wrote'[q] \subseteq Elems(lh')
    BY <1>1, <1>2, <1>6, <1>9, <2>1 DEF LogInv, Reserved, EachTyped
  <2> QED
    BY <1>4, <1>5, <2>1, <2>2, <2>3 DEF Admission, Reserved
<1>10. CASE b \notin Elems(lh)
  <2>1. lh' = Append(lh, b)
    BY <1>10, RoomToWrite
  <2>2. Len(lh') = Len(lh) + 1 /\ Elems(lh') = Elems(lh) \union {b}
    BY <2>1, AppendLemma DEF EachTyped
  <2>3. Cardinality(wrote'[p]) = Cardinality(wrote[p]) + 1
    BY <1>6, <1>7, <1>10
  <2> DEFINE r == <<p, Cardinality(wrote[p]) + 1>>
  <2>4. Cardinality(wrote[p]) + 1 \in 1 .. MaxOpBlocks
    BY <1>1, <1>7, <2>3, Xv6LogAssumption
  <2>5. r \in Reserve
    BY <1>2, <1>7, <2>4 DEF Reserve
  <2>6. r \notin Reserve'
    BY <1>7, <2>3 DEF Reserve
  <2>7. Reserve' \subseteq Reserve \ {r}
    BY <1>8, <2>6
  <2>8. /\ IsFiniteSet(Reserve \ {r})
        /\ Cardinality(Reserve \ {r}) = Cardinality(Reserve) - 1
    BY <2>5, ReserveLemma, FS_RemoveElement
  <2>9. Cardinality(Reserve') <= Cardinality(Reserve \ {r}) /\ Cardinality(Reserve') \in Nat
    BY <1>8, <2>7, <2>8, FS_Subset, ReserveLemma
  <2>10. Len(lh') + Cardinality(Reserve') <= LogBlocks
    BY <2>2, <2>8, <2>9, ReserveLemma, Xv6LogAssumption DEF LogInv, Reserved, EachTyped
  <2>11. \A q \in Active' : wrote'[q] \subseteq Elems(lh')
    BY <1>1, <1>2, <1>6, <2>2 DEF LogInv, Reserved, EachTyped
  <2> QED
    BY <1>4, <1>5, <2>10, <2>11 DEF Admission, Reserved
<1> QED
  BY <1>9, <1>10

\* Every step keeps the admission to the log in order.
LEMMA AdmissionStep ==
    ASSUME LogInv, LogNext, LogTypeOK', LogNeverPanics'
    PROVE  Admission'
<1>1. EachTyped /\ EachTyped'
  BY EachTypedNow, EachTypedNext DEF LogInv
<1> USE DEF diskVars, bufVars, logVars
<1>2. CASE WriteLog
  BY <1>2, AdmissionKept DEF WriteLog
<1>3. CASE WriteHead
  BY <1>1, <1>3, QuietStep DEF WriteHead, LogInv, Counting
<1>4. CASE NothingToCommit
  BY <1>1, <1>4, QuietStep DEF NothingToCommit, LogInv, Counting
<1>5. CASE Install
  BY <1>5, AdmissionKept DEF Install
<1>6. CASE Installed
  BY <1>1, <1>6, QuietStep DEF Installed, LogInv, Counting
<1>7. CASE ClearLog
  BY <1>1, <1>7, QuietStep DEF ClearLog, LogInv, Counting
<1>8. CASE ReadHead
  BY <1>1, <1>8, QuietStep DEF ReadHead, LogInv, Counting
<1>9. ASSUME NEW p \in Procs, CommitDone(p) PROVE Admission'
  <2>1. /\ call[p] = "commit" /\ phase = "done" /\ phase' = "normal" /\ committing' = FALSE
        /\ lh' = lh /\ outstanding' = outstanding
        /\ call' = Wakeup([call EXCEPT ![p] = "idle"])
    BY <1>9 DEF CommitDone
  <2>2. /\ call'[p] = "idle"
        /\ \A q \in Procs \ {p} : call'[q] = IF call[q] = "asleep" THEN "woken" ELSE call[q]
    BY <2>1 DEF Wakeup, LogInv, LogTypeOK
  <2>3. Active = {} /\ lh = <<>>
    BY <2>1 DEF LogInv, Counting, HeaderSound
  <2>4. Active' = {}
    BY <1>1, <2>1, <2>2, <2>3 DEF EachTyped
  <2>5. outstanding' = 0
    BY <2>1, <2>3, FS_EmptySet DEF LogInv, Counting
  <2>6. SleeperHasWaker'
    BY <2>2 DEF SleeperHasWaker
  <2> QED
    BY <1>1, <2>1, <2>3, <2>4, <2>5, <2>6, IdleNext
<1>10. CASE Crash
  <2>1. Active' = {} /\ SleeperHasWaker'
    BY <1>10 DEF Crash, Active, SleeperHasWaker
  <2>2. outstanding' = 0 /\ committing' = FALSE /\ phase' = "boot"
    BY <1>10 DEF Crash
  <2> QED
    BY <1>1, <2>1, <2>2, IdleNext
<1>11. ASSUME NEW b \in Blocks, Fill(b) PROVE Admission'
  BY <1>11, AdmissionKept DEF Fill
<1>12. ASSUME NEW b \in Blocks, Recycle(b) PROVE Admission'
  BY <1>12, AdmissionKept DEF Recycle
<1>13. ASSUME NEW p \in Procs, BeginOp(p) PROVE Admission'
  BY <1>1, <1>13, BeginWaits, BeginAdmits
<1>14. ASSUME NEW p \in Procs, EndOp(p) PROVE Admission'
  BY <1>1, <1>14, EndAdmission
<1>15. ASSUME NEW p \in Procs, NEW b \in Blocks, NEW v \in Values, Write(p, b, v)
       PROVE  Admission'
  BY <1>1, <1>15, WriteAdmission
<1> QED
  BY <1>2, <1>3, <1>4, <1>5, <1>6, <1>7, <1>8, <1>9, <1>10, <1>11, <1>12, <1>13,
     <1>14, <1>15 DEF LogNext, KernelStep
-----------------------------------------------------------------------------
(* The copies of a block: in the cache, in the log and at home             *)

\* The copies of the blocks in one formula.
Copies == HeaderSound /\ BuffersSound /\ PinsSound /\ CopiesSound

\* Reading a block into the cache, or recycling its buffer.
LEMMA BufferStep ==
    ASSUME LogInv, EachTyped, NEW b \in Blocks, Fill(b) \/ Recycle(b)
    PROVE  Copies'
<1>1. /\ home' = home /\ logged' = logged /\ header' = header /\ lh' = lh
      /\ pinned' = pinned /\ phase' = phase /\ tail' = tail
      /\ \A c \in Blocks \ {b} : cache'[c] = cache[c]
      /\ cache'[b] \in {NoBuf, home[b]}
  BY DEF Fill, Recycle, diskVars, logVars, LogInv, LogTypeOK
<1>2. b \notin pinned
  BY DEF Fill, Recycle, LogInv, BuffersSound
<1>3. HeaderSound'
  BY <1>1 DEF LogInv, HeaderSound
<1>4. BuffersSound'
  BY <1>1, <1>2 DEF LogInv, BuffersSound
<1>5. PinsSound'
  BY <1>1 DEF LogInv, PinsSound
<1>6. CopiesSound'
  <2> SUFFICES ASSUME NEW i \in 1 .. Len(lh)
               PROVE  /\ phase = "write_log" /\ i <= tail => logged[i] = cache'[lh[i]]
                      /\ phase = "install" /\ i > tail => lh[i] \in pinned /\ cache'[lh[i]] = logged[i]
                      /\ phase \in {"install", "recover"} /\ i <= tail => home[lh[i]] = logged[i]
                      /\ phase \in {"clear", "finish"} => home[lh[i]] = logged[i]
    BY <1>1 DEF CopiesSound
  <2>1. lh[i] \in Blocks /\ lh[i] \in Elems(lh)
    BY DEF EachTyped, Elems
  <2>2. phase \in {"write_log", "install"} /\ lh[i] = b => phase = "install" /\ i <= tail
    BY <1>2, <2>1 DEF LogInv, PinsSound, CopiesSound, EachTyped
  <2> QED
    BY <1>1, <2>1, <2>2 DEF LogInv, CopiesSound, EachTyped
<1> QED
  BY <1>3, <1>4, <1>5, <1>6 DEF Copies

\* begin_op(), and end_op() before the commit, copy nothing.
LEMMA CallStep ==
    ASSUME LogInv, EachTyped, EachTyped', NEW p \in Procs, BeginOp(p) \/ EndOp(p)
    PROVE  Copies'
<1>1. /\ home' = home /\ logged' = logged /\ header' = header /\ lh' = lh
      /\ pinned' = pinned /\ cache' = cache
  BY DEF BeginOp, EndOp, diskVars, bufVars
<1>2. \/ phase' = phase /\ tail' = tail
      \/ phase = "normal" /\ phase' = "write_log" /\ tail' = 0
  BY CountLemma DEF BeginOp, EndOp
<1>3. HeaderSound'
  BY <1>1, <1>2 DEF LogInv, HeaderSound, EachTyped
<1>4. BuffersSound' /\ PinsSound'
  BY <1>1, <1>2 DEF LogInv, BuffersSound, PinsSound
<1>5. CopiesSound'
  BY <1>1, <1>2 DEF LogInv, CopiesSound, EachTyped
<1> QED
  BY <1>3, <1>4, <1>5 DEF Copies

\* log_write() pins the block and notes its number, once.
LEMMA WriteStep ==
    ASSUME LogInv, EachTyped, EachTyped',
           NEW p \in Procs, NEW b \in Blocks, NEW v \in Values, Write(p, b, v)
    PROVE  Copies'
<1>1. /\ home' = home /\ logged' = logged /\ header' = header
      /\ phase' = phase /\ tail' = tail /\ phase = "normal"
      /\ cache'[b] = v /\ \A c \in Blocks \ {b} : cache'[c] = cache[c]
  BY CountLemma DEF Write, diskVars, LogInv, LogTypeOK
<1>2. v # NoBuf
  BY Xv6LogAssumption
<1>3. CopiesSound'
  BY <1>1 DEF CopiesSound
<1>4. CASE b \in Elems(lh)
  <2>1. lh' = lh /\ pinned' = pinned /\ b \in pinned
    BY <1>1, <1>4, RoomToWrite DEF LogInv, PinsSound
  <2>2. HeaderSound' /\ PinsSound'
    BY <1>1, <2>1 DEF LogInv, HeaderSound, PinsSound
  <2>3. BuffersSound'
    BY <1>1, <1>2, <2>1 DEF LogInv, BuffersSound
  <2> QED
    BY <1>3, <2>2, <2>3 DEF Copies
<1>5. CASE b \notin Elems(lh)
  <2>1. lh' = Append(lh, b) /\ pinned' = pinned \union {b}
    BY <1>5, RoomToWrite
  <2>2. /\ Len(lh') = Len(lh) + 1 /\ Elems(lh') = Elems(lh) \union {b}
        /\ \A i \in 1 .. Len(lh) : lh'[i] = lh[i]
        /\ lh'[Len(lh) + 1] = b
    BY <2>1, AppendLemma DEF EachTyped
  <2>3. Distinct(lh')
    <3> SUFFICES ASSUME NEW i \in 1 .. Len(lh) + 1, NEW j \in 1 .. Len(lh) + 1,
                        lh'[i] = lh'[j]
                 PROVE  i = j
      BY <2>2 DEF Distinct
    <3>1. \A k \in 1 .. Len(lh) : lh[k] # b
      BY <1>5 DEF Elems
    <3>2. CASE i \in 1 .. Len(lh) /\ j \in 1 .. Len(lh)
      BY <2>2, <3>2 DEF LogInv, HeaderSound, Distinct
    <3> QED
      BY <2>2, <3>1, <3>2 DEF EachTyped
  <2>4. HeaderSound'
    BY <1>1, <2>3 DEF LogInv, HeaderSound
  <2>5. PinsSound'
    BY <1>1, <2>1, <2>2 DEF LogInv, PinsSound
  <2>6. BuffersSound'
    BY <1>1, <1>2, <2>1 DEF LogInv, BuffersSound
  <2> QED
    BY <1>3, <2>4, <2>5, <2>6 DEF Copies
<1> QED
  BY <1>4, <1>5

\* write_log() copies the next block from the cache to the log.
LEMMA WriteLogStep ==
    ASSUME LogInv, EachTyped, EachTyped', WriteLog
    PROVE  Copies'
<1>1. /\ home' = home /\ header' = header /\ cache' = cache /\ pinned' = pinned
      /\ lh' = lh /\ phase' = phase /\ phase = "write_log"
      /\ tail < Len(lh) /\ tail' = tail + 1
      /\ logged' = [logged EXCEPT ![tail + 1] = Contents(lh[tail + 1])]
  BY DEF WriteLog, bufVars, logVars
<1>2. tail + 1 \in 1 .. LogBlocks /\ tail + 1 \in 1 .. Len(lh)
  BY <1>1, Xv6LogAssumption DEF EachTyped
<1>3. /\ logged'[tail + 1] = Contents(lh[tail + 1])
      /\ \A i \in 1 .. LogBlocks : i # tail + 1 => logged'[i] = logged[i]
  BY <1>1, <1>2 DEF LogInv, LogTypeOK
<1>4. lh[tail + 1] \in pinned
  BY <1>1, <1>2 DEF LogInv, PinsSound, EachTyped, Elems
<1>5. Contents(lh[tail + 1]) = cache[lh[tail + 1]]
  BY <1>4 DEF Contents, LogInv, BuffersSound, EachTyped
<1>6. HeaderSound'
  BY <1>1 DEF LogInv, HeaderSound, EachTyped
<1>7. BuffersSound' /\ PinsSound'
  BY <1>1 DEF LogInv, BuffersSound, PinsSound
<1>8. CopiesSound'
  <2> SUFFICES ASSUME NEW i \in 1 .. Len(lh), i <= tail + 1
               PROVE  logged'[i] = cache[lh[i]]
    BY <1>1 DEF CopiesSound
  <2>1. CASE i = tail + 1
    BY <1>3, <1>5, <2>1
  <2>2. CASE i # tail + 1
    <3>1. i <= tail /\ i \in 1 .. LogBlocks
      BY <2>2, Xv6LogAssumption DEF EachTyped
    <3> QED
      BY <1>1, <1>3, <2>2, <3>1 DEF LogInv, CopiesSound
  <2> QED
    BY <2>1, <2>2
<1> QED
  BY <1>6, <1>7, <1>8 DEF Copies

\* write_head() commits: every block of the log is in the log on disk.
LEMMA WriteHeadStep ==
    ASSUME LogInv, EachTyped, EachTyped', WriteHead \/ NothingToCommit
    PROVE  Copies'
<1>1. /\ home' = home /\ logged' = logged /\ cache' = cache /\ pinned' = pinned
      /\ lh' = lh /\ phase = "write_log"
  BY DEF WriteHead, NothingToCommit, diskVars, bufVars, logVars
<1>2. CASE WriteHead
  <2>1. header' = lh /\ phase' = "install" /\ tail' = 0 /\ tail = Len(lh)
    BY <1>2 DEF WriteHead
  <2>2. HeaderSound'
    BY <1>1, <2>1 DEF LogInv, HeaderSound, EachTyped
  <2>3. BuffersSound'
    BY <1>1 DEF LogInv, BuffersSound
  <2>4. PinsSound'
    <3> SUFFICES ASSUME NEW b \in pinned
                 PROVE  \E i \in 1 .. Len(lh) : i > 0 /\ lh[i] = b
      BY <1>1, <2>1 DEF PinsSound
    <3>1. b \in Elems(lh)
      BY <1>1 DEF LogInv, PinsSound, EachTyped
    <3> QED
      BY <3>1 DEF Elems, EachTyped
  <2>5. CopiesSound'
    <3> SUFFICES ASSUME NEW i \in 1 .. Len(lh)
                 PROVE  lh[i] \in pinned /\ cache[lh[i]] = logged[i]
      BY <1>1, <2>1 DEF CopiesSound, EachTyped
    <3> QED
      BY <1>1, <2>1 DEF LogInv, PinsSound, CopiesSound, EachTyped, Elems
  <2> QED
    BY <2>2, <2>3, <2>4, <2>5 DEF Copies
<1>3. CASE NothingToCommit
  <2>1. header' = header /\ phase' = "done" /\ lh = <<>> /\ Len(lh) = 0 /\ tail' = tail
    BY <1>3 DEF NothingToCommit, diskVars, EachTyped
  <2>2. pinned = {}
    BY <1>1, <2>1 DEF LogInv, PinsSound, EachTyped, Elems
  <2>3. HeaderSound' /\ BuffersSound' /\ PinsSound'
    BY <1>1, <2>1, <2>2 DEF LogInv, HeaderSound, BuffersSound, PinsSound
  <2>4. CopiesSound'
    BY <1>1, <2>1 DEF CopiesSound
  <2> QED
    BY <2>3, <2>4 DEF Copies
<1> QED
  BY <1>2, <1>3

\* install_trans() copies the next block home, and a commit unpins it.
LEMMA InstallStep ==
    ASSUME LogInv, EachTyped, EachTyped', Install
    PROVE  Copies'
<1> DEFINE b == lh[tail + 1]
<1>1. /\ logged' = logged /\ header' = header /\ lh' = lh /\ phase' = phase
      /\ phase \in {"install", "recover"}
      /\ tail < Len(lh) /\ tail' = tail + 1
      /\ pinned' = IF phase = "install" THEN pinned \ {b} ELSE pinned
  BY DEF Install, logVars
<1>2. tail + 1 \in 1 .. LogBlocks /\ tail + 1 \in 1 .. Len(lh) /\ b \in Blocks
  BY <1>1, Xv6LogAssumption DEF EachTyped
<1>3. /\ home'[b] = logged[tail + 1] /\ cache'[b] = logged[tail + 1]
      /\ \A c \in Blocks \ {b} : home'[c] = home[c] /\ cache'[c] = cache[c]
  BY <1>2 DEF Install, LogInv, LogTypeOK
<1>4. logged[tail + 1] # NoBuf
  BY <1>2, Xv6LogAssumption DEF EachTyped
<1>5. \A i \in 1 .. Len(lh) : i # tail + 1 => lh[i] # b
  BY <1>2 DEF LogInv, HeaderSound, Distinct
<1>6. HeaderSound'
  BY <1>1, <1>2 DEF LogInv, HeaderSound, EachTyped
<1>7. BuffersSound'
  <2> SUFFICES ASSUME NEW c \in Blocks
               PROVE  /\ c \notin pinned' => cache'[c] \in {NoBuf, home'[c]}
                      /\ c \in pinned' => cache'[c] # NoBuf
    BY DEF BuffersSound
  <2>1. CASE c = b
    BY <1>3, <1>4, <2>1
  <2>2. CASE c # b
    BY <1>1, <1>3, <2>2 DEF LogInv, BuffersSound
  <2> QED
    BY <2>1, <2>2
<1>8. PinsSound'
  <2>1. CASE phase = "install"
    <3> SUFFICES ASSUME NEW c \in pinned, c # b
                 PROVE  \E i \in 1 .. Len(lh) : i > tail + 1 /\ lh[i] = c
      BY <1>1, <2>1 DEF PinsSound
    <3>1. PICK i \in 1 .. Len(lh) : i > tail /\ lh[i] = c
      BY <2>1 DEF LogInv, PinsSound
    <3>2. i # tail + 1
      BY <3>1
    <3> QED
      BY <3>1, <3>2 DEF EachTyped
  <2>2. CASE phase = "recover"
    BY <1>1, <2>2 DEF LogInv, PinsSound
  <2> QED
    BY <1>1, <2>1, <2>2
<1>9. CopiesSound'
  <2> SUFFICES ASSUME NEW i \in 1 .. Len(lh)
               PROVE  /\ phase = "install" /\ i > tail + 1 =>
                            lh[i] \in pinned' /\ cache'[lh[i]] = logged[i]
                      /\ i <= tail + 1 => home'[lh[i]] = logged[i]
    BY <1>1 DEF CopiesSound
  <2>1. lh[i] \in Blocks
    BY DEF EachTyped
  <2>2. CASE i = tail + 1
    BY <1>3, <2>2 DEF EachTyped
  <2>3. CASE i # tail + 1
    <3>1. lh[i] # b
      BY <1>5, <2>3
    <3>2. home'[lh[i]] = home[lh[i]] /\ cache'[lh[i]] = cache[lh[i]]
      BY <1>3, <2>1, <3>1
    <3>3. (i > tail + 1 => i > tail) /\ (i <= tail + 1 => i <= tail)
      BY <2>3 DEF EachTyped
    <3> QED
      BY <1>1, <3>1, <3>2, <3>3 DEF LogInv, CopiesSound
  <2> QED
    BY <2>2, <2>3
<1> QED
  BY <1>6, <1>7, <1>8, <1>9 DEF Copies

\* The loop of install_trans() ends: every block of the log is at home.
LEMMA InstalledStep ==
    ASSUME LogInv, EachTyped, EachTyped', Installed
    PROVE  Copies'
<1>1. /\ home' = home /\ logged' = logged /\ header' = header /\ cache' = cache
      /\ pinned' = pinned /\ lh' = lh /\ tail = Len(lh)
      /\ \/ phase = "install" /\ phase' = "clear"
         \/ phase = "recover" /\ phase' = "finish"
  BY DEF Installed, diskVars, bufVars, logVars
<1>2. HeaderSound'
  BY <1>1 DEF LogInv, HeaderSound
<1>3. BuffersSound'
  BY <1>1 DEF LogInv, BuffersSound
<1>4. pinned = {}
  <2>1. CASE phase = "install"
    <3>1. \A i \in 1 .. Len(lh) : ~ (i > tail)
      BY <1>1 DEF EachTyped
    <3> QED
      BY <2>1, <3>1 DEF LogInv, PinsSound
  <2>2. CASE phase = "recover"
    BY <2>2 DEF LogInv, PinsSound
  <2> QED
    BY <1>1, <2>1, <2>2
<1>5. PinsSound'
  BY <1>1, <1>4 DEF PinsSound
<1>6. CopiesSound'
  <2> SUFFICES ASSUME NEW i \in 1 .. Len(lh) PROVE home[lh[i]] = logged[i]
    BY <1>1 DEF CopiesSound
  <2>1. i <= tail
    BY <1>1 DEF EachTyped
  <2> QED
    BY <1>1, <2>1 DEF LogInv, CopiesSound
<1> QED
  BY <1>2, <1>3, <1>5, <1>6 DEF Copies

\* The log is erased on disk, and the commit or the recovery ends.
LEMMA EraseStep ==
    ASSUME LogInv, EachTyped, EachTyped', ClearLog \/ \E p \in Procs : CommitDone(p)
    PROVE  Copies'
<1>1. /\ home' = home /\ logged' = logged /\ cache' = cache /\ pinned' = pinned
      /\ header' = <<>> /\ lh' = <<>> /\ phase' \in {"done", "normal"}
      /\ phase \in {"clear", "finish", "done"}
  BY DEF ClearLog, CommitDone, diskVars, bufVars, LogInv, HeaderSound
<1>2. pinned = {}
  BY <1>1 DEF LogInv, PinsSound
<1>3. Len(lh') = 0 /\ Elems(lh') = {}
  BY <1>1 DEF EachTyped, Elems
<1>4. HeaderSound'
  BY <1>1, <1>3 DEF HeaderSound, Distinct
<1>5. BuffersSound'
  BY <1>1 DEF LogInv, BuffersSound
<1>6. PinsSound'
  BY <1>1, <1>2, <1>3 DEF PinsSound
<1>7. CopiesSound'
  BY <1>3 DEF CopiesSound
<1> QED
  BY <1>4, <1>5, <1>6, <1>7 DEF Copies

\* After a crash the memory is empty, and the header is as it was.
LEMMA CrashStep ==
    ASSUME LogInv, EachTyped, EachTyped', Crash
    PROVE  Copies'
<1>1. /\ header' = header /\ lh' = <<>> /\ phase' = "boot" /\ pinned' = {}
      /\ \A b \in Blocks : cache'[b] = NoBuf
  BY DEF Crash, diskVars
<1>2. Len(lh') = 0
  BY <1>1 DEF EachTyped
<1>3. HeaderSound'
  BY <1>1, <1>2 DEF LogInv, HeaderSound, Distinct
<1>4. BuffersSound' /\ PinsSound' /\ CopiesSound'
  BY <1>1, <1>2 DEF BuffersSound, PinsSound, CopiesSound
<1> QED
  BY <1>3, <1>4 DEF Copies

\* read_head(): recovery works on the header that is on disk.
LEMMA ReadHeadStep ==
    ASSUME LogInv, EachTyped, EachTyped', ReadHead
    PROVE  Copies'
<1>1. /\ home' = home /\ logged' = logged /\ header' = header /\ cache' = cache
      /\ pinned' = pinned /\ lh' = header /\ phase = "boot" /\ phase' = "recover"
      /\ tail' = 0
  BY DEF ReadHead, diskVars, bufVars
<1>2. HeaderSound'
  BY <1>1 DEF LogInv, HeaderSound, EachTyped
<1>3. BuffersSound' /\ PinsSound'
  BY <1>1 DEF LogInv, BuffersSound, PinsSound
<1>4. CopiesSound'
  BY <1>1 DEF CopiesSound, EachTyped
<1> QED
  BY <1>2, <1>3, <1>4 DEF Copies

\* Every step of the log keeps the invariant.
LEMMA InvariantStep ==
    ASSUME LogInv, [LogNext]_diskLogVars
    PROVE  LogInv'
<1>1. CASE LogNext
  <2>1. LogTypeOK' /\ LogNeverPanics'
    BY <1>1, TypeStep, PanicStep
  <2>2. EachTyped /\ EachTyped'
    BY <2>1, EachTypedNow, EachTypedNext DEF LogInv
  <2>3. Admission'
    BY <1>1, <2>1, AdmissionStep
  <2>4. Copies'
    BY <1>1, <2>2, BufferStep, CallStep, WriteStep, WriteLogStep, WriteHeadStep,
       InstallStep, InstalledStep, EraseStep, CrashStep, ReadHeadStep
    DEF LogNext, KernelStep
  <2> QED
    BY <2>1, <2>3, <2>4 DEF LogInv, Admission, Copies
<1>2. CASE UNCHANGED diskLogVars
  <2>1. /\ home' = home /\ logged' = logged /\ header' = header /\ cache' = cache
        /\ pinned' = pinned /\ lh' = lh /\ outstanding' = outstanding
        /\ committing' = committing /\ call' = call /\ wrote' = wrote /\ phase' = phase
        /\ tail' = tail
    BY <1>2 DEF diskLogVars, diskVars, bufVars, logVars
  <2>2. LogTypeOK' /\ LogNeverPanics'
    BY <2>1 DEF LogInv, LogTypeOK, LogNeverPanics
  <2>3. Admission'
    BY <2>1, AdmissionKept
  <2>4. Copies'
    BY <2>1 DEF LogInv, Copies, HeaderSound, BuffersSound, PinsSound, CopiesSound
  <2> QED
    BY <2>2, <2>3, <2>4 DEF LogInv, Admission, Copies
<1> QED
  BY <1>1, <1>2

\* The log that mkfs leaves is empty.
LEMMA InvariantInit == LogInit => LogInv
<1> SUFFICES ASSUME LogInit PROVE LogInv
  OBVIOUS
<1>0. LogNeverPanics
  BY DEF LogInit, LogNeverPanics
<1>1. LogTypeOK
  <2>1. /\ lh \in Seq(Blocks) /\ Len(lh) <= LogBlocks /\ header \in Seq(Blocks)
        /\ Len(header) <= LogBlocks
    BY Xv6LogAssumption DEF LogInit
  <2>2. /\ cache \in [Blocks -> Values \union {NoBuf}]
        /\ call \in [Procs -> {"idle", "asleep", "woken", "op", "commit", "panic"}]
        /\ wrote \in [Procs -> SUBSET Blocks]
        /\ pinned \subseteq Blocks
    BY DEF LogInit
  <2>3. home \in [Blocks -> Values] /\ logged \in [1 .. LogBlocks -> Values]
    BY Xv6LogAssumption DEF LogInit
  <2>4. outstanding \in Nat /\ tail \in 0 .. LogBlocks
    BY Xv6LogAssumption DEF LogInit
  <2>5. committing \in BOOLEAN /\ phase \in Phase
    BY DEF LogInit, Phase
  <2> QED
    BY <2>1, <2>2, <2>3, <2>4, <2>5 DEF LogTypeOK
<1>2. EachTyped
  BY <1>0, <1>1, EachTypedNow
<1>3. Active = {} /\ Reserve = {}
  BY DEF LogInit, Active, Reserve
<1>4. Cardinality({}) = 0
  BY FS_EmptySet
<1>5. Counting
  BY <1>3, <1>4 DEF Counting, LogInit
<1>6. Reserved
  <2>1. Len(lh) + 0 <= LogBlocks
    BY <1>2, Xv6LogAssumption DEF EachTyped
  <2> QED
    BY <1>3, <1>4, <2>1 DEF Reserved
<1>7. SleeperHasWaker
  BY DEF LogInit, SleeperHasWaker
<1>8. HeaderSound
  BY <1>2 DEF LogInit, HeaderSound, Distinct, EachTyped
<1>9. BuffersSound /\ PinsSound /\ CopiesSound
  BY DEF LogInit, BuffersSound, PinsSound, CopiesSound
<1> QED
  BY <1>0, <1>1, <1>5, <1>6, <1>7, <1>8, <1>9 DEF LogInv

\* The invariant of the log: what is reserved, what is pinned, and which
\* copy of each block is up to date in each phase of log.c.
THEOREM LogInvariant == LogSpec => []LogInv
BY InvariantInit, InvariantStep, PTL DEF LogSpec

\* begin_op() admits only who finds room in the log, so that log_write() does
\* not panic, and who sleeps in it has somebody who will wake it.
THEOREM LogAdmitsAll == LogSpec => []LogAdmits
<1>1. LogInv => LogAdmits
  BY DEF LogInv, LogAdmits
<1> QED
  BY <1>1, LogInvariant, PTL
-----------------------------------------------------------------------------
(* The log implements TransactionalDisk                                    *)

\* What a crash would leave, after a step.
LEMMA RecoveredNext ==
    ASSUME header' \in Seq(Blocks), Distinct(header')
    PROVE  /\ \A b \in Blocks : b \notin Elems(header') => Recovered'[b] = home'[b]
           /\ \A i \in 1 .. Len(header') : Recovered'[header'[i]] = logged'[i]
<1>1. ASSUME NEW i \in 1 .. Len(header')
      PROVE  Recovered'[header'[i]] = logged'[i]
  <2>1. header'[i] \in Blocks /\ header'[i] \in Elems(header')
    BY DEF Elems
  <2>2. (CHOOSE j \in 1 .. Len(header') : header'[j] = header'[i]) = i
    BY LookupLemma
  <2> QED
    BY <2>1, <2>2 DEF Recovered
<1> QED
  BY <1>1 DEF Recovered

\* The two views of the disk are functions of the blocks.
LEMMA Views ==
    /\ (\A b \in Blocks : Recovered'[b] = Recovered[b]) => Recovered' = Recovered
    /\ (\A b \in Blocks : Current'[b] = Current[b]) => Current' = Current
    /\ (\A b \in Blocks : Recovered'[b] = Current[b]) => Recovered' = Current
    /\ \A b \in Blocks : Current[b] = IF Up THEN Contents(b) ELSE Recovered[b]
    /\ \A b \in Blocks : Current'[b] = IF Up' THEN Contents(b)' ELSE Recovered'[b]
<1>1. /\ Recovered = [b \in Blocks |-> Recovered[b]]
      /\ Recovered' = [b \in Blocks |-> Recovered'[b]]
  BY DEF Recovered
<1>2. /\ Current = [b \in Blocks |-> Current[b]]
      /\ Current' = [b \in Blocks |-> Current'[b]]
  BY <1>1 DEF Current
<1>3. /\ \A b \in Blocks : Current[b] = IF Up THEN Contents(b) ELSE Recovered[b]
      /\ \A b \in Blocks : Current'[b] = IF Up' THEN Contents(b)' ELSE Recovered'[b]
  BY DEF Current
<1>4. (\A b \in Blocks : Recovered'[b] = Recovered[b]) => Recovered' = Recovered
  BY <1>1
<1>5. (\A b \in Blocks : Current'[b] = Current[b]) => Current' = Current
  BY <1>2
<1>6. (\A b \in Blocks : Recovered'[b] = Current[b]) => Recovered' = Current
  BY <1>1, <1>2
<1> QED
  BY <1>3, <1>4, <1>5, <1>6

\* A block that is not pinned is read as it is on disk.
LEMMA ReadLemma ==
    ASSUME LogInv, NEW b \in Blocks
    PROVE  Contents(b) = IF b \in pinned THEN cache[b] ELSE home[b]
BY DEF LogInv, BuffersSound, Contents

\* What recovery would leave does not change when the disk does not.
LEMMA SameDisk ==
    ASSUME UNCHANGED diskVars
    PROVE  Recovered' = Recovered
BY DEF diskVars, Recovered

\* The initial states of the log are initial states of the service.
LEMMA ServiceInit == LogInit => Service!Init
<1> SUFFICES ASSUME LogInit PROVE Service!Init
  OBVIOUS
<1>1. LogInv
  BY InvariantInit
<1>2. Elems(header) = {}
  BY DEF LogInit, Elems
<1>3. Recovered = InitialDisk
  BY <1>2, Xv6LogAssumption DEF Recovered, LogInit
<1>4. Current = InitialDisk
  BY <1>3 DEF Current, Up, LogInit
<1>5. {p \in Procs : call[p] = "op"} = {}
  BY DEF LogInit
<1> QED
  BY <1>3, <1>4, <1>5 DEF Service!Init

\* A step that the service does not see.
LEMMA Unseen ==
    ASSUME Current' = Current, Recovered' = Recovered, Active' = Active
    PROVE  UNCHANGED Service!vars
BY DEF Service!vars, Active

\* Fill and Recycle change no contents.
LEMMA ServiceBuffers ==
    ASSUME LogInv, EachTyped, NEW b \in Blocks, Fill(b) \/ Recycle(b)
    PROVE  UNCHANGED Service!vars
<1>1. /\ UNCHANGED diskVars /\ home' = home /\ phase' = phase /\ call' = call /\ Up
      /\ \A c \in Blocks \ {b} : cache'[c] = cache[c]
      /\ cache'[b] \in {NoBuf, home[b]}
  BY DEF Fill, Recycle, diskVars, LogInv, LogTypeOK
<1>2. b \notin pinned
  BY DEF Fill, Recycle, LogInv, BuffersSound
<1>3. Recovered' = Recovered
  BY <1>1, SameDisk
<1>4. ASSUME NEW c \in Blocks PROVE Current'[c] = Current[c]
  <2>1. Up /\ Up'
    BY <1>1 DEF Up
  <2>2. CASE c = b
    <3>1. Contents(c) = home[b]
      BY <1>2, <2>2, ReadLemma
    <3>2. Contents(c)' = home[b]
      BY <1>1, <2>2 DEF Contents
    <3> QED
      BY <2>1, <3>1, <3>2, Views
  <2>3. CASE c # b
    <3>1. Contents(c)' = Contents(c)
      BY <1>1, <2>3 DEF Contents
    <3> QED
      BY <2>1, <3>1, Views
  <2> QED
    BY <2>2, <2>3
<1>5. Active' = Active
  BY <1>1 DEF Active
<1> QED
  BY <1>3, <1>4, <1>5, Views, Unseen

\* begin_op() begins a transaction, or waits.
LEMMA ServiceBegin ==
    ASSUME LogInv, EachTyped, EachTyped', NEW p \in Procs, BeginOp(p)
    PROVE  Service!Begin(p) \/ UNCHANGED Service!vars
<1>1. /\ UNCHANGED diskVars /\ home' = home /\ phase' = phase /\ cache' = cache
      /\ call[p] # "op" /\ call'[p] \in {"op", "asleep"}
      /\ \A q \in Procs \ {p} : call'[q] = call[q]
  BY DEF BeginOp, diskVars, bufVars, LogInv, LogTypeOK
<1>2. Recovered' = Recovered
  BY <1>1, SameDisk
<1>3. Current' = Current
  BY <1>1, <1>2 DEF Current, Up, Contents
<1>4. CASE call'[p] = "op"
  <2>1. Active' = Active \union {p} /\ p \notin Active
    BY <1>1, <1>4 DEF EachTyped
  <2> QED
    BY <1>2, <1>3, <2>1 DEF Service!Begin, Active
<1>5. CASE call'[p] = "asleep"
  <2>1. Active' = Active
    BY <1>1, <1>5 DEF EachTyped
  <2> QED
    BY <1>2, <1>3, <2>1, Unseen
<1> QED
  BY <1>1, <1>4, <1>5

\* end_op() ends it, also when the commit follows.
LEMMA ServiceEnd ==
    ASSUME LogInv, EachTyped, EachTyped', NEW p \in Procs, EndOp(p)
    PROVE  Service!End(p)
<1>1. /\ UNCHANGED diskVars /\ home' = home /\ cache' = cache
      /\ call[p] = "op" /\ call'[p] # "op"
      /\ \A q \in Procs \ {p} : call'[q] = "op" <=> call[q] = "op"
  BY DEF EndOp, Wakeup, diskVars, bufVars, LogInv, LogTypeOK
<1>2. phase = "normal" /\ phase' \in {"normal", "write_log"}
  BY <1>1, CountLemma DEF EndOp
<1>3. Recovered' = Recovered
  BY <1>1, SameDisk
<1>4. Current' = Current
  BY <1>1, <1>2 DEF Current, Up, Contents
<1>5. Active' = Active \ {p} /\ p \in Active
  BY <1>1 DEF EachTyped
<1> QED
  BY <1>3, <1>4, <1>5 DEF Service!End, Active

\* A write changes the block for all system calls, and not what a crash
\* would leave.
LEMMA ServiceWrite ==
    ASSUME LogInv, EachTyped, EachTyped',
           NEW p \in Procs, NEW b \in Blocks, NEW v \in Values, Write(p, b, v)
    PROVE  Service!Write(p, b, v)
<1>1. /\ UNCHANGED diskVars /\ home' = home /\ phase' = phase /\ phase = "normal"
      /\ call' = call /\ call[p] = "op"
      /\ cache' = [cache EXCEPT ![b] = v]
  BY CountLemma, RoomToWrite DEF Write, diskVars
<1>2. Recovered' = Recovered
  BY <1>1, SameDisk
<1>3. Up /\ Up'
  BY <1>1 DEF Up
<1>4. \A c \in Blocks : Contents(c)' = IF c = b THEN v ELSE Contents(c)
  BY <1>1, Xv6LogAssumption DEF Contents, LogInv, LogTypeOK
<1>5. Current = [c \in Blocks |-> Contents(c)] /\ Current' = [c \in Blocks |-> Contents(c)']
  BY <1>3 DEF Current
<1>6. Current' = [Current EXCEPT ![b] = v]
  BY <1>4, <1>5
<1>7. Active' = Active /\ p \in Active
  BY <1>1 DEF Active
<1> QED
  BY <1>2, <1>6, <1>7 DEF Service!Write, Active

\* write_log(): a crash still leaves the blocks at home.
LEMMA ServiceWriteLog ==
    ASSUME LogInv, EachTyped, WriteLog
    PROVE  UNCHANGED Service!vars
<1>1. /\ home' = home /\ header' = header /\ cache' = cache /\ call' = call
      /\ phase' = phase /\ phase = "write_log"
  BY DEF WriteLog, bufVars
<1>2. Elems(header) = {}
  BY <1>1 DEF LogInv, HeaderSound, Elems
<1>3. Recovered' = Recovered
  BY <1>1, <1>2 DEF Recovered
<1>4. Current' = Current
  BY <1>1, <1>3 DEF Current, Up, Contents
<1> QED
  BY <1>1, <1>3, <1>4, Unseen DEF Active

\* write_head() with the block numbers is the moment of the commit.
LEMMA ServiceCommit ==
    ASSUME LogInv, EachTyped, EachTyped', LogInv', WriteHead
    PROVE  Service!Commit
<1>1. /\ home' = home /\ logged' = logged /\ cache' = cache /\ call' = call
      /\ header' = lh /\ phase = "write_log" /\ phase' = "install" /\ tail = Len(lh)
  BY DEF WriteHead, bufVars
<1>2. Up /\ Up'
  BY <1>1 DEF Up
<1>3. Current' = Current
  BY <1>1, <1>2 DEF Current, Contents
<1>4. Active = {} /\ Active' = Active
  BY <1>1 DEF LogInv, Counting, Active
<1>5. ASSUME NEW b \in Blocks PROVE Recovered'[b] = Current[b]
  <2>1. Current[b] = Contents(b)
    BY <1>2, Views
  <2>2. b \in pinned <=> b \in Elems(lh)
    BY <1>1 DEF LogInv, PinsSound
  <2>3. CASE b \in Elems(lh)
    <3>1. PICK i \in 1 .. Len(lh) : lh[i] = b
      BY <2>3 DEF Elems
    <3>2. logged[i] = cache[b]
      BY <1>1, <3>1 DEF LogInv, CopiesSound, EachTyped
    <3>3. Recovered'[b] = logged[i]
      BY <1>1, <3>1, RecoveredNext DEF LogInv, HeaderSound, EachTyped
    <3>4. Contents(b) = cache[b]
      BY <2>2, <2>3, ReadLemma
    <3> QED
      BY <2>1, <3>2, <3>3, <3>4
  <2>4. CASE b \notin Elems(lh)
    <3>1. Recovered'[b] = home[b]
      BY <1>1, <2>4, RecoveredNext DEF LogInv, HeaderSound, EachTyped
    <3> QED
      BY <2>1, <2>2, <2>4, <3>1, ReadLemma
  <2> QED
    BY <2>3, <2>4
<1>6. Recovered' = Current
  BY <1>5, Views
<1> QED
  BY <1>3, <1>4, <1>6 DEF Service!Commit, Active

\* install_trans(): the block was committed already, and a reader saw it.
LEMMA ServiceInstall ==
    ASSUME LogInv, EachTyped, EachTyped', LogInv', Install
    PROVE  UNCHANGED Service!vars
<1> DEFINE b == lh[tail + 1]
<1>1. /\ logged' = logged /\ header' = header /\ lh' = lh /\ phase' = phase /\ call' = call
      /\ phase \in {"install", "recover"} /\ tail < Len(lh)
  BY DEF Install, logVars
<1>2. tail + 1 \in 1 .. Len(lh) /\ b \in Blocks
  BY <1>1 DEF EachTyped
<1>3. /\ home'[b] = logged[tail + 1] /\ cache'[b] = logged[tail + 1]
      /\ \A c \in Blocks \ {b} : home'[c] = home[c] /\ cache'[c] = cache[c]
  BY <1>2 DEF Install, LogInv, LogTypeOK
<1>4. header = lh /\ b \in Elems(header)
  BY <1>1, <1>2 DEF LogInv, HeaderSound, Elems
<1>5. Recovered' = Recovered
  BY <1>1, <1>3, <1>4 DEF Recovered
<1>6. ASSUME NEW c \in Blocks PROVE Current'[c] = Current[c]
  <2>1. CASE phase = "recover"
    BY <1>1, <1>5, <2>1, Views DEF Up
  <2>2. CASE phase = "install"
    <3>1. Up /\ Up'
      BY <1>1, <2>2 DEF Up
    <3>2. Contents(c)' = Contents(c)
      <4>1. CASE c = b
        <5>1. b \in pinned /\ cache[b] = logged[tail + 1]
          BY <1>2, <2>2 DEF LogInv, CopiesSound, EachTyped
        <5>2. Contents(c) = logged[tail + 1]
          BY <4>1, <5>1, ReadLemma
        <5>3. Contents(c)' = logged[tail + 1]
          BY <1>3, <4>1 DEF Contents
        <5> QED
          BY <5>2, <5>3
      <4>2. CASE c # b
        BY <1>3, <4>2 DEF Contents
      <4> QED
        BY <4>1, <4>2
    <3> QED
      BY <3>1, <3>2, Views
  <2> QED
    BY <1>1, <2>1, <2>2
<1> QED
  BY <1>1, <1>5, <1>6, Views, Unseen DEF Active

\* The log may be erased: its blocks are at home.
LEMMA ServiceClear ==
    ASSUME LogInv, EachTyped, EachTyped', LogInv', ClearLog
    PROVE  UNCHANGED Service!vars
<1>1. /\ home' = home /\ cache' = cache /\ pinned' = pinned /\ call' = call
      /\ header' = <<>>
      /\ \/ phase = "clear" /\ phase' = "done"
         \/ phase = "finish" /\ phase' = "normal"
  BY DEF ClearLog, bufVars
<1>2. header = lh /\ Elems(header') = {}
  BY <1>1 DEF LogInv, HeaderSound, Elems
<1>3. \A b \in Blocks : Recovered'[b] = home[b]
  BY <1>1, <1>2 DEF Recovered
<1>4. ASSUME NEW b \in Blocks PROVE Recovered[b] = home[b]
  <2>1. CASE b \in Elems(lh)
    <3>1. PICK i \in 1 .. Len(lh) : lh[i] = b
      BY <2>1 DEF Elems
    <3>2. home[b] = logged[i]
      BY <1>1, <3>1 DEF LogInv, CopiesSound
    <3> QED
      BY <1>2, <3>1, <3>2, RecoveredLemma DEF LogInv, HeaderSound, EachTyped
  <2>2. CASE b \notin Elems(lh)
    BY <1>2, <2>2, RecoveredLemma DEF LogInv, HeaderSound, EachTyped
  <2> QED
    BY <2>1, <2>2
<1>5. Recovered' = Recovered
  BY <1>3, <1>4, Views
<1>6. ASSUME NEW b \in Blocks PROVE Current'[b] = Current[b]
  <2>1. Contents(b)' = Contents(b)
    BY <1>1 DEF Contents
  <2>2. Contents(b) = home[b]
    BY <1>1, ReadLemma DEF LogInv, PinsSound
  <2> QED
    BY <1>1, <1>4, <2>1, <2>2, Views DEF Up
<1> QED
  BY <1>1, <1>5, <1>6, Views, Unseen DEF Active

\* The other steps of commit() and of the recovery change no block.
LEMMA ServicePhase ==
    ASSUME LogInv, EachTyped, EachTyped',
           \/ NothingToCommit \/ Installed \/ ReadHead
           \/ \E p \in Procs : CommitDone(p)
    PROVE  UNCHANGED Service!vars
<1>1. UNCHANGED diskVars /\ home' = home /\ cache' = cache /\ (Up' <=> Up)
  BY DEF NothingToCommit, Installed, ReadHead, CommitDone, diskVars, bufVars, Up
<1>2. Recovered' = Recovered
  BY <1>1, SameDisk
<1>3. Current' = Current
  BY <1>1, <1>2 DEF Current, Contents
<1>4. Active' = Active
  <2>1. CASE NothingToCommit \/ Installed \/ ReadHead
    BY <2>1 DEF NothingToCommit, Installed, ReadHead, Active
  <2>2. ASSUME NEW p \in Procs, CommitDone(p) PROVE Active' = Active
    <3>1. /\ call[p] # "op" /\ call'[p] # "op"
          /\ \A q \in Procs \ {p} : call'[q] = "op" <=> call[q] = "op"
      BY <2>2 DEF CommitDone, Wakeup, LogInv, LogTypeOK
    <3> QED
      BY <3>1 DEF EachTyped
  <2> QED
    BY <2>1, <2>2
<1> QED
  BY <1>2, <1>3, <1>4, Unseen

\* A crash, also in a commit or a recovery, takes the disk back to the last
\* commit.
LEMMA ServiceCrash ==
    ASSUME Crash
    PROVE  Service!Crash
<1>1. UNCHANGED diskVars /\ phase' = "boot"
  BY DEF Crash
<1>2. Recovered' = Recovered
  BY <1>1, SameDisk
<1>3. Current' = Recovered
  BY <1>1, <1>2 DEF Current, Up
<1>4. Active' = {}
  BY DEF Crash, Active
<1> QED
  BY <1>2, <1>3, <1>4 DEF Service!Crash, Active

\* Every step of the log is a step of the service, or one it does not see.
LEMMA ServiceStep ==
    ASSUME LogInv, LogInv', [LogNext]_diskLogVars
    PROVE  [Service!Next]_(Service!vars)
<1>1. EachTyped /\ EachTyped'
  BY EachTypedNow, EachTypedNext DEF LogInv
<1>2. CASE UNCHANGED diskLogVars
  <2>1. UNCHANGED diskVars /\ home' = home /\ cache' = cache /\ phase' = phase /\ call' = call
    BY <1>2 DEF diskLogVars, diskVars, bufVars
  <2>2. Recovered' = Recovered
    BY <2>1, SameDisk
  <2>3. Current' = Current
    BY <2>1, <2>2 DEF Current, Up, Contents
  <2> QED
    BY <2>1, <2>2, <2>3, Unseen DEF Active
<1>3. CASE KernelStep
  <2>1. CASE WriteHead
    BY <1>1, <2>1, ServiceCommit DEF Service!Next
  <2> QED
    BY <1>1, <1>3, <2>1, ServiceWriteLog, ServiceInstall, ServiceClear, ServicePhase
    DEF KernelStep
<1>4. CASE Crash
  BY <1>4, ServiceCrash DEF Service!Next
<1>5. ASSUME NEW b \in Blocks, Fill(b) \/ Recycle(b) PROVE UNCHANGED Service!vars
  BY <1>1, <1>5, ServiceBuffers
<1>6. ASSUME NEW p \in Procs, BeginOp(p) PROVE Service!Begin(p) \/ UNCHANGED Service!vars
  BY <1>1, <1>6, ServiceBegin
<1>7. ASSUME NEW p \in Procs, EndOp(p) PROVE Service!End(p)
  BY <1>1, <1>7, ServiceEnd
<1>8. ASSUME NEW p \in Procs, NEW b \in Blocks, NEW v \in Values, Write(p, b, v)
      PROVE  Service!Write(p, b, v)
  BY <1>1, <1>8, ServiceWrite
<1> QED
  BY <1>2, <1>3, <1>4, <1>5, <1>6, <1>7, <1>8 DEF LogNext, Service!Next

\* The log implements TransactionalDisk: the disk comes back from a crash at
\* any write as it was when no system call was in progress.
THEOREM LogIsTransactional == LogSpec => Transactional
<1>1. LogInit => Service!Init
  BY ServiceInit
<1>2. LogInv /\ LogInv' /\ [LogNext]_diskLogVars => [Service!Next]_(Service!vars)
  BY ServiceStep
<1> QED
  BY <1>1, <1>2, LogInvariant, PTL DEF LogSpec, Transactional, Service!Spec
=============================================================================
