--------------------------- MODULE Xv6FilesProofs ---------------------------
(***************************************************************************)
(* Proofs about Xv6Files, for any number of processes, inodes, names,      *)
(* blocks, open files and descriptors: the table of inodes and the table   *)
(* of files are what their users and the inodes on disk say (TablesSound), *)
(* over all system calls, crashes and boots.                               *)
(*                                                                         *)
(* The invariant, Tables, says what each process holds at its place in a   *)
(* system call: the inodes it refers to (Uses, counted with the current    *)
(* directories and the open files: RefsOK), the one it has locked          *)
(* (LocksOK), and what its fields are for (Shape).  CopiesOK says how far  *)
(* the copy of an inode in memory may be from the one on disk: not at all  *)
(* but while its lock is held to write or to free it.  FilesOK counts      *)
(* descriptors.                                                            *)
(*                                                                         *)
(* First come facts about the operations on the kernel's state (ialloc,    *)
(* ilock, iupdate, bmap, itrunc, dirlink ...): what they return, and what  *)
(* they leave alone; then facts about counting, and the lemmas that reduce *)
(* a step of one process to the inodes that it touches (UserStep).  The    *)
(* steps follow, of the calls on names, on open files, the end of a call   *)
(* (iput), crash and boot, and then the theorem.                           *)
(***************************************************************************)
EXTENDS Xv6Files, FiniteSetTheorems, TLAPS

Types   == {"none", "dir", "file", "device", "baddev"}
Addrs   == [0 .. NDirect -> Blocks \union {0}]
Dinodes == [type: Types, nlink: Int, size: Nat, addrs: Addrs]
Places  == {"user", "end", "walk", "linkOld", "linkNew", "linkBad", "unlink", "unlinkChild",
            "unlinkLast", "create", "createOld", "createNew", "createFail", "made", "read",
            "rdwr", "trunc", "openFile", "chdir", "chdirEnd", "writeOp", "writei"}
Dirs    == [Inums -> [Entries -> Inums \union {0}]]
Inds    == [Inums -> [0 .. NIndirect - 1 -> Blocks \union {0}]]
FsTypes == [ino: [Inums -> Dinodes], ents: Dirs, ind: Inds, used: SUBSET Blocks,
            data: [Blocks -> SUBSET Inums]]
EntryTypes  == [ref: Int, valid: BOOLEAN, copy: Dinodes]
Messages    == {"none", "ilock", "bfree", "unlink"}
KernelTypes == [fs: FsTypes, itab: [Inums -> EntryTypes], panic: Messages]
CallTypes   == Calls \union {NoCall}
MeTypes     == [at: Places, call: CallTypes, path: Seq(Entries), ip: Inums \union {0},
                dp: Inums \union {0}, put: Seq(Inums), fd: 0 .. NOFile, left: Int, now: Int]
FileTypes   == [ref: Int, type: {"none", "device", "inode"}, ip: Inums \union {0}, off: Nat,
                write: BOOLEAN]

FilesTypes ==
    /\ fs \in FsTypes /\ disk \in FsTypes /\ panic \in Messages
    /\ itab \in [Inums -> EntryTypes]
    /\ inTx \subseteq Users
    /\ ilk \in [Inums -> Users \union {Nobody}]
    /\ cwd \in [Users -> Inums]
    /\ me \in [Users -> MeTypes]
    /\ ofile \in [Users -> [1 .. NOFile -> 0 .. NFile]]
    /\ ftable \in [1 .. NFile -> FileTypes]
    /\ boot \in 0 .. NInodes + 1

\* Where a process has a reference to the inode in ip, in dp.
IpPlaces == {"walk", "linkOld", "linkNew", "unlink", "unlinkChild", "unlinkLast", "create",
             "createOld", "createNew", "made", "read", "rdwr", "trunc", "openFile", "chdir",
             "chdirEnd"}
DpPlaces == {"linkNew", "linkBad", "unlinkChild", "createNew", "createFail"}
IpUsed(m) == m.at \in IpPlaces
DpUsed(m) == m.at \in DpPlaces \/ (m.at = "walk" /\ m.dp # 0)

\* What a process may do at a place.
Shape(m) ==
    /\ Len(m.put) <= 2
    /\ m.at = "user" => m = Idle
    /\ m.at = "end" => m.ip = 0 /\ m.dp = 0
    /\ IpUsed(m) \/ m.at \in {"writeOp", "writei"} => m.ip # 0
    /\ m.at \in DpPlaces => m.dp # 0
    /\ m.at \in {"linkOld", "linkNew", "linkBad"} => m.call.op = "link"
    /\ m.at = "walk" => m.call.op \in PathOps
    /\ m.at = "create" => m.call.op \in {"create", "mkdir", "mknod", "mkbad"}
    /\ m.at \in {"linkNew", "linkBad"} => m.dp \in Inums
    /\ m.at = "linkOld" => m.dp = 0
    /\ m.at = "walk" /\ m.dp # 0 => m.call.op = "link"
    /\ m.at \in {"create", "unlink", "linkNew", "unlinkChild", "createNew"} => m.path # <<>>
    /\ m.at \in {"linkOld", "unlink", "unlinkChild", "create", "createNew", "read", "rdwr",
                 "trunc", "chdir", "writeOp", "writei"} => m.put = <<>>
    /\ m.at \in {"unlinkLast", "openFile", "made"}
          => Len(m.put) <= 1 /\ (m.put # <<>> => Head(m.put) # m.ip)
    /\ m.at = "createFail" => Len(m.put) <= 1 /\ (m.put # <<>> => Head(m.put) # m.dp)

\* A process that writes has the file open.
WritesFile(p) ==
    me[p].at \in {"writeOp", "writei"}
        => /\ me[p].fd \in 1 .. NOFile /\ FileOf(p) # 0
           /\ ftable[FileOf(p)].ip = me[p].ip

\* The inode that a process has locked for a place.
Locked(m) ==
    IF m.at \in {"unlinkChild", "createNew", "createFail"} THEN m.dp
    ELSE IF m.at \in {"unlinkLast", "openFile", "made", "writei"} THEN m.ip ELSE 0
Frees(p, i) == me[p].put # <<>> /\ Head(me[p].put) = i /\ ilk[i] = p

LocksOK ==
    /\ \A p \in Users : Locked(me[p]) # 0 => ilk[Locked(me[p])] = p
    /\ \A i \in Inums : ilk[i] # Nobody => Locked(me[ilk[i]]) = i \/ Frees(ilk[i], i)

\* The references to an inode.
Slots == {"cwd", "ip", "dp", "last", "first"}
InSlot(m, c, s, i) ==
    \/ s = "cwd" /\ c = i /\ m.at # "chdirEnd"
    \/ s = "ip" /\ m.ip = i /\ IpUsed(m)
    \/ s = "dp" /\ m.dp = i /\ DpUsed(m)
    \/ s = "last" /\ m.put # <<>> /\ m.put[Len(m.put)] = i
    \/ s = "first" /\ Len(m.put) = 2 /\ m.put[1] = i
Uses(i)  == {x \in Users \X Slots : InSlot(me[x[1]], cwd[x[1]], x[2], i)}
Opens(i) == {f \in 1 .. NFile : ftable[f].ip = i}
FdsOf(f) == {x \in Users \X (1 .. NOFile) : ofile[x[1]][x[2]] = f}

RefsOK == \A i \in Inums : itab[i].ref = Cardinality(Uses(i)) + Cardinality(Opens(i))
FilesOK ==
    \A f \in 1 .. NFile : /\ ftable[f].ref = Cardinality(FdsOf(f))
                          /\ ftable[f].ref = 0 => ftable[f] = NoFile
                          /\ ftable[f].ref # 0 => ftable[f].ip # 0

\* An inode in memory is the one of the file system, but for one that is being freed, and
\* for blocks and size of one that is being written.
BeingFreed(i)   == ilk[i] # Nobody /\ Frees(ilk[i], i)
BeingWritten(i) == ilk[i] # Nobody /\ me[ilk[i]].at = "writei" /\ Locked(me[ilk[i]]) = i
CopyOK(i) ==
    itab[i].valid /\ ~BeingFreed(i)
        => /\ itab[i].copy = fs.ino[i] \/ BeingWritten(i)
           /\ itab[i].copy.type = fs.ino[i].type /\ itab[i].copy.nlink = fs.ino[i].nlink
           /\ fs.ino[i].type # "none"
CopiesOK ==
    /\ \A i \in Inums : CopyOK(i) /\ (itab[i].ref = 0 => ~itab[i].valid)
    /\ panic = "none" => \A p \in Users : Locked(me[p]) # 0 => itab[Locked(me[p])].valid

\* While the system boots nothing is in use.
BootOK ==
    boot # 0 =>
        /\ itab = [i \in Inums |-> Unused] /\ ilk = [i \in Inums |-> Nobody]
        /\ me = [p \in Users |-> Idle]
        /\ ofile = [p \in Users |-> [d \in 1 .. NOFile |-> 0]]
        /\ ftable = [f \in 1 .. NFile |-> NoFile]

Tables ==
    /\ FilesTypes /\ BootOK /\ LocksOK /\ CopiesOK /\ FilesOK
    /\ boot = 0 => RefsOK
    /\ \A p \in Users : Shape(me[p]) /\ WritesFile(p)
-----------------------------------------------------------------------------
(* The kernel's state                                                      *)

\* A set of numbers that is not empty has a first element.
LEMMA FirstFacts ==
    ASSUME NEW S \in SUBSET Nat, S # {}
    PROVE  First(S) \in S /\ \A y \in S : First(S) <= y
<1> DEFINE Less == {ss \in Nat \X Nat : ss[1] < ss[2]}
<1>1. IsWellFoundedOn(Less, Nat)
  BY NatLessThanWellFounded, Zenon DEF OpToRel
<1>2. PICK k \in S : \A m \in S : <<m, k>> \notin Less
  <2> HIDE DEF Less
  <2> QED
    BY <1>1, WFMin
<1>3. \A m \in S : ~ (m < k)
  BY <1>2
<1>4. \A m \in S : k <= m
  BY <1>3
<1> QED
  BY <1>4 DEF First

\* The constants of the model are of their types.
LEMMA Constants ==
    /\ NInodes \in Nat /\ NBlocks \in Nat /\ NDirect \in Nat /\ NIndirect \in Nat
    /\ Inums \subseteq Nat /\ Blocks \subseteq Nat /\ 0 \notin Inums /\ 0 \notin Blocks
    /\ NoAddrs \in Addrs /\ NoEnts \in [Entries -> Inums \union {0}]
    /\ NoInd \in [0 .. NIndirect - 1 -> Blocks \union {0}]
    /\ FreeInode \in Dinodes /\ FreeInode.type = "none"
    /\ Root \in Inums
    /\ Nobody \notin Users /\ IsFiniteSet(Users)
<1>1. /\ NInodes \in Nat /\ NBlocks \in Nat /\ NDirect \in Nat /\ NIndirect \in Nat
      /\ NInodes >= 3
      /\ Nobody \notin Users /\ IsFiniteSet(Users)
  BY FilesAssumption
<1>2. NoAddrs \in Addrs /\ NoEnts \in [Entries -> Inums \union {0}]
      /\ NoInd \in [0 .. NIndirect - 1 -> Blocks \union {0}]
  BY DEF NoAddrs, NoEnts, NoInd, Addrs
<1>3. FreeInode \in Dinodes /\ FreeInode.type = "none"
  BY <1>2 DEF FreeInode, Dinode, Dinodes, Types
<1> QED BY <1>1, <1>2, <1>3 DEF Inums, Blocks, Root

\* An entry of the inode table.
LEMMA EntryFacts ==
    ASSUME NEW r \in Int, NEW v \in BOOLEAN, NEW d \in Dinodes
    PROVE  /\ Entry(r, v, d) \in EntryTypes
           /\ Entry(r, v, d).ref = r /\ Entry(r, v, d).valid = v /\ Entry(r, v, d).copy = d
BY DEF Entry, EntryTypes

\* An unused one.
LEMMA UnusedFacts ==
    /\ Unused \in EntryTypes /\ Unused.ref = 0 /\ ~Unused.valid /\ Unused.copy = FreeInode
<1> DEFINE no == FALSE
<1>1. no \in BOOLEAN
  OBVIOUS
<1> HIDE DEF no
<1>2. Entry(0, no, FreeInode) \in EntryTypes /\ Entry(0, no, FreeInode).ref = 0
      /\ Entry(0, no, FreeInode).valid = no /\ Entry(0, no, FreeInode).copy = FreeInode
  BY <1>1, EntryFacts, Constants
<1> QED BY <1>2 DEF Unused, no

\* The kernel's state with another file system.
LEMMA WithFsFacts ==
    ASSUME NEW k \in KernelTypes, NEW f \in FsTypes
    PROVE  /\ WithFs(k, f) \in KernelTypes
           /\ WithFs(k, f).fs = f /\ WithFs(k, f).itab = k.itab /\ WithFs(k, f).panic = k.panic
BY DEF WithFs, KernelTypes

\* With another entry of the inode table.
LEMMA WithEntryFacts ==
    ASSUME NEW k \in KernelTypes, NEW i \in Inums, NEW e \in EntryTypes
    PROVE  /\ WithEntry(k, i, e) \in KernelTypes
           /\ WithEntry(k, i, e).fs = k.fs /\ WithEntry(k, i, e).panic = k.panic
           /\ WithEntry(k, i, e).itab[i] = e
           /\ \A j \in Inums : j # i => WithEntry(k, i, e).itab[j] = k.itab[j]
BY DEF WithEntry, KernelTypes

\* In a panic.
LEMMA PanicFacts ==
    ASSUME NEW k \in KernelTypes, NEW m \in Messages
    PROVE  /\ Panic(k, m) \in KernelTypes
           /\ Panic(k, m).fs = k.fs /\ Panic(k, m).itab = k.itab /\ Panic(k, m).panic = m
BY DEF Panic, KernelTypes

\* The parts of the kernel's state.
LEMMA KernelParts ==
    ASSUME NEW k \in KernelTypes
    PROVE  /\ k.fs \in FsTypes /\ k.panic \in Messages
           /\ k.itab \in [Inums -> EntryTypes]
           /\ \A i \in Inums : /\ k.itab[i] \in EntryTypes /\ k.itab[i].ref \in Int
                               /\ k.itab[i].valid \in BOOLEAN /\ k.itab[i].copy \in Dinodes
                               /\ k.fs.ino[i] \in Dinodes
                               /\ k.fs.ents[i] \in [Entries -> Inums \union {0}]
BY DEF KernelTypes, EntryTypes, FsTypes, Dirs

\* The parts of an inode.
LEMMA DinodeParts ==
    ASSUME NEW d \in Dinodes
    PROVE  d.type \in Types /\ d.nlink \in Int /\ d.size \in Nat /\ d.addrs \in Addrs
BY DEF Dinodes

\* The parts of the file system.
LEMMA FsParts ==
    ASSUME NEW f \in FsTypes
    PROVE  /\ f.ino \in [Inums -> Dinodes] /\ f.ents \in Dirs /\ f.ind \in Inds
           /\ f.used \in SUBSET Blocks /\ f.data \in [Blocks -> SUBSET Inums]
           /\ \A i \in Inums : f.ind[i] \in [0 .. NIndirect - 1 -> Blocks \union {0}]
           /\ \A i \in Inums, n \in 0 .. NIndirect - 1 : f.ind[i][n] \in Blocks \union {0}
<1>1. /\ f.ino \in [Inums -> Dinodes] /\ f.ents \in Dirs /\ f.ind \in Inds
      /\ f.used \in SUBSET Blocks /\ f.data \in [Blocks -> SUBSET Inums]
  BY DEF FsTypes
<1>2. \A i \in Inums : f.ind[i] \in [0 .. NIndirect - 1 -> Blocks \union {0}]
  BY <1>1, Zenon DEF Inds
<1>3. ASSUME NEW i \in Inums, NEW n \in 0 .. NIndirect - 1
      PROVE  f.ind[i][n] \in Blocks \union {0}
  BY <1>2, <1>3, Zenon
<1> QED BY <1>1, <1>2, <1>3

\* The file system with other inodes, entries, blocks.
LEMMA FsWithIno ==
    ASSUME NEW f \in FsTypes, NEW i \in Inums, NEW d \in Dinodes
    PROVE  LET g == [f EXCEPT !.ino[i] = d]
           IN  /\ g \in FsTypes
               /\ g.ino[i] = d /\ \A j \in Inums : j # i => g.ino[j] = f.ino[j]
               /\ g.ents = f.ents /\ g.ind = f.ind /\ g.used = f.used /\ g.data = f.data
BY DEF FsTypes

\* Writing an entry of a directory: no other entry, inode or block changes.
LEMMA FsWithEnt ==
    ASSUME NEW f \in FsTypes, NEW d \in Inums, NEW n \in Entries, NEW i \in Inums \union {0}
    PROVE  LET g == [f EXCEPT !.ents[d][n] = i]
           IN  /\ g \in FsTypes
               /\ g.ents[d][n] = i
               /\ \A e \in Inums, l \in Entries : e # d \/ l # n => g.ents[e][l] = f.ents[e][l]
               /\ g.ino = f.ino /\ g.ind = f.ind /\ g.used = f.used /\ g.data = f.data
BY DEF FsTypes, Dirs

\* Writing a number in the indirect block of an inode: no other number changes.
LEMMA FsWithInd ==
    ASSUME NEW f \in FsTypes, NEW i \in Inums, NEW n \in 0 .. NIndirect - 1, NEW b \in Blocks
    PROVE  LET g == [f EXCEPT !.ind[i][n] = b]
           IN  /\ g \in FsTypes
               /\ g.ind[i][n] = b
               /\ \A j \in Inums, l \in 0 .. NIndirect - 1 :
                     j # i \/ l # n => g.ind[j][l] = f.ind[j][l]
               /\ g.ino = f.ino /\ g.ents = f.ents /\ g.used = f.used /\ g.data = f.data
BY DEF FsTypes, Inds

\* Emptying the indirect block and the entries of an inode: those of others stay.
LEMMA FsEmptied ==
    ASSUME NEW f \in FsTypes, NEW i \in Inums
    PROVE  LET g == [f EXCEPT !.ind[i] = NoInd, !.ents[i] = NoEnts]
           IN  /\ g \in FsTypes
               /\ g.ind[i] = NoInd /\ \A j \in Inums : j # i => g.ind[j] = f.ind[j]
               /\ g.ents[i] = NoEnts /\ \A j \in Inums : j # i => g.ents[j] = f.ents[j]
               /\ g.ino = f.ino /\ g.used = f.used /\ g.data = f.data
BY Constants DEF FsTypes, Inds, Dirs

\* Writing the bitmap of the blocks changes nothing else.
LEMMA FsWithUsed ==
    ASSUME NEW f \in FsTypes, NEW S \in SUBSET Blocks
    PROVE  LET g == [f EXCEPT !.used = S]
           IN  /\ g \in FsTypes /\ g.used = S
               /\ g.ino = f.ino /\ g.ents = f.ents /\ g.ind = f.ind /\ g.data = f.data
BY DEF FsTypes

\* Taking a block and zeroing it: the contents of the other blocks stay.
LEMMA FsWithBlock ==
    ASSUME NEW f \in FsTypes, NEW b \in Blocks
    PROVE  LET g == [f EXCEPT !.used = @ \union {b}, !.data[b] = {}]
           IN  /\ g \in FsTypes /\ g.used = f.used \union {b}
               /\ g.data[b] = {} /\ \A c \in Blocks : c # b => g.data[c] = f.data[c]
               /\ g.ino = f.ino /\ g.ents = f.ents /\ g.ind = f.ind
BY DEF FsTypes

\* Writing a block: the contents of the other blocks stay.
LEMMA FsWithData ==
    ASSUME NEW f \in FsTypes, NEW b \in Blocks, NEW S \in SUBSET Inums
    PROVE  LET g == [f EXCEPT !.data[b] = S]
           IN  /\ g \in FsTypes
               /\ g.data[b] = S /\ \A c \in Blocks : c # b => g.data[c] = f.data[c]
               /\ g.ino = f.ino /\ g.ents = f.ents /\ g.ind = f.ind /\ g.used = f.used
BY DEF FsTypes
-----------------------------------------------------------------------------
(* Operators on the kernel's state                                         *)

\* A change to the inode in memory.
LEMMA ChangeFacts ==
    ASSUME NEW k \in KernelTypes, NEW i \in Inums, NEW d \in Dinodes
    PROVE  LET r == Change(k, i, d)
           IN  /\ r \in KernelTypes /\ r.fs = k.fs /\ r.panic = k.panic
               /\ r.itab[i].ref = k.itab[i].ref /\ r.itab[i].valid = k.itab[i].valid
               /\ r.itab[i].copy = d
               /\ \A j \in Inums : j # i => r.itab[j] = k.itab[j]
<1> DEFINE e == Entry(k.itab[i].ref, k.itab[i].valid, d)
<1>1. e \in EntryTypes /\ e.ref = k.itab[i].ref /\ e.valid = k.itab[i].valid /\ e.copy = d
  BY EntryFacts, KernelParts
<1> HIDE DEF e
<1>2. Change(k, i, d) = WithEntry(k, i, e)
  BY DEF Change, e
<1> QED BY <1>1, <1>2, WithEntryFacts

\* iupdate(): the inode in memory and on disk is d.
LEMMA IupdateFacts ==
    ASSUME NEW k \in KernelTypes, NEW i \in Inums, NEW d \in Dinodes
    PROVE  LET r == Iupdate(k, i, d)
           IN  /\ r \in KernelTypes /\ r.panic = k.panic
               /\ r.itab[i].ref = k.itab[i].ref /\ r.itab[i].valid = k.itab[i].valid
               /\ r.itab[i].copy = d /\ r.fs.ino[i] = d
               /\ \A j \in Inums : j # i => r.itab[j] = k.itab[j] /\ r.fs.ino[j] = k.fs.ino[j]
               /\ r.fs.ents = k.fs.ents /\ r.fs.ind = k.fs.ind
               /\ r.fs.used = k.fs.used /\ r.fs.data = k.fs.data
<1> DEFINE c == Change(k, i, d)
           f == [k.fs EXCEPT !.ino[i] = d]
<1>1. /\ c \in KernelTypes /\ c.fs = k.fs /\ c.panic = k.panic
      /\ c.itab[i].ref = k.itab[i].ref /\ c.itab[i].valid = k.itab[i].valid
      /\ c.itab[i].copy = d
      /\ \A j \in Inums : j # i => c.itab[j] = k.itab[j]
  BY ChangeFacts
<1>2. /\ f \in FsTypes
      /\ f.ino[i] = d /\ \A j \in Inums : j # i => f.ino[j] = k.fs.ino[j]
      /\ f.ents = k.fs.ents /\ f.ind = k.fs.ind /\ f.used = k.fs.used /\ f.data = k.fs.data
  <2>1. k.fs \in FsTypes
    BY KernelParts
  <2> QED BY <2>1, FsWithIno
<1>3. Iupdate(k, i, d) = WithFs(c, f)
  BY DEF Iupdate
<1> HIDE DEF c, f
<1>4. /\ WithFs(c, f) \in KernelTypes
      /\ WithFs(c, f).fs = f /\ WithFs(c, f).itab = c.itab /\ WithFs(c, f).panic = c.panic
  BY <1>1, <1>2, WithFsFacts
<1> QED BY <1>1, <1>2, <1>3, <1>4

\* balloc(): a free block, emptied, or none.
LEMMA BallocFacts ==
    ASSUME NEW k \in KernelTypes
    PROVE  LET r == Balloc(k)
           IN  /\ r.k \in KernelTypes /\ r.addr \in Blocks \union {0}
               /\ r.k.itab = k.itab /\ r.k.panic = k.panic
               /\ r.k.fs.ino = k.fs.ino /\ r.k.fs.ents = k.fs.ents /\ r.k.fs.ind = k.fs.ind
               /\ r.addr = 0 => r.k = k
               /\ r.addr # 0 => /\ r.addr \notin k.fs.used
                                /\ r.k.fs.used = k.fs.used \union {r.addr}
                                /\ r.k.fs.data[r.addr] = {}
                                /\ \A b \in Blocks : b # r.addr => r.k.fs.data[b] = k.fs.data[b]
<1>f. k.fs \in FsTypes
  BY KernelParts
<1> DEFINE free == Blocks \ k.fs.used
           b    == First(free)
           f    == [k.fs EXCEPT !.used = @ \union {b}, !.data[b] = {}]
<1>1. CASE free = {}
  <2>1. Balloc(k) = [k |-> k, addr |-> 0]
    BY <1>1 DEF Balloc
  <2> QED BY <2>1
<1>2. CASE free # {}
  <2>1. b \in free /\ b \in Blocks /\ b # 0 /\ b \notin k.fs.used
    <3>1. free \in SUBSET Nat
      BY Constants
    <3> HIDE DEF free
    <3>2. b \in free
      BY <1>2, <3>1, FirstFacts
    <3> QED BY <3>2, Constants DEF free
  <2>2. Balloc(k) = [k |-> WithFs(k, f), addr |-> b]
    BY <1>2 DEF Balloc
  <2> HIDE DEF b
  <2>3. /\ f \in FsTypes /\ f.used = k.fs.used \union {b}
        /\ f.data[b] = {} /\ \A c \in Blocks : c # b => f.data[c] = k.fs.data[c]
        /\ f.ino = k.fs.ino /\ f.ents = k.fs.ents /\ f.ind = k.fs.ind
    BY <1>f, <2>1, FsWithBlock
  <2> HIDE DEF f
  <2>4. /\ WithFs(k, f) \in KernelTypes
        /\ WithFs(k, f).fs = f /\ WithFs(k, f).itab = k.itab /\ WithFs(k, f).panic = k.panic
    BY <2>3, WithFsFacts
  <2> QED BY <2>1, <2>2, <2>3, <2>4
<1> QED BY <1>1, <1>2

\* bfree() of blocks that are in use; otherwise a panic.
LEMMA BfreeFacts ==
    ASSUME NEW k \in KernelTypes, NEW S \in SUBSET Blocks
    PROVE  LET r == Bfree(k, S)
           IN  /\ r \in KernelTypes /\ r.itab = k.itab
               /\ r.fs.ino = k.fs.ino /\ r.fs.ents = k.fs.ents /\ r.fs.ind = k.fs.ind
               /\ r.fs.data = k.fs.data
               /\ S \subseteq k.fs.used => r.panic = k.panic /\ r.fs.used = k.fs.used \ S
               /\ ~ (S \subseteq k.fs.used) => r.panic = "bfree" /\ r.fs.used = k.fs.used
<1>f. k.fs \in FsTypes
  BY KernelParts
<1>1. CASE S \subseteq k.fs.used
  <2> DEFINE f == [k.fs EXCEPT !.used = @ \ S]
  <2>1. k.fs.used \ S \in SUBSET Blocks
    BY <1>f DEF FsTypes
  <2>2. f = [k.fs EXCEPT !.used = k.fs.used \ S]
    OBVIOUS
  <2>3. /\ f \in FsTypes /\ f.used = k.fs.used \ S
        /\ f.ino = k.fs.ino /\ f.ents = k.fs.ents /\ f.ind = k.fs.ind /\ f.data = k.fs.data
    BY <1>f, <2>1, <2>2, FsWithUsed
  <2>4. Bfree(k, S) = WithFs(k, f)
    BY <1>1 DEF Bfree
  <2> HIDE DEF f
  <2> QED BY <1>1, <2>3, <2>4, WithFsFacts
<1>2. CASE ~ (S \subseteq k.fs.used)
  <2>1. Bfree(k, S) = Panic(k, "bfree")
    BY <1>2 DEF Bfree
  <2>2. "bfree" \in Messages
    BY DEF Messages
  <2> QED BY <1>2, <2>1, <2>2, PanicFacts
<1> QED BY <1>1, <1>2

\* iget(): one reference more.
LEMMA IgetFacts ==
    ASSUME NEW k \in KernelTypes, NEW i \in Inums, k.itab[i].ref >= 0
    PROVE  LET r == Iget(k, i)
           IN  /\ r \in KernelTypes /\ r.fs = k.fs /\ r.panic = k.panic
               /\ r.itab[i].ref = k.itab[i].ref + 1
               /\ k.itab[i].ref > 0 => /\ r.itab[i].valid = k.itab[i].valid
                                       /\ r.itab[i].copy = k.itab[i].copy
               /\ k.itab[i].ref = 0 => ~r.itab[i].valid
               /\ \A j \in Inums : j # i => r.itab[j] = k.itab[j]
<1> DEFINE e  == k.itab[i]
           no == FALSE
<1>1. e.ref \in Int /\ e.valid \in BOOLEAN /\ e.copy \in Dinodes
  BY KernelParts
<1>2. CASE e.ref > 0
  <2> DEFINE a == Entry(e.ref + 1, e.valid, e.copy)
  <2>1. a \in EntryTypes /\ a.ref = e.ref + 1 /\ a.valid = e.valid /\ a.copy = e.copy
    BY <1>1, EntryFacts
  <2>2. Iget(k, i) = WithEntry(k, i, a)
    BY <1>2 DEF Iget, Another
  <2> HIDE DEF a
  <2> QED BY <1>2, <2>1, <2>2, WithEntryFacts
<1>3. CASE e.ref = 0
  <2> HIDE DEF no
  <2> DEFINE a == Entry(1, no, FreeInode)
  <2>0. no \in BOOLEAN
    BY DEF no
  <2>1. a \in EntryTypes /\ a.ref = 1 /\ a.valid = no /\ a.copy = FreeInode
    BY <2>0, EntryFacts, Constants
  <2>2. Iget(k, i) = WithEntry(k, i, a)
    BY <1>3 DEF Iget, Another, no
  <2> HIDE DEF a
  <2>3. a.ref = k.itab[i].ref + 1 /\ ~ a.valid
    BY <1>3, <2>1 DEF no
  <2> QED BY <1>3, <2>1, <2>2, <2>3, WithEntryFacts
<1> QED BY <1>1, <1>2, <1>3

\* ialloc(): a free inode with a type, or none.
LEMMA IallocFacts ==
    ASSUME NEW k \in KernelTypes, NEW t \in Types, \A j \in Inums : k.itab[j].ref >= 0
    PROVE  LET r == Ialloc(k, t)
           IN  /\ r.k \in KernelTypes /\ r.i \in Inums \union {0} /\ r.k.panic = k.panic
               /\ r.k.fs.ents = k.fs.ents /\ r.k.fs.ind = k.fs.ind
               /\ r.k.fs.used = k.fs.used /\ r.k.fs.data = k.fs.data
               /\ r.i = 0 => r.k = k
               /\ r.i # 0 =>
                    /\ k.fs.ino[r.i].type = "none" /\ r.k.fs.ino[r.i] = Dinode(t, 0)
                    /\ r.k.itab[r.i].ref = k.itab[r.i].ref + 1
                    /\ k.itab[r.i].ref > 0 => /\ r.k.itab[r.i].valid = k.itab[r.i].valid
                                              /\ r.k.itab[r.i].copy = k.itab[r.i].copy
                    /\ k.itab[r.i].ref = 0 => ~r.k.itab[r.i].valid
                    /\ \A j \in Inums : j # r.i => /\ r.k.itab[j] = k.itab[j]
                                                   /\ r.k.fs.ino[j] = k.fs.ino[j]
<1>f. k.fs \in FsTypes
  BY KernelParts
<1> DEFINE free == {i \in Inums : k.fs.ino[i].type = "none"}
           i == First(free)
           d == Dinode(t, 0)
           f == [k.fs EXCEPT !.ino[i] = d]
<1>1. CASE free = {}
  <2>1. Ialloc(k, t) = [k |-> k, i |-> 0]
    BY <1>1 DEF Ialloc
  <2> QED BY <2>1
<1>2. CASE free # {}
  <2>1. i \in Inums /\ i # 0 /\ k.fs.ino[i].type = "none"
    <3>1. free \in SUBSET Nat
      BY Constants
    <3> HIDE DEF free
    <3>2. i \in free
      BY <1>2, <3>1, FirstFacts
    <3> QED BY <3>2, Constants DEF free
  <2>2. Ialloc(k, t) = [k |-> Iget(WithFs(k, f), i), i |-> i]
    BY <1>2 DEF Ialloc
  <2> HIDE DEF i, free
  <2>3. d \in Dinodes
    BY Constants DEF Dinode, Dinodes
  <2> HIDE DEF d
  <2>4. /\ f \in FsTypes
        /\ f.ino[i] = d /\ \A j \in Inums : j # i => f.ino[j] = k.fs.ino[j]
        /\ f.ents = k.fs.ents /\ f.ind = k.fs.ind /\ f.used = k.fs.used /\ f.data = k.fs.data
    BY <1>f, <2>1, <2>3, FsWithIno
  <2> HIDE DEF f
  <2> DEFINE w == WithFs(k, f)
  <2>5. w \in KernelTypes /\ w.fs = f /\ w.itab = k.itab /\ w.panic = k.panic
    BY <2>4, WithFsFacts
  <2> HIDE DEF w
  <2>6. LET r == Iget(w, i)
        IN  /\ r \in KernelTypes /\ r.fs = w.fs /\ r.panic = w.panic
            /\ r.itab[i].ref = w.itab[i].ref + 1
            /\ w.itab[i].ref > 0 => /\ r.itab[i].valid = w.itab[i].valid
                                    /\ r.itab[i].copy = w.itab[i].copy
            /\ w.itab[i].ref = 0 => ~r.itab[i].valid
            /\ \A j \in Inums : j # i => r.itab[j] = w.itab[j]
    BY <2>1, <2>5, IgetFacts
  <2>7. Ialloc(k, t).k = Iget(w, i) /\ Ialloc(k, t).i = i
    BY <2>2 DEF w
  <2> QED BY <2>1, <2>4, <2>5, <2>6, <2>7 DEF d
<1> QED BY <1>1, <1>2

\* ilock(): the inode is read from the disk unless it is valid.
LEMMA IlockFacts ==
    ASSUME NEW k \in KernelTypes, NEW i \in Inums
    PROVE  LET r == Ilock(k, i)
           IN  /\ r \in KernelTypes /\ r.fs = k.fs
               /\ r.itab[i].ref = k.itab[i].ref
               /\ \A j \in Inums : j # i => r.itab[j] = k.itab[j]
               /\ k.itab[i].valid => r = k
               /\ ~k.itab[i].valid /\ k.fs.ino[i].type = "none"
                    => r.panic = "ilock" /\ r.itab = k.itab
               /\ ~k.itab[i].valid /\ k.fs.ino[i].type # "none"
                    => /\ r.panic = k.panic /\ r.itab[i].valid
                       /\ r.itab[i].copy = k.fs.ino[i]
<1>1. CASE k.itab[i].valid
  BY <1>1 DEF Ilock
<1>2. CASE ~k.itab[i].valid /\ k.fs.ino[i].type = "none"
  <2>1. Ilock(k, i) = Panic(k, "ilock")
    BY <1>2 DEF Ilock
  <2>2. "ilock" \in Messages
    BY DEF Messages
  <2> QED BY <1>2, <2>1, <2>2, PanicFacts
<1>3. CASE ~k.itab[i].valid /\ k.fs.ino[i].type # "none"
  <2> DEFINE yes == TRUE
  <2>0. yes \in BOOLEAN
    OBVIOUS
  <2> HIDE DEF yes
  <2> DEFINE e == Entry(k.itab[i].ref, yes, k.fs.ino[i])
  <2>1. e \in EntryTypes /\ e.ref = k.itab[i].ref /\ e.valid = yes /\ e.copy = k.fs.ino[i]
    BY <2>0, EntryFacts, KernelParts
  <2>2. Ilock(k, i) = WithEntry(k, i, e)
    BY <1>3 DEF Ilock, yes
  <2> HIDE DEF e
  <2>3. e.valid
    BY <2>1 DEF yes
  <2> QED BY <1>3, <2>1, <2>2, <2>3, WithEntryFacts
<1> QED BY <1>1, <1>2, <1>3

\* The blocks of an inode are blocks.
LEMMA BlocksOfType ==
    ASSUME NEW f \in FsTypes, NEW d \in Dinodes, NEW i \in Inums
    PROVE  BlocksOf(f, d, i) \in SUBSET Blocks
<1>1. \A b \in 0 .. NDirect : d.addrs[b] \in Blocks \union {0}
  BY DEF Dinodes, Addrs
<1>2. \A b \in 0 .. NIndirect - 1 : f.ind[i][b] \in Blocks \union {0}
  BY FsParts
<1>3. ASSUME NEW x \in BlocksOf(f, d, i) PROVE x \in Blocks
  <2>1. \/ \E b \in 0 .. NDirect : x = d.addrs[b]
        \/ \E b \in 0 .. NIndirect - 1 : x = f.ind[i][b]
    BY <1>3 DEF BlocksOf
  <2>2. x # 0
    BY <1>3 DEF BlocksOf
  <2> QED BY <1>1, <1>2, <2>1, <2>2
<1> QED BY <1>3

\* An inode that itrunc() has emptied.
NoBlocks(d) == [d EXCEPT !.size = 0, !.addrs = NoAddrs]

\* An inode without blocks keeps its type and its links.
LEMMA NoBlocksFacts ==
    ASSUME NEW d \in Dinodes
    PROVE  /\ NoBlocks(d) \in Dinodes /\ NoBlocks(d).type = d.type
           /\ NoBlocks(d).nlink = d.nlink /\ NoBlocks(d).addrs = NoAddrs
BY Constants DEF NoBlocks, Dinodes

\* itrunc(): the contents are gone and the blocks free, unless it panics.
LEMMA ItruncFacts ==
    ASSUME NEW k \in KernelTypes, NEW i \in Inums
    PROVE  LET r == Itrunc(k, i)
               S == BlocksOf(k.fs, Ip(k, i), i)
           IN  /\ r \in KernelTypes
               /\ r.itab[i].ref = k.itab[i].ref /\ r.itab[i].valid = k.itab[i].valid
               /\ r.itab[i].copy = NoBlocks(Ip(k, i)) /\ r.fs.ino[i] = r.itab[i].copy
               /\ \A j \in Inums : j # i =>
                    /\ r.itab[j] = k.itab[j] /\ r.fs.ino[j] = k.fs.ino[j]
                    /\ r.fs.ents[j] = k.fs.ents[j] /\ r.fs.ind[j] = k.fs.ind[j]
               /\ r.fs.ents[i] = NoEnts /\ r.fs.ind[i] = NoInd
               /\ r.fs.data = k.fs.data
               /\ S \subseteq k.fs.used => r.panic = k.panic /\ r.fs.used = k.fs.used \ S
               /\ ~ (S \subseteq k.fs.used) => r.panic = "bfree" /\ r.fs.used = k.fs.used
<1> DEFINE S == BlocksOf(k.fs, Ip(k, i), i)
           b == Bfree(k, S)
           f == [b.fs EXCEPT !.ind[i] = NoInd, !.ents[i] = NoEnts]
           w == WithFs(b, f)
           d == NoBlocks(Ip(k, i))
<1>1. Ip(k, i) \in Dinodes /\ S \in SUBSET Blocks
  <2>1. Ip(k, i) \in Dinodes /\ k.fs \in FsTypes
    BY KernelParts DEF Ip
  <2> QED BY <2>1, BlocksOfType
<1>2. Itrunc(k, i) = Iupdate(w, i, d)
  BY DEF Itrunc, Emptied, NoBlocks
<1>3. /\ b \in KernelTypes /\ b.itab = k.itab
      /\ b.fs.ino = k.fs.ino /\ b.fs.ents = k.fs.ents /\ b.fs.ind = k.fs.ind
      /\ b.fs.data = k.fs.data
      /\ S \subseteq k.fs.used => b.panic = k.panic /\ b.fs.used = k.fs.used \ S
      /\ ~ (S \subseteq k.fs.used) => b.panic = "bfree" /\ b.fs.used = k.fs.used
  <2> HIDE DEF S
  <2> QED BY <1>1, BfreeFacts
<1>4. d \in Dinodes
  BY <1>1, NoBlocksFacts
<1> HIDE DEF b, S, d
<1>5. /\ f \in FsTypes
      /\ f.ind[i] = NoInd /\ \A j \in Inums : j # i => f.ind[j] = b.fs.ind[j]
      /\ f.ents[i] = NoEnts /\ \A j \in Inums : j # i => f.ents[j] = b.fs.ents[j]
      /\ f.ino = b.fs.ino /\ f.used = b.fs.used /\ f.data = b.fs.data
  <2>1. b.fs \in FsTypes
    BY <1>3, KernelParts
  <2> QED BY <2>1, FsEmptied
<1> HIDE DEF f
<1>6. w \in KernelTypes /\ w.fs = f /\ w.itab = b.itab /\ w.panic = b.panic
  BY <1>3, <1>5, WithFsFacts
<1> HIDE DEF w
<1>7. LET r == Iupdate(w, i, d)
      IN  /\ r \in KernelTypes /\ r.panic = w.panic
          /\ r.itab[i].ref = w.itab[i].ref /\ r.itab[i].valid = w.itab[i].valid
          /\ r.itab[i].copy = d /\ r.fs.ino[i] = d
          /\ \A j \in Inums : j # i => r.itab[j] = w.itab[j] /\ r.fs.ino[j] = w.fs.ino[j]
          /\ r.fs.ents = w.fs.ents /\ r.fs.ind = w.fs.ind
          /\ r.fs.used = w.fs.used /\ r.fs.data = w.fs.data
  BY <1>4, <1>6, IupdateFacts
<1> QED BY <1>2, <1>3, <1>5, <1>6, <1>7 DEF S, d

\* A block of an inode set in memory.
SetAddr(d, s, b) == [d EXCEPT !.addrs[s] = b]

\* An inode with a block number set keeps all else.
LEMMA SetAddrFacts ==
    ASSUME NEW d \in Dinodes, NEW s \in 0 .. NDirect, NEW b \in Blocks
    PROVE  LET e == SetAddr(d, s, b)
           IN  /\ e \in Dinodes /\ e.type = d.type /\ e.nlink = d.nlink /\ e.size = d.size
               /\ e.addrs[s] = b
               /\ \A u \in 0 .. NDirect : u # s => e.addrs[u] = d.addrs[u]
BY DEF SetAddr, Dinodes, Addrs

\* The block in addrs[s], a new one if there is none.
LEMMA AddrSlotFacts ==
    ASSUME NEW k \in KernelTypes, NEW i \in Inums, NEW s \in 0 .. NDirect
    PROVE  LET r == AddrSlot(k, i, s)
           IN  /\ r.k \in KernelTypes /\ r.addr \in Blocks \union {0}
               /\ r.k.panic = k.panic
               /\ r.k.fs.ino = k.fs.ino /\ r.k.fs.ents = k.fs.ents /\ r.k.fs.ind = k.fs.ind
               /\ r.k.itab[i].ref = k.itab[i].ref /\ r.k.itab[i].valid = k.itab[i].valid
               /\ \A j \in Inums : j # i => r.k.itab[j] = k.itab[j]
               /\ Ip(k, i).addrs[s] # 0 => r.k = k /\ r.addr = Ip(k, i).addrs[s]
               /\ Ip(k, i).addrs[s] = 0 /\ r.addr = 0 => r.k = k
               /\ Ip(k, i).addrs[s] = 0 /\ r.addr # 0 =>
                    /\ r.addr \notin k.fs.used
                    /\ r.k.fs.used = k.fs.used \union {r.addr}
                    /\ r.k.fs.data[r.addr] = {}
                    /\ \A b \in Blocks : b # r.addr => r.k.fs.data[b] = k.fs.data[b]
                    /\ r.k.itab[i].copy = SetAddr(Ip(k, i), s, r.addr)
<1>1. Ip(k, i) \in Dinodes /\ Ip(k, i).addrs[s] \in Blocks \union {0}
  <2>1. Ip(k, i) \in Dinodes
    BY KernelParts DEF Ip
  <2>2. Ip(k, i).addrs \in Addrs
    BY <2>1, DinodeParts
  <2> QED BY <2>1, <2>2 DEF Addrs
<1>2. CASE Ip(k, i).addrs[s] # 0
  <2>1. AddrSlot(k, i, s) = [k |-> k, addr |-> Ip(k, i).addrs[s]]
    BY <1>2 DEF AddrSlot
  <2> QED BY <1>1, <1>2, <2>1
<1>3. CASE Ip(k, i).addrs[s] = 0
  <2> DEFINE b == Balloc(k)
  <2>1. /\ b.k \in KernelTypes /\ b.addr \in Blocks \union {0}
        /\ b.k.itab = k.itab /\ b.k.panic = k.panic
        /\ b.k.fs.ino = k.fs.ino /\ b.k.fs.ents = k.fs.ents /\ b.k.fs.ind = k.fs.ind
        /\ b.addr = 0 => b.k = k
        /\ b.addr # 0 => /\ b.addr \notin k.fs.used
                         /\ b.k.fs.used = k.fs.used \union {b.addr}
                         /\ b.k.fs.data[b.addr] = {}
                         /\ \A c \in Blocks : c # b.addr => b.k.fs.data[c] = k.fs.data[c]
    BY BallocFacts
  <2>2. AddrSlot(k, i, s) = NewAddr(b, i, s)
    BY <1>3 DEF AddrSlot
  <2> HIDE DEF b
  <2>3. CASE b.addr = 0
    <3>1. NewAddr(b, i, s) = b
      BY <2>3 DEF NewAddr
    <3> QED BY <1>3, <2>1, <2>2, <2>3, <3>1
  <2>4. CASE b.addr # 0
    <3> DEFINE d == SetAddr(Ip(b.k, i), s, b.addr)
               c == Change(b.k, i, d)
    <3>1. NewAddr(b, i, s) = [k |-> c, addr |-> b.addr]
      BY <2>4 DEF NewAddr, SetAddr
    <3>2. Ip(b.k, i) = Ip(k, i)
      BY <2>1 DEF Ip
    <3>3. d \in Dinodes
      BY <1>1, <2>1, <2>4, <3>2, SetAddrFacts
    <3>4. d = SetAddr(Ip(k, i), s, b.addr)
      BY <3>2
    <3> HIDE DEF d
    <3>5. /\ c \in KernelTypes /\ c.fs = b.k.fs /\ c.panic = b.k.panic
          /\ c.itab[i].ref = b.k.itab[i].ref /\ c.itab[i].valid = b.k.itab[i].valid
          /\ c.itab[i].copy = d
          /\ \A j \in Inums : j # i => c.itab[j] = b.k.itab[j]
      BY <2>1, <3>3, ChangeFacts
    <3> HIDE DEF c
    <3>6. AddrSlot(k, i, s).k = c /\ AddrSlot(k, i, s).addr = b.addr
      BY <2>2, <3>1
    <3> QED BY <1>3, <2>1, <2>4, <3>4, <3>5, <3>6
  <2> QED BY <2>3, <2>4
<1> QED BY <1>2, <1>3

\* The block in entry n of the indirect block, likewise.
LEMMA IndSlotFacts ==
    ASSUME NEW ind, ind.k \in KernelTypes, ind.addr \in Blocks \union {0},
           NEW i \in Inums, NEW n \in 0 .. NIndirect - 1
    PROVE  LET r == IndSlot(ind, i, n)
               k == ind.k
           IN  /\ r.k \in KernelTypes /\ r.addr \in Blocks \union {0}
               /\ r.k.panic = k.panic /\ r.k.itab = k.itab
               /\ r.k.fs.ino = k.fs.ino /\ r.k.fs.ents = k.fs.ents
               /\ ind.addr = 0 => r = ind
               /\ ind.addr # 0 /\ k.fs.ind[i][n] # 0 => r.k = k /\ r.addr = k.fs.ind[i][n]
               /\ ind.addr # 0 /\ k.fs.ind[i][n] = 0 /\ r.addr = 0 => r.k = k
               /\ ind.addr # 0 /\ k.fs.ind[i][n] = 0 /\ r.addr # 0 =>
                    /\ r.addr \notin k.fs.used
                    /\ r.k.fs.used = k.fs.used \union {r.addr}
                    /\ r.k.fs.data[r.addr] = {}
                    /\ \A b \in Blocks : b # r.addr => r.k.fs.data[b] = k.fs.data[b]
                    /\ r.k.fs.ind[i][n] = r.addr
                    /\ \A j \in Inums, l \in 0 .. NIndirect - 1 :
                          j # i \/ l # n => r.k.fs.ind[j][l] = k.fs.ind[j][l]
<1> DEFINE k == ind.k
<1>1. k.fs.ind[i][n] \in Blocks \union {0}
  <2>1. k.fs \in FsTypes
    BY KernelParts
  <2> QED BY <2>1, FsParts
<1>2. CASE ind.addr = 0
  <2>1. IndSlot(ind, i, n) = ind
    BY <1>2 DEF IndSlot
  <2> QED BY <1>2, <2>1
<1>3. CASE ind.addr # 0 /\ k.fs.ind[i][n] # 0
  <2>1. IndSlot(ind, i, n) = [k |-> k, addr |-> k.fs.ind[i][n]]
    BY <1>3 DEF IndSlot
  <2> QED BY <1>1, <1>3, <2>1
<1>4. CASE ind.addr # 0 /\ k.fs.ind[i][n] = 0
  <2> DEFINE b == Balloc(k)
  <2>1. /\ b.k \in KernelTypes /\ b.addr \in Blocks \union {0}
        /\ b.k.itab = k.itab /\ b.k.panic = k.panic
        /\ b.k.fs.ino = k.fs.ino /\ b.k.fs.ents = k.fs.ents /\ b.k.fs.ind = k.fs.ind
        /\ b.addr = 0 => b.k = k
        /\ b.addr # 0 => /\ b.addr \notin k.fs.used
                         /\ b.k.fs.used = k.fs.used \union {b.addr}
                         /\ b.k.fs.data[b.addr] = {}
                         /\ \A c \in Blocks : c # b.addr => b.k.fs.data[c] = k.fs.data[c]
    <3> HIDE DEF k
    <3>1. k \in KernelTypes
      BY DEF k
    <3> QED BY <3>1, BallocFacts
  <2>2. IndSlot(ind, i, n) = NewInd(b, i, n)
    BY <1>4 DEF IndSlot
  <2> HIDE DEF b
  <2>3. CASE b.addr = 0
    <3>1. NewInd(b, i, n) = b
      BY <2>3 DEF NewInd
    <3> QED BY <1>4, <2>1, <2>2, <2>3, <3>1
  <2>4. CASE b.addr # 0
    <3> DEFINE f == [b.k.fs EXCEPT !.ind[i][n] = b.addr]
               w == WithFs(b.k, f)
    <3>1. NewInd(b, i, n) = [k |-> w, addr |-> b.addr]
      BY <2>4 DEF NewInd
    <3>2. /\ f \in FsTypes
          /\ f.ind[i][n] = b.addr
          /\ \A j \in Inums, l \in 0 .. NIndirect - 1 :
                j # i \/ l # n => f.ind[j][l] = b.k.fs.ind[j][l]
          /\ f.ino = b.k.fs.ino /\ f.ents = b.k.fs.ents /\ f.used = b.k.fs.used
          /\ f.data = b.k.fs.data
      <4> DEFINE g == b.k.fs
                 a == b.addr
      <4>1. g \in FsTypes
        BY <2>1, KernelParts
      <4>2. a \in Blocks
        BY <2>1, <2>4
      <4>3. f = [g EXCEPT !.ind[i][n] = a]
        OBVIOUS
      <4> HIDE DEF f, g, a
      <4>4. /\ f \in FsTypes
            /\ f.ind[i][n] = a
            /\ \A j \in Inums, l \in 0 .. NIndirect - 1 :
                  j # i \/ l # n => f.ind[j][l] = g.ind[j][l]
            /\ f.ino = g.ino /\ f.ents = g.ents /\ f.used = g.used
            /\ f.data = g.data
        BY <4>1, <4>2, <4>3, FsWithInd
      <4> QED BY <4>4, Zenon DEF g, a
    <3> HIDE DEF f
    <3>3. w \in KernelTypes /\ w.fs = f /\ w.itab = b.k.itab /\ w.panic = b.k.panic
      BY <2>1, <3>2, WithFsFacts
    <3> HIDE DEF w
    <3>4. IndSlot(ind, i, n).k = w /\ IndSlot(ind, i, n).addr = b.addr
      BY <2>2, <3>1
    <3> QED BY <1>4, <2>1, <2>4, <3>2, <3>3, <3>4
  <2> QED BY <2>3, <2>4
<1> QED BY <1>2, <1>3, <1>4

\* bmap(): only the blocks of the inode change.
Grown(k, r, i) ==
    /\ r \in KernelTypes /\ r.panic = k.panic
    /\ r.fs.ino = k.fs.ino /\ r.fs.ents = k.fs.ents
    /\ r.itab[i].ref = k.itab[i].ref /\ r.itab[i].valid = k.itab[i].valid
    /\ r.itab[i].copy.type = k.itab[i].copy.type
    /\ r.itab[i].copy.nlink = k.itab[i].copy.nlink
    /\ r.itab[i].copy.size = k.itab[i].copy.size
    /\ \A j \in Inums : j # i => r.itab[j] = k.itab[j]

\* bmap() of any block of a file: it returns a block or 0, and the file has grown at most.
LEMMA BmapGrown ==
    ASSUME NEW k \in KernelTypes, NEW i \in Inums, NEW bn \in 0 .. MaxBlock - 1
    PROVE  Grown(k, Bmap(k, i, bn).k, i) /\ Bmap(k, i, bn).addr \in Blocks \union {0}
<1>1. ASSUME NEW s \in 0 .. NDirect
      PROVE  /\ Grown(k, AddrSlot(k, i, s).k, i)
             /\ AddrSlot(k, i, s).addr \in Blocks \union {0}
  <2> DEFINE a == AddrSlot(k, i, s)
  <2>1. Ip(k, i) \in Dinodes /\ Ip(k, i).addrs[s] \in Blocks \union {0}
    <3>1. Ip(k, i) \in Dinodes
      BY KernelParts DEF Ip
    <3>2. Ip(k, i).addrs \in Addrs
      BY <3>1, DinodeParts
    <3> QED BY <3>1, <3>2 DEF Addrs
  <2>2. /\ a.k \in KernelTypes /\ a.addr \in Blocks \union {0}
        /\ a.k.panic = k.panic
        /\ a.k.fs.ino = k.fs.ino /\ a.k.fs.ents = k.fs.ents
        /\ a.k.itab[i].ref = k.itab[i].ref /\ a.k.itab[i].valid = k.itab[i].valid
        /\ \A j \in Inums : j # i => a.k.itab[j] = k.itab[j]
        /\ a.k = k \/ (a.addr # 0 /\ a.k.itab[i].copy = SetAddr(Ip(k, i), s, a.addr))
    BY <2>1, AddrSlotFacts
  <2> HIDE DEF a
  <2>3. /\ a.k.itab[i].copy.type = Ip(k, i).type /\ a.k.itab[i].copy.nlink = Ip(k, i).nlink
        /\ a.k.itab[i].copy.size = Ip(k, i).size
    <3>1. CASE a.k = k
      BY <3>1 DEF Ip
    <3>2. CASE a.addr # 0 /\ a.k.itab[i].copy = SetAddr(Ip(k, i), s, a.addr)
      BY <2>1, <2>2, <3>2, SetAddrFacts
    <3> QED BY <2>2, <3>1, <3>2
  <2> QED BY <2>2, <2>3 DEF Grown, Ip, a
<1>2. CASE bn < NDirect
  <2>1. Bmap(k, i, bn) = AddrSlot(k, i, bn)
    BY <1>2 DEF Bmap
  <2>2. bn \in 0 .. NDirect
    BY <1>2, Constants
  <2> QED BY <1>1, <2>1, <2>2
<1>3. CASE ~ (bn < NDirect)
  <2> DEFINE a == AddrSlot(k, i, NDirect)
             n == bn - NDirect
  <2>1. Bmap(k, i, bn) = IndSlot(a, i, n)
    BY <1>3 DEF Bmap
  <2>2. n \in 0 .. NIndirect - 1 /\ NDirect \in 0 .. NDirect
    BY <1>3, Constants DEF MaxBlock
  <2>3. Grown(k, a.k, i) /\ a.addr \in Blocks \union {0} /\ a.k \in KernelTypes
    BY <1>1, <2>2 DEF Grown
  <2> HIDE DEF a, n
  <2> DEFINE r == IndSlot(a, i, n)
  <2>4. /\ r.k \in KernelTypes /\ r.addr \in Blocks \union {0}
        /\ r.k.panic = a.k.panic /\ r.k.itab = a.k.itab
        /\ r.k.fs.ino = a.k.fs.ino /\ r.k.fs.ents = a.k.fs.ents
    BY <2>2, <2>3, IndSlotFacts
  <2> HIDE DEF r
  <2>5. Bmap(k, i, bn) = r
    BY <2>1 DEF r
  <2> QED BY <2>3, <2>4, <2>5 DEF Grown
<1> QED BY <1>2, <1>3

\* A directory with another entry.
LEMMA SetEntFacts ==
    ASSUME NEW k \in KernelTypes, NEW d \in Inums, NEW n \in Entries,
           NEW i \in Inums \union {0}
    PROVE  LET r == SetEnt(k, d, n, i)
           IN  /\ r \in KernelTypes /\ r.itab = k.itab /\ r.panic = k.panic
               /\ r.fs.ents[d][n] = i
               /\ \A e \in Inums, l \in Entries :
                     e # d \/ l # n => r.fs.ents[e][l] = k.fs.ents[e][l]
               /\ r.fs.ino = k.fs.ino /\ r.fs.ind = k.fs.ind
               /\ r.fs.used = k.fs.used /\ r.fs.data = k.fs.data
<1> DEFINE g == k.fs
           f == [g EXCEPT !.ents[d][n] = i]
<1>1. g \in FsTypes
  BY KernelParts
<1>2. SetEnt(k, d, n, i) = WithFs(k, f)
  BY DEF SetEnt
<1> HIDE DEF g
<1>3. /\ f \in FsTypes
      /\ f.ents[d][n] = i
      /\ \A e \in Inums, l \in Entries : e # d \/ l # n => f.ents[e][l] = g.ents[e][l]
      /\ f.ino = g.ino /\ f.ind = g.ind /\ f.used = g.used /\ f.data = g.data
  BY <1>1, FsWithEnt
<1> HIDE DEF f
<1>4. /\ WithFs(k, f) \in KernelTypes
      /\ WithFs(k, f).fs = f /\ WithFs(k, f).itab = k.itab /\ WithFs(k, f).panic = k.panic
  BY <1>3, WithFsFacts
<1> QED BY <1>2, <1>3, <1>4 DEF g

\* An inode of another size, with other links, of another type.
Resized(d, s) == [d EXCEPT !.size = Larger(@, s)]

\* An inode with a larger size keeps its type, its links and its blocks.
LEMMA ResizedFacts ==
    ASSUME NEW d \in Dinodes, NEW s \in Nat
    PROVE  /\ Resized(d, s) \in Dinodes /\ Resized(d, s).type = d.type
           /\ Resized(d, s).nlink = d.nlink /\ Resized(d, s).addrs = d.addrs
<1>1. Larger(d.size, s) \in Nat
  BY DEF Larger, Dinodes
<1> QED BY <1>1 DEF Resized, Dinodes

WithLinks(d, n) == [d EXCEPT !.nlink = n]

\* An inode with other links keeps all else.
LEMMA WithLinksFacts ==
    ASSUME NEW d \in Dinodes, NEW n \in Int
    PROVE  /\ WithLinks(d, n) \in Dinodes /\ WithLinks(d, n).type = d.type
           /\ WithLinks(d, n).nlink = n /\ WithLinks(d, n).addrs = d.addrs
           /\ WithLinks(d, n).size = d.size
BY DEF WithLinks, Dinodes

Typed(d, t) == [d EXCEPT !.type = t]

\* An inode of another type keeps all else.
LEMMA TypedFacts ==
    ASSUME NEW d \in Dinodes, NEW t \in Types
    PROVE  /\ Typed(d, t) \in Dinodes /\ Typed(d, t).type = t
           /\ Typed(d, t).nlink = d.nlink /\ Typed(d, t).addrs = d.addrs
           /\ Typed(d, t).size = d.size
BY DEF Typed, Dinodes

\* What dirlink() of directory d changes: the directory, with its inode saved.
Entered(k, r, d) ==
    /\ r.panic = k.panic
    /\ r.itab[d].ref = k.itab[d].ref /\ r.itab[d].valid = k.itab[d].valid
    /\ r.itab[d].copy.type = k.itab[d].copy.type
    /\ r.itab[d].copy.nlink = k.itab[d].copy.nlink
    /\ r = k \/ r.fs.ino[d] = r.itab[d].copy
    /\ \A j \in Inums : j # d => r.itab[j] = k.itab[j] /\ r.fs.ino[j] = k.fs.ino[j]
    /\ \A e \in Inums, l \in Entries : e # d => r.fs.ents[e][l] = k.fs.ents[e][l]

\* The place of a new entry of a directory.
LEMMA PlaceRange ==
    ASSUME NEW k \in KernelTypes, NEW d \in Inums
    PROVE  /\ Place(k, d) \in Nat
           /\ ~(PlaceBlock(k, d) >= MaxBlock) => PlaceBlock(k, d) \in 0 .. MaxBlock - 1
<1> DEFINE bn  == PlaceBlock(k, d)
           off == Place(k, d)
<1>1. off \in Nat
  <2>1. Ip(k, d).size \in Nat
    BY KernelParts, DinodeParts DEF Ip
  <2>2. {l \in Entries : k.fs.ents[d][l] # 0} \in SUBSET Entries
    OBVIOUS
  <2>3. IsFiniteSet(Entries)
    <3>1. IsFiniteSet(Names) /\ IsFiniteSet({Dot}) /\ IsFiniteSet({DotDot})
      BY FilesAssumption, FS_Singleton
    <3>2. IsFiniteSet(Names \union {Dot})
      BY <3>1, FS_Union
    <3>3. IsFiniteSet((Names \union {Dot}) \union {DotDot})
      BY <3>1, <3>2, FS_Union
    <3>4. Entries = (Names \union {Dot}) \union {DotDot}
      BY DEF Entries
    <3> QED BY <3>3, <3>4
  <2>4. Cardinality({l \in Entries : k.fs.ents[d][l] # 0}) \in Nat
    BY <2>2, <2>3, FS_Subset, FS_CardinalityType
  <2> QED BY <2>1, <2>4 DEF Place
<1>2. ASSUME ~(bn >= MaxBlock) PROVE bn \in 0 .. MaxBlock - 1
  <2>1. DirSlots \in Nat /\ DirSlots >= 3 /\ MaxBlock \in Nat /\ MaxBlock > 0
    BY FilesAssumption DEF MaxBlock
  <2>2. bn = 0 \/ bn = off \div DirSlots
    BY DEF PlaceBlock
  <2>4. ~(bn >= MaxBlock)
    BY <1>2
  <2> HIDE DEF bn, off
  <2>3. off \div DirSlots \in Nat
    BY <1>1, <2>1
  <2> QED BY <2>1, <2>2, <2>3, <2>4
<1> QED BY <1>1, <1>2

\* dirlink(): either the name is entered, or no entry changes; other directories stay.
LEMMA DirlinkFacts ==
    ASSUME NEW k \in KernelTypes, NEW d \in Inums, NEW n \in Entries,
           NEW i \in Inums \union {0}
    PROVE  LET r == Dirlink(k, d, n, i)
           IN  /\ r.k \in KernelTypes /\ r.ok \in BOOLEAN /\ Entered(k, r.k, d)
               /\ r.ok => r.k.fs.ents[d][n] = i
               /\ ~r.ok => r.k.fs.ents[d][n] = k.fs.ents[d][n]
               /\ \A l \in Entries : l # n => r.k.fs.ents[d][l] = k.fs.ents[d][l]
<1> DEFINE bn  == PlaceBlock(k, d)
           off == Place(k, d)
<1>1. CASE bn >= MaxBlock
  <2>1. Dirlink(k, d, n, i) = [k |-> k, ok |-> FALSE]
    BY <1>1 DEF Dirlink
  <2>2. Dirlink(k, d, n, i).k = k /\ Dirlink(k, d, n, i).ok = FALSE
    BY <2>1
  <2> QED BY <2>2 DEF Entered
<1>2. CASE ~ (bn >= MaxBlock)
  <2> DEFINE r == Bmap(k, d, bn)
  <2>0. off \in Nat
    BY PlaceRange
  <2>1. bn \in 0 .. MaxBlock - 1
    BY <1>2, PlaceRange
  <2>2. Dirlink(k, d, n, i) = WriteEntry(r, d, off, n, i)
    BY <1>2 DEF Dirlink
  <2> HIDE DEF bn, off
  <2>3. Grown(k, r.k, d) /\ r.addr \in Blocks \union {0} /\ r.k \in KernelTypes
    BY <2>1, BmapGrown DEF Grown
  <2> HIDE DEF r
  <2>4. Ip(r.k, d) \in Dinodes
    BY <2>3, KernelParts DEF Ip
  <2>5. CASE r.addr = 0
    <3> DEFINE u == Iupdate(r.k, d, Ip(r.k, d))
    <3>1. Dirlink(k, d, n, i) = [k |-> u, ok |-> FALSE]
      BY <2>2, <2>5 DEF WriteEntry
    <3>2. /\ u \in KernelTypes /\ u.panic = r.k.panic
          /\ u.itab[d].ref = r.k.itab[d].ref /\ u.itab[d].valid = r.k.itab[d].valid
          /\ u.itab[d].copy = Ip(r.k, d) /\ u.fs.ino[d] = Ip(r.k, d)
          /\ \A j \in Inums : j # d => u.itab[j] = r.k.itab[j] /\ u.fs.ino[j] = r.k.fs.ino[j]
          /\ u.fs.ents = r.k.fs.ents
      BY <2>3, <2>4, IupdateFacts
    <3> HIDE DEF u
    <3>3. Dirlink(k, d, n, i).k = u /\ Dirlink(k, d, n, i).ok = FALSE
      BY <3>1
    <3>4. Entered(k, u, d) /\ u.fs.ents = k.fs.ents
      BY <2>3, <3>2 DEF Entered, Grown, Ip
    <3> QED BY <3>2, <3>3, <3>4
  <2>6. CASE r.addr # 0
    <3> DEFINE c == Resized(Ip(r.k, d), off + 1)
               u == Iupdate(r.k, d, c)
               w == SetEnt(u, d, n, i)
    <3>1. Dirlink(k, d, n, i) = [k |-> w, ok |-> TRUE]
      BY <2>2, <2>6 DEF WriteEntry, Resized
    <3>2. c \in Dinodes /\ c.type = Ip(r.k, d).type /\ c.nlink = Ip(r.k, d).nlink
      <4>1. off + 1 \in Nat
        BY <2>0
      <4> QED BY <2>4, <4>1, ResizedFacts
    <3> HIDE DEF c
    <3>3. /\ u \in KernelTypes /\ u.panic = r.k.panic
          /\ u.itab[d].ref = r.k.itab[d].ref /\ u.itab[d].valid = r.k.itab[d].valid
          /\ u.itab[d].copy = c /\ u.fs.ino[d] = c
          /\ \A j \in Inums : j # d => u.itab[j] = r.k.itab[j] /\ u.fs.ino[j] = r.k.fs.ino[j]
          /\ u.fs.ents = r.k.fs.ents
      BY <2>3, <3>2, IupdateFacts
    <3> HIDE DEF u
    <3>4. /\ w \in KernelTypes /\ w.itab = u.itab /\ w.panic = u.panic
          /\ w.fs.ents[d][n] = i
          /\ \A e \in Inums, l \in Entries :
                e # d \/ l # n => w.fs.ents[e][l] = u.fs.ents[e][l]
          /\ w.fs.ino = u.fs.ino
      <4>1. u \in KernelTypes
        BY <3>3
      <4> QED BY <4>1, SetEntFacts
    <3> HIDE DEF w
    <3>5. Dirlink(k, d, n, i).k = w /\ Dirlink(k, d, n, i).ok = TRUE
      BY <3>1
    <3>6. Entered(k, w, d)
      BY <2>3, <3>2, <3>3, <3>4 DEF Entered, Grown, Ip
    <3>7. \A l \in Entries : l # n => w.fs.ents[d][l] = k.fs.ents[d][l]
      BY <2>3, <3>3, <3>4 DEF Grown
    <3> QED BY <3>4, <3>5, <3>6, <3>7
  <2> QED BY <2>3, <2>5, <2>6
<1> QED BY <1>1, <1>2
-----------------------------------------------------------------------------
(* Counting references                                                     *)

One(b) == IF b THEN 1 ELSE 0

\* How often an inode is to be put, is in ip and dp, and is referenced by a process.
PutCount(s, i)  == One(s # <<>> /\ s[Len(s)] = i) + One(Len(s) = 2 /\ s[1] = i)
HandCount(m, i) == One(m.ip = i /\ IpUsed(m)) + One(m.dp = i /\ DpUsed(m))
Count(m, c, i)  == One(c = i /\ m.at # "chdirEnd") + HandCount(m, i) + PutCount(m.put, i)

\* One element more or less.
LEMMA OneMore ==
    ASSUME NEW S, IsFiniteSet(S), NEW x, x \notin S, NEW T
    PROVE  /\ IsFiniteSet(S \union ({x} \intersect T))
           /\ Cardinality(S \union ({x} \intersect T)) = Cardinality(S) + One(x \in T)
<1>1. Cardinality(S) \in Nat
  BY FS_CardinalityType
<1>2. CASE x \in T
  <2>1. S \union ({x} \intersect T) = S \union {x}
    BY <1>2
  <2>2. IsFiniteSet(S \union {x}) /\ Cardinality(S \union {x}) = Cardinality(S) + 1
    BY FS_AddElement
  <2> QED BY <1>2, <2>1, <2>2 DEF One
<1>3. CASE x \notin T
  <2>1. S \union ({x} \intersect T) = S
    BY <1>3
  <2>2. One(x \in T) = 0
    BY <1>3 DEF One
  <2>3. Cardinality(S) + 0 = Cardinality(S)
    BY <1>1
  <2> QED BY <2>1, <2>2, <2>3
<1> QED BY <1>2, <1>3

\* The size of a set of slots.
LEMMA SlotCount ==
    ASSUME NEW T \in SUBSET Slots
    PROVE  /\ IsFiniteSet(T)
           /\ Cardinality(T) = One("cwd" \in T) + One("ip" \in T) + One("dp" \in T)
                               + One("last" \in T) + One("first" \in T)
<1> DEFINE A0 == {}
           A1 == A0 \union ({"cwd"} \intersect T)
           A2 == A1 \union ({"ip"} \intersect T)
           A3 == A2 \union ({"dp"} \intersect T)
           A4 == A3 \union ({"last"} \intersect T)
           A5 == A4 \union ({"first"} \intersect T)
<1>0. IsFiniteSet(A0) /\ Cardinality(A0) = 0
  BY FS_EmptySet
<1>1. IsFiniteSet(A1) /\ Cardinality(A1) = Cardinality(A0) + One("cwd" \in T)
  <2>1. "cwd" \notin A0
    OBVIOUS
  <2> HIDE DEF A0
  <2> QED BY <1>0, <2>1, OneMore
<1>2. IsFiniteSet(A2) /\ Cardinality(A2) = Cardinality(A1) + One("ip" \in T)
  <2>1. "ip" \notin A1
    OBVIOUS
  <2> HIDE DEF A1
  <2> QED BY <1>1, <2>1, OneMore
<1>3. IsFiniteSet(A3) /\ Cardinality(A3) = Cardinality(A2) + One("dp" \in T)
  <2>1. "dp" \notin A2
    OBVIOUS
  <2> HIDE DEF A2
  <2> QED BY <1>2, <2>1, OneMore
<1>4. IsFiniteSet(A4) /\ Cardinality(A4) = Cardinality(A3) + One("last" \in T)
  <2>1. "last" \notin A3
    OBVIOUS
  <2> HIDE DEF A3
  <2> QED BY <1>3, <2>1, OneMore
<1>5. IsFiniteSet(A5) /\ Cardinality(A5) = Cardinality(A4) + One("first" \in T)
  <2>1. "first" \notin A4
    OBVIOUS
  <2> HIDE DEF A4
  <2> QED BY <1>4, <2>1, OneMore
<1>6. A5 = T
  BY DEF Slots
<1>7. /\ One("cwd" \in T) \in Nat /\ One("ip" \in T) \in Nat /\ One("dp" \in T) \in Nat
      /\ One("last" \in T) \in Nat /\ One("first" \in T) \in Nat
  BY DEF One
<1> HIDE DEF A0, A1, A2, A3, A4, A5
<1> QED BY <1>0, <1>1, <1>2, <1>3, <1>4, <1>5, <1>6, <1>7

\* When only the rows of p differ, so do the sizes.
RowOf(U, p) == {s \in Slots : <<p, s>> \in U}

\* The uses of an inode are those of one process and those of the others.
LEMMA RowSplit ==
    ASSUME NEW U \in SUBSET (Users \X Slots), NEW p \in Users
    PROVE  LET W == {x \in U : x[1] # p}
           IN  /\ IsFiniteSet(U) /\ IsFiniteSet(W)
               /\ Cardinality(U) = Cardinality(W) + Cardinality(RowOf(U, p))
               /\ Cardinality(W) \in Nat
<1> DEFINE W == {x \in U : x[1] # p}
           R == RowOf(U, p)
           P == {p} \X R
<1>1. IsFiniteSet(Slots) /\ IsFiniteSet(Users \X Slots)
  <2>1. IsFiniteSet(Slots)
    BY SlotCount
  <2> QED BY <2>1, Constants, FS_Product
<1>2. IsFiniteSet(U) /\ IsFiniteSet(W)
  BY <1>1, FS_Subset
<1>3. IsFiniteSet(R) /\ Cardinality(R) \in Nat
  BY <1>1, FS_Subset, FS_CardinalityType DEF RowOf
<1>4. IsFiniteSet(P) /\ Cardinality(P) = Cardinality(R)
  <2>1. IsFiniteSet({p}) /\ Cardinality({p}) = 1
    BY FS_Singleton
  <2> HIDE DEF R
  <2>2. IsFiniteSet(P) /\ Cardinality(P) = 1 * Cardinality(R)
    BY <1>3, <2>1, FS_Product
  <2> QED BY <1>3, <2>2
<1>5. U = W \union P /\ W \intersect P = {}
  <2>1. ASSUME NEW x \in U PROVE x \in W \union P
    BY <2>1 DEF RowOf
  <2>2. ASSUME NEW x \in P PROVE x \in U /\ x \notin W
    BY <2>2 DEF RowOf
  <2> QED BY <2>1, <2>2
<1> HIDE DEF W, P, R
<1>6. Cardinality(W \union P) = Cardinality(W) + Cardinality(P) - Cardinality(W \intersect P)
  BY <1>2, <1>4, FS_Union
<1>7. Cardinality(W \intersect P) = 0 /\ Cardinality(W) \in Nat
  BY <1>2, <1>5, FS_EmptySet, FS_CardinalityType
<1>8. Cardinality(U) = Cardinality(W) + Cardinality(R)
  BY <1>3, <1>4, <1>5, <1>6, <1>7
<1> QED BY <1>2, <1>7, <1>8 DEF W, R

\* The row of a process is as long as it has references.
LEMMA RowCount ==
    ASSUME NEW m, NEW c, NEW i, NEW U \in SUBSET (Users \X Slots), NEW p \in Users,
           \A s \in Slots : <<p, s>> \in U <=> InSlot(m, c, s, i)
    PROVE  Cardinality(RowOf(U, p)) = Count(m, c, i)
<1> DEFINE R == RowOf(U, p)
<1>1. R \in SUBSET Slots
  BY DEF RowOf
<1>2. /\ "cwd" \in R <=> (c = i /\ m.at # "chdirEnd")
      /\ "ip" \in R <=> (m.ip = i /\ IpUsed(m))
      /\ "dp" \in R <=> (m.dp = i /\ DpUsed(m))
      /\ "last" \in R <=> (m.put # <<>> /\ m.put[Len(m.put)] = i)
      /\ "first" \in R <=> (Len(m.put) = 2 /\ m.put[1] = i)
  BY DEF RowOf, InSlot, Slots
<1>3. Cardinality(R) = One("cwd" \in R) + One("ip" \in R) + One("dp" \in R)
                       + One("last" \in R) + One("first" \in R)
  BY <1>1, SlotCount
<1> HIDE DEF R
<1>5. /\ One("cwd" \in R) = One(c = i /\ m.at # "chdirEnd")
      /\ One("ip" \in R) = One(m.ip = i /\ IpUsed(m))
      /\ One("dp" \in R) = One(m.dp = i /\ DpUsed(m))
      /\ One("last" \in R) = One(m.put # <<>> /\ m.put[Len(m.put)] = i)
      /\ One("first" \in R) = One(Len(m.put) = 2 /\ m.put[1] = i)
  BY <1>2 DEF One
<1>6. /\ One("cwd" \in R) \in Nat /\ One("ip" \in R) \in Nat /\ One("dp" \in R) \in Nat
      /\ One("last" \in R) \in Nat /\ One("first" \in R) \in Nat
  BY DEF One
<1> QED BY <1>3, <1>5, <1>6 DEF Count, HandCount, PutCount, R

\* A step of one process changes the references to an inode by its own.
LEMMA UsesStep ==
    ASSUME NEW p \in Users, NEW m, NEW c, NEW i,
           DOMAIN me = Users, DOMAIN cwd = Users,
           me' = [me EXCEPT ![p] = m], cwd' = [cwd EXCEPT ![p] = c]
    PROVE  /\ Cardinality(Uses(i))' - Cardinality(Uses(i))
                = Count(m, c, i) - Count(me[p], cwd[p], i)
           /\ Cardinality(Uses(i)) \in Nat /\ Cardinality(Uses(i))' \in Nat
<1> DEFINE U == Uses(i)
           V == Uses(i)'
           W == {x \in U : x[1] # p}
           X == {x \in V : x[1] # p}
<1>1. U \in SUBSET (Users \X Slots) /\ V \in SUBSET (Users \X Slots)
  BY DEF Uses
<1>2. me'[p] = m /\ cwd'[p] = c /\ \A q \in Users : q # p => me'[q] = me[q] /\ cwd'[q] = cwd[q]
  OBVIOUS
<1>3. \A s \in Slots : <<p, s>> \in U <=> InSlot(me[p], cwd[p], s, i)
  BY DEF Uses
<1>4. \A s \in Slots : <<p, s>> \in V <=> InSlot(m, c, s, i)
  BY <1>2 DEF Uses
<1>5. W = X
  <2>1. ASSUME NEW q \in Users, q # p, NEW s \in Slots
        PROVE  <<q, s>> \in U <=> <<q, s>> \in V
    BY <1>2, <2>1 DEF Uses
  <2> QED BY <1>1, <2>1
<1> HIDE DEF U, V
<1>6. /\ Cardinality(U) = Cardinality(W) + Cardinality(RowOf(U, p))
      /\ Cardinality(W) \in Nat
  BY <1>1, RowSplit
<1>7. Cardinality(V) = Cardinality(X) + Cardinality(RowOf(V, p))
  BY <1>1, RowSplit
<1>8. Cardinality(RowOf(U, p)) = Count(me[p], cwd[p], i)
  BY <1>1, <1>3, RowCount
<1>9. Cardinality(RowOf(V, p)) = Count(m, c, i)
  BY <1>1, <1>4, RowCount
<1>10. IsFiniteSet(U) /\ IsFiniteSet(V)
  BY <1>1, RowSplit
<1>11. Cardinality(U) \in Nat /\ Cardinality(V) \in Nat
  BY <1>10, FS_CardinalityType
<1>12. IsFiniteSet(RowOf(U, p)) /\ IsFiniteSet(RowOf(V, p))
  <2>1. RowOf(U, p) \in SUBSET Slots /\ RowOf(V, p) \in SUBSET Slots
    BY DEF RowOf
  <2> QED BY <2>1, SlotCount
<1>13. Cardinality(RowOf(U, p)) \in Nat /\ Cardinality(RowOf(V, p)) \in Nat
  BY <1>12, FS_CardinalityType
<1>14. Cardinality(V) - Cardinality(U) = Count(m, c, i) - Count(me[p], cwd[p], i)
  <2> HIDE DEF W, X
  <2> QED BY <1>5, <1>6, <1>7, <1>8, <1>9, <1>11, <1>13
<1>15. Cardinality(Uses(i))' = Cardinality(V) /\ Cardinality(Uses(i)) = Cardinality(U)
  BY DEF U, V
<1> QED BY <1>11, <1>14, <1>15

\* The references to an inode are finitely many.
LEMMA UsesFinite == ASSUME NEW i PROVE IsFiniteSet(Uses(i)) /\ Cardinality(Uses(i)) \in Nat
<1>1. Uses(i) \in SUBSET (Users \X Slots)
  BY DEF Uses
<1>2. IsFiniteSet(Slots)
  BY SlotCount
<1>3. IsFiniteSet(Users \X Slots)
  BY <1>2, Constants, FS_Product
<1> QED BY <1>1, <1>3, FS_Subset, FS_CardinalityType

\* Files that are open on an inode.
LEMMA OpensFinite == ASSUME NEW i PROVE IsFiniteSet(Opens(i)) /\ Cardinality(Opens(i)) \in Nat
<1>1. IsFiniteSet(1 .. NFile)
  BY FilesAssumption, FS_Interval
<1>2. Opens(i) \in SUBSET (1 .. NFile)
  BY DEF Opens
<1> QED BY <1>1, <1>2, FS_Subset, FS_CardinalityType

\* An inode that an open file refers to has at least that reference.
LEMMA OneOpen ==
    ASSUME NEW i, NEW f \in Opens(i)
    PROVE  Cardinality(Opens(i)) >= 1
<1>1. IsFiniteSet({f}) /\ Cardinality({f}) = 1
  BY FS_Singleton
<1>2. {f} \in SUBSET Opens(i)
  OBVIOUS
<1>3. Cardinality({f}) <= Cardinality(Opens(i))
  BY <1>2, OpensFinite, FS_Subset
<1> QED BY <1>1, <1>3, OpensFinite

\* What is to be put, counted.
LEMMA PutNone == ASSUME NEW i PROVE PutCount(<<>>, i) = 0
BY DEF PutCount, One

\* One inode to be put counts once.
LEMMA PutOne == ASSUME NEW a, NEW i PROVE PutCount(<<a>>, i) = One(a = i)
BY DEF PutCount, One

\* Two inodes to be put count once each, twice when they are the same.
LEMMA PutTwo == ASSUME NEW a, NEW b, NEW i PROVE PutCount(<<a, b>>, i) = One(b = i) + One(a = i)
BY DEF PutCount, One

\* At most two inodes are to be put.
LEMMA PutShape ==
    ASSUME NEW s \in Seq(Inums), s # <<>>, Len(s) <= 2
    PROVE  \/ \E a \in Inums : s = <<a>>
           \/ \E a, b \in Inums : s = <<a, b>>
<1> DEFINE n == Len(s)
<1>1. n \in Nat /\ n # 0 /\ n <= 2
  OBVIOUS
<1> HIDE DEF n
<1>2. n = 1 \/ n = 2
  BY <1>1
<1>3. CASE n = 1
  <2>1. s = <<s[1]>> /\ s[1] \in Inums
    BY <1>3 DEF n
  <2> QED BY <2>1
<1>4. CASE n = 2
  <2>1. s = <<s[1], s[2]>> /\ s[1] \in Inums /\ s[2] \in Inums
    BY <1>4 DEF n
  <2> QED BY <2>1
<1> QED BY <1>2, <1>3, <1>4

\* The first of them, and the rest.
LEMMA PutTail ==
    ASSUME NEW s \in Seq(Inums), s # <<>>, Len(s) <= 2
    PROVE  /\ Tail(s) \in Seq(Inums) /\ Len(Tail(s)) = Len(s) - 1
           /\ Head(s) \in Inums
           /\ Len(s) = 1 => Tail(s) = <<>>
           /\ \A i : PutCount(s, i) = PutCount(Tail(s), i) + One(Head(s) = i)
<1>1. CASE \E a \in Inums : s = <<a>>
  <2>1. PICK a \in Inums : s = <<a>>
    BY <1>1
  <2>2. Tail(<<a>>) = <<>> /\ Head(<<a>>) = a /\ Len(<<a>>) = 1
    OBVIOUS
  <2>4. ASSUME NEW i PROVE PutCount(s, i) = PutCount(Tail(s), i) + One(Head(s) = i)
    <3>1. PutCount(s, i) = PutCount(<<a>>, i) /\ PutCount(Tail(s), i) = PutCount(<<>>, i)
          /\ One(Head(s) = i) = One(a = i)
      BY <2>1, <2>2
    <3>2. PutCount(<<a>>, i) = One(a = i) /\ PutCount(<<>>, i) = 0
      BY PutOne, PutNone
    <3>3. One(a = i) \in {0, 1}
      BY DEF One
    <3> DEFINE b == One(a = i)
    <3> HIDE DEF b
    <3>4. b = 0 + b
      BY <3>3 DEF b
    <3> QED BY <3>1, <3>2, <3>4 DEF b
  <2>5. Tail(s) \in Seq(Inums) /\ Len(Tail(s)) = Len(s) - 1 /\ Head(s) \in Inums
    BY <2>1, <2>2
  <2> QED BY <2>1, <2>2, <2>4, <2>5
<1>2. CASE \E a, b \in Inums : s = <<a, b>>
  <2>1. PICK a \in Inums, b \in Inums : s = <<a, b>>
    BY <1>2
  <2>2. Tail(<<a, b>>) = <<b>> /\ Head(<<a, b>>) = a /\ Len(<<a, b>>) = 2 /\ Len(<<b>>) = 1
    OBVIOUS
  <2>3. \A i : /\ PutCount(<<a, b>>, i) = One(b = i) + One(a = i)
                /\ PutCount(<<b>>, i) = One(b = i)
    BY PutOne, PutTwo
  <2>4. ASSUME NEW i PROVE PutCount(s, i) = PutCount(Tail(s), i) + One(Head(s) = i)
    <3>1. PutCount(s, i) = PutCount(<<a, b>>, i) /\ PutCount(Tail(s), i) = PutCount(<<b>>, i)
          /\ One(Head(s) = i) = One(a = i)
      BY <2>1, <2>2
    <3> QED BY <2>3, <3>1
  <2>5. Tail(s) \in Seq(Inums) /\ Len(Tail(s)) = Len(s) - 1 /\ Head(s) \in Inums
    BY <2>1, <2>2
  <2> QED BY <2>1, <2>2, <2>4, <2>5
<1> QED BY <1>1, <1>2, PutShape

\* A single use counts as 0 or 1.
LEMMA OneType == ASSUME NEW b PROVE One(b) \in {0, 1}
BY DEF One
-----------------------------------------------------------------------------
(* Steps of one process                                                    *)

\* The state has its types.
LEMMA FilesTypesParts ==
    ASSUME FilesTypes
    PROVE  /\ K \in KernelTypes /\ K.fs = fs /\ K.itab = itab /\ K.panic = panic
           /\ me \in [Users -> MeTypes] /\ cwd \in [Users -> Inums]
           /\ ilk \in [Inums -> Users \union {Nobody}]
           /\ itab \in [Inums -> EntryTypes] /\ fs \in FsTypes
BY DEF FilesTypes, K, KernelTypes

\* The parts of what a process is doing.
LEMMA MeParts ==
    ASSUME NEW m \in MeTypes
    PROVE  /\ m.at \in Places /\ m.call \in CallTypes /\ m.path \in Seq(Entries)
           /\ m.ip \in Inums \union {0} /\ m.dp \in Inums \union {0} /\ m.put \in Seq(Inums)
           /\ m.fd \in 0 .. NOFile /\ m.left \in Int /\ m.now \in Int
           /\ Locked(m) \in Inums \union {0}
BY DEF MeTypes, Locked

\* Nobody puts an inode that is locked for a place.
LEMMA LockedHead ==
    ASSUME NEW m \in MeTypes, Shape(m), m.put # <<>>, Locked(m) # 0
    PROVE  Head(m.put) # Locked(m)
BY DEF Shape, Locked

\* The locks after a step: p gives up what it had and has what it needs at its new place.
Relocks(p, m) ==
    /\ \A i \in Inums : ilk'[i] = IF i = Locked(m) THEN p
                                  ELSE IF i = Locked(me[p]) THEN Nobody ELSE ilk[i]
    /\ Locked(m) # 0 => ilk[Locked(m)] \in {Nobody, p}

\* A process that goes on with the locks that its new place needs keeps them in order,
\* and the locks of others.
LEMMA LocksStep ==
    ASSUME FilesTypes, LocksOK, NEW p \in Users, NEW m \in MeTypes, Shape(m),
           me' = [me EXCEPT ![p] = m], Relocks(p, m), \A i \in Inums : ~Frees(p, i)
    PROVE  /\ LocksOK'
           /\ \A i \in Inums : BeingFreed(i)' <=> BeingFreed(i)
           /\ \A i \in Inums : i # Locked(m) /\ i # Locked(me[p]) => ilk'[i] = ilk[i]
           /\ \A q \in Users : q # p => me'[q] = me[q]
           /\ me'[p] = m
<1>1. me'[p] = m /\ \A q \in Users : q # p => me'[q] = me[q]
  BY FilesTypesParts
<1>2. /\ Nobody \notin Users /\ 0 \notin Inums
      /\ Locked(m) \in Inums \union {0} /\ Locked(me[p]) \in Inums \union {0}
      /\ \A q \in Users : Locked(me[q]) \in Inums \union {0}
  BY Constants, FilesTypesParts, MeParts
<1>3. /\ \A i \in Inums : i = Locked(m) => ilk'[i] = p
      /\ \A i \in Inums : i # Locked(m) /\ i = Locked(me[p]) => ilk'[i] = Nobody
      /\ \A i \in Inums : i # Locked(m) /\ i # Locked(me[p]) => ilk'[i] = ilk[i]
      /\ Locked(m) # 0 => ilk[Locked(m)] = Nobody \/ ilk[Locked(m)] = p
  BY DEF Relocks
<1>4. ASSUME NEW i \in Inums, ilk[i] = p PROVE Locked(me[p]) = i
  BY <1>2, <1>4 DEF LocksOK
<1>5. ASSUME NEW q \in Users, Locked(me'[q]) # 0 PROVE ilk'[Locked(me'[q])] = q
  <2>1. CASE q = p
    BY <1>1, <1>2, <1>3, <1>5, <2>1
  <2>2. CASE q # p
    <3>1. Locked(me[q]) \in Inums /\ ilk[Locked(me[q])] = q
      BY <1>1, <1>2, <1>5, <2>2 DEF LocksOK
    <3>2. Locked(me[q]) # Locked(m)
      BY <1>2, <1>3, <2>2, <3>1
    <3>3. Locked(me[q]) # Locked(me[p])
      <4>1. Locked(me[p]) # 0 => ilk[Locked(me[p])] = p
        BY DEF LocksOK
      <4> QED BY <1>2, <2>2, <3>1, <4>1
    <3> QED BY <1>1, <1>3, <2>2, <3>1, <3>2, <3>3
  <2> QED BY <2>1, <2>2
<1>6. ASSUME NEW i \in Inums PROVE ~(m.put # <<>> /\ Head(m.put) = i /\ ilk'[i] = p)
  <2>1. SUFFICES ASSUME m.put # <<>>, Head(m.put) = i, ilk'[i] = p PROVE FALSE
    OBVIOUS
  <2>2. i = Locked(m)
    BY <1>2, <1>3, <1>4, <2>1
  <2> QED BY <1>2, <2>1, <2>2, LockedHead
<1>7. ASSUME NEW i \in Inums, NEW q \in Users, q # p
      PROVE  /\ ilk'[i] = q <=> ilk[i] = q
             /\ Frees(q, i)' <=> Frees(q, i)
  <2>1. ilk'[i] = q <=> ilk[i] = q
    BY <1>2, <1>3, <1>4, <1>7 DEF LocksOK
  <2> QED BY <1>1, <1>7, <2>1 DEF Frees
<1>8. ASSUME NEW i \in Inums, ilk'[i] # Nobody
      PROVE  (Locked(me[ilk[i]]) = i \/ Frees(ilk[i], i))'
  <2>1. CASE ilk'[i] = p
    <3>1. i = Locked(m)
      BY <1>2, <1>3, <1>4, <2>1
    <3> QED BY <1>1, <2>1, <3>1
  <2>2. CASE ilk'[i] # p
    <3>1. ilk'[i] = ilk[i] /\ ilk[i] \in Users /\ ilk[i] # p
      BY <1>3, <1>8, <2>2, FilesTypesParts
    <3>2. Locked(me[ilk[i]]) = i \/ Frees(ilk[i], i)
      BY <1>8, <3>1 DEF LocksOK
    <3>3. me'[ilk[i]] = me[ilk[i]]
      BY <1>1, <3>1
    <3>4. Frees(ilk[i], i) => Frees(ilk[i], i)'
      BY <3>1, <3>3 DEF Frees
    <3> QED BY <3>1, <3>2, <3>3, <3>4
  <2> QED BY <2>1, <2>2
<1>9. ASSUME NEW i \in Inums PROVE BeingFreed(i)' <=> BeingFreed(i)
  <2>1. BeingFreed(i) <=> \E q \in Users : Frees(q, i)
    BY <1>2, FilesTypesParts DEF BeingFreed, Frees
  <2>2. BeingFreed(i)' <=> \E q \in Users : Frees(q, i)'
    <3>1. ilk'[i] # Nobody => ilk'[i] \in Users
      BY <1>3, FilesTypesParts
    <3> QED BY <1>2, <3>1 DEF BeingFreed, Frees
  <2>3. ~Frees(p, i) /\ ~Frees(p, i)'
    BY <1>1, <1>6 DEF Frees
  <2> QED BY <1>7, <2>1, <2>2, <2>3
<1> QED BY <1>1, <1>3, <1>5, <1>8, <1>9 DEF LocksOK

\* What a step of p may do to an inode in memory and on disk.
Current(k, i) ==
    /\ k.itab[i].copy.type = k.fs.ino[i].type /\ k.itab[i].copy.nlink = k.fs.ino[i].nlink
    /\ k.fs.ino[i].type # "none"
Fits(p, m, k, i) ==
    \/ /\ k.itab[i].valid = itab[i].valid
       /\ itab[i].valid => k.itab[i].copy = itab[i].copy
       /\ k.fs.ino[i] = fs.ino[i]
       /\ Locked(me[p]) = i /\ me[p].at = "writei" => Locked(m) = i /\ m.at = "writei"
    \/ /\ ilk[i] \in {Nobody, p}
       /\ k.itab[i].valid =>
            /\ Current(k, i)
            /\ k.itab[i].copy = k.fs.ino[i] \/ (Locked(m) = i /\ m.at = "writei")
    \/ ~itab[i].valid /\ ~k.itab[i].valid
    \/ BeingFreed(i) /\ k.itab[i].valid = itab[i].valid

\* A step that leaves every copy current, up to date or unlocked keeps the copies right.
LEMMA CopiesStep ==
    ASSUME FilesTypes, LocksOK, CopiesOK, panic = "none", NEW p \in Users, NEW m \in MeTypes,
           Shape(m), me' = [me EXCEPT ![p] = m], Relocks(p, m), \A i \in Inums : ~Frees(p, i),
           NEW k \in KernelTypes, fs' = k.fs, itab' = k.itab, panic' = k.panic,
           \A i \in Inums : Fits(p, m, k, i) /\ (k.itab[i].ref = 0 => ~k.itab[i].valid),
           k.panic = "none" /\ Locked(m) # 0 => k.itab[Locked(m)].valid
    PROVE  CopiesOK'
<1>1. /\ LocksOK'
      /\ \A i \in Inums : BeingFreed(i)' <=> BeingFreed(i)
      /\ \A i \in Inums : i # Locked(m) /\ i # Locked(me[p]) => ilk'[i] = ilk[i]
      /\ \A q \in Users : q # p => me'[q] = me[q]
      /\ me'[p] = m
  BY LocksStep
<1>2. /\ Nobody \notin Users /\ 0 \notin Inums
      /\ Locked(m) \in Inums \union {0}
      /\ \A q \in Users : Locked(me[q]) \in Inums \union {0}
  BY Constants, FilesTypesParts, MeParts
<1>w. ASSUME NEW i \in Inums
      PROVE  BeingWritten(i) <=> \E q \in Users : me[q].at = "writei" /\ Locked(me[q]) = i
  BY <1>2, <1>w, FilesTypesParts DEF BeingWritten, LocksOK
<1>x. ASSUME NEW i \in Inums
      PROVE  BeingWritten(i)' <=> \E q \in Users : me'[q].at = "writei" /\ Locked(me'[q]) = i
  <2>1. ilk'[i] # Nobody => ilk'[i] \in Users
    BY FilesTypesParts DEF Relocks
  <2> QED BY <1>1, <1>2, <1>x, <2>1 DEF BeingWritten, LocksOK
<1>3. ASSUME NEW i \in Inums PROVE CopyOK(i)'
  <2>1. CASE BeingFreed(i)
    BY <1>1, <2>1 DEF CopyOK
  <2>2. CASE ~k.itab[i].valid
    BY <2>2 DEF CopyOK
  <2>3. CASE /\ ~BeingFreed(i)
             /\ k.itab[i].valid = itab[i].valid
             /\ itab[i].valid => k.itab[i].copy = itab[i].copy
             /\ k.fs.ino[i] = fs.ino[i]
             /\ Locked(me[p]) = i /\ me[p].at = "writei" => Locked(m) = i /\ m.at = "writei"
    <3>1. BeingWritten(i) => BeingWritten(i)'
      <4>1. SUFFICES ASSUME NEW q \in Users, me[q].at = "writei", Locked(me[q]) = i
                     PROVE  \E r \in Users : me'[r].at = "writei" /\ Locked(me'[r]) = i
        BY <1>w, <1>x
      <4>2. CASE q = p
        BY <1>1, <2>3, <4>1, <4>2
      <4>3. CASE q # p
        BY <1>1, <4>1, <4>3
      <4> QED BY <4>2, <4>3
    <3>2. CopyOK(i)
      BY DEF CopiesOK
    <3>3. /\ itab'[i].valid = itab[i].valid /\ fs'.ino[i] = fs.ino[i]
          /\ itab[i].valid => itab'[i].copy = itab[i].copy
      BY <2>3
    <3> QED BY <1>1, <2>3, <3>1, <3>2, <3>3 DEF CopyOK
  <2>4. CASE k.itab[i].valid =>
               /\ Current(k, i)
               /\ k.itab[i].copy = k.fs.ino[i] \/ (Locked(m) = i /\ m.at = "writei")
    <3>1. Locked(m) = i /\ m.at = "writei" => BeingWritten(i)'
      BY <1>1, <1>x
    <3> QED BY <2>4, <3>1 DEF CopyOK, Current
  <2> QED BY <2>1, <2>2, <2>3, <2>4 DEF Fits
<1>4. ASSUME panic' = "none", NEW q \in Users, Locked(me'[q]) # 0
      PROVE  itab'[Locked(me'[q])].valid
  <2>1. CASE q = p
    BY <1>1, <1>4, <2>1
  <2>2. CASE q # p
    <3> DEFINE i == Locked(me[q])
    <3>1. i \in Inums /\ ilk[i] = q /\ itab[i].valid /\ me'[q] = me[q]
      BY <1>1, <1>2, <1>4, <2>2 DEF LocksOK, CopiesOK
    <3>2. Fits(p, m, k, i)
      BY <3>1
    <3>3. ilk[i] \notin {Nobody, p}
      BY <1>2, <2>2, <3>1
    <3> HIDE DEF i
    <3>4. k.itab[i].valid
      BY <3>1, <3>2, <3>3 DEF Fits
    <3> QED BY <3>1, <3>4 DEF i
  <2> QED BY <2>1, <2>2
<1> QED BY <1>3, <1>4 DEF CopiesOK

\* What the references of a process are at its place.
LEMMA CountAt ==
    ASSUME NEW m, NEW c, NEW i \in Inums
    PROVE  /\ m.at \in {"walk", "linkNew", "unlinkChild", "createNew"}
                => Count(m, c, i) = One(c = i) + One(m.ip = i) + One(m.dp = i) + PutCount(m.put, i)
           /\ m.at \in {"linkOld", "unlink", "unlinkLast", "create", "createOld", "made", "read",
                        "rdwr", "trunc", "openFile", "chdir"}
                => Count(m, c, i) = One(c = i) + One(m.ip = i) + PutCount(m.put, i)
           /\ m.at \in {"linkBad", "createFail"}
                => Count(m, c, i) = One(c = i) + One(m.dp = i) + PutCount(m.put, i)
           /\ m.at \in {"user", "end", "writeOp", "writei"}
                => Count(m, c, i) = One(c = i) + PutCount(m.put, i)
           /\ m.at = "chdirEnd" => Count(m, c, i) = One(m.ip = i) + PutCount(m.put, i)
<1>1. i # 0
  BY Constants
<1>2. PutCount(m.put, i) \in Int
  BY DEF PutCount, One
<1> DEFINE pc == PutCount(m.put, i)
<1> HIDE DEF pc
<1>3. pc \in Int
  BY <1>2 DEF pc
<1>4. Count(m, c, i) = One(c = i /\ m.at # "chdirEnd") + (One(m.ip = i /\ IpUsed(m))
                         + One(m.dp = i /\ DpUsed(m))) + pc
  BY DEF Count, HandCount, pc
<1>5. CASE m.at \in {"walk", "linkNew", "unlinkChild", "createNew"}
  <2>1. IpUsed(m) /\ (m.dp = i => DpUsed(m)) /\ m.at # "chdirEnd"
    BY <1>1, <1>5 DEF IpUsed, DpUsed, IpPlaces, DpPlaces
  <2>2. m.at \notin {"linkOld", "unlink", "unlinkLast", "create", "createOld", "made", "read",
                     "rdwr", "trunc", "openFile", "chdir", "linkBad", "createFail", "user",
                     "end", "writeOp", "writei", "chdirEnd"}
    BY <1>5
  <2>3. Count(m, c, i) = One(c = i) + One(m.ip = i) + One(m.dp = i) + pc
    BY <1>3, <1>4, <2>1 DEF One
  <2> QED BY <2>2, <2>3 DEF pc
<1>6. CASE m.at \in {"linkOld", "unlink", "unlinkLast", "create", "createOld", "made", "read",
                     "rdwr", "trunc", "openFile", "chdir"}
  <2>1. IpUsed(m) /\ ~DpUsed(m) /\ m.at # "chdirEnd"
    BY <1>6 DEF IpUsed, DpUsed, IpPlaces, DpPlaces
  <2>2. m.at \notin {"walk", "linkNew", "unlinkChild", "createNew", "linkBad", "createFail",
                     "user", "end", "writeOp", "writei", "chdirEnd"}
    BY <1>6
  <2>3. Count(m, c, i) = One(c = i) + One(m.ip = i) + pc
    BY <1>3, <1>4, <2>1 DEF One
  <2> QED BY <2>2, <2>3 DEF pc
<1>7. CASE m.at \in {"linkBad", "createFail"}
  <2>1. ~IpUsed(m) /\ DpUsed(m) /\ m.at # "chdirEnd"
    BY <1>7 DEF IpUsed, DpUsed, IpPlaces, DpPlaces
  <2>2. m.at \notin {"walk", "linkNew", "unlinkChild", "createNew", "linkOld", "unlink",
                     "unlinkLast", "create", "createOld", "made", "read", "rdwr", "trunc",
                     "openFile", "chdir", "user", "end", "writeOp", "writei", "chdirEnd"}
    BY <1>7
  <2>3. Count(m, c, i) = One(c = i) + One(m.dp = i) + pc
    BY <1>3, <1>4, <2>1 DEF One
  <2> QED BY <2>2, <2>3 DEF pc
<1>8. CASE m.at \in {"user", "end", "writeOp", "writei"}
  <2>1. ~IpUsed(m) /\ ~DpUsed(m) /\ m.at # "chdirEnd"
    BY <1>8 DEF IpUsed, DpUsed, IpPlaces, DpPlaces
  <2>2. m.at \notin {"walk", "linkNew", "unlinkChild", "createNew", "linkOld", "unlink",
                     "unlinkLast", "create", "createOld", "made", "read", "rdwr", "trunc",
                     "openFile", "chdir", "linkBad", "createFail", "chdirEnd"}
    BY <1>8
  <2>3. Count(m, c, i) = One(c = i) + pc
    BY <1>3, <1>4, <2>1 DEF One
  <2> QED BY <2>2, <2>3 DEF pc
<1>9. CASE m.at = "chdirEnd"
  <2>1. IpUsed(m) /\ ~DpUsed(m)
    BY <1>9 DEF IpUsed, DpUsed, IpPlaces, DpPlaces
  <2>2. Count(m, c, i) = One(m.ip = i) + pc
    BY <1>3, <1>4, <1>9, <2>1 DEF One
  <2> QED BY <1>9, <2>2 DEF pc
<1> QED BY <1>5, <1>6, <1>7, <1>8, <1>9

\* References are natural numbers.
LEMMA CountType ==
    ASSUME NEW m, NEW c, NEW i PROVE Count(m, c, i) \in Nat /\ PutCount(m.put, i) \in Nat
<1>1. PutCount(m.put, i) \in Nat /\ HandCount(m, i) \in Nat
  BY DEF PutCount, HandCount, One
<1>2. One(c = i /\ m.at # "chdirEnd") \in Nat
  BY DEF One
<1> QED BY <1>1, <1>2 DEF Count

\* An inode has the references of any two processes, and of the files, at least.
LEMMA RefAtLeast ==
    ASSUME RefsOK, FilesTypes, NEW p \in Users, NEW i \in Inums
    PROVE  /\ itab[i].ref \in Nat
           /\ itab[i].ref >= Count(me[p], cwd[p], i) + Cardinality(Opens(i))
           /\ \A q \in Users : q # p =>
                itab[i].ref >= Count(me[p], cwd[p], i) + Count(me[q], cwd[q], i)
<1> DEFINE U == Uses(i)
           W == {x \in U : x[1] # p}
<1>1. U \in SUBSET (Users \X Slots) /\ W \in SUBSET (Users \X Slots)
  BY DEF Uses
<1>2. itab[i].ref = Cardinality(U) + Cardinality(Opens(i)) /\ Cardinality(Opens(i)) \in Nat
      /\ Cardinality(U) \in Nat
  BY OpensFinite, UsesFinite DEF RefsOK
<1>3. \A q \in Users : \A s \in Slots : <<q, s>> \in U <=> InSlot(me[q], cwd[q], s, i)
  BY DEF Uses
<1>4. \A q \in Users : q # p =>
        \A s \in Slots : <<q, s>> \in W <=> InSlot(me[q], cwd[q], s, i)
  BY <1>3
<1> HIDE DEF U
<1>5. Cardinality(U) = Cardinality(W) + Cardinality(RowOf(U, p)) /\ Cardinality(W) \in Nat
  BY <1>1, RowSplit
<1>6. Cardinality(RowOf(U, p)) = Count(me[p], cwd[p], i)
  BY <1>1, <1>3, RowCount
<1>7. Count(me[p], cwd[p], i) \in Nat
  BY CountType
<1>8. itab[i].ref \in Nat /\ itab[i].ref >= Count(me[p], cwd[p], i) + Cardinality(Opens(i))
  BY <1>2, <1>5, <1>6, <1>7
<1>9. ASSUME NEW q \in Users, q # p
      PROVE  itab[i].ref >= Count(me[p], cwd[p], i) + Count(me[q], cwd[q], i)
  <2> HIDE DEF W
  <2> DEFINE X == {x \in W : x[1] # q}
  <2>1. Cardinality(W) = Cardinality(X) + Cardinality(RowOf(W, q)) /\ Cardinality(X) \in Nat
    BY <1>1, RowSplit
  <2>2. Cardinality(RowOf(W, q)) = Count(me[q], cwd[q], i)
    BY <1>1, <1>4, <1>9, RowCount
  <2>3. Count(me[q], cwd[q], i) \in Nat
    BY CountType
  <2> HIDE DEF X
  <2> QED BY <1>2, <1>5, <1>6, <1>7, <2>1, <2>2, <2>3
<1> QED BY <1>8, <1>9

\* A step of a process at a place, that leaves files alone.
LEMMA UserStep ==
    ASSUME Tables, boot = 0, panic = "none", NEW p \in Users, NEW m \in MeTypes,
           NEW k \in KernelTypes, Does(p, k, m), FilesKept, boot' = boot,
           disk' \in FsTypes, inTx' \in SUBSET Users, ilk' \in [Inums -> Users \union {Nobody}],
           Shape(m), Relocks(p, m), \A i \in Inums : ~Frees(p, i),
           m.at \in {"writeOp", "writei"} =>
               /\ me[p].at \in {"writeOp", "writei"} /\ m.fd = me[p].fd /\ m.ip = me[p].ip,
           \A i \in Inums :
               /\ Fits(p, m, k, i)
               /\ k.itab[i].ref = itab[i].ref + Count(m, cwd[p], i) - Count(me[p], cwd[p], i)
               /\ k.itab[i].ref = 0 => ~k.itab[i].valid,
           k.panic = "none" /\ Locked(m) # 0 => k.itab[Locked(m)].valid
    PROVE  Tables'
<1>1. /\ fs' = k.fs /\ itab' = k.itab /\ panic' = k.panic /\ me' = [me EXCEPT ![p] = m]
      /\ cwd' = cwd /\ ofile' = ofile /\ ftable' = ftable
  BY DEF Does, FilesKept
<1>2. FilesTypes /\ LocksOK /\ CopiesOK /\ FilesOK /\ RefsOK
      /\ \A q \in Users : Shape(me[q]) /\ WritesFile(q)
  BY DEF Tables
<1>3. me'[p] = m /\ \A q \in Users : q # p => me'[q] = me[q]
  BY <1>1, <1>2, FilesTypesParts
<1>4. FilesTypes'
  <2>1. me' \in [Users -> MeTypes]
    BY <1>1, <1>2, FilesTypesParts
  <2>2. fs' \in FsTypes /\ panic' \in Messages /\ itab' \in [Inums -> EntryTypes]
    BY <1>1, KernelParts
  <2> QED BY <1>1, <1>2, <2>1, <2>2 DEF FilesTypes
<1>5. LocksOK'
  BY <1>1, <1>2, LocksStep
<1>6. CopiesOK'
  BY <1>1, <1>2, CopiesStep
<1>7. FilesOK'
  BY <1>1, <1>2 DEF FilesOK, FdsOf
<1>8. RefsOK'
  <2>1. ASSUME NEW i \in Inums
        PROVE  itab'[i].ref = Cardinality(Uses(i))' + Cardinality(Opens(i))'
    <3>1. Cardinality(Opens(i))' = Cardinality(Opens(i))
      BY <1>1 DEF Opens
    <3>2. DOMAIN me = Users /\ DOMAIN cwd = Users /\ cwd' = [cwd EXCEPT ![p] = cwd[p]]
      BY <1>1, <1>2, FilesTypesParts
    <3>3. /\ Cardinality(Uses(i))' - Cardinality(Uses(i))
                = Count(m, cwd[p], i) - Count(me[p], cwd[p], i)
          /\ Cardinality(Uses(i)) \in Nat /\ Cardinality(Uses(i))' \in Nat
      BY <1>1, <3>2, UsesStep
    <3>4. itab[i].ref = Cardinality(Uses(i)) + Cardinality(Opens(i))
          /\ Cardinality(Opens(i)) \in Nat
      BY <1>2, OpensFinite DEF RefsOK
    <3>5. k.itab[i].ref = itab[i].ref + Count(m, cwd[p], i) - Count(me[p], cwd[p], i)
      OBVIOUS
    <3>6. Count(m, cwd[p], i) \in Nat /\ Count(me[p], cwd[p], i) \in Nat
      BY CountType
    <3> DEFINE u == Cardinality(Uses(i))
               v == Cardinality(Uses(i))'
               o == Cardinality(Opens(i))
               a == Count(m, cwd[p], i)
               b == Count(me[p], cwd[p], i)
    <3>7. /\ v - u = a - b /\ u \in Nat /\ v \in Nat /\ o \in Nat /\ a \in Nat /\ b \in Nat
          /\ k.itab[i].ref = (u + o) + a - b
      BY <3>3, <3>4, <3>5, <3>6
    <3> HIDE DEF u, v, o, a, b
    <3>8. k.itab[i].ref = v + o
      BY <3>7
    <3> QED BY <1>1, <3>1, <3>8 DEF v, o
  <2> QED BY <2>1 DEF RefsOK
<1>9. ASSUME NEW q \in Users PROVE Shape(me'[q]) /\ WritesFile(q)'
  <2>1. CASE q = p
    <3>1. Shape(me'[q])
      BY <1>3, <2>1
    <3>2. WritesFile(q)'
      BY <1>1, <1>2, <1>3, <2>1 DEF WritesFile, FileOf
    <3> QED BY <3>1, <3>2
  <2>2. CASE q # p
    BY <1>1, <1>2, <1>3, <2>2 DEF WritesFile, FileOf
  <2> QED BY <2>1, <2>2
<1>10. BootOK'
  BY DEF BootOK
<1> QED BY <1>4, <1>5, <1>6, <1>7, <1>8, <1>9, <1>10 DEF Tables
-----------------------------------------------------------------------------
(* What every step of a process at a place starts from                     *)

\* A process at a place has no inode to put and frees none.
LEMMA AtFacts ==
    ASSUME Tables, NEW p \in Users, NEW a, At(p, a)
    PROVE  /\ panic = "none" /\ boot = 0 /\ me[p].at = a /\ me[p].put = <<>>
           /\ me[p] \in MeTypes /\ Shape(me[p]) /\ cwd[p] \in Inums
           /\ FilesTypes /\ LocksOK /\ CopiesOK /\ RefsOK /\ FilesOK
           /\ \A i \in Inums : ~Frees(p, i) /\ PutCount(me[p].put, i) = 0
           /\ \A i \in Inums : itab[i].ref \in Nat /\ (itab[i].ref = 0 => ~itab[i].valid)
           /\ K \in KernelTypes /\ K.fs = fs /\ K.itab = itab /\ K.panic = panic
<1>1. /\ panic = "none" /\ boot = 0 /\ me[p].at = a /\ me[p].put = <<>>
  BY DEF At
<1>2. FilesTypes /\ LocksOK /\ CopiesOK /\ RefsOK /\ FilesOK /\ Shape(me[p])
  BY <1>1 DEF Tables
<1>3. me[p] \in MeTypes /\ cwd[p] \in Inums
      /\ K \in KernelTypes /\ K.fs = fs /\ K.itab = itab /\ K.panic = panic
  BY <1>2, FilesTypesParts
<1>4. \A i \in Inums : ~Frees(p, i) /\ PutCount(me[p].put, i) = 0
  BY <1>1, PutNone DEF Frees
<1>5. \A i \in Inums : itab[i].ref \in Nat /\ (itab[i].ref = 0 => ~itab[i].valid)
  BY <1>2, RefAtLeast DEF CopiesOK
<1> QED BY <1>1, <1>2, <1>3, <1>4, <1>5

\* The locks stay as they are.
LEMMA RelocksKept ==
    ASSUME FilesTypes, LocksOK, NEW p \in Users, NEW m \in MeTypes, UNCHANGED ilk,
           Locked(m) = Locked(me[p])
    PROVE  Relocks(p, m) /\ ilk' \in [Inums -> Users \union {Nobody}]
<1>1. Locked(me[p]) # 0 => ilk[Locked(me[p])] = p
  BY DEF LocksOK
<1>2. 0 \notin Inums
  BY Constants
<1> QED BY <1>1, <1>2, FilesTypesParts DEF Relocks

\* p acquires a lock that is free.
LEMMA RelocksHold ==
    ASSUME FilesTypes, LocksOK, NEW p \in Users, NEW m \in MeTypes, NEW i \in Inums,
           ilk' = Holds(p, i), FreeLock(i), Locked(m) = i, Locked(me[p]) = 0
    PROVE  Relocks(p, m) /\ ilk' \in [Inums -> Users \union {Nobody}]
<1>2. 0 \notin Inums
  BY Constants
<1> QED BY <1>2, FilesTypesParts DEF Relocks, Holds, FreeLock

\* p releases its lock, and may hold another one.
LEMMA RelocksRelease ==
    ASSUME FilesTypes, LocksOK, NEW p \in Users, NEW m \in MeTypes, NEW i \in Inums,
           ilk' = Release({i}), Locked(m) = 0, Locked(me[p]) = i
    PROVE  Relocks(p, m) /\ ilk' \in [Inums -> Users \union {Nobody}]
<1>2. 0 \notin Inums
  BY Constants
<1> QED BY <1>2, FilesTypesParts DEF Relocks, Release

\* A process that gives one lock up and takes another.
LEMMA RelocksMove ==
    ASSUME FilesTypes, LocksOK, NEW p \in Users, NEW m \in MeTypes,
           NEW d \in Inums, NEW i \in Inums,
           ilk' = [Release({d}) EXCEPT ![i] = p], FreeLock(i), Locked(m) = i, Locked(me[p]) = d
    PROVE  Relocks(p, m) /\ ilk' \in [Inums -> Users \union {Nobody}]
<1>2. 0 \notin Inums
  BY Constants
<1> QED BY <1>2, FilesTypesParts DEF Relocks, Release, FreeLock

\* Places where a process has no lock.
LEMMA NoLock ==
    ASSUME NEW m, m.at \notin {"unlinkChild", "createNew", "createFail", "unlinkLast",
                               "openFile", "made", "writei"}
    PROVE  Locked(m) = 0
BY DEF Locked

\* The state of the kernel after ilock() of inode i.
Fetched(k, i) ==
    /\ k \in KernelTypes /\ k.fs = fs
    /\ \A j \in Inums : j # i => k.itab[j] = itab[j]
    /\ k.itab[i].ref = itab[i].ref /\ itab[i].ref > 0
    /\ k.itab[i].valid => k.itab[i].copy = fs.ino[i] /\ fs.ino[i].type # "none"
    /\ k.panic = "none" => k.itab[i].valid
    /\ \A j \in Inums : k.itab[j].ref \in Nat /\ (k.itab[j].ref = 0 => ~k.itab[j].valid)

\* ilock() of an inode that is in use: the copy is valid and current afterwards.
LEMMA Fetch ==
    ASSUME Tables, boot = 0, NEW p \in Users, NEW i \in Inums, FreeLock(i),
           Count(me[p], cwd[p], i) >= 1 \/ Cardinality(Opens(i)) >= 1
    PROVE  Fetched(Ilock(K, i), i)
<1> DEFINE k == Ilock(K, i)
<1>1. FilesTypes /\ CopiesOK /\ RefsOK /\ LocksOK
  BY DEF Tables
<1>2. K \in KernelTypes /\ K.fs = fs /\ K.itab = itab /\ K.panic = panic
  BY <1>1, FilesTypesParts
<1>3. itab[i].ref > 0
  <2>1. Count(me[p], cwd[p], i) \in Nat /\ Cardinality(Opens(i)) \in Nat
    BY CountType, OpensFinite
  <2>2. itab[i].ref \in Nat /\ itab[i].ref >= Count(me[p], cwd[p], i) + Cardinality(Opens(i))
    BY <1>1, RefAtLeast
  <2> QED BY <2>1, <2>2
<1>4. ~BeingFreed(i) /\ ~BeingWritten(i)
  BY DEF BeingFreed, BeingWritten, FreeLock
<1>5. itab[i].valid => itab[i].copy = fs.ino[i] /\ fs.ino[i].type # "none"
  BY <1>1, <1>4 DEF CopiesOK, CopyOK
<1>6. /\ k \in KernelTypes /\ k.fs = K.fs
      /\ k.itab[i].ref = K.itab[i].ref
      /\ \A j \in Inums : j # i => k.itab[j] = K.itab[j]
      /\ K.itab[i].valid => k = K
      /\ ~K.itab[i].valid /\ K.fs.ino[i].type = "none"
           => k.panic = "ilock" /\ k.itab = K.itab
      /\ ~K.itab[i].valid /\ K.fs.ino[i].type # "none"
           => /\ k.panic = K.panic /\ k.itab[i].valid
              /\ k.itab[i].copy = K.fs.ino[i]
  BY <1>2, IlockFacts
<1> HIDE DEF k
<1>7. \A j \in Inums : itab[j].ref \in Nat /\ (itab[j].ref = 0 => ~itab[j].valid)
  BY <1>1, RefAtLeast DEF CopiesOK
<1>8. k.itab[i].valid => k.itab[i].copy = fs.ino[i] /\ fs.ino[i].type # "none"
  BY <1>2, <1>5, <1>6
<1>9. k.panic = "none" => k.itab[i].valid
  BY <1>2, <1>6
<1>10. \A j \in Inums : k.itab[j].ref \in Nat /\ (k.itab[j].ref = 0 => ~k.itab[j].valid)
  BY <1>2, <1>3, <1>6, <1>7
<1> QED BY <1>2, <1>3, <1>6, <1>8, <1>9, <1>10 DEF Fetched, k

\* What it fetched fits.
LEMMA FetchedFits ==
    ASSUME NEW p \in Users, NEW i \in Inums, NEW k, Fetched(k, i), FreeLock(i),
           me[p].at # "writei", NEW m, NEW j \in Inums
    PROVE  Fits(p, m, k, j)
<1>1. CASE j # i
  BY <1>1 DEF Fits, Fetched
<1>2. CASE j = i
  BY <1>2 DEF Fits, Fetched, FreeLock, Current
<1> QED BY <1>1, <1>2

\* iget() of an inode that may be in the table or not.
LEMMA IgetKeeps ==
    ASSUME NEW k \in KernelTypes, NEW x \in Inums,
           \A j \in Inums : k.itab[j].ref \in Nat /\ (k.itab[j].ref = 0 => ~k.itab[j].valid)
    PROVE  LET r == Iget(k, x)
           IN  /\ r \in KernelTypes /\ r.fs = k.fs /\ r.panic = k.panic
               /\ \A j \in Inums :
                    /\ r.itab[j].valid = k.itab[j].valid
                    /\ k.itab[j].valid => r.itab[j].copy = k.itab[j].copy
                    /\ r.itab[j].ref = k.itab[j].ref + One(x = j)
                    /\ r.itab[j].ref \in Nat /\ (r.itab[j].ref = 0 => ~r.itab[j].valid)
<1> DEFINE r == Iget(k, x)
<1>1. /\ r \in KernelTypes /\ r.fs = k.fs /\ r.panic = k.panic
      /\ r.itab[x].ref = k.itab[x].ref + 1
      /\ k.itab[x].ref > 0 => /\ r.itab[x].valid = k.itab[x].valid
                              /\ r.itab[x].copy = k.itab[x].copy
      /\ k.itab[x].ref = 0 => ~r.itab[x].valid
      /\ \A j \in Inums : j # x => r.itab[j] = k.itab[j]
  BY IgetFacts
<1>2. \A j \in Inums : r.itab[j].valid \in BOOLEAN /\ k.itab[j].valid \in BOOLEAN
  BY <1>1, KernelParts
<1> HIDE DEF r
<1>3. ASSUME NEW j \in Inums
      PROVE  /\ r.itab[j].valid = k.itab[j].valid
             /\ k.itab[j].valid => r.itab[j].copy = k.itab[j].copy
             /\ r.itab[j].ref = k.itab[j].ref + One(x = j)
             /\ r.itab[j].ref \in Nat /\ (r.itab[j].ref = 0 => ~r.itab[j].valid)
  <2>1. CASE j # x
    <3>1. One(x = j) = 0
      BY <2>1 DEF One
    <3> QED BY <1>1, <2>1, <3>1
  <2>2. CASE j = x
    <3>1. One(x = j) = 1
      BY <2>2 DEF One
    <3>2. CASE k.itab[x].ref > 0
      BY <1>1, <2>2, <3>1, <3>2
    <3>3. CASE k.itab[x].ref = 0
      <4>1. ~r.itab[x].valid /\ ~k.itab[x].valid
        BY <1>1, <3>3
      <4>2. r.itab[x].valid = k.itab[x].valid
        BY <1>2, <4>1, Zenon
      <4> QED BY <1>1, <2>2, <3>1, <3>3, <4>1, <4>2
    <3> QED BY <3>2, <3>3
  <2> QED BY <2>1, <2>2
<1> QED BY <1>1, <1>3 DEF r
-----------------------------------------------------------------------------
(* What a process is doing after a step                                    *)

\* A process that has no call to do.
LEMMA IdleFacts ==
    /\ Idle \in MeTypes /\ Idle.at = "user" /\ Idle.call = NoCall /\ Idle.path = <<>>
    /\ Idle.ip = 0 /\ Idle.dp = 0 /\ Idle.put = <<>> /\ Idle.fd = 0 /\ Idle.left = 0
    /\ Idle.now = 0
<1>1. "user" \in Places /\ <<>> \in Seq(Entries) /\ <<>> \in Seq(Inums) /\ NoCall \in CallTypes
  BY DEF Places, CallTypes
<1>2. 0 \in 0 .. NOFile
  BY FilesAssumption
<1> QED BY <1>1, <1>2 DEF Idle, MeTypes

\* A process after iput() of the inodes in s.
LEMMA ThenFacts ==
    ASSUME NEW p \in Users, me[p] \in MeTypes, NEW a \in Places, NEW s \in Seq(Inums)
    PROVE  LET m == Then(p, a, s)
           IN  /\ m \in MeTypes /\ m.at = a /\ m.put = s
               /\ a = "end" => /\ m.ip = 0 /\ m.dp = 0 /\ m.call = NoCall
               /\ a # "end" => /\ m.ip = me[p].ip /\ m.dp = me[p].dp /\ m.call = me[p].call
                               /\ m.fd = me[p].fd /\ m.path = <<>>
<1> DEFINE m == Then(p, a, s)
           o == Idle
           n == me[p]
<1>1. CASE a = "end"
  <2>1. m = [o EXCEPT !.at = a, !.put = s]
    BY <1>1 DEF Then
  <2>2. o \in MeTypes /\ o.ip = 0 /\ o.dp = 0 /\ o.call = NoCall
    BY IdleFacts
  <2> HIDE DEF m, o
  <2>3. /\ m \in MeTypes /\ m.at = a /\ m.put = s
        /\ m.ip = o.ip /\ m.dp = o.dp /\ m.call = o.call
    BY <2>1, <2>2 DEF MeTypes
  <2> QED BY <1>1, <2>2, <2>3 DEF m
<1>2. CASE a # "end"
  <2>1. m = [n EXCEPT !.at = a, !.put = s, !.path = <<>>]
    BY <1>2 DEF Then
  <2>2. <<>> \in Seq(Entries)
    OBVIOUS
  <2> HIDE DEF m
  <2>3. /\ m \in MeTypes /\ m.at = a /\ m.put = s /\ m.path = <<>>
        /\ m.ip = n.ip /\ m.dp = n.dp /\ m.call = n.call /\ m.fd = n.fd
    BY <2>1, <2>2 DEF MeTypes
  <2> QED BY <1>2, <2>3 DEF m
<1> QED BY <1>1, <1>2

\* The end of a call: what is left is to put the inodes in s.
LEMMA EndShape ==
    ASSUME NEW p \in Users, me[p] \in MeTypes, NEW s \in Seq(Inums), Len(s) <= 2
    PROVE  LET m == Then(p, "end", s)
           IN  /\ m \in MeTypes /\ m.at = "end" /\ m.put = s /\ Shape(m) /\ Locked(m) = 0
               /\ \A c : \A i \in Inums : Count(m, c, i) = One(c = i) + PutCount(s, i)
<1> DEFINE m == Then(p, "end", s)
<1>1. "end" \in Places
  BY DEF Places
<1>2. m \in MeTypes /\ m.at = "end" /\ m.put = s /\ m.ip = 0 /\ m.dp = 0
  BY <1>1, ThenFacts
<1> HIDE DEF m
<1>3. Shape(m) /\ Locked(m) = 0
  BY <1>2 DEF Shape, IpUsed, IpPlaces, DpPlaces, Locked
<1>4. \A c : \A i \in Inums : Count(m, c, i) = One(c = i) + PutCount(m.put, i)
  BY <1>2, CountAt
<1> QED BY <1>2, <1>3, <1>4 DEF m

\* A process that goes on elsewhere, with the same inodes in hand.
Moved(m, a) == [m EXCEPT !.at = a]

\* A process that goes on at another place keeps all else.
LEMMA MovedFacts ==
    ASSUME NEW m \in MeTypes, NEW a \in Places
    PROVE  LET n == Moved(m, a)
           IN  /\ n \in MeTypes /\ n.at = a /\ n.call = m.call /\ n.path = m.path /\ n.ip = m.ip
               /\ n.dp = m.dp /\ n.put = m.put /\ n.fd = m.fd
BY DEF Moved, MeTypes

\* A process that goes on with other inodes in hand.
Taking(m, a, d, i) == [m EXCEPT !.at = a, !.dp = d, !.ip = i]

\* It keeps its call, its path and what it is to put.
LEMMA TakingFacts ==
    ASSUME NEW m \in MeTypes, NEW a \in Places, NEW d \in Inums, NEW i \in Inums
    PROVE  LET n == Taking(m, a, d, i)
           IN  /\ n \in MeTypes /\ n.at = a /\ n.call = m.call /\ n.path = m.path /\ n.ip = i
               /\ n.dp = d /\ n.put = m.put /\ n.fd = m.fd
<1> DEFINE n == Taking(m, a, d, i)
<1>1. n = [m EXCEPT !.at = a, !.dp = d, !.ip = i]
  BY DEF Taking
<1>2. d \in Inums \union {0} /\ i \in Inums \union {0}
  OBVIOUS
<1> HIDE DEF n
<1>3. /\ n \in MeTypes /\ n.at = a /\ n.call = m.call /\ n.path = m.path /\ n.ip = i
      /\ n.dp = d /\ n.put = m.put /\ n.fd = m.fd
  BY <1>1, <1>2 DEF MeTypes
<1> QED BY <1>3 DEF n

\* The kernel's state as it is.
LEMMA Untouched ==
    ASSUME Tables, NEW p \in Users, NEW a, At(p, a), a # "writei", NEW m
    PROVE  \A i \in Inums : /\ Fits(p, m, K, i) /\ K.itab[i].ref = itab[i].ref
                            /\ K.itab[i].ref \in Nat /\ (K.itab[i].ref = 0 => ~K.itab[i].valid)
BY AtFacts DEF Fits
-----------------------------------------------------------------------------
(* namex()                                                                 *)

\* What namex() looks for.
LEMMA WalkFacts ==
    ASSUME Tables, NEW p \in Users, At(p, "walk")
    PROVE  /\ me[p].ip \in Inums /\ me[p].dp \in Inums \union {0} /\ me[p].put = <<>>
           /\ me[p].call.op \in PathOps /\ (me[p].dp # 0 => me[p].call.op = "link")
           /\ Locked(me[p]) = 0
           /\ \A i \in Inums :
                Count(me[p], cwd[p], i) = One(cwd[p] = i) + One(me[p].ip = i) + One(me[p].dp = i)
<1>1. me[p].at = "walk" /\ me[p] \in MeTypes /\ Shape(me[p]) /\ me[p].put = <<>>
      /\ \A i \in Inums : PutCount(me[p].put, i) = 0
  BY AtFacts
<1>2. me[p].ip \in Inums /\ me[p].dp \in Inums \union {0}
  <2>1. IpUsed(me[p])
    BY <1>1 DEF IpUsed, IpPlaces
  <2> QED BY <1>1, <2>1, MeParts DEF Shape
<1>3. me[p].call.op \in PathOps /\ (me[p].dp # 0 => me[p].call.op = "link")
  BY <1>1 DEF Shape
<1>4. ASSUME NEW i \in Inums
      PROVE  Count(me[p], cwd[p], i) = One(cwd[p] = i) + One(me[p].ip = i) + One(me[p].dp = i)
  <2>1. Count(me[p], cwd[p], i) = One(cwd[p] = i) + One(me[p].ip = i) + One(me[p].dp = i) + 0
    BY <1>1, CountAt
  <2>2. One(cwd[p] = i) \in Int /\ One(me[p].ip = i) \in Int /\ One(me[p].dp = i) \in Int
    BY DEF One
  <2> QED BY <2>1, <2>2
<1>5. Locked(me[p]) = 0
  BY <1>1, NoLock
<1> QED BY <1>1, <1>2, <1>3, <1>4, <1>5

\* namex() finds nothing: the inode it has is put.
LEMMA MissingFacts ==
    ASSUME Tables, NEW p \in Users, At(p, "walk")
    PROVE  LET m == Then(p, Missing(me[p]), <<me[p].ip>>)
           IN  /\ m \in MeTypes /\ Shape(m) /\ Locked(m) = 0 /\ m.at \in {"end", "linkBad"}
               /\ \A i \in Inums : Count(m, cwd[p], i) = Count(me[p], cwd[p], i)
<1> DEFINE m == Then(p, Missing(me[p]), <<me[p].ip>>)
           s == <<me[p].ip>>
<1>1. /\ me[p].ip \in Inums /\ me[p].dp \in Inums \union {0} /\ me[p].put = <<>>
      /\ me[p].call.op \in PathOps /\ (me[p].dp # 0 => me[p].call.op = "link")
      /\ \A i \in Inums :
            Count(me[p], cwd[p], i) = One(cwd[p] = i) + One(me[p].ip = i) + One(me[p].dp = i)
  BY WalkFacts
<1>2. me[p] \in MeTypes
  BY AtFacts
<1>3. s \in Seq(Inums) /\ Len(s) <= 2 /\ \A i \in Inums : PutCount(s, i) = One(me[p].ip = i)
  BY <1>1, PutOne
<1> HIDE DEF s
<1>4. CASE Missing(me[p]) = "linkBad"
  <2>1. "linkBad" \in Places /\ me[p].call.op = "link" /\ me[p].dp # 0
    BY <1>4 DEF Places, Missing
  <2>2. m = Then(p, "linkBad", s)
    BY <1>4 DEF s
  <2>3. /\ m \in MeTypes /\ m.at = "linkBad" /\ m.put = s
        /\ m.ip = me[p].ip /\ m.dp = me[p].dp /\ m.call = me[p].call
    BY <1>2, <1>3, <2>1, <2>2, ThenFacts
  <2> HIDE DEF m
  <2>4. Shape(m) /\ Locked(m) = 0
    <3>1. m.at = "linkBad" /\ Len(m.put) <= 2 /\ m.dp # 0 /\ m.dp \in Inums
          /\ m.call.op = "link"
      BY <1>1, <1>3, <2>1, <2>3
    <3> QED BY <3>1 DEF Shape, IpUsed, IpPlaces, DpPlaces, Locked
  <2>5. ASSUME NEW i \in Inums PROVE Count(m, cwd[p], i) = Count(me[p], cwd[p], i)
    <3>1. Count(m, cwd[p], i) = One(cwd[p] = i) + One(me[p].dp = i) + One(me[p].ip = i)
      BY <1>3, <2>3, CountAt
    <3>2. One(cwd[p] = i) \in Int /\ One(me[p].ip = i) \in Int /\ One(me[p].dp = i) \in Int
      BY DEF One
    <3> QED BY <1>1, <3>1, <3>2
  <2> QED BY <2>3, <2>4, <2>5 DEF m
<1>5. CASE Missing(me[p]) = "end"
  <2>1. me[p].dp = 0
    BY <1>1, <1>5 DEF Missing
  <2>2. m = Then(p, "end", s)
    BY <1>5 DEF s
  <2>3. /\ m \in MeTypes /\ m.at = "end" /\ Shape(m) /\ Locked(m) = 0
        /\ \A c : \A i \in Inums : Count(m, c, i) = One(c = i) + PutCount(s, i)
    <3> QED BY <1>2, <1>3, <2>2, EndShape
  <2> HIDE DEF m
  <2>5. ASSUME NEW i \in Inums PROVE Count(m, cwd[p], i) = Count(me[p], cwd[p], i)
    <3>1. Count(m, cwd[p], i) = One(cwd[p] = i) + One(me[p].ip = i)
      BY <1>3, <2>3
    <3>2. One(cwd[p] = i) \in Int /\ One(me[p].ip = i) \in Int /\ One(me[p].dp = i) = 0
      BY <2>1, Constants DEF One
    <3> QED BY <1>1, <3>1, <3>2
  <2> QED BY <2>3, <2>5 DEF m
<1> QED BY <1>4, <1>5 DEF Missing

\* namex() finds what it looks for, a parent before the last name.
LEMMA FoundFacts ==
    ASSUME Tables, NEW p \in Users, At(p, "walk"), WantsParent(me[p]) <=> me[p].path # <<>>
    PROVE  LET m == Moved(me[p], Found(me[p]))
           IN  /\ m \in MeTypes /\ Shape(m) /\ Locked(m) = 0
               /\ m.at \notin {"writeOp", "writei"}
               /\ \A i \in Inums : Count(m, cwd[p], i) = Count(me[p], cwd[p], i)
<1> DEFINE a == Found(me[p])
           m == Moved(me[p], a)
<1>1. /\ me[p].ip \in Inums /\ me[p].dp \in Inums \union {0} /\ me[p].put = <<>>
      /\ me[p].call.op \in PathOps /\ (me[p].dp # 0 => me[p].call.op = "link")
      /\ \A i \in Inums :
            Count(me[p], cwd[p], i) = One(cwd[p] = i) + One(me[p].ip = i) + One(me[p].dp = i)
  BY WalkFacts
<1>2. me[p] \in MeTypes
  BY AtFacts
<1>3. \/ a = "linkOld" /\ me[p].call.op = "link" /\ me[p].dp = 0
      \/ a = "linkNew" /\ me[p].call.op = "link" /\ me[p].dp # 0 /\ me[p].path # <<>>
      \/ a = "create" /\ me[p].call.op \in {"create", "mkdir", "mknod", "mkbad"}
         /\ me[p].path # <<>> /\ me[p].dp = 0
      \/ a = "unlink" /\ me[p].path # <<>> /\ me[p].dp = 0
      \/ a \in {"read", "rdwr", "trunc", "chdir"} /\ me[p].dp = 0
  BY <1>1 DEF Found, WantsParent, PathOps
<1> HIDE DEF a
<1>4. a \in Places
  BY <1>3 DEF Places
<1>5. /\ m \in MeTypes /\ m.at = a /\ m.call = me[p].call /\ m.path = me[p].path
      /\ m.ip = me[p].ip /\ m.dp = me[p].dp /\ m.put = me[p].put
  BY <1>2, <1>4, MovedFacts
<1> HIDE DEF m
<1>6. m.ip # 0 /\ Len(m.put) = 0
  BY <1>1, <1>5, Constants
<1>7. Shape(m) /\ Locked(m) = 0
  BY <1>1, <1>3, <1>5, <1>6 DEF Shape, IpUsed, IpPlaces, DpPlaces, Locked
<1>8. ASSUME NEW i \in Inums PROVE Count(m, cwd[p], i) = Count(me[p], cwd[p], i)
  <2>1. PutCount(m.put, i) = 0
    BY <1>1, <1>5, PutNone
  <2>2. One(cwd[p] = i) \in Int /\ One(me[p].ip = i) \in Int /\ One(me[p].dp = i) \in Int
        /\ (me[p].dp = 0 => One(me[p].dp = i) = 0)
    BY Constants DEF One
  <2>3. CASE a = "linkNew"
    <3>1. Count(m, cwd[p], i) = One(cwd[p] = i) + One(me[p].ip = i) + One(me[p].dp = i) + 0
      BY <1>5, <2>1, <2>3, CountAt
    <3> QED BY <1>1, <2>2, <3>1
  <2>4. CASE a # "linkNew"
    <3>1. a \in {"linkOld", "unlink", "create", "read", "rdwr", "trunc", "chdir"}
          /\ me[p].dp = 0
      BY <1>3, <2>4
    <3>2. Count(m, cwd[p], i) = One(cwd[p] = i) + One(me[p].ip = i) + 0
      BY <1>5, <2>1, <3>1, CountAt
    <3> QED BY <1>1, <2>2, <3>1, <3>2
  <2> QED BY <2>3, <2>4
<1>9. m.at \notin {"writeOp", "writei"}
  BY <1>3, <1>5
<1> QED BY <1>5, <1>7, <1>8, <1>9 DEF m, a
-----------------------------------------------------------------------------
(* Steps that leave the locks alone                                        *)

\* A process without a lock goes to a place where it has none.
LEMMA StayStep ==
    ASSUME Tables, NEW p \in Users, NEW a, At(p, a), a \notin {"writeOp", "writei"},
           Locked(me[p]) = 0,
           NEW m \in MeTypes, Shape(m), Locked(m) = 0, m.at \notin {"writeOp", "writei"},
           NEW k \in KernelTypes, Does(p, k, m), FilesKept, UNCHANGED <<ilk, boot>>,
           disk' \in FsTypes, inTx' \in SUBSET Users,
           \A i \in Inums :
               /\ Fits(p, m, k, i)
               /\ k.itab[i].ref = itab[i].ref + Count(m, cwd[p], i) - Count(me[p], cwd[p], i)
               /\ k.itab[i].ref = 0 => ~k.itab[i].valid
    PROVE  Tables'
<1>1. /\ panic = "none" /\ boot = 0 /\ me[p].at = a /\ FilesTypes /\ LocksOK
      /\ \A i \in Inums : ~Frees(p, i)
  BY AtFacts
<1>2. Relocks(p, m) /\ ilk' \in [Inums -> Users \union {Nobody}]
  BY <1>1, RelocksKept
<1>3. boot' = boot
  OBVIOUS
<1> QED BY <1>1, <1>2, <1>3, UserStep

\* What is in memory after ilock() is right for any place.
LEMMA FetchedKeeps ==
    ASSUME NEW p \in Users, NEW i \in Inums, NEW k, Fetched(k, i), FreeLock(i),
           me[p].at # "writei", NEW m
    PROVE  \A j \in Inums : /\ Fits(p, m, k, j) /\ k.itab[j].ref = itab[j].ref
                            /\ k.itab[j].ref \in Nat /\ (k.itab[j].ref = 0 => ~k.itab[j].valid)
<1>1. \A j \in Inums : Fits(p, m, k, j)
  BY FetchedFits
<1>2. \A j \in Inums : /\ k.itab[j].ref = itab[j].ref
                       /\ k.itab[j].ref \in Nat /\ (k.itab[j].ref = 0 => ~k.itab[j].valid)
  BY DEF Fetched
<1> QED BY <1>1, <1>2

\* iget() changes no copy of an inode.
LEMMA FitsIget ==
    ASSUME NEW p, NEW m, NEW k, NEW r, NEW j, Fits(p, m, k, j), r.fs = k.fs,
           r.itab[j].valid = k.itab[j].valid,
           k.itab[j].valid => r.itab[j].copy = k.itab[j].copy
    PROVE  Fits(p, m, r, j)
BY DEF Fits, Current

\* iget() on top of a state that is right.
LEMMA IgetFits ==
    ASSUME NEW p, NEW m, NEW k \in KernelTypes, NEW x \in Inums,
           \A j \in Inums : /\ Fits(p, m, k, j) /\ k.itab[j].ref = itab[j].ref
                            /\ k.itab[j].ref \in Nat /\ (k.itab[j].ref = 0 => ~k.itab[j].valid)
    PROVE  LET r == Iget(k, x)
           IN  /\ r \in KernelTypes /\ r.fs = k.fs /\ r.panic = k.panic
               /\ \A j \in Inums : /\ Fits(p, m, r, j)
                                   /\ r.itab[j].valid = k.itab[j].valid
                                   /\ r.itab[j].ref = itab[j].ref + One(x = j)
                                   /\ r.itab[j].ref = 0 => ~r.itab[j].valid
<1> DEFINE r == Iget(k, x)
<1>1. /\ r \in KernelTypes /\ r.fs = k.fs /\ r.panic = k.panic
      /\ \A j \in Inums :
           /\ r.itab[j].valid = k.itab[j].valid
           /\ k.itab[j].valid => r.itab[j].copy = k.itab[j].copy
           /\ r.itab[j].ref = k.itab[j].ref + One(x = j)
           /\ r.itab[j].ref \in Nat /\ (r.itab[j].ref = 0 => ~r.itab[j].valid)
  BY IgetKeeps
<1> HIDE DEF r
<1>2. \A j \in Inums : Fits(p, m, r, j)
  BY <1>1, FitsIget
<1>3. \A j \in Inums : r.itab[j].ref = itab[j].ref + One(x = j)
  BY <1>1
<1> QED BY <1>1, <1>2, <1>3 DEF r
-----------------------------------------------------------------------------
(* Begin, EndOp, WalkEnd, Walk                                             *)

\* Begin keeps the tables: the current directory gets the reference that namex() holds.
LEMMA BeginStep == ASSUME Tables, NEW p \in Users, NEW c \in Calls, Begin(p, c) PROVE Tables'
<1> DEFINE o == Idle
           m == [o EXCEPT !.at = "walk", !.call = c, !.path = c.path, !.ip = cwd[p]]
           k == Iget(K, cwd[p])
<1>1. /\ At(p, "user") /\ Does(p, k, m) /\ FilesKept /\ UNCHANGED <<ilk, boot>>
      /\ disk' = disk /\ inTx' = inTx \union {p}
  BY DEF Begin
<1>2. /\ me[p].at = "user" /\ me[p].put = <<>> /\ me[p] \in MeTypes /\ Shape(me[p])
      /\ FilesTypes /\ cwd[p] \in Inums /\ K \in KernelTypes /\ K.panic = panic
  BY <1>1, AtFacts
<1>3. o \in MeTypes /\ o.dp = 0 /\ o.put = <<>>
  BY IdleFacts
<1>4. c \in CallTypes /\ c.path \in Seq(Entries) /\ c.op \in PathOps /\ "walk" \in Places
  BY FilesAssumption DEF CallTypes, Places
<1> HIDE DEF o
<1>5. /\ m \in MeTypes /\ m.at = "walk" /\ m.call = c /\ m.path = c.path /\ m.ip = cwd[p]
      /\ m.dp = 0 /\ m.put = <<>>
  BY <1>2, <1>3, <1>4 DEF MeTypes
<1> HIDE DEF m
<1>6. Shape(m) /\ Locked(m) = 0 /\ Locked(me[p]) = 0
  <2>1. Len(m.put) = 0 /\ m.ip # 0
    BY <1>2, <1>5, Constants
  <2> QED BY <1>2, <1>4, <1>5, <2>1 DEF Shape, IpUsed, IpPlaces, DpPlaces, Locked
<1>7. \A i \in Inums : /\ Fits(p, m, K, i) /\ K.itab[i].ref = itab[i].ref
                       /\ K.itab[i].ref \in Nat /\ (K.itab[i].ref = 0 => ~K.itab[i].valid)
  BY <1>1, Untouched
<1>8. /\ k \in KernelTypes
      /\ \A j \in Inums : /\ Fits(p, m, k, j)
                          /\ k.itab[j].ref = itab[j].ref + One(cwd[p] = j)
                          /\ k.itab[j].ref = 0 => ~k.itab[j].valid
  <2>1. cwd[p] \in Inums /\ K \in KernelTypes
    BY <1>2
  <2> QED BY <1>7, <2>1, IgetFits
<1> HIDE DEF k
<1>9. ASSUME NEW j \in Inums
      PROVE  k.itab[j].ref = itab[j].ref + Count(m, cwd[p], j) - Count(me[p], cwd[p], j)
  <2>1. PutCount(m.put, j) = 0 /\ PutCount(me[p].put, j) = 0
    BY <1>2, <1>5, PutNone
  <2>2. /\ Count(m, cwd[p], j) = One(cwd[p] = j) + One(cwd[p] = j) + One(m.dp = j) + 0
        /\ Count(me[p], cwd[p], j) = One(cwd[p] = j) + 0
    BY <1>2, <1>5, <2>1, CountAt
  <2>3. One(cwd[p] = j) \in Int /\ One(m.dp = j) = 0 /\ itab[j].ref \in Nat
    BY <1>1, <1>5, Constants, AtFacts DEF One
  <2> QED BY <1>8, <2>2, <2>3
<1>10. disk' \in FsTypes /\ inTx' \in SUBSET Users
  BY <1>1, <1>2 DEF FilesTypes
<1>11. "user" \notin {"writeOp", "writei"} /\ m.at \notin {"writeOp", "writei"}
  BY <1>5
<1> QED BY <1>1, <1>5, <1>6, <1>8, <1>9, <1>10, <1>11, StayStep

\* EndOp keeps the tables: a process at the end of its call refers to nothing more.
LEMMA EndOpStep == ASSUME Tables, NEW p \in Users, EndOp(p) PROVE Tables'
<1> DEFINE m == Idle
<1>1. /\ At(p, "end") /\ me' = [me EXCEPT ![p] = m] /\ FilesKept
      /\ fs' = fs /\ itab' = itab /\ panic' = panic /\ UNCHANGED <<ilk, boot>>
      /\ disk' \in {fs, disk} /\ inTx' = inTx \ {p}
  BY DEF EndOp
<1>2. /\ me[p].at = "end" /\ me[p].put = <<>> /\ FilesTypes
      /\ K \in KernelTypes /\ K.fs = fs /\ K.itab = itab /\ K.panic = panic
  BY <1>1, AtFacts
<1>3. m \in MeTypes /\ m.at = "user" /\ m.put = <<>> /\ m.ip = 0 /\ m.dp = 0
  BY IdleFacts
<1>4. Shape(m)
  <2>1. Len(m.put) = 0
    BY <1>3
  <2> QED BY <1>3, <2>1 DEF Shape, IpUsed, IpPlaces, DpPlaces
<1> HIDE DEF m
<1>5. Locked(m) = 0 /\ Locked(me[p]) = 0
  BY <1>2, <1>3 DEF Locked
<1>6. Does(p, K, m)
  BY <1>1, <1>2 DEF Does
<1>7. \A i \in Inums : /\ Fits(p, m, K, i) /\ K.itab[i].ref = itab[i].ref
                       /\ K.itab[i].ref \in Nat /\ (K.itab[i].ref = 0 => ~K.itab[i].valid)
  BY <1>1, Untouched
<1>9. ASSUME NEW j \in Inums
      PROVE  K.itab[j].ref = itab[j].ref + Count(m, cwd[p], j) - Count(me[p], cwd[p], j)
  <2>1. PutCount(m.put, j) = 0 /\ PutCount(me[p].put, j) = 0
    BY <1>2, <1>3, PutNone
  <2>2. /\ Count(m, cwd[p], j) = One(cwd[p] = j) + 0
        /\ Count(me[p], cwd[p], j) = One(cwd[p] = j) + 0
    BY <1>2, <1>3, <2>1, CountAt
  <2>3. One(cwd[p] = j) \in Int
    BY DEF One
  <2> QED BY <1>7, <2>2, <2>3
<1>10. disk' \in FsTypes /\ inTx' \in SUBSET Users
  BY <1>1, <1>2 DEF FilesTypes
<1>11. "end" \notin {"writeOp", "writei"} /\ m.at \notin {"writeOp", "writei"}
  BY <1>3
<1> QED BY <1>1, <1>2, <1>3, <1>4, <1>5, <1>6, <1>7, <1>9, <1>10, <1>11, StayStep

\* WalkEnd keeps the tables: what namex() found passes to the call, or is put.
LEMMA WalkEndStep == ASSUME Tables, NEW p \in Users, WalkEnd(p) PROVE Tables'
<1> DEFINE m == IF WantsParent(me[p]) THEN Then(p, Missing(me[p]), <<me[p].ip>>)
                ELSE Moved(me[p], Found(me[p]))
<1>1. /\ At(p, "walk") /\ me[p].path = <<>> /\ Does(p, K, m) /\ FilesKept
      /\ UNCHANGED <<ilk, boot>> /\ disk' = disk /\ inTx' = inTx
  BY DEF WalkEnd, Rest, Moved
<1>2. /\ FilesTypes /\ K \in KernelTypes
  BY <1>1, AtFacts
<1>3. /\ m \in MeTypes /\ Shape(m) /\ Locked(m) = 0 /\ m.at \notin {"writeOp", "writei"}
      /\ \A i \in Inums : Count(m, cwd[p], i) = Count(me[p], cwd[p], i)
  <2>1. CASE WantsParent(me[p])
    BY <1>1, <2>1, MissingFacts
  <2>2. CASE ~WantsParent(me[p])
    BY <1>1, <2>2, FoundFacts
  <2> QED BY <2>1, <2>2
<1> HIDE DEF m
<1>4. Locked(me[p]) = 0
  BY <1>1, WalkFacts
<1>7. \A i \in Inums : /\ Fits(p, m, K, i) /\ K.itab[i].ref = itab[i].ref
                       /\ K.itab[i].ref \in Nat /\ (K.itab[i].ref = 0 => ~K.itab[i].valid)
  BY <1>1, Untouched
<1>9. ASSUME NEW j \in Inums
      PROVE  K.itab[j].ref = itab[j].ref + Count(m, cwd[p], j) - Count(me[p], cwd[p], j)
  BY <1>3, <1>7, CountType
<1>10. disk' \in FsTypes /\ inTx' \in SUBSET Users
  BY <1>1, <1>2 DEF FilesTypes
<1>11. "walk" \notin {"writeOp", "writei"}
  OBVIOUS
<1> QED BY <1>1, <1>2, <1>3, <1>4, <1>7, <1>9, <1>10, <1>11, StayStep

\* What a process has in hand at its place.
LEMMA InHand ==
    ASSUME Tables, NEW p \in Users, NEW a, At(p, a)
    PROVE  /\ a \in IpPlaces => me[p].ip \in Inums
           /\ a \in DpPlaces => me[p].dp \in Inums
           /\ \A i \in Inums :
                /\ a \in {"linkNew", "unlinkChild", "createNew"}
                     => Count(me[p], cwd[p], i)
                            = One(cwd[p] = i) + One(me[p].ip = i) + One(me[p].dp = i)
                /\ a \in {"linkOld", "unlink", "unlinkLast", "create", "createOld", "made",
                          "read", "rdwr", "trunc", "openFile", "chdir"}
                     => Count(me[p], cwd[p], i) = One(cwd[p] = i) + One(me[p].ip = i)
                /\ a \in {"linkBad", "createFail"}
                     => Count(me[p], cwd[p], i) = One(cwd[p] = i) + One(me[p].dp = i)
                /\ a \in {"user", "end", "writeOp", "writei"}
                     => Count(me[p], cwd[p], i) = One(cwd[p] = i)
                /\ a = "chdirEnd" => Count(me[p], cwd[p], i) = One(me[p].ip = i)
<1>1. me[p].at = a /\ me[p] \in MeTypes /\ Shape(me[p])
      /\ \A i \in Inums : PutCount(me[p].put, i) = 0
  BY AtFacts
<1>2. a \in IpPlaces => me[p].ip \in Inums
  <2>1. a \in IpPlaces => me[p].ip # 0
    BY <1>1 DEF Shape, IpUsed
  <2> QED BY <1>1, <2>1, MeParts
<1>3. a \in DpPlaces => me[p].dp \in Inums
  <2>1. a \in DpPlaces => me[p].dp # 0
    BY <1>1 DEF Shape
  <2> QED BY <1>1, <2>1, MeParts
<1>4. ASSUME NEW i \in Inums
      PROVE  /\ a \in {"linkNew", "unlinkChild", "createNew"}
                  => Count(me[p], cwd[p], i)
                         = One(cwd[p] = i) + One(me[p].ip = i) + One(me[p].dp = i)
             /\ a \in {"linkOld", "unlink", "unlinkLast", "create", "createOld", "made",
                       "read", "rdwr", "trunc", "openFile", "chdir"}
                  => Count(me[p], cwd[p], i) = One(cwd[p] = i) + One(me[p].ip = i)
             /\ a \in {"linkBad", "createFail"}
                  => Count(me[p], cwd[p], i) = One(cwd[p] = i) + One(me[p].dp = i)
             /\ a \in {"user", "end", "writeOp", "writei"}
                  => Count(me[p], cwd[p], i) = One(cwd[p] = i)
             /\ a = "chdirEnd" => Count(me[p], cwd[p], i) = One(me[p].ip = i)
  <2> DEFINE c == One(cwd[p] = i)
             x == One(me[p].ip = i)
             y == One(me[p].dp = i)
             n == Count(me[p], cwd[p], i)
  <2>1. c \in Int /\ x \in Int /\ y \in Int /\ PutCount(me[p].put, i) = 0
    BY <1>1 DEF One
  <2>2. /\ a \in {"linkNew", "unlinkChild", "createNew"} => n = c + x + y + 0
        /\ a \in {"linkOld", "unlink", "unlinkLast", "create", "createOld", "made",
                  "read", "rdwr", "trunc", "openFile", "chdir"} => n = c + x + 0
        /\ a \in {"linkBad", "createFail"} => n = c + y + 0
        /\ a \in {"user", "end", "writeOp", "writei"} => n = c + 0
        /\ a = "chdirEnd" => n = x + 0
    <3>1. /\ a \in {"walk", "linkNew", "unlinkChild", "createNew"}
               => n = c + x + y + PutCount(me[p].put, i)
          /\ a \in {"linkOld", "unlink", "unlinkLast", "create", "createOld", "made",
                    "read", "rdwr", "trunc", "openFile", "chdir"}
               => n = c + x + PutCount(me[p].put, i)
          /\ a \in {"linkBad", "createFail"} => n = c + y + PutCount(me[p].put, i)
          /\ a \in {"user", "end", "writeOp", "writei"} => n = c + PutCount(me[p].put, i)
          /\ a = "chdirEnd" => n = x + PutCount(me[p].put, i)
      BY <1>1, CountAt
    <3> QED BY <2>1, <3>1
  <2> HIDE DEF c, x, y, n
  <2>3. /\ c + x + y + 0 = c + x + y /\ c + x + 0 = c + x /\ c + y + 0 = c + y
        /\ c + 0 = c /\ x + 0 = x
    BY <2>1
  <2> QED BY <2>2, <2>3 DEF c, x, y, n
<1> QED BY <1>1, <1>2, <1>3, <1>4

\* A process may lock what it has in hand.
LEMMA HandFetch ==
    ASSUME Tables, NEW p \in Users, NEW a, At(p, a)
    PROVE  /\ a \in IpPlaces /\ FreeLock(me[p].ip) => Fetched(Ilock(K, me[p].ip), me[p].ip)
           /\ a \in DpPlaces /\ FreeLock(me[p].dp) => Fetched(Ilock(K, me[p].dp), me[p].dp)
<1>1. boot = 0 /\ me[p].at = a
  BY DEF At
<1>2. /\ a \in IpPlaces => me[p].ip \in Inums
      /\ a \in DpPlaces => me[p].dp \in Inums
  BY InHand
<1>3. ASSUME NEW i \in Inums, HandCount(me[p], i) >= 1 PROVE Count(me[p], cwd[p], i) >= 1
  <2>1. HandCount(me[p], i) \in Int /\ PutCount(me[p].put, i) \in Nat
        /\ One(cwd[p] = i /\ me[p].at # "chdirEnd") \in Nat
    BY CountType DEF HandCount, One
  <2> QED BY <1>3, <2>1 DEF Count
<1>4. ASSUME a \in IpPlaces, FreeLock(me[p].ip) PROVE Fetched(Ilock(K, me[p].ip), me[p].ip)
  <2>1. HandCount(me[p], me[p].ip) >= 1
    <3>1. IpUsed(me[p])
      BY <1>1, <1>4 DEF IpUsed
    <3> QED BY <3>1 DEF HandCount, One
  <2> DEFINE i == me[p].ip
  <2>2. i \in Inums /\ FreeLock(i) /\ Count(me[p], cwd[p], i) >= 1
    BY <1>2, <1>3, <1>4, <2>1
  <2> HIDE DEF i
  <2>3. Fetched(Ilock(K, i), i)
    <3>1. Count(me[p], cwd[p], i) >= 1 \/ Cardinality(Opens(i)) >= 1
      BY <2>2
    <3> QED BY <1>1, <2>2, <3>1, Fetch
  <2> QED BY <2>3 DEF i
<1>5. ASSUME a \in DpPlaces, FreeLock(me[p].dp) PROVE Fetched(Ilock(K, me[p].dp), me[p].dp)
  <2>1. HandCount(me[p], me[p].dp) >= 1
    <3>1. DpUsed(me[p])
      BY <1>1, <1>5 DEF DpUsed
    <3> QED BY <3>1 DEF HandCount, One
  <2> DEFINE i == me[p].dp
  <2>2. i \in Inums /\ FreeLock(i) /\ Count(me[p], cwd[p], i) >= 1
    BY <1>2, <1>3, <1>5, <2>1
  <2> HIDE DEF i
  <2>3. Fetched(Ilock(K, i), i)
    <3>1. Count(me[p], cwd[p], i) >= 1 \/ Cardinality(Opens(i)) >= 1
      BY <2>2
    <3> QED BY <1>1, <2>2, <3>1, Fetch
  <2> QED BY <2>3 DEF i
<1> QED BY <1>4, <1>5

\* Walk keeps the tables: the inode of the name gets a reference, the directory is put.
LEMMA WalkStep == ASSUME Tables, NEW p \in Users, Walk(p) PROVE Tables'
<1> DEFINE i == me[p].ip
           k == Ilock(K, i)
           next == Dirlookup(k, i, Head(me[p].path))
           n == me[p]
           m3 == [n EXCEPT !.ip = next, !.path = Tail(@), !.put = <<i>>]
<1>1. /\ At(p, "walk") /\ me[p].path # <<>> /\ FreeLock(i) /\ FilesKept
      /\ UNCHANGED <<ilk, boot>> /\ disk' = disk /\ inTx' = inTx
      /\ \/ Does(p, k, Then(p, Missing(me[p]), <<i>>))
         \/ WantsParent(me[p]) /\ Does(p, k, Moved(me[p], Found(me[p])))
         \/ next # 0 /\ Does(p, Iget(k, next), m3)
  BY DEF Walk, Rest, Moved
<1>2. /\ FilesTypes /\ me[p] \in MeTypes /\ Shape(me[p]) /\ me[p].at = "walk"
  BY <1>1, AtFacts
<1>3. /\ i \in Inums /\ me[p].dp \in Inums \union {0} /\ me[p].put = <<>>
      /\ me[p].call.op \in PathOps /\ (me[p].dp # 0 => me[p].call.op = "link")
      /\ Locked(me[p]) = 0
      /\ \A j \in Inums :
           Count(me[p], cwd[p], j) = One(cwd[p] = j) + One(i = j) + One(me[p].dp = j)
  BY <1>1, WalkFacts
<1>4. Fetched(k, i)
  BY <1>1, HandFetch DEF IpPlaces
<1>5. k \in KernelTypes
  BY <1>4 DEF Fetched
<1>6. next \in Inums \union {0}
  <2>1. me[p].path \in Seq(Entries)
    BY <1>2, MeParts
  <2>2. Head(me[p].path) \in Entries
    BY <1>1, <2>1
  <2>3. k.fs.ents[i] \in [Entries -> Inums \union {0}]
    BY <1>3, <1>5, KernelParts
  <2> HIDE DEF k, i
  <2> QED BY <2>2, <2>3 DEF Dirlookup
<1> HIDE DEF i, k, next
<1>7. disk' \in FsTypes /\ inTx' \in SUBSET Users
  BY <1>1, <1>2 DEF FilesTypes
<1>8. "walk" \notin {"writeOp", "writei"} /\ me[p].at # "writei"
  BY <1>2
<1>9. ASSUME NEW m
      PROVE  \A j \in Inums : /\ Fits(p, m, k, j) /\ k.itab[j].ref = itab[j].ref
                              /\ k.itab[j].ref \in Nat /\ (k.itab[j].ref = 0 => ~k.itab[j].valid)
  BY <1>1, <1>3, <1>4, <1>8, FetchedKeeps
<1>10. ASSUME NEW m \in MeTypes, Does(p, k, m), Shape(m), Locked(m) = 0,
              m.at \notin {"writeOp", "writei"},
              \A j \in Inums : Count(m, cwd[p], j) = Count(me[p], cwd[p], j)
       PROVE  Tables'
  <2>1. ASSUME NEW j \in Inums
        PROVE  k.itab[j].ref = itab[j].ref + Count(m, cwd[p], j) - Count(me[p], cwd[p], j)
    BY <1>9, <1>10, CountType
  <2>2. UNCHANGED <<ilk, boot>> /\ FilesKept /\ At(p, "walk")
    BY <1>1
  <2> QED BY <1>3, <1>5, <1>7, <1>8, <1>9, <1>10, <2>1, <2>2, StayStep
<1>11. CASE Does(p, k, Then(p, Missing(me[p]), <<i>>))
  <2> DEFINE m == Then(p, Missing(me[p]), <<i>>)
  <2>1. /\ m \in MeTypes /\ Shape(m) /\ Locked(m) = 0 /\ m.at \in {"end", "linkBad"}
        /\ \A j \in Inums : Count(m, cwd[p], j) = Count(me[p], cwd[p], j)
    BY <1>1, MissingFacts DEF i
  <2>2. Does(p, k, m)
    BY <1>11
  <2> HIDE DEF m
  <2> QED BY <1>10, <2>1, <2>2
<1>12. CASE WantsParent(me[p]) /\ Does(p, k, Moved(me[p], Found(me[p])))
  <2> DEFINE m == Moved(me[p], Found(me[p]))
  <2>1. WantsParent(me[p]) <=> me[p].path # <<>>
    BY <1>1, <1>12
  <2>2. /\ m \in MeTypes /\ Shape(m) /\ Locked(m) = 0 /\ m.at \notin {"writeOp", "writei"}
        /\ \A j \in Inums : Count(m, cwd[p], j) = Count(me[p], cwd[p], j)
    BY <1>1, <2>1, FoundFacts
  <2>3. Does(p, k, m)
    BY <1>12
  <2> HIDE DEF m
  <2> QED BY <1>10, <2>2, <2>3
<1>13. CASE next # 0 /\ Does(p, Iget(k, next), m3)
  <2> DEFINE r == Iget(k, next)
  <2>1. next \in Inums
    BY <1>6, <1>13
  <2>2. n \in MeTypes /\ Tail(n.path) \in Seq(Entries) /\ <<i>> \in Seq(Inums)
        /\ next \in Inums \union {0}
    BY <1>1, <1>2, <1>3, <1>6, MeParts
  <2>3. /\ n.at = "walk" /\ n.dp = me[p].dp /\ n.call = me[p].call
    BY <1>2
  <2> HIDE DEF n
  <2>4. /\ m3 \in MeTypes /\ m3.at = n.at /\ m3.call = n.call /\ m3.ip = next /\ m3.dp = n.dp
        /\ m3.put = <<i>>
    BY <2>2 DEF MeTypes
  <2>5. Does(p, r, m3)
    BY <1>13
  <2> HIDE DEF m3
  <2>6. Len(m3.put) <= 2 /\ m3.ip # 0 /\ m3.at = "walk"
    BY <2>1, <2>3, <2>4, Constants
  <2>7. Shape(m3) /\ Locked(m3) = 0
    BY <1>3, <2>3, <2>4, <2>6 DEF Shape, IpUsed, IpPlaces, DpPlaces, Locked
  <2>8. /\ r \in KernelTypes
        /\ \A j \in Inums : /\ Fits(p, m3, r, j)
                            /\ r.itab[j].ref = itab[j].ref + One(next = j)
                            /\ r.itab[j].ref = 0 => ~r.itab[j].valid
    <3>1. \A j \in Inums : /\ Fits(p, m3, k, j) /\ k.itab[j].ref = itab[j].ref
                           /\ k.itab[j].ref \in Nat /\ (k.itab[j].ref = 0 => ~k.itab[j].valid)
      BY <1>9
    <3> QED BY <1>5, <2>1, <3>1, IgetFits
  <2> HIDE DEF r
  <2>9. ASSUME NEW j \in Inums
        PROVE  r.itab[j].ref = itab[j].ref + Count(m3, cwd[p], j) - Count(me[p], cwd[p], j)
    <3>1. PutCount(m3.put, j) = One(i = j)
      BY <2>4, PutOne
    <3>2. Count(m3, cwd[p], j) = One(cwd[p] = j) + One(next = j) + One(me[p].dp = j) + One(i = j)
      BY <2>3, <2>4, <2>6, <3>1, CountAt
    <3>3. One(cwd[p] = j) \in Int /\ One(i = j) \in Int /\ One(me[p].dp = j) \in Int
          /\ One(next = j) \in Int
      BY DEF One
    <3>4. itab[j].ref \in Int
      BY <1>9
    <3> QED BY <1>3, <2>8, <3>2, <3>3, <3>4
  <2>10. m3.at \notin {"writeOp", "writei"}
    BY <2>6
  <2>11. UNCHANGED <<ilk, boot>> /\ FilesKept /\ At(p, "walk")
    BY <1>1
  <2> QED BY <1>3, <1>7, <1>8, <2>4, <2>5, <2>7, <2>8, <2>9, <2>10, <2>11, StayStep
<1> QED BY <1>1, <1>11, <1>12, <1>13
-----------------------------------------------------------------------------
(* The kernel's state in the course of a step                              *)

\* The state k is right for p: inodes that p may change are the same in memory and on disk,
\* the ones that others have locked are as they were.
Mine(p, k) ==
    /\ k \in KernelTypes
    /\ \A j \in Inums :
        /\ k.itab[j].ref \in Nat /\ (k.itab[j].ref = 0 => ~k.itab[j].valid)
        /\ ilk[j] \in {Nobody, p} => (k.itab[j].valid => /\ k.itab[j].copy = k.fs.ino[j]
                                                         /\ k.fs.ino[j].type # "none")
        /\ ilk[j] \notin {Nobody, p} =>
              /\ k.itab[j].valid = itab[j].valid
              /\ \/ BeingFreed(j) \/ ~itab[j].valid
                 \/ k.itab[j].copy = itab[j].copy /\ k.fs.ino[j] = fs.ino[j]

\* A step begins like that.
LEMMA MineAt ==
    ASSUME Tables, NEW p \in Users, NEW a, At(p, a), a # "writei"
    PROVE  Mine(p, K) /\ \A j \in Inums : K.itab[j].ref = itab[j].ref
<1>1. /\ me[p].at = a /\ K \in KernelTypes /\ K.fs = fs /\ K.itab = itab /\ CopiesOK
      /\ \A i \in Inums : ~Frees(p, i)
      /\ \A i \in Inums : itab[i].ref \in Nat /\ (itab[i].ref = 0 => ~itab[i].valid)
  BY AtFacts
<1>2. ASSUME NEW j \in Inums, ilk[j] \in {Nobody, p}, itab[j].valid
      PROVE  itab[j].copy = fs.ino[j] /\ fs.ino[j].type # "none"
  <2>1. ~BeingFreed(j) /\ ~BeingWritten(j)
    BY <1>1, <1>2 DEF BeingFreed, BeingWritten
  <2> QED BY <1>1, <1>2, <2>1 DEF CopiesOK, CopyOK
<1> QED BY <1>1, <1>2 DEF Mine

\* What is right may be written back.
LEMMA MineFits ==
    ASSUME NEW p \in Users, NEW k, Mine(p, k), me[p].at # "writei", NEW m, NEW j \in Inums
    PROVE  Fits(p, m, k, j)
<1>1. CASE ilk[j] \in {Nobody, p}
  BY <1>1 DEF Mine, Fits, Current
<1>2. CASE ilk[j] \notin {Nobody, p}
  BY <1>2 DEF Mine, Fits
<1> QED BY <1>1, <1>2

\* ilock()
LEMMA MineIlock ==
    ASSUME NEW p, NEW k, Mine(p, k), NEW i \in Inums, ilk[i] \in {Nobody, p},
           k.itab[i].ref > 0
    PROVE  LET r == Ilock(k, i)
           IN  /\ Mine(p, r) /\ r.fs = k.fs
               /\ \A j \in Inums : r.itab[j].ref = k.itab[j].ref
               /\ \A j \in Inums : k.itab[j].valid => r.itab[j].valid
               /\ r.panic = "none" => r.itab[i].valid /\ k.panic = "none"
               /\ \A j \in Inums : j # i => r.itab[j] = k.itab[j]
<1> DEFINE r == Ilock(k, i)
<1>0. k \in KernelTypes
  BY DEF Mine
<1>1. /\ r \in KernelTypes /\ r.fs = k.fs
      /\ r.itab[i].ref = k.itab[i].ref
      /\ \A j \in Inums : j # i => r.itab[j] = k.itab[j]
      /\ k.itab[i].valid => r = k
      /\ ~k.itab[i].valid /\ k.fs.ino[i].type = "none" => r.panic = "ilock" /\ r.itab = k.itab
      /\ ~k.itab[i].valid /\ k.fs.ino[i].type # "none"
           => /\ r.panic = k.panic /\ r.itab[i].valid /\ r.itab[i].copy = k.fs.ino[i]
  BY <1>0, IlockFacts
<1> HIDE DEF r
<1>2. r.itab[i].valid => r.itab[i].copy = r.fs.ino[i] /\ r.fs.ino[i].type # "none"
  BY <1>1 DEF Mine
<1>3. Mine(p, r)
  <2>1. ASSUME NEW j \in Inums
        PROVE  /\ r.itab[j].ref \in Nat /\ (r.itab[j].ref = 0 => ~r.itab[j].valid)
               /\ ilk[j] \in {Nobody, p} => (r.itab[j].valid => /\ r.itab[j].copy = r.fs.ino[j]
                                                                /\ r.fs.ino[j].type # "none")
               /\ ilk[j] \notin {Nobody, p} =>
                     /\ r.itab[j].valid = itab[j].valid
                     /\ \/ BeingFreed(j) \/ ~itab[j].valid
                        \/ r.itab[j].copy = itab[j].copy /\ r.fs.ino[j] = fs.ino[j]
    <3>1. CASE j = i
      BY <1>1, <1>2, <3>1 DEF Mine
    <3>2. CASE j # i
      BY <1>1, <3>2 DEF Mine
    <3> QED BY <3>1, <3>2
  <2> QED BY <1>1, <2>1 DEF Mine
<1> QED BY <1>1, <1>3 DEF r

\* A change of inode i, in memory and on disk.
LEMMA MineChange ==
    ASSUME NEW p, NEW k, Mine(p, k), NEW i \in Inums, ilk[i] \in {Nobody, p},
           NEW r \in KernelTypes,
           r.itab[i].ref = k.itab[i].ref, r.itab[i].valid = k.itab[i].valid,
           r.itab[i].valid => r.itab[i].copy = r.fs.ino[i]
                              /\ r.itab[i].copy.type = k.itab[i].copy.type,
           \A j \in Inums : j # i => r.itab[j] = k.itab[j] /\ r.fs.ino[j] = k.fs.ino[j]
    PROVE  Mine(p, r) /\ \A j \in Inums : /\ r.itab[j].ref = k.itab[j].ref
                                          /\ r.itab[j].valid = k.itab[j].valid
<1>1. ASSUME NEW j \in Inums
      PROVE  /\ r.itab[j].ref = k.itab[j].ref /\ r.itab[j].valid = k.itab[j].valid
             /\ r.itab[j].ref \in Nat /\ (r.itab[j].ref = 0 => ~r.itab[j].valid)
             /\ ilk[j] \in {Nobody, p} => (r.itab[j].valid => /\ r.itab[j].copy = r.fs.ino[j]
                                                              /\ r.fs.ino[j].type # "none")
             /\ ilk[j] \notin {Nobody, p} =>
                   /\ r.itab[j].valid = itab[j].valid
                   /\ \/ BeingFreed(j) \/ ~itab[j].valid
                      \/ r.itab[j].copy = itab[j].copy /\ r.fs.ino[j] = fs.ino[j]
  <2>1. CASE j = i
    <3>1. /\ k.itab[i].ref \in Nat /\ (k.itab[i].ref = 0 => ~k.itab[i].valid)
          /\ k.itab[i].valid => k.itab[i].copy = k.fs.ino[i] /\ k.fs.ino[i].type # "none"
      BY DEF Mine
    <3>2. r.itab[i].valid <=> k.itab[i].valid
      OBVIOUS
    <3>3. r.itab[i].valid => r.itab[i].copy = r.fs.ino[i] /\ r.fs.ino[i].type # "none"
      BY <3>1, <3>2
    <3>4. r.itab[i].ref \in Nat /\ (r.itab[i].ref = 0 => ~r.itab[i].valid)
      BY <3>1, <3>2
    <3> QED BY <2>1, <3>3, <3>4
  <2>2. CASE j # i
    BY <2>2 DEF Mine
  <2> QED BY <2>1, <2>2
<1> QED BY <1>1 DEF Mine

\* iupdate() of a change that keeps the type.
LEMMA MineIupdate ==
    ASSUME NEW p, NEW k, Mine(p, k), NEW i \in Inums, ilk[i] \in {Nobody, p},
           NEW d \in Dinodes, d.type = k.itab[i].copy.type
    PROVE  LET r == Iupdate(k, i, d)
           IN  /\ Mine(p, r) /\ r.panic = k.panic /\ r.itab[i].copy = d
               /\ \A j \in Inums : /\ r.itab[j].ref = k.itab[j].ref
                                   /\ r.itab[j].valid = k.itab[j].valid
               /\ \A j \in Inums : j # i => r.itab[j] = k.itab[j]
<1> DEFINE r == Iupdate(k, i, d)
<1>0. k \in KernelTypes
  BY DEF Mine
<1>1. /\ r \in KernelTypes /\ r.panic = k.panic
      /\ r.itab[i].ref = k.itab[i].ref /\ r.itab[i].valid = k.itab[i].valid
      /\ r.itab[i].copy = d /\ r.fs.ino[i] = d
      /\ \A j \in Inums : j # i => r.itab[j] = k.itab[j] /\ r.fs.ino[j] = k.fs.ino[j]
  BY <1>0, IupdateFacts
<1> HIDE DEF r
<1>2. Mine(p, r) /\ \A j \in Inums : /\ r.itab[j].ref = k.itab[j].ref
                                     /\ r.itab[j].valid = k.itab[j].valid
  BY <1>1, MineChange
<1> QED BY <1>1, <1>2 DEF r

\* iget()
LEMMA MineIget ==
    ASSUME NEW p, NEW k, Mine(p, k), NEW x \in Inums
    PROVE  LET r == Iget(k, x)
           IN  /\ Mine(p, r) /\ r.fs = k.fs /\ r.panic = k.panic
               /\ \A j \in Inums : /\ r.itab[j].ref = k.itab[j].ref + One(x = j)
                                   /\ r.itab[j].valid = k.itab[j].valid
<1> DEFINE r == Iget(k, x)
<1>0. k \in KernelTypes
      /\ \A j \in Inums : k.itab[j].ref \in Nat /\ (k.itab[j].ref = 0 => ~k.itab[j].valid)
  BY DEF Mine
<1>1. /\ r \in KernelTypes /\ r.fs = k.fs /\ r.panic = k.panic
      /\ \A j \in Inums :
           /\ r.itab[j].valid = k.itab[j].valid
           /\ k.itab[j].valid => r.itab[j].copy = k.itab[j].copy
           /\ r.itab[j].ref = k.itab[j].ref + One(x = j)
           /\ r.itab[j].ref \in Nat /\ (r.itab[j].ref = 0 => ~r.itab[j].valid)
  BY <1>0, IgetKeeps
<1> HIDE DEF r
<1>2. Mine(p, r)
  BY <1>1 DEF Mine
<1> QED BY <1>1, <1>2 DEF r

\* dirlink() of an entry in directory d.
LEMMA MineDirlink ==
    ASSUME NEW p, NEW k, Mine(p, k), NEW d \in Inums, ilk[d] \in {Nobody, p},
           NEW n \in Entries, NEW i \in Inums \union {0}
    PROVE  LET r == Dirlink(k, d, n, i).k
           IN  /\ Mine(p, r) /\ r.panic = k.panic
               /\ \A j \in Inums : /\ r.itab[j].ref = k.itab[j].ref
                                   /\ r.itab[j].valid = k.itab[j].valid
               /\ Dirlink(k, d, n, i).ok \in BOOLEAN
<1> DEFINE r == Dirlink(k, d, n, i).k
<1>0. k \in KernelTypes
  BY DEF Mine
<1>1. r \in KernelTypes /\ Entered(k, r, d) /\ Dirlink(k, d, n, i).ok \in BOOLEAN
  BY <1>0, DirlinkFacts
<1> HIDE DEF r
<1>2. r.itab[d].valid => r.itab[d].copy = r.fs.ino[d]
                         /\ r.itab[d].copy.type = k.itab[d].copy.type
  BY <1>1 DEF Entered, Mine
<1>3. /\ r.panic = k.panic
      /\ r.itab[d].ref = k.itab[d].ref /\ r.itab[d].valid = k.itab[d].valid
      /\ \A j \in Inums : j # d => r.itab[j] = k.itab[j] /\ r.fs.ino[j] = k.fs.ino[j]
  BY <1>1 DEF Entered
<1>4. Mine(p, r) /\ \A j \in Inums : /\ r.itab[j].ref = k.itab[j].ref
                                     /\ r.itab[j].valid = k.itab[j].valid
  BY <1>1, <1>2, <1>3, MineChange
<1> QED BY <1>1, <1>3, <1>4 DEF r

\* A change of the entries of directories only, or a panic.
LEMMA MineOther ==
    ASSUME NEW p, NEW k, Mine(p, k), NEW r \in KernelTypes, r.itab = k.itab,
           r.fs.ino = k.fs.ino
    PROVE  Mine(p, r)
BY DEF Mine
-----------------------------------------------------------------------------
\* The step of a process at a place of a system call that has no open file.
LEMMA PlaceStep ==
    ASSUME Tables, NEW p \in Users, NEW a, At(p, a), a \notin {"writeOp", "writei"},
           NEW m \in MeTypes, Shape(m), m.at \notin {"writeOp", "writei"},
           NEW k, Mine(p, k), Does(p, k, m), FilesKept, Rest,
           ilk' \in [Inums -> Users \union {Nobody}], Relocks(p, m),
           \A i \in Inums :
               k.itab[i].ref = itab[i].ref + Count(m, cwd[p], i) - Count(me[p], cwd[p], i),
           k.panic = "none" /\ Locked(m) # 0 => k.itab[Locked(m)].valid
    PROVE  Tables'
<1>1. /\ panic = "none" /\ boot = 0 /\ me[p].at = a /\ FilesTypes
      /\ \A i \in Inums : ~Frees(p, i)
  BY AtFacts
<1>2. boot' = boot /\ disk' \in FsTypes /\ inTx' \in SUBSET Users
  BY <1>1 DEF Rest, FilesTypes
<1>3. k \in KernelTypes /\ \A i \in Inums : k.itab[i].ref = 0 => ~k.itab[i].valid
  BY DEF Mine
<1>4. \A i \in Inums : Fits(p, m, k, i)
  BY <1>1, MineFits
<1> QED BY <1>1, <1>2, <1>3, <1>4, UserStep

\* The end of a call: what a process has in hand is put, and its lock released.
LEMMA EndAny ==
    ASSUME Tables, NEW p \in Users, NEW a, At(p, a), a \notin {"writeOp", "writei"},
           NEW s \in Seq(Inums), Len(s) <= 2,
           NEW k, Mine(p, k), Does(p, k, Then(p, "end", s)), FilesKept, Rest,
           ilk' \in [Inums -> Users \union {Nobody}], Relocks(p, Then(p, "end", s)),
           \A i \in Inums : k.itab[i].ref
               = itab[i].ref + (One(cwd[p] = i) + PutCount(s, i)) - Count(me[p], cwd[p], i)
    PROVE  Tables'
<1> DEFINE m == Then(p, "end", s)
<1>1. me[p] \in MeTypes
  BY AtFacts
<1>2. /\ m \in MeTypes /\ m.at = "end" /\ m.put = s /\ Shape(m) /\ Locked(m) = 0
      /\ \A c : \A i \in Inums : Count(m, c, i) = One(c = i) + PutCount(s, i)
  BY <1>1, EndShape
<1>3. Does(p, k, m) /\ Relocks(p, m)
  OBVIOUS
<1> HIDE DEF m
<1>4. \A i \in Inums :
        k.itab[i].ref = itab[i].ref + Count(m, cwd[p], i) - Count(me[p], cwd[p], i)
  BY <1>2
<1>5. m.at \notin {"writeOp", "writei"}
  BY <1>2
<1> QED BY <1>2, <1>3, <1>4, <1>5, PlaceStep

\* A step that ends a call keeps the tables, if it puts what the process still refers to.
LEMMA EndStep ==
    ASSUME Tables, NEW p \in Users, NEW a, At(p, a), a \notin {"writeOp", "writei"},
           Locked(me[p]) = 0, NEW s \in Seq(Inums), Len(s) <= 2,
           NEW k, Mine(p, k), Does(p, k, Then(p, "end", s)), FilesKept, Rest, UNCHANGED ilk,
           \A i \in Inums : k.itab[i].ref
               = itab[i].ref + (One(cwd[p] = i) + PutCount(s, i)) - Count(me[p], cwd[p], i)
    PROVE  Tables'
<1> DEFINE m == Then(p, "end", s)
<1>1. me[p] \in MeTypes /\ FilesTypes /\ LocksOK
  BY AtFacts
<1>2. m \in MeTypes /\ Locked(m) = 0
  BY <1>1, EndShape
<1> HIDE DEF m
<1>3. Relocks(p, m) /\ ilk' \in [Inums -> Users \union {Nobody}]
  BY <1>1, <1>2, RelocksKept
<1> QED BY <1>3, EndAny DEF m

\* What a process has in hand is referenced.
LEMMA HandRef ==
    ASSUME Tables, NEW p \in Users, NEW a, At(p, a)
    PROVE  /\ a \in IpPlaces => itab[me[p].ip].ref > 0
           /\ a \in DpPlaces => itab[me[p].dp].ref > 0
<1>1. me[p].at = a /\ FilesTypes /\ RefsOK
  BY AtFacts
<1>2. /\ a \in IpPlaces => me[p].ip \in Inums
      /\ a \in DpPlaces => me[p].dp \in Inums
  BY InHand
<1>3. ASSUME NEW i \in Inums, HandCount(me[p], i) >= 1 PROVE itab[i].ref > 0
  <2>1. HandCount(me[p], i) \in Int /\ PutCount(me[p].put, i) \in Nat
        /\ One(cwd[p] = i /\ me[p].at # "chdirEnd") \in Nat
    BY CountType DEF HandCount, One
  <2>2. Count(me[p], cwd[p], i) >= 1
    BY <1>3, <2>1 DEF Count
  <2>3. itab[i].ref \in Nat /\ itab[i].ref >= Count(me[p], cwd[p], i) + Cardinality(Opens(i))
    BY <1>1, RefAtLeast
  <2>4. Count(me[p], cwd[p], i) \in Nat /\ Cardinality(Opens(i)) \in Nat
    BY CountType, OpensFinite
  <2> QED BY <2>2, <2>3, <2>4
<1>4. ASSUME a \in IpPlaces PROVE itab[me[p].ip].ref > 0
  <2>1. IpUsed(me[p])
    BY <1>1, <1>4 DEF IpUsed
  <2>2. HandCount(me[p], me[p].ip) >= 1
    BY <2>1 DEF HandCount, One
  <2> QED BY <1>2, <1>3, <1>4, <2>2
<1>5. ASSUME a \in DpPlaces PROVE itab[me[p].dp].ref > 0
  <2>1. DpUsed(me[p])
    BY <1>1, <1>5 DEF DpUsed
  <2>2. HandCount(me[p], me[p].dp) >= 1
    BY <2>1 DEF HandCount, One
  <2> QED BY <1>2, <1>3, <1>5, <2>2
<1> QED BY <1>4, <1>5

\* The state after ilock() of an inode in hand, the first thing that a step does.
LEMMA Locks ==
    ASSUME Tables, NEW p \in Users, NEW a, At(p, a), a # "writei", NEW i \in Inums, FreeLock(i),
           \/ a \in IpPlaces /\ i = me[p].ip
           \/ a \in DpPlaces /\ i = me[p].dp
    PROVE  LET k == Ilock(K, i)
           IN  /\ Mine(p, k) /\ k \in KernelTypes /\ k.fs = fs
               /\ \A j \in Inums : k.itab[j].ref = itab[j].ref /\ itab[j].ref \in Nat
               /\ \A j \in Inums : itab[j].valid => k.itab[j].valid
               /\ k.panic = "none" => k.itab[i].valid
               /\ Ip(k, i) = k.itab[i].copy /\ Ip(k, i) \in Dinodes
<1> DEFINE k == Ilock(K, i)
<1>1. Mine(p, K) /\ \A j \in Inums : K.itab[j].ref = itab[j].ref
  BY MineAt
<1>2. ilk[i] \in {Nobody, p} /\ K.itab[i].ref > 0
  <2>1. itab[i].ref > 0
    BY HandRef
  <2> QED BY <1>1, <2>1 DEF FreeLock
<1>3. /\ Mine(p, k) /\ k.fs = K.fs
      /\ \A j \in Inums : k.itab[j].ref = K.itab[j].ref
      /\ \A j \in Inums : K.itab[j].valid => k.itab[j].valid
      /\ k.panic = "none" => k.itab[i].valid /\ K.panic = "none"
  BY <1>1, <1>2, MineIlock
<1>4. K.fs = fs /\ K.itab = itab /\ \A j \in Inums : itab[j].ref \in Nat
  BY AtFacts
<1> HIDE DEF k
<1>5. k \in KernelTypes
  BY <1>3 DEF Mine
<1>6. Ip(k, i) = k.itab[i].copy /\ Ip(k, i) \in Dinodes
  BY <1>5, KernelParts DEF Ip
<1> QED BY <1>1, <1>3, <1>4, <1>5, <1>6 DEF k

\* sys_link() takes back the link count, after iput() of the inodes in s.
LEMMA LinkBadFacts ==
    ASSUME Tables, NEW p \in Users, NEW a, At(p, a), me[p].dp \in Inums,
           me[p].call.op = "link", NEW s \in Seq(Inums), Len(s) <= 2
    PROVE  LET m == Then(p, "linkBad", s)
           IN  /\ m \in MeTypes /\ Shape(m) /\ Locked(m) = 0 /\ m.at = "linkBad"
               /\ \A i \in Inums :
                    Count(m, cwd[p], i) = One(cwd[p] = i) + One(me[p].dp = i) + PutCount(s, i)
<1> DEFINE m == Then(p, "linkBad", s)
<1>1. me[p] \in MeTypes /\ "linkBad" \in Places
  BY AtFacts DEF Places
<1>2. /\ m \in MeTypes /\ m.at = "linkBad" /\ m.put = s
      /\ m.ip = me[p].ip /\ m.dp = me[p].dp /\ m.call = me[p].call
  BY <1>1, ThenFacts
<1> HIDE DEF m
<1>3. m.at = "linkBad" /\ Len(m.put) <= 2 /\ m.dp # 0 /\ m.dp \in Inums /\ m.call.op = "link"
  BY <1>2, Constants
<1>4. Shape(m) /\ Locked(m) = 0
  BY <1>3 DEF Shape, IpUsed, IpPlaces, DpPlaces, Locked
<1>5. \A i \in Inums :
        Count(m, cwd[p], i) = One(cwd[p] = i) + One(me[p].dp = i) + PutCount(s, i)
  BY <1>2, CountAt
<1> QED BY <1>2, <1>4, <1>5 DEF m

\* LinkOld keeps the tables: the old inode stays referred to while the new name is looked up.
LEMMA LinkOldStep == ASSUME Tables, NEW p \in Users, LinkOld(p) PROVE Tables'
<1> DEFINE i == me[p].ip
           n == me[p]
           k == Ilock(K, i)
           d == WithLinks(Ip(k, i), Ip(k, i).nlink + 1)
           u == Iupdate(k, i, d)
           r == Iget(u, cwd[p])
           m == [n EXCEPT !.at = "walk", !.dp = i, !.ip = cwd[p], !.path = n.call.new]
<1>1. /\ At(p, "linkOld") /\ FreeLock(i) /\ FilesKept /\ Rest /\ UNCHANGED ilk
      /\ Does(p, k, Then(p, "end", <<i>>)) \/ Does(p, r, m)
  BY DEF LinkOld, WithLinks
<1>2. /\ FilesTypes /\ me[p] \in MeTypes /\ Shape(me[p]) /\ me[p].at = "linkOld"
      /\ me[p].put = <<>> /\ LocksOK /\ cwd[p] \in Inums
  BY <1>1, AtFacts
<1>3. i \in Inums /\ \A j \in Inums : Count(me[p], cwd[p], j) = One(cwd[p] = j) + One(i = j)
  BY <1>1, InHand DEF IpPlaces
<1>4. Locked(me[p]) = 0 /\ "linkOld" \notin {"writeOp", "writei"}
  BY <1>2, NoLock
<1>5. /\ Mine(p, k) /\ k \in KernelTypes
      /\ \A j \in Inums : k.itab[j].ref = itab[j].ref /\ itab[j].ref \in Nat
      /\ Ip(k, i) = k.itab[i].copy /\ Ip(k, i) \in Dinodes
  BY <1>1, <1>3, Locks DEF IpPlaces
<1> HIDE DEF i, k
<1>6. ASSUME NEW j \in Inums
      PROVE  One(cwd[p] = j) \in Int /\ One(i = j) \in Int /\ itab[j].ref \in Int
  BY <1>5 DEF One
<1>7. CASE Does(p, k, Then(p, "end", <<i>>))
  <2> DEFINE s == <<i>>
  <2>1. s \in Seq(Inums) /\ Len(s) <= 2 /\ \A j \in Inums : PutCount(s, j) = One(i = j)
    BY <1>3, PutOne
  <2>2. Does(p, k, Then(p, "end", s))
    BY <1>7
  <2> HIDE DEF s
  <2>3. \A j \in Inums : k.itab[j].ref
           = itab[j].ref + (One(cwd[p] = j) + PutCount(s, j)) - Count(me[p], cwd[p], j)
    BY <1>3, <1>5, <1>6, <2>1
  <2> QED BY <1>1, <1>4, <1>5, <2>1, <2>2, <2>3, EndStep
<1>8. CASE Does(p, r, m)
  <2>1. d \in Dinodes /\ d.type = k.itab[i].copy.type
    <3>1. Ip(k, i).nlink + 1 \in Int
      BY <1>5, DinodeParts
    <3> QED BY <1>5, <3>1, WithLinksFacts
  <2> HIDE DEF d
  <2>2. ilk[i] \in {Nobody, p}
    BY <1>1 DEF FreeLock
  <2>3. Mine(p, u) /\ \A j \in Inums : u.itab[j].ref = k.itab[j].ref
    BY <1>3, <1>5, <2>1, <2>2, MineIupdate
  <2> HIDE DEF u
  <2>4. Mine(p, r) /\ \A j \in Inums : r.itab[j].ref = u.itab[j].ref + One(cwd[p] = j)
    BY <1>2, <2>3, MineIget
  <2> HIDE DEF r
  <2>5. n \in MeTypes /\ n.call.new \in Seq(Entries) /\ i \in Inums \union {0}
        /\ cwd[p] \in Inums \union {0} /\ "walk" \in Places
    <3>1. n.call.op = "link" /\ n.call \in CallTypes
      BY <1>2, MeParts DEF Shape
    <3>2. n.call \in Calls
      BY <3>1 DEF CallTypes, NoCall
    <3> QED BY <1>2, <1>3, <3>2, FilesAssumption DEF Places
  <2>6. n.call.op = "link" /\ n.put = <<>>
    BY <1>2 DEF Shape
  <2> HIDE DEF n
  <2>7. /\ m \in MeTypes /\ m.at = "walk" /\ m.call = n.call /\ m.ip = cwd[p] /\ m.dp = i
        /\ m.put = <<>>
    BY <2>5, <2>6 DEF MeTypes
  <2>8. Does(p, r, m)
    BY <1>8
  <2> HIDE DEF m
  <2>9. Len(m.put) <= 2 /\ m.ip # 0 /\ m.at = "walk" /\ m.call.op = "link"
        /\ m.call.op \in PathOps
    BY <1>2, <2>6, <2>7, Constants DEF PathOps
  <2>10. Shape(m) /\ Locked(m) = 0 /\ m.at \notin {"writeOp", "writei"}
    BY <2>9 DEF Shape, IpUsed, IpPlaces, DpPlaces, Locked
  <2>11. ASSUME NEW j \in Inums
         PROVE  r.itab[j].ref = itab[j].ref + Count(m, cwd[p], j) - Count(me[p], cwd[p], j)
    <3>1. PutCount(m.put, j) = 0
      BY <2>7, PutNone
    <3>2. Count(m, cwd[p], j) = One(cwd[p] = j) + One(cwd[p] = j) + One(i = j) + 0
      BY <2>7, <3>1, CountAt
    <3> QED BY <1>3, <1>5, <1>6, <2>3, <2>4, <3>2
  <2>12. Relocks(p, m) /\ ilk' \in [Inums -> Users \union {Nobody}]
    BY <1>1, <1>2, <1>4, <2>7, <2>10, RelocksKept
  <2> QED BY <1>1, <1>4, <2>4, <2>7, <2>8, <2>10, <2>11, <2>12, PlaceStep
<1> QED BY <1>1, <1>7, <1>8

\* LinkNew keeps the tables: both inodes are put, or the old one goes back to LinkBad.
LEMMA LinkNewStep == ASSUME Tables, NEW p \in Users, LinkNew(p) PROVE Tables'
<1> DEFINE d == me[p].ip
           i == me[p].dp
           k == Ilock(K, d)
           old == Dirlookup(k, d, LastName(p))
           r == Dirlink(k, d, LastName(p), i)
<1>1. /\ At(p, "linkNew") /\ FreeLock(d) /\ FilesKept /\ Rest /\ UNCHANGED ilk
      /\ \/ old # 0 /\ Does(p, Iget(k, old), Then(p, "linkBad", <<old, d>>))
         \/ r.ok /\ Does(p, r.k, Then(p, "end", <<d, i>>))
         \/ Does(p, r.k, Then(p, "linkBad", <<d>>))
  BY DEF LinkNew, Linked
<1>2. /\ FilesTypes /\ me[p] \in MeTypes /\ Shape(me[p]) /\ me[p].at = "linkNew"
      /\ LocksOK /\ cwd[p] \in Inums
  BY <1>1, AtFacts
<1>3. d \in Inums /\ i \in Inums
      /\ \A j \in Inums : Count(me[p], cwd[p], j) = One(cwd[p] = j) + One(d = j) + One(i = j)
  BY <1>1, InHand DEF IpPlaces, DpPlaces
<1>4. Locked(me[p]) = 0 /\ "linkNew" \notin {"writeOp", "writei"} /\ me[p].call.op = "link"
  BY <1>2, NoLock DEF Shape
<1>5. /\ Mine(p, k) /\ k \in KernelTypes
      /\ \A j \in Inums : k.itab[j].ref = itab[j].ref /\ itab[j].ref \in Nat
  BY <1>1, <1>3, Locks DEF IpPlaces
<1>6. LastName(p) \in Entries
  <2>1. me[p].path \in Seq(Entries) /\ me[p].path # <<>>
    BY <1>2, MeParts DEF Shape
  <2> QED BY <2>1 DEF LastName
<1>7. old \in Inums \union {0}
  <2>1. k.fs.ents[d] \in [Entries -> Inums \union {0}]
    BY <1>3, <1>5, KernelParts
  <2> HIDE DEF k, d
  <2> QED BY <1>6, <2>1 DEF Dirlookup
<1>8. Mine(p, r.k) /\ \A j \in Inums : r.k.itab[j].ref = k.itab[j].ref
  <2>1. ilk[d] \in {Nobody, p}
    BY <1>1 DEF FreeLock
  <2> QED BY <1>3, <1>5, <1>6, <2>1, MineDirlink
<1>a. me[p].dp = i
  OBVIOUS
<1> HIDE DEF i, d, k, old, r
<1>9. ASSUME NEW j \in Inums
      PROVE  One(cwd[p] = j) \in Int /\ One(i = j) \in Int /\ One(d = j) \in Int
             /\ One(old = j) \in Int /\ itab[j].ref \in Int
  BY <1>5 DEF One
<1>10. ASSUME NEW s \in Seq(Inums), Len(s) <= 2, NEW q, Mine(p, q),
              Does(p, q, Then(p, "linkBad", s)),
              \A j \in Inums : q.itab[j].ref = itab[j].ref + PutCount(s, j) - One(d = j)
       PROVE  Tables'
  <2> DEFINE m == Then(p, "linkBad", s)
  <2>1. /\ m \in MeTypes /\ Shape(m) /\ Locked(m) = 0 /\ m.at = "linkBad"
        /\ \A j \in Inums : Count(m, cwd[p], j) = One(cwd[p] = j) + One(i = j) + PutCount(s, j)
    BY <1>1, <1>3, <1>4, <1>10, <1>a, LinkBadFacts
  <2>2. Does(p, q, m)
    BY <1>10
  <2> HIDE DEF m
  <2>3. ASSUME NEW j \in Inums
        PROVE  q.itab[j].ref = itab[j].ref + Count(m, cwd[p], j) - Count(me[p], cwd[p], j)
    <3> DEFINE c == One(cwd[p] = j)
               x == One(d = j)
               y == One(i = j)
               s0 == PutCount(s, j)
               ref == itab[j].ref
    <3>1. c \in Int /\ x \in Int /\ y \in Int /\ s0 \in Int /\ ref \in Int
      BY <1>9 DEF PutCount, One
    <3>2. /\ q.itab[j].ref = ref + s0 - x /\ Count(me[p], cwd[p], j) = c + x + y
          /\ Count(m, cwd[p], j) = c + y + s0
      BY <1>3, <1>10, <2>1
    <3> HIDE DEF c, x, y, s0, ref
    <3> QED BY <3>1, <3>2 DEF ref
  <2>4. Relocks(p, m) /\ ilk' \in [Inums -> Users \union {Nobody}]
    BY <1>1, <1>2, <1>4, <2>1, RelocksKept
  <2>5. m.at \notin {"writeOp", "writei"}
    BY <2>1
  <2> QED BY <1>1, <1>4, <1>10, <2>1, <2>2, <2>3, <2>4, <2>5, PlaceStep
<1>11. CASE old # 0 /\ Does(p, Iget(k, old), Then(p, "linkBad", <<old, d>>))
  <2> DEFINE s == <<old, d>>
             q == Iget(k, old)
  <2>0. old \in Inums
    BY <1>7, <1>11
  <2>1. s \in Seq(Inums) /\ Len(s) <= 2
        /\ \A j \in Inums : PutCount(s, j) = One(d = j) + One(old = j)
    BY <1>3, <2>0, PutTwo
  <2>2. Mine(p, q) /\ \A j \in Inums : q.itab[j].ref = k.itab[j].ref + One(old = j)
    BY <1>5, <2>0, MineIget
  <2>3. Does(p, q, Then(p, "linkBad", s))
    BY <1>11
  <2> HIDE DEF s, q
  <2>4. \A j \in Inums : q.itab[j].ref = itab[j].ref + PutCount(s, j) - One(d = j)
    BY <1>5, <1>9, <2>1, <2>2
  <2> QED BY <1>10, <2>1, <2>2, <2>3, <2>4
<1>12. CASE r.ok /\ Does(p, r.k, Then(p, "end", <<d, i>>))
  <2> DEFINE s == <<d, i>>
  <2>1. s \in Seq(Inums) /\ Len(s) <= 2
        /\ \A j \in Inums : PutCount(s, j) = One(i = j) + One(d = j)
    BY <1>3, PutTwo
  <2>2. Does(p, r.k, Then(p, "end", s))
    BY <1>12
  <2> HIDE DEF s
  <2>3. ASSUME NEW j \in Inums
        PROVE  r.k.itab[j].ref
                   = itab[j].ref + (One(cwd[p] = j) + PutCount(s, j)) - Count(me[p], cwd[p], j)
    <3>1. PutCount(s, j) = One(i = j) + One(d = j) /\ r.k.itab[j].ref = itab[j].ref
          /\ Count(me[p], cwd[p], j) = One(cwd[p] = j) + One(d = j) + One(i = j)
      BY <1>3, <1>5, <1>8, <2>1
    <3> QED BY <1>9, <3>1
  <2> QED BY <1>1, <1>4, <1>8, <2>1, <2>2, <2>3, EndStep
<1>13. CASE Does(p, r.k, Then(p, "linkBad", <<d>>))
  <2> DEFINE s == <<d>>
  <2>1. s \in Seq(Inums) /\ Len(s) <= 2 /\ \A j \in Inums : PutCount(s, j) = One(d = j)
    BY <1>3, PutOne
  <2>2. Does(p, r.k, Then(p, "linkBad", s))
    BY <1>13
  <2> HIDE DEF s
  <2>3. \A j \in Inums : r.k.itab[j].ref = itab[j].ref + PutCount(s, j) - One(d = j)
    BY <1>5, <1>8, <1>9, <2>1
  <2> QED BY <1>8, <1>10, <2>1, <2>2, <2>3
<1> QED BY <1>1, <1>11, <1>12, <1>13

\* LinkBad keeps the tables: the link taken back is in the copy and on disk.
LEMMA LinkBadStep == ASSUME Tables, NEW p \in Users, LinkBad(p) PROVE Tables'
<1> DEFINE i == me[p].dp
           k == Ilock(K, i)
           d == WithLinks(Ip(k, i), Ip(k, i).nlink - 1)
           u == Iupdate(k, i, d)
           s == <<i>>
<1>1. /\ At(p, "linkBad") /\ FreeLock(i) /\ FilesKept /\ Rest /\ UNCHANGED ilk
      /\ Does(p, u, Then(p, "end", s))
  BY DEF LinkBad, LinkBack, WithLinks
<1>2. me[p] \in MeTypes /\ me[p].at = "linkBad"
  BY <1>1, AtFacts
<1>3. i \in Inums /\ \A j \in Inums : Count(me[p], cwd[p], j) = One(cwd[p] = j) + One(i = j)
  BY <1>1, InHand DEF DpPlaces
<1>4. Locked(me[p]) = 0 /\ "linkBad" \notin {"writeOp", "writei"}
  BY <1>2, NoLock
<1>5. /\ Mine(p, k) /\ k \in KernelTypes
      /\ \A j \in Inums : k.itab[j].ref = itab[j].ref /\ itab[j].ref \in Nat
      /\ Ip(k, i) = k.itab[i].copy /\ Ip(k, i) \in Dinodes
  BY <1>1, <1>3, Locks DEF DpPlaces
<1>6. s \in Seq(Inums) /\ Len(s) <= 2 /\ \A j \in Inums : PutCount(s, j) = One(i = j)
  BY <1>3, PutOne
<1> HIDE DEF i, k, s
<1>7. d \in Dinodes /\ d.type = k.itab[i].copy.type
  <2>1. Ip(k, i).nlink - 1 \in Int
    BY <1>5, DinodeParts
  <2> QED BY <1>5, <2>1, WithLinksFacts
<1> HIDE DEF d
<1>8. ilk[i] \in {Nobody, p}
  BY <1>1 DEF FreeLock
<1>9. Mine(p, u) /\ \A j \in Inums : u.itab[j].ref = k.itab[j].ref
  BY <1>3, <1>5, <1>7, <1>8, MineIupdate
<1> HIDE DEF u
<1>10. ASSUME NEW j \in Inums
       PROVE  One(cwd[p] = j) \in Int /\ One(i = j) \in Int /\ itab[j].ref \in Int
  BY <1>5 DEF One
<1>11. \A j \in Inums : u.itab[j].ref
          = itab[j].ref + (One(cwd[p] = j) + PutCount(s, j)) - Count(me[p], cwd[p], j)
  BY <1>3, <1>5, <1>6, <1>9, <1>10
<1> QED BY <1>1, <1>4, <1>6, <1>9, <1>11, EndStep

\* The end of a call of a process that gives up the lock it has.
LEMMA EndRelocks ==
    ASSUME Tables, NEW p \in Users, NEW a, At(p, a), NEW l \in Inums, Locked(me[p]) = l,
           NEW s \in Seq(Inums), Len(s) <= 2, ilk' = Release({l})
    PROVE  /\ ilk' \in [Inums -> Users \union {Nobody}]
           /\ Relocks(p, Then(p, "end", s))
<1> DEFINE m == Then(p, "end", s)
<1>1. me[p] \in MeTypes /\ FilesTypes /\ LocksOK
  BY AtFacts
<1>2. m \in MeTypes /\ Locked(m) = 0
  BY <1>1, EndShape
<1> HIDE DEF m
<1>3. Relocks(p, m) /\ ilk' \in [Inums -> Users \union {Nobody}]
  BY <1>1, <1>2, RelocksRelease
<1> QED BY <1>3 DEF m

\* The last name of a path that has one.
LEMMA LastNameType ==
    ASSUME Tables, NEW p \in Users, NEW a, At(p, a),
           a \in {"create", "unlink", "linkNew", "unlinkChild", "createNew"}
    PROVE  LastName(p) \in Entries /\ me[p].path # <<>>
<1>1. me[p] \in MeTypes /\ Shape(me[p]) /\ me[p].at = a
  BY AtFacts
<1>2. me[p].path \in Seq(Entries) /\ me[p].path # <<>>
  BY <1>1, MeParts DEF Shape
<1> QED BY <1>2 DEF LastName

\* A process holds the directory d and goes on with inode i.
LEMMA TakingShape ==
    ASSUME NEW m \in MeTypes, m.put = <<>>, m.path # <<>>, NEW a \in {"unlinkChild", "createNew"},
           NEW d \in Inums, NEW i \in Inums
    PROVE  LET n == Taking(m, a, d, i)
           IN  /\ n \in MeTypes /\ Shape(n) /\ Locked(n) = d /\ n.at = a
               /\ \A c : \A j \in Inums :
                    Count(n, c, j) = One(c = j) + One(i = j) + One(d = j)
<1> DEFINE n == Taking(m, a, d, i)
<1>1. a \in Places
  BY DEF Places
<1>2. /\ n \in MeTypes /\ n.at = a /\ n.path = m.path /\ n.ip = i /\ n.dp = d /\ n.put = m.put
  BY <1>1, TakingFacts
<1> HIDE DEF n
<1>3. Len(n.put) <= 2 /\ n.put = <<>> /\ n.path # <<>> /\ n.ip # 0 /\ n.dp # 0
  BY <1>2, Constants
<1>4. Shape(n) /\ Locked(n) = d
  BY <1>2, <1>3 DEF Shape, IpUsed, IpPlaces, DpPlaces, Locked
<1>5. ASSUME NEW c, NEW j \in Inums PROVE Count(n, c, j) = One(c = j) + One(i = j) + One(d = j)
  <2>1. PutCount(n.put, j) = 0
    BY <1>3, PutNone
  <2>2. Count(n, c, j) = One(c = j) + One(i = j) + One(d = j) + 0
    BY <1>2, <2>1, CountAt
  <2>3. One(c = j) \in Int /\ One(i = j) \in Int /\ One(d = j) \in Int
    BY DEF One
  <2> QED BY <2>2, <2>3
<1> QED BY <1>2, <1>4, <1>5 DEF n

\* Unlink keeps the tables: the directory stays locked and the inode gets a reference.
LEMMA UnlinkStep == ASSUME Tables, NEW p \in Users, Unlink(p) PROVE Tables'
<1> DEFINE d == me[p].ip
           k == Ilock(K, d)
           i == Dirlookup(k, d, LastName(p))
           s == <<d>>
           r == Iget(k, i)
           m == Taking(me[p], "unlinkChild", d, i)
<1>1. /\ At(p, "unlink") /\ FreeLock(d) /\ FilesKept /\ Rest
      /\ \/ Does(p, k, Then(p, "end", s)) /\ UNCHANGED ilk
         \/ i # 0 /\ Does(p, r, m) /\ ilk' = Holds(p, d)
  BY DEF Unlink, Taking
<1>2. /\ FilesTypes /\ me[p] \in MeTypes /\ Shape(me[p]) /\ me[p].at = "unlink"
      /\ LocksOK /\ me[p].put = <<>>
  BY <1>1, AtFacts
<1>3. d \in Inums /\ \A j \in Inums : Count(me[p], cwd[p], j) = One(cwd[p] = j) + One(d = j)
  BY <1>1, InHand DEF IpPlaces
<1>4. Locked(me[p]) = 0 /\ "unlink" \notin {"writeOp", "writei"}
  BY <1>2, NoLock
<1>5. /\ Mine(p, k) /\ k \in KernelTypes
      /\ \A j \in Inums : k.itab[j].ref = itab[j].ref /\ itab[j].ref \in Nat
      /\ k.panic = "none" => k.itab[d].valid
  BY <1>1, <1>3, Locks DEF IpPlaces
<1>6. LastName(p) \in Entries /\ me[p].path # <<>>
  BY <1>1, LastNameType
<1>7. i \in Inums \union {0}
  <2>1. k.fs.ents[d] \in [Entries -> Inums \union {0}]
    BY <1>3, <1>5, KernelParts
  <2> HIDE DEF k, d
  <2> QED BY <1>6, <2>1 DEF Dirlookup
<1>8. s \in Seq(Inums) /\ Len(s) <= 2 /\ \A j \in Inums : PutCount(s, j) = One(d = j)
  BY <1>3, PutOne
<1> HIDE DEF i, d, k, s
<1>9. ASSUME NEW j \in Inums
      PROVE  One(cwd[p] = j) \in Int /\ One(i = j) \in Int /\ One(d = j) \in Int
             /\ itab[j].ref \in Int
  BY <1>5 DEF One
<1>10. CASE Does(p, k, Then(p, "end", s)) /\ UNCHANGED ilk
  <2>1. \A j \in Inums : k.itab[j].ref
           = itab[j].ref + (One(cwd[p] = j) + PutCount(s, j)) - Count(me[p], cwd[p], j)
    BY <1>3, <1>5, <1>8, <1>9
  <2> QED BY <1>1, <1>4, <1>5, <1>8, <1>10, <2>1, EndStep
<1>11. CASE i # 0 /\ Does(p, r, m) /\ ilk' = Holds(p, d)
  <2>0. i \in Inums
    BY <1>7, <1>11
  <2>1. /\ Mine(p, r) /\ r.panic = k.panic
        /\ \A j \in Inums : /\ r.itab[j].ref = k.itab[j].ref + One(i = j)
                            /\ r.itab[j].valid = k.itab[j].valid
    BY <1>5, <2>0, MineIget
  <2>2. /\ m \in MeTypes /\ Shape(m) /\ Locked(m) = d /\ m.at = "unlinkChild"
        /\ \A c : \A j \in Inums : Count(m, c, j) = One(c = j) + One(i = j) + One(d = j)
    BY <1>2, <1>3, <1>6, <2>0, TakingShape
  <2> HIDE DEF r, m
  <2>3. Relocks(p, m) /\ ilk' \in [Inums -> Users \union {Nobody}]
    BY <1>1, <1>2, <1>3, <1>4, <1>11, <2>2, RelocksHold
  <2>4. \A j \in Inums :
           r.itab[j].ref = itab[j].ref + Count(m, cwd[p], j) - Count(me[p], cwd[p], j)
    BY <1>3, <1>5, <1>9, <2>1, <2>2
  <2>5. r.panic = "none" /\ Locked(m) # 0 => r.itab[Locked(m)].valid
    BY <1>3, <1>5, <2>1, <2>2
  <2>6. m.at \notin {"writeOp", "writei"}
    BY <2>2
  <2> QED BY <1>1, <1>4, <1>11, <2>1, <2>2, <2>3, <2>4, <2>5, <2>6, PlaceStep
<1> QED BY <1>1, <1>10, <1>11

\* UnlinkLast keeps the tables: the lock is given up, the last inode is put.
LEMMA UnlinkLastStep == ASSUME Tables, NEW p \in Users, UnlinkLast(p) PROVE Tables'
<1> DEFINE i == me[p].ip
           d == WithLinks(Ip(K, i), Ip(K, i).nlink - 1)
           u == Iupdate(K, i, d)
           s == <<i>>
<1>1. /\ At(p, "unlinkLast") /\ FilesKept /\ Rest /\ ilk' = Release({i})
      /\ Does(p, u, Then(p, "end", s))
  BY DEF UnlinkLast, WithLinks
<1>2. me[p] \in MeTypes /\ me[p].at = "unlinkLast" /\ LocksOK /\ K \in KernelTypes
      /\ K.itab = itab
  BY <1>1, AtFacts
<1>3. i \in Inums /\ \A j \in Inums : Count(me[p], cwd[p], j) = One(cwd[p] = j) + One(i = j)
  BY <1>1, InHand DEF IpPlaces
<1>4. Locked(me[p]) = i /\ "unlinkLast" \notin {"writeOp", "writei"}
  BY <1>2 DEF Locked
<1>5. Mine(p, K) /\ \A j \in Inums : K.itab[j].ref = itab[j].ref
  BY <1>1, MineAt
<1>6. s \in Seq(Inums) /\ Len(s) <= 2 /\ \A j \in Inums : PutCount(s, j) = One(i = j)
  BY <1>3, PutOne
<1>7. Ip(K, i) = K.itab[i].copy /\ Ip(K, i) \in Dinodes
  BY <1>2, <1>3, KernelParts DEF Ip
<1> HIDE DEF i, s
<1>8. d \in Dinodes /\ d.type = K.itab[i].copy.type
  <2>1. Ip(K, i).nlink - 1 \in Int
    BY <1>7, DinodeParts
  <2> QED BY <1>7, <2>1, WithLinksFacts
<1> HIDE DEF d
<1>9. ilk[i] \in {Nobody, p}
  BY <1>2, <1>3, <1>4, Constants DEF LocksOK
<1>10. Mine(p, u) /\ \A j \in Inums : u.itab[j].ref = K.itab[j].ref
  BY <1>3, <1>5, <1>8, <1>9, MineIupdate
<1> HIDE DEF u
<1>11. ASSUME NEW j \in Inums
       PROVE  One(cwd[p] = j) \in Int /\ One(i = j) \in Int /\ itab[j].ref \in Int
  BY <1>1, AtFacts DEF One
<1>12. \A j \in Inums : u.itab[j].ref
          = itab[j].ref + (One(cwd[p] = j) + PutCount(s, j)) - Count(me[p], cwd[p], j)
  BY <1>3, <1>5, <1>6, <1>10, <1>11
<1>13. ilk' \in [Inums -> Users \union {Nobody}] /\ Relocks(p, Then(p, "end", s))
  BY <1>1, <1>3, <1>4, <1>6, EndRelocks
<1>14. At(p, "unlinkLast") /\ FilesKept /\ Rest /\ Does(p, u, Then(p, "end", s))
  BY <1>1
<1> QED BY <1>4, <1>6, <1>10, <1>12, <1>13, <1>14, EndAny

\* sys_unlink() has dropped the entry: the inode stays locked, its directory is put.
LEMMA UnlinkLastFacts ==
    ASSUME Tables, NEW p \in Users, NEW a, At(p, a), me[p].ip \in Inums,
           NEW d \in Inums, d # me[p].ip
    PROVE  LET m == Then(p, "unlinkLast", <<d>>)
           IN  /\ m \in MeTypes /\ Shape(m) /\ Locked(m) = me[p].ip /\ m.at = "unlinkLast"
               /\ \A i \in Inums :
                    Count(m, cwd[p], i) = One(cwd[p] = i) + One(me[p].ip = i) + One(d = i)
<1> DEFINE s == <<d>>
           m == Then(p, "unlinkLast", s)
<1>1. me[p] \in MeTypes /\ "unlinkLast" \in Places
  BY AtFacts DEF Places
<1>2. s \in Seq(Inums) /\ Len(s) <= 2 /\ Len(s) <= 1 /\ Head(s) = d
      /\ \A j \in Inums : PutCount(s, j) = One(d = j)
  BY PutOne
<1> HIDE DEF s
<1>3. m \in MeTypes /\ m.at = "unlinkLast" /\ m.put = s /\ m.ip = me[p].ip
  BY <1>1, <1>2, ThenFacts
<1> HIDE DEF m
<1>4. Len(m.put) <= 2 /\ Len(m.put) <= 1 /\ Head(m.put) # m.ip /\ m.ip # 0
  BY <1>2, <1>3, Constants
<1>5. Shape(m) /\ Locked(m) = me[p].ip
  BY <1>3, <1>4 DEF Shape, IpUsed, IpPlaces, DpPlaces, Locked
<1>6. \A j \in Inums :
        Count(m, cwd[p], j) = One(cwd[p] = j) + One(me[p].ip = j) + One(d = j)
  BY <1>2, <1>3, CountAt
<1> QED BY <1>3, <1>5, <1>6 DEF m, s

\* UnlinkChild keeps the tables: the lock moves from the directory to the inode.
LEMMA UnlinkChildStep == ASSUME Tables, NEW p \in Users, UnlinkChild(p) PROVE Tables'
<1> DEFINE d  == me[p].dp
           i  == me[p].ip
           k0 == Ilock(K, i)
           k  == IF Ip(k0, i).nlink < 1 THEN Panic(k0, "unlink") ELSE k0
           w  == SetEnt(k, d, LastName(p), 0)
           e  == WithLinks(Ip(w, d), Ip(w, d).nlink - 1)
           s  == <<i, d>>
           r  == IF Ip(k, i).type = "dir" THEN Iupdate(w, d, e) ELSE w
           m  == Then(p, "unlinkLast", <<d>>)
<1>1. /\ At(p, "unlinkChild") /\ FreeLock(i) /\ FilesKept /\ Rest
      /\ \/ Does(p, k, Then(p, "end", s)) /\ ilk' = Release({d})
         \/ Does(p, r, m) /\ ilk' = [Release({d}) EXCEPT ![i] = p]
  BY DEF UnlinkChild, WithLinks
<1>2. /\ FilesTypes /\ me[p] \in MeTypes /\ me[p].at = "unlinkChild" /\ LocksOK
  BY <1>1, AtFacts
<1>3. d \in Inums /\ i \in Inums
      /\ \A j \in Inums : Count(me[p], cwd[p], j) = One(cwd[p] = j) + One(i = j) + One(d = j)
  BY <1>1, InHand DEF IpPlaces, DpPlaces
<1>4. Locked(me[p]) = d /\ "unlinkChild" \notin {"writeOp", "writei"}
  BY <1>2 DEF Locked
<1>5. /\ Mine(p, k0) /\ k0 \in KernelTypes
      /\ \A j \in Inums : k0.itab[j].ref = itab[j].ref /\ itab[j].ref \in Nat
      /\ k0.panic = "none" => k0.itab[i].valid
  BY <1>1, <1>3, Locks DEF IpPlaces
<1>6. LastName(p) \in Entries
  BY <1>1, LastNameType
<1>7. ilk[d] = p /\ d # i
  BY <1>1, <1>2, <1>3, <1>4, Constants DEF LocksOK, FreeLock
<1>a. me[p].ip = i
  OBVIOUS
<1> HIDE DEF i, d, k0
<1>8. /\ Mine(p, k) /\ k \in KernelTypes /\ k.itab = k0.itab
      /\ k.panic = "none" => k0.panic = "none"
  <2>1. CASE Ip(k0, i).nlink < 1
    <3>1. "unlink" \in Messages
      BY DEF Messages
    <3>2. /\ Panic(k0, "unlink") \in KernelTypes /\ Panic(k0, "unlink").fs = k0.fs
          /\ Panic(k0, "unlink").itab = k0.itab /\ Panic(k0, "unlink").panic = "unlink"
      BY <1>5, <3>1, PanicFacts
    <3>3. k = Panic(k0, "unlink")
      BY <2>1
    <3> HIDE DEF k
    <3>4. Mine(p, k)
      BY <1>5, <3>2, <3>3, MineOther
    <3> QED BY <3>2, <3>3, <3>4
  <2>2. CASE ~(Ip(k0, i).nlink < 1)
    BY <1>5, <2>2
  <2> QED BY <2>1, <2>2
<1> HIDE DEF k
<1>9. /\ Mine(p, w) /\ w \in KernelTypes /\ w.itab = k.itab /\ w.panic = k.panic
  <2>1. /\ w \in KernelTypes /\ w.itab = k.itab /\ w.panic = k.panic /\ w.fs.ino = k.fs.ino
    BY <1>3, <1>6, <1>8, SetEntFacts
  <2> HIDE DEF w
  <2> QED BY <1>8, <2>1, MineOther
<1> HIDE DEF w
<1>10. e \in Dinodes /\ e.type = w.itab[d].copy.type
  <2>1. Ip(w, d) = w.itab[d].copy /\ Ip(w, d) \in Dinodes
    BY <1>3, <1>9, KernelParts DEF Ip
  <2>2. Ip(w, d).nlink - 1 \in Int
    BY <2>1, DinodeParts
  <2> QED BY <2>1, <2>2, WithLinksFacts
<1> HIDE DEF e
<1>11. /\ Mine(p, r) /\ r.panic = w.panic
       /\ \A j \in Inums : r.itab[j].ref = w.itab[j].ref /\ r.itab[j].valid = w.itab[j].valid
  <2>1. CASE Ip(k, i).type = "dir"
    <3> DEFINE u == Iupdate(w, d, e)
    <3>1. ilk[d] \in {Nobody, p}
      BY <1>7
    <3>2. /\ Mine(p, u) /\ u.panic = w.panic
          /\ \A j \in Inums : u.itab[j].ref = w.itab[j].ref /\ u.itab[j].valid = w.itab[j].valid
      BY <1>3, <1>9, <1>10, <3>1, MineIupdate
    <3> QED BY <2>1, <3>2
  <2>2. CASE ~(Ip(k, i).type = "dir")
    BY <1>9, <2>2
  <2> QED BY <2>1, <2>2
<1> HIDE DEF r
<1>12. ASSUME NEW j \in Inums
       PROVE  One(cwd[p] = j) \in Int /\ One(i = j) \in Int /\ One(d = j) \in Int
              /\ itab[j].ref \in Int
  BY <1>5 DEF One
<1>13. CASE Does(p, k, Then(p, "end", s)) /\ ilk' = Release({d})
  <2>1. s \in Seq(Inums) /\ Len(s) <= 2
        /\ \A j \in Inums : PutCount(s, j) = One(d = j) + One(i = j)
    BY <1>3, PutTwo
  <2> HIDE DEF s
  <2>2. ASSUME NEW j \in Inums
        PROVE  k.itab[j].ref
                   = itab[j].ref + (One(cwd[p] = j) + PutCount(s, j)) - Count(me[p], cwd[p], j)
    <3>1. PutCount(s, j) = One(d = j) + One(i = j) /\ k.itab[j].ref = itab[j].ref
          /\ Count(me[p], cwd[p], j) = One(cwd[p] = j) + One(i = j) + One(d = j)
      BY <1>3, <1>5, <1>8, <2>1
    <3> QED BY <1>12, <3>1
  <2>3. ilk' \in [Inums -> Users \union {Nobody}] /\ Relocks(p, Then(p, "end", s))
    BY <1>1, <1>3, <1>4, <1>13, <2>1, EndRelocks
  <2>4. At(p, "unlinkChild") /\ FilesKept /\ Rest /\ Does(p, k, Then(p, "end", s))
    BY <1>1, <1>13
  <2> QED BY <1>4, <1>8, <2>1, <2>2, <2>3, <2>4, EndAny
<1>14. CASE Does(p, r, m) /\ ilk' = [Release({d}) EXCEPT ![i] = p]
  <2>1. /\ m \in MeTypes /\ Shape(m) /\ Locked(m) = i /\ m.at = "unlinkLast"
        /\ \A j \in Inums : Count(m, cwd[p], j) = One(cwd[p] = j) + One(i = j) + One(d = j)
    BY <1>1, <1>3, <1>7, <1>a, UnlinkLastFacts
  <2>2. Does(p, r, m) /\ At(p, "unlinkChild") /\ FilesKept /\ Rest
    BY <1>1, <1>14
  <2> HIDE DEF m
  <2>3. Relocks(p, m) /\ ilk' \in [Inums -> Users \union {Nobody}]
    BY <1>1, <1>2, <1>3, <1>4, <1>14, <2>1, RelocksMove
  <2>4. ASSUME NEW j \in Inums
        PROVE  r.itab[j].ref = itab[j].ref + Count(m, cwd[p], j) - Count(me[p], cwd[p], j)
    <3>1. /\ Count(m, cwd[p], j) = Count(me[p], cwd[p], j) /\ r.itab[j].ref = itab[j].ref
      BY <1>3, <1>5, <1>8, <1>9, <1>11, <2>1
    <3> QED BY <1>12, <3>1, CountType
  <2>5. r.panic = "none" /\ Locked(m) # 0 => r.itab[Locked(m)].valid
    BY <1>3, <1>5, <1>8, <1>9, <1>11, <2>1
  <2>6. m.at \notin {"writeOp", "writei"}
    BY <2>1
  <2> QED BY <1>4, <1>11, <2>1, <2>2, <2>3, <2>4, <2>5, <2>6, PlaceStep
<1> QED BY <1>1, <1>13, <1>14
-----------------------------------------------------------------------------
(* create(), open() and chdir()                                            *)

\* ialloc()
LEMMA MineIalloc ==
    ASSUME CopiesOK, NEW p, NEW k, Mine(p, k), NEW t \in Types
    PROVE  LET r == Ialloc(k, t)
           IN  /\ r.i \in Inums \union {0} /\ r.k.panic = k.panic
               /\ r.i # 0 => /\ Mine(p, r.k)
                             /\ \A j \in Inums : /\ r.k.itab[j].ref = k.itab[j].ref + One(r.i = j)
                                                 /\ r.k.itab[j].valid = k.itab[j].valid
<1> DEFINE r == Ialloc(k, t)
<1>0. k \in KernelTypes
      /\ \A j \in Inums : k.itab[j].ref \in Nat /\ (k.itab[j].ref = 0 => ~k.itab[j].valid)
  BY DEF Mine
<1>1. /\ r.k \in KernelTypes /\ r.i \in Inums \union {0} /\ r.k.panic = k.panic
      /\ r.i # 0 =>
           /\ k.fs.ino[r.i].type = "none"
           /\ r.k.itab[r.i].ref = k.itab[r.i].ref + 1
           /\ k.itab[r.i].ref > 0 => /\ r.k.itab[r.i].valid = k.itab[r.i].valid
                                     /\ r.k.itab[r.i].copy = k.itab[r.i].copy
           /\ k.itab[r.i].ref = 0 => ~r.k.itab[r.i].valid
           /\ \A j \in Inums : j # r.i => /\ r.k.itab[j] = k.itab[j]
                                          /\ r.k.fs.ino[j] = k.fs.ino[j]
  <2>1. \A j \in Inums : k.itab[j].ref >= 0
    BY <1>0
  <2> QED BY <1>0, <2>1, IallocFacts
<1> DEFINE x == r.i
           q == r.k
<1>2. /\ q \in KernelTypes
      /\ \A j \in Inums : q.itab[j].valid \in BOOLEAN /\ k.itab[j].valid \in BOOLEAN
  BY <1>0, <1>1, KernelParts
<1> HIDE DEF r
<1>3. ASSUME x # 0, NEW j \in Inums
      PROVE  /\ q.itab[j].ref = k.itab[j].ref + One(x = j)
             /\ q.itab[j].valid = k.itab[j].valid
             /\ q.itab[j].ref \in Nat /\ (q.itab[j].ref = 0 => ~q.itab[j].valid)
             /\ ilk[j] \in {Nobody, p} => (q.itab[j].valid => /\ q.itab[j].copy = q.fs.ino[j]
                                                              /\ q.fs.ino[j].type # "none")
             /\ ilk[j] \notin {Nobody, p} =>
                   /\ q.itab[j].valid = itab[j].valid
                   /\ \/ BeingFreed(j) \/ ~itab[j].valid
                      \/ q.itab[j].copy = itab[j].copy /\ q.fs.ino[j] = fs.ino[j]
  <2>1. CASE j # x
    <3>1. One(x = j) = 0 /\ q.itab[j] = k.itab[j] /\ q.fs.ino[j] = k.fs.ino[j]
      BY <1>1, <1>3, <2>1 DEF One
    <3> QED BY <1>0, <3>1 DEF Mine
  <2>2. CASE j = x
    <3>1. One(x = j) = 1 /\ x \in Inums
      BY <1>3, <2>2 DEF One
    <3>2. /\ q.itab[x].ref = k.itab[x].ref + 1 /\ k.fs.ino[x].type = "none"
          /\ k.itab[x].ref > 0 => q.itab[x].valid = k.itab[x].valid
          /\ k.itab[x].ref = 0 => ~q.itab[x].valid
      BY <1>1, <1>3
    <3>3. q.itab[x].valid = k.itab[x].valid
      <4>1. CASE k.itab[x].ref > 0
        BY <3>2, <4>1
      <4>2. CASE k.itab[x].ref = 0
        <5>1. ~q.itab[x].valid /\ ~k.itab[x].valid
          BY <1>0, <3>1, <3>2, <4>2
        <5> QED BY <1>2, <3>1, <5>1, Zenon
      <4> QED BY <1>0, <3>1, <4>1, <4>2
    <3>4. q.itab[x].ref \in Nat /\ q.itab[x].ref # 0 /\ q.itab[x].ref = k.itab[x].ref + One(x = j)
      BY <1>0, <3>1, <3>2
    <3>5. ilk[x] \in {Nobody, p} => ~q.itab[x].valid
      BY <3>1, <3>2, <3>3 DEF Mine
    <3>6. ilk[x] \notin {Nobody, p} =>
             /\ q.itab[x].valid = itab[x].valid
             /\ BeingFreed(x) \/ ~ itab[x].valid
      BY <3>1, <3>2, <3>3 DEF Mine, CopiesOK, CopyOK
    <3> QED BY <2>2, <3>3, <3>4, <3>5, <3>6
  <2> QED BY <2>1, <2>2
<1>4. x # 0 => Mine(p, q)
  BY <1>1, <1>3 DEF Mine
<1> QED BY <1>1, <1>3, <1>4 DEF r

\* A process that has its inode locked, and may have an iput() to do.
LEMMA HeldFacts ==
    ASSUME Tables, NEW p \in Users, NEW a, At(p, a), me[p].ip \in Inums,
           NEW b \in {"openFile", "made"}, NEW s \in Seq(Inums), Len(s) <= 1,
           s # <<>> => Head(s) # me[p].ip
    PROVE  LET m == Then(p, b, s)
           IN  /\ m \in MeTypes /\ Shape(m) /\ Locked(m) = me[p].ip /\ m.at = b
               /\ \A i \in Inums :
                    Count(m, cwd[p], i) = One(cwd[p] = i) + One(me[p].ip = i) + PutCount(s, i)
<1> DEFINE m == Then(p, b, s)
<1>1. me[p] \in MeTypes /\ b \in Places /\ b # "end"
  BY AtFacts DEF Places
<1>3. m \in MeTypes /\ m.at = b /\ m.put = s /\ m.ip = me[p].ip
  BY <1>1, ThenFacts
<1> HIDE DEF m
<1>4. Len(m.put) <= 2 /\ Len(m.put) <= 1 /\ (m.put # <<>> => Head(m.put) # m.ip) /\ m.ip # 0
  <2>1. Len(s) \in Nat
    OBVIOUS
  <2> DEFINE n == Len(s)
  <2> HIDE DEF n
  <2>2. n <= 1 /\ n \in Nat
    BY <2>1 DEF n
  <2>3. n <= 2
    BY <2>2
  <2> QED BY <1>3, <2>2, <2>3, Constants DEF n
<1>5. Shape(m) /\ Locked(m) = me[p].ip
  BY <1>3, <1>4 DEF Shape, IpUsed, IpPlaces, DpPlaces, Locked
<1>6. \A j \in Inums :
        Count(m, cwd[p], j) = One(cwd[p] = j) + One(me[p].ip = j) + PutCount(s, j)
  BY <1>1, <1>3, CountAt
<1> QED BY <1>3, <1>5, <1>6 DEF m

\* create() finds the name: the directory is put, the inode is taken.
WithIp(m, i) == [m EXCEPT !.ip = i]

\* A process that goes on with an inode that exists and puts its directory.
LEMMA CreateOldFacts ==
    ASSUME Tables, NEW p \in Users, NEW a, At(p, a), NEW d \in Inums, NEW i \in Inums
    PROVE  LET m == WithIp(Then(p, "createOld", <<d>>), i)
           IN  /\ m \in MeTypes /\ Shape(m) /\ Locked(m) = 0 /\ m.at = "createOld"
               /\ \A j \in Inums :
                    Count(m, cwd[p], j) = One(cwd[p] = j) + One(i = j) + One(d = j)
<1> DEFINE s == <<d>>
           n == Then(p, "createOld", s)
           m == WithIp(n, i)
<1>1. me[p] \in MeTypes /\ "createOld" \in Places
  BY AtFacts DEF Places
<1>2. s \in Seq(Inums) /\ Len(s) <= 2 /\ \A j \in Inums : PutCount(s, j) = One(d = j)
  BY PutOne
<1> HIDE DEF s
<1>3. n \in MeTypes /\ n.at = "createOld" /\ n.put = s
  BY <1>1, <1>2, ThenFacts
<1> HIDE DEF n
<1>4. m \in MeTypes /\ m.at = "createOld" /\ m.put = s /\ m.ip = i
  BY <1>3 DEF WithIp, MeTypes
<1> HIDE DEF m
<1>5. Shape(m) /\ Locked(m) = 0
  BY <1>2, <1>4, Constants DEF Shape, IpUsed, IpPlaces, DpPlaces, Locked
<1>6. \A j \in Inums : Count(m, cwd[p], j) = One(cwd[p] = j) + One(i = j) + One(d = j)
  BY <1>2, <1>4, CountAt
<1> QED BY <1>4, <1>5, <1>6 DEF m, n, s

\* Create keeps the tables: the inode found or allocated gets a reference.
LEMMA CreateStep == ASSUME Tables, NEW p \in Users, Create(p) PROVE Tables'
<1> DEFINE d == me[p].ip
           k == Ilock(K, d)
           old == Dirlookup(k, d, LastName(p))
           t == TypeOf(me[p].call.op)
           new == Ialloc(k, t)
           s == <<d>>
           m1 == WithIp(Then(p, "createOld", s), old)
           m3 == Taking(me[p], "createNew", d, new.i)
<1>1. /\ At(p, "create") /\ FreeLock(d) /\ FilesKept /\ Rest
      /\ \/ old # 0 /\ Does(p, Iget(k, old), m1) /\ UNCHANGED ilk
         \/ Does(p, k, Then(p, "end", s)) /\ UNCHANGED ilk
         \/ new.i # 0 /\ Does(p, new.k, m3) /\ ilk' = Holds(p, d)
  BY DEF Create, Taking, WithIp
<1>2. /\ FilesTypes /\ me[p] \in MeTypes /\ Shape(me[p]) /\ me[p].at = "create"
      /\ LocksOK /\ CopiesOK /\ me[p].put = <<>>
  BY <1>1, AtFacts
<1>3. d \in Inums /\ \A j \in Inums : Count(me[p], cwd[p], j) = One(cwd[p] = j) + One(d = j)
  BY <1>1, InHand DEF IpPlaces
<1>4. Locked(me[p]) = 0 /\ "create" \notin {"writeOp", "writei"}
  BY <1>2, NoLock
<1>5. /\ Mine(p, k) /\ k \in KernelTypes
      /\ \A j \in Inums : k.itab[j].ref = itab[j].ref /\ itab[j].ref \in Nat
      /\ k.panic = "none" => k.itab[d].valid
  BY <1>1, <1>3, Locks DEF IpPlaces
<1>6. LastName(p) \in Entries /\ me[p].path # <<>>
  BY <1>1, LastNameType
<1>7. old \in Inums \union {0}
  <2>1. k.fs.ents[d] \in [Entries -> Inums \union {0}]
    BY <1>3, <1>5, KernelParts
  <2> HIDE DEF k, d
  <2> QED BY <1>6, <2>1 DEF Dirlookup
<1>8. s \in Seq(Inums) /\ Len(s) <= 2 /\ \A j \in Inums : PutCount(s, j) = One(d = j)
  BY <1>3, PutOne
<1>t. t \in Types
  BY <1>2 DEF Shape, TypeOf, Types
<1>s. s = <<d>>
  OBVIOUS
<1> HIDE DEF old, d, k, s, t
<1>9. ASSUME NEW j \in Inums
      PROVE  One(cwd[p] = j) \in Int /\ One(old = j) \in Int /\ One(d = j) \in Int
             /\ One(new.i = j) \in Int /\ itab[j].ref \in Int
  BY <1>5 DEF One
<1>10. CASE Does(p, k, Then(p, "end", s)) /\ UNCHANGED ilk
  <2>1. \A j \in Inums : k.itab[j].ref
           = itab[j].ref + (One(cwd[p] = j) + PutCount(s, j)) - Count(me[p], cwd[p], j)
    BY <1>3, <1>5, <1>8, <1>9
  <2> QED BY <1>1, <1>4, <1>5, <1>8, <1>10, <2>1, EndStep
<1>11. CASE old # 0 /\ Does(p, Iget(k, old), m1) /\ UNCHANGED ilk
  <2> DEFINE r == Iget(k, old)
             m == m1
  <2>0. old \in Inums
    BY <1>7, <1>11
  <2>1. /\ Mine(p, r) /\ r.panic = k.panic
        /\ \A j \in Inums : r.itab[j].ref = k.itab[j].ref + One(old = j)
    BY <1>5, <2>0, MineIget
  <2>2. /\ m \in MeTypes /\ Shape(m) /\ Locked(m) = 0 /\ m.at = "createOld"
        /\ \A j \in Inums : Count(m, cwd[p], j) = One(cwd[p] = j) + One(old = j) + One(d = j)
    BY <1>1, <1>3, <1>s, <2>0, CreateOldFacts
  <2>3. Does(p, r, m)
    BY <1>11
  <2> HIDE DEF r, m
  <2>4. Relocks(p, m) /\ ilk' \in [Inums -> Users \union {Nobody}]
    BY <1>2, <1>4, <1>11, <2>2, RelocksKept
  <2>5. \A j \in Inums :
           r.itab[j].ref = itab[j].ref + Count(m, cwd[p], j) - Count(me[p], cwd[p], j)
    BY <1>3, <1>5, <1>9, <2>1, <2>2
  <2>6. r.panic = "none" /\ Locked(m) # 0 => r.itab[Locked(m)].valid
    BY <2>2
  <2>7. m.at \notin {"writeOp", "writei"}
    BY <2>2
  <2> QED BY <1>1, <1>4, <2>1, <2>2, <2>3, <2>4, <2>5, <2>6, <2>7, PlaceStep
<1>12. CASE new.i # 0 /\ Does(p, new.k, m3) /\ ilk' = Holds(p, d)
  <2> DEFINE r == new.k
             i == new.i
             m == Taking(me[p], "createNew", d, i)
  <2>1. /\ i \in Inums /\ Mine(p, r) /\ r.panic = k.panic
        /\ \A j \in Inums : /\ r.itab[j].ref = k.itab[j].ref + One(i = j)
                            /\ r.itab[j].valid = k.itab[j].valid
    BY <1>2, <1>5, <1>12, <1>t, MineIalloc
  <2>2. Does(p, r, m)
    BY <1>12
  <2>3. \A j \in Inums : One(i = j) \in Int
    BY <1>9
  <2> HIDE DEF r, i
  <2>4. /\ m \in MeTypes /\ Shape(m) /\ Locked(m) = d /\ m.at = "createNew"
        /\ \A c : \A j \in Inums : Count(m, c, j) = One(c = j) + One(i = j) + One(d = j)
    BY <1>2, <1>3, <1>6, <2>1, TakingShape
  <2> HIDE DEF m
  <2>5. Relocks(p, m) /\ ilk' \in [Inums -> Users \union {Nobody}]
    BY <1>1, <1>2, <1>3, <1>4, <1>12, <2>4, RelocksHold
  <2>6. \A j \in Inums :
           r.itab[j].ref = itab[j].ref + Count(m, cwd[p], j) - Count(me[p], cwd[p], j)
    BY <1>3, <1>5, <1>9, <2>1, <2>3, <2>4
  <2>7. r.panic = "none" /\ Locked(m) # 0 => r.itab[Locked(m)].valid
    BY <1>3, <1>5, <2>1, <2>4
  <2>8. m.at \notin {"writeOp", "writei"}
    BY <2>4
  <2> QED BY <1>1, <1>4, <2>1, <2>2, <2>4, <2>5, <2>6, <2>7, <2>8, PlaceStep
<1> QED BY <1>1, <1>10, <1>11, <1>12

\* A process locks the inode in hand, and goes on with it or gives the call up.
LEMMA OpenOrEnd ==
    ASSUME Tables, NEW p \in Users, NEW a, At(p, a),
           a \in {"createOld", "read", "rdwr", "trunc"}, FreeLock(me[p].ip), FilesKept, Rest,
           LET k == Ilock(K, me[p].ip)
           IN  \/ Does(p, k, Then(p, "openFile", <<>>)) /\ ilk' = Holds(p, me[p].ip)
               \/ Does(p, k, Then(p, "end", <<me[p].ip>>)) /\ UNCHANGED ilk
    PROVE  Tables'
<1> DEFINE i == me[p].ip
           k == Ilock(K, i)
           s == <<i>>
           m == Then(p, "openFile", <<>>)
<1>2. /\ FilesTypes /\ me[p] \in MeTypes /\ me[p].at = a /\ LocksOK
  BY AtFacts
<1>3. i \in Inums /\ \A j \in Inums : Count(me[p], cwd[p], j) = One(cwd[p] = j) + One(i = j)
  BY InHand DEF IpPlaces
<1>4. Locked(me[p]) = 0 /\ a \notin {"writeOp", "writei"}
  BY <1>2, NoLock
<1>5. /\ Mine(p, k) /\ k \in KernelTypes
      /\ \A j \in Inums : k.itab[j].ref = itab[j].ref /\ itab[j].ref \in Nat
      /\ k.panic = "none" => k.itab[i].valid
  BY <1>3, Locks DEF IpPlaces
<1>6. s \in Seq(Inums) /\ Len(s) <= 2 /\ \A j \in Inums : PutCount(s, j) = One(i = j)
  BY <1>3, PutOne
<1>7. ASSUME NEW j \in Inums
      PROVE  One(cwd[p] = j) \in Int /\ One(i = j) \in Int /\ itab[j].ref \in Int
  BY <1>5 DEF One
<1>8. CASE Does(p, k, Then(p, "end", s)) /\ UNCHANGED ilk
  <2> HIDE DEF i, k, s
  <2>1. \A j \in Inums : k.itab[j].ref
           = itab[j].ref + (One(cwd[p] = j) + PutCount(s, j)) - Count(me[p], cwd[p], j)
    BY <1>3, <1>5, <1>6, <1>7
  <2> QED BY <1>4, <1>5, <1>6, <1>8, <2>1, EndStep
<1>9. CASE Does(p, k, m) /\ ilk' = Holds(p, i)
  <2>1. /\ m \in MeTypes /\ Shape(m) /\ Locked(m) = i /\ m.at = "openFile"
        /\ \A j \in Inums : Count(m, cwd[p], j) = One(cwd[p] = j) + One(i = j)
    <3> DEFINE e == <<>>
    <3>1. e \in Seq(Inums) /\ Len(e) <= 1 /\ (e # <<>> => Head(e) # me[p].ip)
          /\ \A j \in Inums : PutCount(e, j) = 0
      BY PutNone
    <3>2. m = Then(p, "openFile", e)
      OBVIOUS
    <3> HIDE DEF e, m
    <3>3. /\ m \in MeTypes /\ Shape(m) /\ Locked(m) = me[p].ip /\ m.at = "openFile"
          /\ \A j \in Inums :
                Count(m, cwd[p], j) = One(cwd[p] = j) + One(me[p].ip = j) + PutCount(e, j)
      BY <1>3, <3>1, <3>2, HeldFacts
    <3> QED BY <1>7, <3>1, <3>3
  <2>0. FreeLock(i)
    OBVIOUS
  <2> HIDE DEF i, k, m
  <2>2. Relocks(p, m) /\ ilk' \in [Inums -> Users \union {Nobody}]
    BY <1>2, <1>3, <1>4, <1>9, <2>0, <2>1, RelocksHold
  <2>3. \A j \in Inums :
           k.itab[j].ref = itab[j].ref + Count(m, cwd[p], j) - Count(me[p], cwd[p], j)
    BY <1>3, <1>5, <1>7, <2>1
  <2>4. k.panic = "none" /\ Locked(m) # 0 => k.itab[Locked(m)].valid
    BY <1>5, <2>1
  <2>5. m.at \notin {"writeOp", "writei"}
    BY <2>1
  <2> QED BY <1>4, <1>5, <1>9, <2>1, <2>2, <2>3, <2>4, <2>5, PlaceStep
<1> QED BY <1>8, <1>9

\* CreateOld keeps the tables: the inode is locked for its file, or put.
LEMMA CreateOldStep == ASSUME Tables, NEW p \in Users, CreateOld(p) PROVE Tables'
<1>1. /\ At(p, "createOld") /\ FreeLock(me[p].ip) /\ FilesKept /\ Rest
      /\ LET k == Ilock(K, me[p].ip)
         IN  \/ Does(p, k, Then(p, "openFile", <<>>)) /\ ilk' = Holds(p, me[p].ip)
             \/ Does(p, k, Then(p, "end", <<me[p].ip>>)) /\ UNCHANGED ilk
  BY DEF CreateOld
<1>2. "createOld" \in {"createOld", "read", "rdwr", "trunc"}
  OBVIOUS
<1> QED BY <1>1, <1>2, OpenOrEnd

\* Open keeps the tables: the inode is locked for its file, or put.
LEMMA OpenStep == ASSUME Tables, NEW p \in Users, Open(p) PROVE Tables'
<1>1. /\ At(p, me[p].at) /\ FreeLock(me[p].ip) /\ FilesKept /\ Rest
      /\ LET k == Ilock(K, me[p].ip)
         IN  \/ Does(p, k, Then(p, "openFile", <<>>)) /\ ilk' = Holds(p, me[p].ip)
             \/ Does(p, k, Then(p, "end", <<me[p].ip>>)) /\ UNCHANGED ilk
  BY DEF Open
<1>2. me[p].at \in {"createOld", "read", "rdwr", "trunc"}
  BY DEF Open
<1> QED BY <1>1, <1>2, OpenOrEnd

\* The lock of an inode in hand is released and the inode put.
LEMMA ReleaseStep ==
    ASSUME Tables, NEW p \in Users, NEW a, At(p, a), NEW i,
           \/ a \in {"made", "openFile"} /\ i = me[p].ip
           \/ a = "createFail" /\ i = me[p].dp,
           Does(p, K, Then(p, "end", <<i>>)), FilesKept, Rest,
           ilk' \in [Inums -> Users \union {Nobody}], Relocks(p, Then(p, "end", <<i>>))
    PROVE  Tables'
<1> DEFINE s == <<i>>
<1>2. /\ FilesTypes /\ me[p] \in MeTypes /\ me[p].at = a /\ LocksOK
  BY AtFacts
<1>3. i \in Inums /\ \A j \in Inums : Count(me[p], cwd[p], j) = One(cwd[p] = j) + One(i = j)
  BY InHand DEF IpPlaces, DpPlaces
<1>4. a \notin {"writeOp", "writei"} /\ a # "writei"
  OBVIOUS
<1>5. /\ Mine(p, K) /\ \A j \in Inums : K.itab[j].ref = itab[j].ref
  BY <1>4, MineAt
<1>6. s \in Seq(Inums) /\ Len(s) <= 2 /\ \A j \in Inums : PutCount(s, j) = One(i = j)
  BY <1>3, PutOne
<1>8. Does(p, K, Then(p, "end", s)) /\ Relocks(p, Then(p, "end", s))
  OBVIOUS
<1> HIDE DEF s
<1>7. ASSUME NEW j \in Inums
      PROVE  One(cwd[p] = j) \in Int /\ One(i = j) \in Int /\ itab[j].ref \in Int
  BY AtFacts DEF One
<1>9. \A j \in Inums : K.itab[j].ref
         = itab[j].ref + (One(cwd[p] = j) + PutCount(s, j)) - Count(me[p], cwd[p], j)
  BY <1>3, <1>5, <1>6, <1>7
<1> QED BY <1>4, <1>5, <1>6, <1>8, <1>9, EndAny

\* The locks after the inode of Made and CreateFail is released.
LEMMA ReleaseRelocks ==
    ASSUME Tables, NEW p \in Users, NEW a, At(p, a), NEW i,
           \/ a \in {"made", "openFile"} /\ i = me[p].ip
           \/ a = "createFail" /\ i = me[p].dp,
           ilk' = Release({i})
    PROVE  ilk' \in [Inums -> Users \union {Nobody}] /\ Relocks(p, Then(p, "end", <<i>>))
<1> DEFINE s == <<i>>
<1>2. me[p] \in MeTypes /\ me[p].at = a
  BY AtFacts
<1>3. i \in Inums
  BY InHand DEF IpPlaces, DpPlaces
<1>4. Locked(me[p]) = i
  BY <1>2 DEF Locked
<1>6. s \in Seq(Inums) /\ Len(s) <= 2
  BY <1>3
<1> HIDE DEF s
<1>10. ilk' \in [Inums -> Users \union {Nobody}] /\ Relocks(p, Then(p, "end", s))
  BY <1>3, <1>4, <1>6, EndRelocks
<1> QED BY <1>10 DEF s

\* Made keeps the tables: the new inode is unlocked and put.
LEMMA MadeStep == ASSUME Tables, NEW p \in Users, Made(p) PROVE Tables'
<1> DEFINE i == me[p].ip
<1>1. At(p, "made") /\ Does(p, K, Then(p, "end", <<i>>)) /\ FilesKept /\ Rest /\ ilk' = Release({i})
  BY DEF Made
<1> HIDE DEF i
<1>2. ilk' \in [Inums -> Users \union {Nobody}] /\ Relocks(p, Then(p, "end", <<i>>))
  BY <1>1, ReleaseRelocks DEF i
<1>3. At(p, "made") /\ Does(p, K, Then(p, "end", <<i>>)) /\ FilesKept /\ Rest
  BY <1>1
<1> QED BY <1>2, <1>3, ReleaseStep DEF i

\* CreateFail keeps the tables: the directory is unlocked and put.
LEMMA CreateFailStep == ASSUME Tables, NEW p \in Users, CreateFail(p) PROVE Tables'
<1> DEFINE i == me[p].dp
<1>1. At(p, "createFail") /\ Does(p, K, Then(p, "end", <<i>>)) /\ FilesKept /\ Rest
      /\ ilk' = Release({i})
  BY DEF CreateFail
<1> HIDE DEF i
<1>2. ilk' \in [Inums -> Users \union {Nobody}] /\ Relocks(p, Then(p, "end", <<i>>))
  BY <1>1, ReleaseRelocks DEF i
<1>3. At(p, "createFail") /\ Does(p, K, Then(p, "end", <<i>>)) /\ FilesKept /\ Rest
  BY <1>1
<1> QED BY <1>2, <1>3, ReleaseStep DEF i
-----------------------------------------------------------------------------
(* Calls on open files                                                     *)

\* sys_chdir() has found a directory: its reference becomes that of the process, and
\* the old one's is put.
LEMMA ChdirFacts ==
    ASSUME Tables, NEW p \in Users, At(p, "chdir")
    PROVE  LET m == Then(p, "chdirEnd", <<cwd[p]>>)
           IN  /\ m \in MeTypes /\ Shape(m) /\ Locked(m) = 0 /\ m.at = "chdirEnd"
               /\ \A i \in Inums :
                    Count(m, cwd[p], i) = One(me[p].ip = i) + One(cwd[p] = i)
<1> DEFINE s == <<cwd[p]>>
           m == Then(p, "chdirEnd", s)
<1>1. me[p] \in MeTypes /\ "chdirEnd" \in Places /\ cwd[p] \in Inums
  BY AtFacts DEF Places
<1>2. s \in Seq(Inums) /\ Len(s) <= 2 /\ \A j \in Inums : PutCount(s, j) = One(cwd[p] = j)
  BY <1>1, PutOne
<1>3. me[p].ip \in Inums
  BY InHand DEF IpPlaces
<1> HIDE DEF s
<1>4. m \in MeTypes /\ m.at = "chdirEnd" /\ m.put = s /\ m.ip = me[p].ip
  BY <1>1, <1>2, ThenFacts
<1> HIDE DEF m
<1>5. Shape(m) /\ Locked(m) = 0
  BY <1>2, <1>3, <1>4, Constants DEF Shape, IpUsed, IpPlaces, DpPlaces, Locked
<1>6. \A j \in Inums : Count(m, cwd[p], j) = One(me[p].ip = j) + One(cwd[p] = j)
  BY <1>2, <1>4, CountAt
<1> QED BY <1>4, <1>5, <1>6 DEF m, s

\* Chdir keeps the tables.
LEMMA ChdirStep == ASSUME Tables, NEW p \in Users, Chdir(p) PROVE Tables'
<1> DEFINE i == me[p].ip
           k == Ilock(K, i)
           s == <<i>>
           m == Then(p, "chdirEnd", <<cwd[p]>>)
<1>1. /\ At(p, "chdir") /\ FreeLock(i) /\ FilesKept /\ Rest /\ UNCHANGED ilk
      /\ Does(p, k, m) \/ Does(p, k, Then(p, "end", s))
  BY DEF Chdir
<1>2. /\ FilesTypes /\ me[p] \in MeTypes /\ me[p].at = "chdir" /\ LocksOK
  BY <1>1, AtFacts
<1>3. i \in Inums /\ \A j \in Inums : Count(me[p], cwd[p], j) = One(cwd[p] = j) + One(i = j)
  BY <1>1, InHand DEF IpPlaces
<1>4. Locked(me[p]) = 0 /\ "chdir" \notin {"writeOp", "writei"}
  BY <1>2, NoLock
<1>5. /\ Mine(p, k) /\ k \in KernelTypes
      /\ \A j \in Inums : k.itab[j].ref = itab[j].ref /\ itab[j].ref \in Nat
  BY <1>1, <1>3, Locks DEF IpPlaces
<1>6. s \in Seq(Inums) /\ Len(s) <= 2 /\ \A j \in Inums : PutCount(s, j) = One(i = j)
  BY <1>3, PutOne
<1>7. ASSUME NEW j \in Inums
      PROVE  One(cwd[p] = j) \in Int /\ One(i = j) \in Int /\ itab[j].ref \in Int
  BY <1>5 DEF One
<1>8. /\ m \in MeTypes /\ Shape(m) /\ Locked(m) = 0 /\ m.at = "chdirEnd"
      /\ \A j \in Inums : Count(m, cwd[p], j) = One(i = j) + One(cwd[p] = j)
  BY <1>1, ChdirFacts
<1> HIDE DEF i, k, s, m
<1>9. CASE Does(p, k, Then(p, "end", s))
  <2>1. \A j \in Inums : k.itab[j].ref
           = itab[j].ref + (One(cwd[p] = j) + PutCount(s, j)) - Count(me[p], cwd[p], j)
    BY <1>3, <1>5, <1>6, <1>7
  <2> QED BY <1>1, <1>4, <1>5, <1>6, <1>9, <2>1, EndStep
<1>10. CASE Does(p, k, m)
  <2>1. \A j \in Inums :
           k.itab[j].ref = itab[j].ref + Count(m, cwd[p], j) - Count(me[p], cwd[p], j)
    BY <1>3, <1>5, <1>7, <1>8
  <2>2. Relocks(p, m) /\ ilk' \in [Inums -> Users \union {Nobody}]
    BY <1>1, <1>2, <1>4, <1>8, RelocksKept
  <2>3. m.at \notin {"writeOp", "writei"}
    BY <1>8
  <2> QED BY <1>1, <1>4, <1>5, <1>8, <1>10, <2>1, <2>2, <2>3, PlaceStep
<1> QED BY <1>1, <1>9, <1>10
-----------------------------------------------------------------------------
(* Steps that change the file table                                        *)

\* The current directory of p is c, and the files are in order.
Around(p, c) ==
    /\ boot' = boot /\ disk' \in FsTypes /\ inTx' \in SUBSET Users
    /\ ilk' \in [Inums -> Users \union {Nobody}]
    /\ cwd' = [cwd EXCEPT ![p] = c]
    /\ ofile' \in [Users -> [1 .. NOFile -> 0 .. NFile]]
    /\ ftable' \in [1 .. NFile -> FileTypes]
    /\ FilesOK' /\ \A q \in Users : WritesFile(q)'

\* The entry of inode i in memory fits what refers to it.
RefFits(p, m, k, c, i) ==
    /\ k.itab[i].ref = itab[i].ref + (Count(m, c, i) - Count(me[p], cwd[p], i))
                       + (Cardinality(Opens(i))' - Cardinality(Opens(i)))
    /\ k.itab[i].ref = 0 => ~k.itab[i].valid

\* A step of a process that may change current directory, descriptors and files.
LEMMA FilesStep ==
    ASSUME Tables, boot = 0, panic = "none", NEW p \in Users, NEW m \in MeTypes,
           NEW k \in KernelTypes, Does(p, k, m), NEW c \in Inums, Around(p, c),
           Shape(m), Relocks(p, m), \A i \in Inums : ~Frees(p, i),
           \A i \in Inums : Fits(p, m, k, i) /\ RefFits(p, m, k, c, i),
           k.panic = "none" /\ Locked(m) # 0 => k.itab[Locked(m)].valid
    PROVE  Tables'
<1>0. /\ boot' = boot /\ disk' \in FsTypes /\ inTx' \in SUBSET Users
      /\ ilk' \in [Inums -> Users \union {Nobody}]
      /\ cwd' = [cwd EXCEPT ![p] = c]
      /\ ofile' \in [Users -> [1 .. NOFile -> 0 .. NFile]]
      /\ ftable' \in [1 .. NFile -> FileTypes]
      /\ FilesOK' /\ \A q \in Users : WritesFile(q)'
  BY DEF Around
<1>1. /\ fs' = k.fs /\ itab' = k.itab /\ panic' = k.panic /\ me' = [me EXCEPT ![p] = m]
  BY DEF Does
<1>2. FilesTypes /\ LocksOK /\ CopiesOK /\ FilesOK /\ RefsOK
      /\ \A q \in Users : Shape(me[q]) /\ WritesFile(q)
  BY DEF Tables
<1>3. me'[p] = m /\ \A q \in Users : q # p => me'[q] = me[q]
  BY <1>1, <1>2, FilesTypesParts
<1>4. FilesTypes'
  <2>1. me' \in [Users -> MeTypes] /\ cwd' \in [Users -> Inums]
    BY <1>0, <1>1, <1>2, FilesTypesParts
  <2>2. fs' \in FsTypes /\ panic' \in Messages /\ itab' \in [Inums -> EntryTypes]
    BY <1>1, KernelParts
  <2>3. boot' \in 0 .. NInodes + 1
    BY <1>0, <1>2 DEF FilesTypes
  <2> QED BY <1>0, <2>1, <2>2, <2>3 DEF FilesTypes
<1>5. LocksOK'
  BY <1>1, <1>2, LocksStep
<1>6. CopiesOK'
  <2>1. \A i \in Inums : Fits(p, m, k, i) /\ (k.itab[i].ref = 0 => ~k.itab[i].valid)
    BY DEF RefFits
  <2> QED BY <1>1, <1>2, <2>1, CopiesStep
<1>8. RefsOK'
  <2>1. ASSUME NEW i \in Inums
        PROVE  itab'[i].ref = Cardinality(Uses(i))' + Cardinality(Opens(i))'
    <3>1. IsFiniteSet(Opens(i))' /\ (Cardinality(Opens(i)) \in Nat)'
      <4>1. Opens(i)' \subseteq 1 .. NFile
        BY DEF Opens
      <4>2. 1 \in Int /\ NFile \in Int
        BY FilesAssumption
      <4>3. IsFiniteSet(1 .. NFile)
        BY <4>2, FS_Interval
      <4> QED BY <4>1, <4>3, FS_Subset, FS_CardinalityType
    <3>2. DOMAIN me = Users /\ DOMAIN cwd = Users
      BY <1>2, FilesTypesParts
    <3>3. /\ Cardinality(Uses(i))' - Cardinality(Uses(i))
                = Count(m, c, i) - Count(me[p], cwd[p], i)
          /\ Cardinality(Uses(i)) \in Nat /\ Cardinality(Uses(i))' \in Nat
      BY <1>0, <1>1, <3>2, UsesStep
    <3>4. itab[i].ref = Cardinality(Uses(i)) + Cardinality(Opens(i))
          /\ Cardinality(Opens(i)) \in Nat
      BY <1>2, OpensFinite DEF RefsOK
    <3>5. k.itab[i].ref = itab[i].ref + (Count(m, c, i) - Count(me[p], cwd[p], i))
                          + (Cardinality(Opens(i))' - Cardinality(Opens(i)))
      BY DEF RefFits
    <3>6. Count(m, c, i) \in Nat /\ Count(me[p], cwd[p], i) \in Nat
      BY CountType
    <3> DEFINE u == Cardinality(Uses(i))
               v == Cardinality(Uses(i))'
               o == Cardinality(Opens(i))
               w == Cardinality(Opens(i))'
               a == Count(m, c, i)
               b == Count(me[p], cwd[p], i)
    <3>7. /\ v - u = a - b /\ u \in Nat /\ v \in Nat /\ o \in Nat /\ a \in Nat /\ b \in Nat
          /\ w \in Nat /\ k.itab[i].ref = (u + o) + (a - b) + (w - o)
      BY <3>1, <3>3, <3>4, <3>5, <3>6
    <3> HIDE DEF u, v, o, w, a, b
    <3>8. k.itab[i].ref = v + w
      BY <3>7
    <3> QED BY <1>1, <3>8 DEF v, w
  <2> QED BY <2>1 DEF RefsOK
<1>9. ASSUME NEW q \in Users PROVE Shape(me'[q])
  BY <1>2, <1>3
<1>10. BootOK'
  BY <1>0 DEF BootOK
<1> QED BY <1>0, <1>4, <1>5, <1>6, <1>8, <1>9, <1>10 DEF Tables

\* The files that have the inode of another file stay as many.
LEMMA OpensKept ==
    ASSUME NEW i, \A f \in 1 .. NFile : ftable'[f].ip = ftable[f].ip
    PROVE  Cardinality(Opens(i))' = Cardinality(Opens(i))
<1>1. Opens(i)' = Opens(i)
  BY DEF Opens
<1> QED BY <1>1

\* The other processes' writes, and the references of files, when nobody touches files.
LEMMA FilesUntouched ==
    ASSUME Tables, NEW p \in Users, NEW m, me' = [me EXCEPT ![p] = m],
           m.at \notin {"writeOp", "writei"}, UNCHANGED <<ofile, ftable>>
    PROVE  /\ FilesOK' /\ \A q \in Users : WritesFile(q)'
           /\ ofile' \in [Users -> [1 .. NOFile -> 0 .. NFile]]
           /\ ftable' \in [1 .. NFile -> FileTypes]
<1>1. FilesTypes /\ FilesOK /\ \A q \in Users : WritesFile(q)
  BY DEF Tables
<1>2. me'[p] = m /\ \A q \in Users : q # p => me'[q] = me[q]
  BY <1>1, FilesTypesParts
<1>3. FilesOK'
  BY <1>1 DEF FilesOK, FdsOf
<1>4. \A q \in Users : WritesFile(q)'
  BY <1>1, <1>2 DEF WritesFile, FileOf
<1>5. ofile' \in [Users -> [1 .. NOFile -> 0 .. NFile]] /\ ftable' \in [1 .. NFile -> FileTypes]
  BY <1>1 DEF FilesTypes
<1> QED BY <1>3, <1>4, <1>5

\* Rest leaves the disk and the transactions as they are.
LEMMA RestFacts ==
    ASSUME FilesTypes, Rest
    PROVE  boot' = boot /\ disk' \in FsTypes /\ inTx' \in SUBSET Users
BY DEF FilesTypes, Rest

\* ChdirEnd keeps the tables.
LEMMA ChdirEndStep == ASSUME Tables, NEW p \in Users, ChdirEnd(p) PROVE Tables'
<1> DEFINE c == me[p].ip
           s == <<>>
           m == Then(p, "end", s)
<1>1. /\ At(p, "chdirEnd") /\ Rest /\ UNCHANGED <<ilk, ofile, ftable>>
      /\ cwd' = [cwd EXCEPT ![p] = c]
      /\ me' = [me EXCEPT ![p] = m] /\ UNCHANGED <<fs, itab, panic>>
  BY DEF ChdirEnd
<1>2. /\ FilesTypes /\ me[p] \in MeTypes /\ me[p].at = "chdirEnd" /\ LocksOK
      /\ panic = "none" /\ boot = 0 /\ \A i \in Inums : ~Frees(p, i)
      /\ K.fs = fs /\ K.itab = itab /\ K.panic = panic /\ K \in KernelTypes
  BY <1>1, AtFacts
<1>3. c \in Inums /\ \A j \in Inums : Count(me[p], cwd[p], j) = One(c = j)
  BY <1>1, InHand DEF IpPlaces
<1>4. Locked(me[p]) = 0
  BY <1>2, NoLock
<1>5. s \in Seq(Inums) /\ Len(s) <= 2 /\ \A j \in Inums : PutCount(s, j) = 0
  BY PutNone
<1> HIDE DEF s
<1>6. /\ m \in MeTypes /\ m.at = "end" /\ Shape(m) /\ Locked(m) = 0
      /\ \A j \in Inums : Count(m, c, j) = One(c = j) + PutCount(s, j)
  BY <1>2, <1>5, EndShape
<1> HIDE DEF m, c
<1>7. Does(p, K, m)
  BY <1>1, <1>2 DEF Does
<1>8. Relocks(p, m) /\ ilk' \in [Inums -> Users \union {Nobody}]
  BY <1>1, <1>2, <1>4, <1>6, RelocksKept
<1>9. FilesOK' /\ (\A q \in Users : WritesFile(q)')
      /\ ofile' \in [Users -> [1 .. NOFile -> 0 .. NFile]]
      /\ ftable' \in [1 .. NFile -> FileTypes]
  BY <1>1, <1>6, FilesUntouched
<1>10. Around(p, c)
  BY <1>1, <1>2, <1>8, <1>9, RestFacts DEF Around
<1>11. Mine(p, K)
  BY <1>1, MineAt
<1>12. ASSUME NEW j \in Inums PROVE Fits(p, m, K, j) /\ RefFits(p, m, K, c, j)
  <2>1. Fits(p, m, K, j)
    BY <1>2, <1>11, MineFits
  <2>2. K.itab[j].ref \in Nat /\ (K.itab[j].ref = 0 => ~K.itab[j].valid)
    BY <1>11 DEF Mine
  <2>3. Cardinality(Opens(j))' = Cardinality(Opens(j)) /\ Cardinality(Opens(j)) \in Nat
    BY <1>1, OpensKept, OpensFinite
  <2>4. One(c = j) \in Int
    BY DEF One
  <2>5. Count(m, c, j) = One(c = j) + 0 /\ Count(me[p], cwd[p], j) = One(c = j)
    BY <1>3, <1>5, <1>6
  <2> QED BY <1>2, <2>1, <2>2, <2>3, <2>4, <2>5 DEF RefFits
<1>13. K.panic = "none" /\ Locked(m) # 0 => K.itab[Locked(m)].valid
  BY <1>6
<1> QED BY <1>2, <1>3, <1>6, <1>7, <1>8, <1>10, <1>12, <1>13, FilesStep

\* A process between system calls.
LEMMA UserFacts ==
    ASSUME Tables, NEW p \in Users, At(p, "user")
    PROVE  /\ me[p] = Idle /\ me[p] \in MeTypes /\ Locked(me[p]) = 0
           /\ \A j \in Inums : Count(me[p], cwd[p], j) = One(cwd[p] = j)
<1>1. me[p] = Idle /\ me[p] \in MeTypes
  BY AtFacts DEF Shape
<1>2. Locked(me[p]) = 0
  BY <1>1, IdleFacts, NoLock
<1> QED BY <1>1, <1>2, InHand

\* The descriptors of a file are finitely many.
LEMMA FdsFinite == ASSUME NEW f PROVE IsFiniteSet(FdsOf(f))
<1>1. IsFiniteSet(1 .. NOFile) /\ IsFiniteSet(Users)
  BY FS_Interval, FilesAssumption
<1>2. IsFiniteSet(Users \X (1 .. NOFile))
  BY <1>1, FS_Product
<1> QED BY <1>2, FS_Subset DEF FdsOf

\* A file that is open: its inode, and its reference.
LEMMA OpenFacts ==
    ASSUME Tables, NEW p \in Users, NEW d \in 1 .. NOFile, Argfd(p, d)
    PROVE  LET f == ofile[p][d]
           IN  /\ f \in 1 .. NFile /\ ftable[f].ip \in Inums /\ ftable[f] \in FileTypes
               /\ ftable[f].ref # 0 /\ f \in Opens(ftable[f].ip)
               /\ <<p, d>> \in FdsOf(f) /\ IsFiniteSet(FdsOf(f))
               /\ ftable[f].ref = Cardinality(FdsOf(f))
<1> DEFINE f == ofile[p][d]
<1>1. FilesTypes /\ FilesOK
  BY DEF Tables
<1>2. ofile[p] \in [1 .. NOFile -> 0 .. NFile]
  BY <1>1 DEF FilesTypes
<1>3. f \in 0 .. NFile /\ f # 0
  BY <1>2 DEF Argfd
<1>4. f \in 1 .. NFile /\ ftable[f] \in FileTypes
  BY <1>1, <1>3, FilesAssumption DEF FilesTypes
<1>5. <<p, d>> \in FdsOf(f)
  BY DEF FdsOf
<1> HIDE DEF f
<1>6. IsFiniteSet(FdsOf(f))
  BY FdsFinite
<1>7. ftable[f].ref = Cardinality(FdsOf(f)) /\ (ftable[f].ref # 0 => ftable[f].ip # 0)
  BY <1>1, <1>4 DEF FilesOK
<1>8. ftable[f].ref # 0
  BY <1>5, <1>6, <1>7, FS_EmptySet
<1>9. ftable[f].ip \in Inums
  BY <1>4, <1>7, <1>8 DEF FileTypes
<1>10. f \in Opens(ftable[f].ip)
  BY <1>4 DEF Opens
<1> QED BY <1>4, <1>5, <1>6, <1>7, <1>8, <1>9, <1>10 DEF f

\* Two finite sets that differ in one element at most.
LEMMA SetStep ==
    ASSUME NEW S, IsFiniteSet(S), NEW T, NEW x, \A y : y # x => (y \in T <=> y \in S)
    PROVE  /\ IsFiniteSet(T)
           /\ Cardinality(S) \in Nat /\ Cardinality(T) \in Nat
           /\ Cardinality(T) = Cardinality(S) + One(x \in T) - One(x \in S)
<1> DEFINE W == S \ {x}
<1>1. IsFiniteSet(W) /\ Cardinality(W) \in Nat
  BY FS_Subset, FS_CardinalityType
<1>2. Cardinality(S) \in Nat /\ Cardinality(S) = Cardinality(W) + One(x \in S)
  <2>1. CASE x \in S
    <3>1. S = W \union {x} /\ x \notin W
      BY <2>1
    <3> HIDE DEF W
    <3>2. Cardinality(S) = Cardinality(W) + 1
      BY <1>1, <3>1, FS_AddElement
    <3> QED BY <1>1, <2>1, <3>2 DEF One
  <2>2. CASE x \notin S
    <3>1. S = W
      BY <2>2
    <3> HIDE DEF W
    <3> QED BY <1>1, <2>2, <3>1 DEF One
  <2> QED BY <2>1, <2>2
<1>3. IsFiniteSet(T) /\ Cardinality(T) \in Nat /\ Cardinality(T) = Cardinality(W) + One(x \in T)
  <2>1. CASE x \in T
    <3>1. T = W \union {x} /\ x \notin W
      BY <2>1
    <3> HIDE DEF W
    <3>2. IsFiniteSet(T) /\ Cardinality(T) = Cardinality(W) + 1
      BY <1>1, <3>1, FS_AddElement
    <3> QED BY <1>1, <2>1, <3>2 DEF One
  <2>2. CASE x \notin T
    <3>1. T = W
      BY <2>2
    <3> HIDE DEF W
    <3> QED BY <1>1, <2>2, <3>1 DEF One
  <2> QED BY <2>1, <2>2
<1> HIDE DEF W
<1>4. One(x \in S) \in Int /\ One(x \in T) \in Int
  BY DEF One
<1> QED BY <1>1, <1>2, <1>3, <1>4

\* The descriptors of a file, when one descriptor changes.
WithFd(p, d, v) == [ofile EXCEPT ![p][d] = v]

\* A descriptor that changes: the file it had loses one, the file it gets has one more.
LEMMA FdsStep ==
    ASSUME FilesTypes, NEW p \in Users, NEW d \in 1 .. NOFile, NEW v \in 0 .. NFile,
           ofile' = WithFd(p, d, v)
    PROVE  /\ ofile' \in [Users -> [1 .. NOFile -> 0 .. NFile]]
           /\ \A q \in Users : q # p => ofile'[q] = ofile[q]
           /\ \A g \in 1 .. NFile :
                /\ Cardinality(FdsOf(g)) \in Nat
                /\ Cardinality(FdsOf(g))'
                      = Cardinality(FdsOf(g)) + One(v = g) - One(ofile[p][d] = g)
<1>1. ofile \in [Users -> [1 .. NOFile -> 0 .. NFile]]
  BY DEF FilesTypes
<1>2. /\ ofile' \in [Users -> [1 .. NOFile -> 0 .. NFile]]
      /\ \A q \in Users : q # p => ofile'[q] = ofile[q]
      /\ ofile'[p][d] = v
      /\ \A e \in 1 .. NOFile : e # d => ofile'[p][e] = ofile[p][e]
  BY <1>1 DEF WithFd
<1>3. ASSUME NEW g \in 1 .. NFile
      PROVE  /\ Cardinality(FdsOf(g)) \in Nat
             /\ Cardinality(FdsOf(g))'
                   = Cardinality(FdsOf(g)) + One(v = g) - One(ofile[p][d] = g)
  <2> DEFINE S == FdsOf(g)
             T == FdsOf(g)'
             x == <<p, d>>
  <2>1. IsFiniteSet(S)
    <3>1. 1 \in Int /\ NOFile \in Int /\ IsFiniteSet(Users)
      BY FilesAssumption
    <3>2. IsFiniteSet(1 .. NOFile)
      BY <3>1, FS_Interval
    <3>3. IsFiniteSet(Users \X (1 .. NOFile))
      BY <3>1, <3>2, FS_Product
    <3>4. S \subseteq Users \X (1 .. NOFile)
      BY DEF FdsOf
    <3> HIDE DEF S
    <3> QED BY <3>3, <3>4, FS_Subset
  <2>2. ASSUME NEW y, y # x PROVE y \in T <=> y \in S
    <3>1. CASE y \in Users \X (1 .. NOFile)
      <4>1. PICK q \in Users, e \in 1 .. NOFile : y = <<q, e>>
        BY <3>1
      <4>2. ofile'[q][e] = ofile[q][e]
        BY <1>2, <2>2, <4>1
      <4> QED BY <4>1, <4>2 DEF FdsOf
    <3>2. CASE y \notin Users \X (1 .. NOFile)
      BY <3>2 DEF FdsOf
    <3> QED BY <3>1, <3>2
  <2>3. (x \in T <=> v = g) /\ (x \in S <=> ofile[p][d] = g)
    BY <1>2 DEF FdsOf
  <2> HIDE DEF S, T, x
  <2>4. Cardinality(S) \in Nat /\ Cardinality(T) = Cardinality(S) + One(x \in T) - One(x \in S)
    BY <2>1, <2>2, SetStep
  <2>5. One(x \in T) = One(v = g) /\ One(x \in S) = One(ofile[p][d] = g)
    BY <2>3 DEF One
  <2>6. Cardinality(T) = Cardinality(S) + One(v = g) - One(ofile[p][d] = g)
    BY <2>4, <2>5
  <2> QED BY <2>4, <2>6 DEF S, T
<1> QED BY <1>2, <1>3

\* The open files of an inode, when one file changes.
WithFile(f, h) == [ftable EXCEPT ![f] = h]

\* An entry of the file table that changes: its inode loses a reference, the new one gets one.
LEMMA OpensStep ==
    ASSUME FilesTypes, NEW f \in 1 .. NFile, NEW h \in FileTypes,
           ftable' = WithFile(f, h)
    PROVE  /\ ftable' \in [1 .. NFile -> FileTypes] /\ ftable'[f] = h
           /\ \A g \in 1 .. NFile : g # f => ftable'[g] = ftable[g]
           /\ \A i \in Inums :
                Cardinality(Opens(i))' - Cardinality(Opens(i))
                    = One(h.ip = i) - One(ftable[f].ip = i)
<1>1. ftable \in [1 .. NFile -> FileTypes]
  BY DEF FilesTypes
<1>2. /\ ftable' \in [1 .. NFile -> FileTypes] /\ ftable'[f] = h
      /\ \A g \in 1 .. NFile : g # f => ftable'[g] = ftable[g]
  BY <1>1 DEF WithFile
<1>3. ASSUME NEW i \in Inums
      PROVE  Cardinality(Opens(i))' - Cardinality(Opens(i))
                = One(h.ip = i) - One(ftable[f].ip = i)
  <2> DEFINE S == Opens(i)
             T == Opens(i)'
  <2>1. IsFiniteSet(S)
    BY OpensFinite
  <2>2. \A y : y # f => (y \in T <=> y \in S)
    BY <1>2 DEF Opens
  <2>3. (f \in T <=> h.ip = i) /\ (f \in S <=> ftable[f].ip = i)
    BY <1>2 DEF Opens
  <2> HIDE DEF S, T
  <2>4. /\ Cardinality(S) \in Nat /\ Cardinality(T) \in Nat
        /\ Cardinality(T) = Cardinality(S) + One(f \in T) - One(f \in S)
    BY <2>1, <2>2, SetStep
  <2>5. One(f \in T) = One(h.ip = i) /\ One(f \in S) = One(ftable[f].ip = i)
    BY <2>3 DEF One
  <2>6. One(f \in T) \in Int /\ One(f \in S) \in Int
    BY DEF One
  <2>7. Cardinality(T) - Cardinality(S) = One(h.ip = i) - One(ftable[f].ip = i)
    BY <2>4, <2>5, <2>6
  <2> QED BY <2>7 DEF S, T
<1> QED BY <1>2, <1>3

\* A file that is read or written keeps its inode and its references.
LEMMA OffStep ==
    ASSUME Tables, NEW p \in Users, NEW m, me' = [me EXCEPT ![p] = m],
           NEW f \in 1 .. NFile, ftable[f].ref # 0, NEW h \in FileTypes, h.ref = ftable[f].ref,
           h.ip = ftable[f].ip, ftable' = WithFile(f, h), UNCHANGED ofile,
           m.at \in {"writeOp", "writei"} =>
               me[p].at \in {"writeOp", "writei"} /\ m.fd = me[p].fd /\ m.ip = me[p].ip
    PROVE  /\ FilesOK' /\ \A q \in Users : WritesFile(q)'
           /\ ofile' \in [Users -> [1 .. NOFile -> 0 .. NFile]]
           /\ ftable' \in [1 .. NFile -> FileTypes]
           /\ \A i \in Inums : Cardinality(Opens(i))' = Cardinality(Opens(i))
<1>1. FilesTypes /\ FilesOK /\ \A q \in Users : WritesFile(q)
  BY DEF Tables
<1>2. me'[p] = m /\ \A q \in Users : q # p => me'[q] = me[q]
  BY <1>1, FilesTypesParts
<1>3. /\ ftable' \in [1 .. NFile -> FileTypes] /\ ftable'[f] = h
      /\ \A g \in 1 .. NFile : g # f => ftable'[g] = ftable[g]
  BY <1>1, OpensStep
<1>4. \A g \in 1 .. NFile : ftable'[g].ip = ftable[g].ip /\ ftable'[g].ref = ftable[g].ref
  BY <1>3
<1>5. FilesOK'
  <2>1. ASSUME NEW g \in 1 .. NFile
        PROVE  /\ ftable'[g].ref = Cardinality(FdsOf(g))'
               /\ ftable'[g].ref = 0 => ftable'[g] = NoFile
               /\ ftable'[g].ref # 0 => ftable'[g].ip # 0
    <3>1. Cardinality(FdsOf(g))' = Cardinality(FdsOf(g))
      BY DEF FdsOf
    <3>2. /\ ftable[g].ref = Cardinality(FdsOf(g))
          /\ ftable[g].ref = 0 => ftable[g] = NoFile
          /\ ftable[g].ref # 0 => ftable[g].ip # 0
      BY <1>1 DEF FilesOK
    <3> QED BY <1>3, <1>4, <3>1, <3>2
  <2> QED BY <2>1 DEF FilesOK
<1>6. \A q \in Users : WritesFile(q)'
  <2>1. ofile \in [Users -> [1 .. NOFile -> 0 .. NFile]]
    BY <1>1 DEF FilesTypes
  <2>2. ASSUME NEW q \in Users, me'[q].at \in {"writeOp", "writei"}
        PROVE  /\ me'[q].fd \in 1 .. NOFile /\ ofile'[q][me'[q].fd] # 0
               /\ ftable'[ofile'[q][me'[q].fd]].ip = me'[q].ip
    <3>1. /\ me[q].at \in {"writeOp", "writei"} /\ me'[q].fd = me[q].fd
          /\ me'[q].ip = me[q].ip
      BY <1>2, <2>2
    <3>2. /\ me[q].fd \in 1 .. NOFile /\ ofile[q][me[q].fd] # 0
          /\ ftable[ofile[q][me[q].fd]].ip = me[q].ip
      BY <1>1, <3>1 DEF WritesFile, FileOf
    <3>3. ofile[q][me[q].fd] \in 1 .. NFile
      BY <2>1, <3>2, FilesAssumption
    <3> QED BY <1>4, <3>1, <3>2, <3>3
  <2> QED BY <2>2 DEF WritesFile, FileOf
<1>7. \A i \in Inums : Cardinality(Opens(i))' = Cardinality(Opens(i))
  BY <1>4, OpensKept
<1>8. ofile' \in [Users -> [1 .. NOFile -> 0 .. NFile]]
  BY <1>1 DEF FilesTypes
<1> QED BY <1>3, <1>5, <1>6, <1>7, <1>8

\* The offset of a file.
AtOff(f, n) == [f EXCEPT !.off = n]

\* A file at another offset refers to the same inode.
LEMMA AtOffFacts ==
    ASSUME NEW f \in FileTypes, NEW n \in Nat
    PROVE  AtOff(f, n) \in FileTypes /\ AtOff(f, n).ref = f.ref /\ AtOff(f, n).ip = f.ip
BY DEF AtOff, FileTypes

\* Read keeps the tables.
LEMMA ReadStep == ASSUME Tables, NEW p \in Users, NEW d \in 1 .. NOFile, Read(p, d) PROVE Tables'
<1> DEFINE f == ofile[p][d]
           i == ftable[f].ip
           k == Ilock(K, i)
           m == me[p]
           n == ftable[f].off + Readi(Ip(k, i), ftable[f].off)
           h == AtOff(ftable[f], n)
<1>1. /\ At(p, "user") /\ Argfd(p, d) /\ FreeLock(i) /\ Does(p, k, m)
      /\ ftable' = WithFile(f, h)
      /\ UNCHANGED <<disk, inTx, ilk, cwd, ofile, boot>>
  BY DEF Read, Fileread, AtOff, WithFile
<1>2. /\ FilesTypes /\ LocksOK /\ panic = "none" /\ boot = 0 /\ \A j \in Inums : ~Frees(p, j)
      /\ cwd[p] \in Inums /\ Shape(me[p])
  BY <1>1, AtFacts
<1>3. /\ m \in MeTypes /\ Locked(m) = 0 /\ m = Idle
      /\ \A j \in Inums : Count(m, cwd[p], j) = One(cwd[p] = j)
  BY <1>1, UserFacts
<1>4. /\ f \in 1 .. NFile /\ i \in Inums /\ ftable[f] \in FileTypes /\ ftable[f].ref # 0
      /\ f \in Opens(i)
  BY <1>1, OpenFacts
<1>5. Fetched(k, i)
  <2>1. Cardinality(Opens(i)) >= 1
    BY <1>4, OneOpen
  <2> HIDE DEF i
  <2> QED BY <1>1, <1>2, <1>4, <2>1, Fetch
<1>6. h \in FileTypes /\ h.ref = ftable[f].ref /\ h.ip = ftable[f].ip
  <2>1. ftable[f].off \in Nat
    BY <1>4 DEF FileTypes
  <2>2. n \in Nat
    BY <2>1 DEF Readi
  <2> HIDE DEF n, f
  <2> QED BY <1>4, <2>2, AtOffFacts
<1>7. me' = [me EXCEPT ![p] = m] /\ cwd' = [cwd EXCEPT ![p] = cwd[p]]
  BY <1>1, <1>2, FilesTypesParts DEF Does
<1>8. m.at \notin {"writeOp", "writei"} /\ m.at # "writei"
  BY <1>3, IdleFacts
<1> HIDE DEF h, n, m, k, i, f
<1>9. /\ FilesOK' /\ (\A q \in Users : WritesFile(q)')
      /\ ofile' \in [Users -> [1 .. NOFile -> 0 .. NFile]]
      /\ ftable' \in [1 .. NFile -> FileTypes]
      /\ \A j \in Inums : Cardinality(Opens(j))' = Cardinality(Opens(j))
  BY <1>1, <1>4, <1>6, <1>7, <1>8, OffStep
<1>10. Relocks(p, m) /\ ilk' \in [Inums -> Users \union {Nobody}]
  BY <1>1, <1>2, <1>3, RelocksKept DEF m
<1>11. Around(p, cwd[p])
  BY <1>1, <1>2, <1>7, <1>9, <1>10 DEF Around, FilesTypes
<1>12. ASSUME NEW j \in Inums PROVE Fits(p, m, k, j) /\ RefFits(p, m, k, cwd[p], j)
  <2>1. /\ Fits(p, m, k, j) /\ k.itab[j].ref = itab[j].ref
        /\ k.itab[j].ref \in Nat /\ (k.itab[j].ref = 0 => ~k.itab[j].valid)
    BY <1>1, <1>4, <1>5, <1>8, FetchedKeeps DEF m
  <2>2. Cardinality(Opens(j))' = Cardinality(Opens(j)) /\ Cardinality(Opens(j)) \in Nat
    BY <1>9, OpensFinite
  <2>3. Count(m, cwd[p], j) \in Nat /\ m = me[p]
    BY CountType DEF m
  <2> QED BY <2>1, <2>2, <2>3 DEF RefFits
<1>13. k.panic = "none" /\ Locked(m) # 0 => k.itab[Locked(m)].valid
  BY <1>3
<1>14. k \in KernelTypes
  BY <1>5 DEF Fetched
<1>15. Shape(m)
  BY <1>2 DEF m
<1> QED BY <1>1, <1>2, <1>3, <1>10, <1>11, <1>12, <1>13, <1>14, <1>15, FilesStep

\* A process that begins write().
Writing(i, d, n) == [Idle EXCEPT !.at = "writeOp", !.left = n, !.ip = i, !.fd = d]

\* It refers to nothing by itself, but through its file, and has no lock yet.
LEMMA WritingFacts ==
    ASSUME NEW i \in Inums, NEW d \in 1 .. NOFile, NEW n \in Int
    PROVE  LET m == Writing(i, d, n)
           IN  /\ m \in MeTypes /\ Shape(m) /\ Locked(m) = 0 /\ m.at = "writeOp"
               /\ m.ip = i /\ m.fd = d
               /\ \A c : \A j \in Inums : Count(m, c, j) = One(c = j)
<1> DEFINE m == Writing(i, d, n)
<1>1. /\ m \in MeTypes /\ m.at = "writeOp" /\ m.ip = i /\ m.fd = d /\ m.put = <<>>
  <2>1. "writeOp" \in Places /\ d \in 0 .. NOFile
    BY FilesAssumption DEF Places
  <2> QED BY <2>1, IdleFacts DEF Writing, MeTypes
<1> HIDE DEF m
<1>2. Shape(m) /\ Locked(m) = 0
  <2>1. m.put = <<>> /\ Len(m.put) <= 2 /\ m.ip # 0
    BY <1>1, Constants
  <2> QED BY <1>1, <2>1 DEF Shape, IpUsed, IpPlaces, DpPlaces, Locked
<1>3. \A c : \A j \in Inums : Count(m, c, j) = One(c = j)
  <2>1. ASSUME NEW c, NEW j \in Inums PROVE Count(m, c, j) = One(c = j)
    <3>1. PutCount(m.put, j) = 0
      BY <1>1, PutNone
    <3>2. Count(m, c, j) = One(c = j) + PutCount(m.put, j)
      BY <1>1, CountAt
    <3>3. One(c = j) \in Int
      BY DEF One
    <3> QED BY <3>1, <3>2, <3>3
  <2> QED BY <2>1
<1> QED BY <1>1, <1>2, <1>3 DEF m

\* Write keeps the tables.
LEMMA WriteStep ==
    ASSUME Tables, NEW p \in Users, NEW d \in 1 .. NOFile, NEW n \in WriteSizes, Write(p, d, n)
    PROVE  Tables'
<1> DEFINE f == ofile[p][d]
           i == ftable[f].ip
           m == Writing(i, d, n)
<1>1. /\ At(p, "user") /\ Argfd(p, d)
      /\ me' = [me EXCEPT ![p] = m] /\ FilesKept
      /\ UNCHANGED <<fs, disk, inTx, itab, ilk, boot, panic>>
  BY DEF Write, Writing
<1>2. /\ FilesTypes /\ LocksOK /\ panic = "none" /\ boot = 0 /\ \A j \in Inums : ~Frees(p, j)
      /\ cwd[p] \in Inums /\ FilesOK
      /\ K \in KernelTypes /\ K.fs = fs /\ K.itab = itab /\ K.panic = panic
  BY <1>1, AtFacts
<1>3. /\ me[p] \in MeTypes /\ Locked(me[p]) = 0
      /\ \A j \in Inums : Count(me[p], cwd[p], j) = One(cwd[p] = j)
      /\ me[p].at # "writei"
  BY <1>1, UserFacts DEF At
<1>4. f \in 1 .. NFile /\ i \in Inums
  BY <1>1, OpenFacts
<1>5. n \in Int
  BY FilesAssumption
<1> HIDE DEF i
<1>6. /\ m \in MeTypes /\ Shape(m) /\ Locked(m) = 0 /\ m.at = "writeOp" /\ m.ip = i /\ m.fd = d
      /\ \A j \in Inums : Count(m, cwd[p], j) = One(cwd[p] = j)
  BY <1>4, <1>5, WritingFacts
<1> HIDE DEF m
<1>7. cwd' = [cwd EXCEPT ![p] = cwd[p]] /\ UNCHANGED <<ofile, ftable>>
  BY <1>1, <1>2, FilesTypesParts DEF FilesKept
<1>8. \A q \in Users : WritesFile(q)'
  <2>1. me'[p] = m /\ \A q \in Users : q # p => me'[q] = me[q]
    BY <1>1, <1>2, FilesTypesParts
  <2>2. \A q \in Users : WritesFile(q)
    BY DEF Tables
  <2>3. ASSUME NEW q \in Users, q # p PROVE WritesFile(q)'
    BY <1>7, <2>1, <2>2, <2>3 DEF WritesFile, FileOf
  <2>4. WritesFile(p)'
    <3>1. me'[p].fd = d /\ me'[p].ip = i /\ ofile'[p][d] = f /\ ftable'[f].ip = i
      BY <1>6, <1>7, <2>1 DEF i
    <3>2. f # 0
      BY <1>1 DEF Argfd
    <3> QED BY <3>1, <3>2 DEF WritesFile, FileOf
  <2> QED BY <2>3, <2>4
<1>9. /\ FilesOK' /\ ofile' \in [Users -> [1 .. NOFile -> 0 .. NFile]]
      /\ ftable' \in [1 .. NFile -> FileTypes]
      /\ \A j \in Inums : Cardinality(Opens(j))' = Cardinality(Opens(j))
  BY <1>2, <1>7, OpensKept DEF FilesOK, FdsOf, FilesTypes
<1>10. Relocks(p, m) /\ ilk' \in [Inums -> Users \union {Nobody}]
  BY <1>1, <1>2, <1>3, <1>6, RelocksKept
<1>11. Around(p, cwd[p])
  BY <1>1, <1>2, <1>7, <1>8, <1>9, <1>10 DEF Around, FilesTypes
<1>12. Mine(p, K)
  BY <1>1, MineAt
<1>13. ASSUME NEW j \in Inums PROVE Fits(p, m, K, j) /\ RefFits(p, m, K, cwd[p], j)
  <2>1. Fits(p, m, K, j)
    BY <1>3, <1>12, MineFits
  <2>2. K.itab[j].ref \in Nat /\ (K.itab[j].ref = 0 => ~K.itab[j].valid)
    BY <1>12 DEF Mine
  <2>3. Cardinality(Opens(j))' = Cardinality(Opens(j)) /\ Cardinality(Opens(j)) \in Nat
    BY <1>9, OpensFinite
  <2>4. One(cwd[p] = j) \in Int
    BY DEF One
  <2> QED BY <1>2, <1>3, <1>6, <2>1, <2>2, <2>3, <2>4 DEF RefFits
<1>14. Does(p, K, m)
  BY <1>1, <1>2 DEF Does
<1>15. K.panic = "none" /\ Locked(m) # 0 => K.itab[Locked(m)].valid
  BY <1>6
<1> QED BY <1>2, <1>6, <1>10, <1>11, <1>13, <1>14, <1>15, FilesStep

\* The writes of the other processes go on.
LEMMA WritesKept ==
    ASSUME Tables, NEW p \in Users, NEW m, me' = [me EXCEPT ![p] = m],
           m.at \notin {"writeOp", "writei"},
           \A q \in Users : q # p => ofile'[q] = ofile[q],
           \A q \in Users, d \in 1 .. NOFile :
               q # p /\ ofile[q][d] # 0 => ftable'[ofile[q][d]].ip = ftable[ofile[q][d]].ip
    PROVE  \A q \in Users : WritesFile(q)'
<1>1. FilesTypes /\ \A q \in Users : WritesFile(q)
  BY DEF Tables
<1>2. me'[p] = m /\ \A q \in Users : q # p => me'[q] = me[q]
  BY <1>1, FilesTypesParts
<1>3. ASSUME NEW q \in Users, q # p PROVE WritesFile(q)'
  <2>1. SUFFICES ASSUME me[q].at \in {"writeOp", "writei"}
                 PROVE  /\ me[q].fd \in 1 .. NOFile /\ ofile[q][me[q].fd] # 0
                        /\ ftable'[ofile[q][me[q].fd]].ip = me[q].ip
    BY <1>2, <1>3 DEF WritesFile, FileOf
  <2>2. /\ me[q].fd \in 1 .. NOFile /\ ofile[q][me[q].fd] # 0
        /\ ftable[ofile[q][me[q].fd]].ip = me[q].ip
    BY <1>1, <2>1 DEF WritesFile, FileOf
  <2> QED BY <1>3, <2>2
<1>4. WritesFile(p)'
  BY <1>2 DEF WritesFile, FileOf
<1> QED BY <1>3, <1>4

\* A file with one more reference, or one less.
WithRef(f, n) == [f EXCEPT !.ref = n]

\* A file with other references refers to the same inode.
LEMMA WithRefFacts ==
    ASSUME NEW f \in FileTypes, NEW n \in Int
    PROVE  WithRef(f, n) \in FileTypes /\ WithRef(f, n).ref = n /\ WithRef(f, n).ip = f.ip
BY DEF WithRef, FileTypes

\* An entry of the file table that is free.
LEMMA NoFileFacts == NoFile \in FileTypes /\ NoFile.ref = 0 /\ NoFile.ip = 0
<1> DEFINE no == FALSE
<1>1. no \in BOOLEAN
  OBVIOUS
<1> HIDE DEF no
<1>2. LET r == [ref |-> 0, type |-> "none", ip |-> 0, off |-> 0, write |-> no]
      IN  r \in FileTypes /\ r.ref = 0 /\ r.ip = 0
  BY <1>1 DEF FileTypes
<1> QED BY <1>2 DEF no, NoFile

\* A free descriptor.
LEMMA FreeFdFacts ==
    ASSUME FilesTypes, NEW p \in Users, FreeFds(p) # {}
    PROVE  First(FreeFds(p)) \in 1 .. NOFile /\ ofile[p][First(FreeFds(p))] = 0
<1>1. FreeFds(p) \in SUBSET Nat
  BY FilesAssumption DEF FreeFds
<1>2. First(FreeFds(p)) \in FreeFds(p)
  BY <1>1, FirstFacts
<1> QED BY <1>2 DEF FreeFds

\* Dup keeps the tables.
LEMMA DupStep == ASSUME Tables, NEW p \in Users, NEW d \in 1 .. NOFile, Dup(p, d) PROVE Tables'
<1> DEFINE f == ofile[p][d]
           e == First(FreeFds(p))
           n == ftable[f].ref + 1
           h == WithRef(ftable[f], n)
           m == me[p]
<1>1. /\ At(p, "user") /\ Argfd(p, d) /\ FreeFds(p) # {}
      /\ ofile' = WithFd(p, e, f)
      /\ UNCHANGED <<fs, disk, inTx, itab, ilk, me, cwd, boot, panic>>
  BY DEF Dup, WithFd
<1>2. /\ FilesTypes /\ LocksOK /\ panic = "none" /\ boot = 0 /\ \A j \in Inums : ~Frees(p, j)
      /\ cwd[p] \in Inums /\ FilesOK /\ Shape(m)
      /\ K \in KernelTypes /\ K.fs = fs /\ K.itab = itab /\ K.panic = panic
  BY <1>1, AtFacts
<1>3. m = Idle /\ m \in MeTypes /\ Locked(m) = 0
  BY <1>1, UserFacts
<1>4. /\ f \in 1 .. NFile /\ ftable[f] \in FileTypes /\ ftable[f].ref # 0
      /\ ftable[f].ip \in Inums
  BY <1>1, OpenFacts
<1>5. ftable' = WithFile(f, h)
  <2>1. ftable \in [1 .. NFile -> FileTypes]
    BY <1>2 DEF FilesTypes
  <2> QED BY <1>4, <2>1 DEF Dup, Filedup, WithRef, WithFile
<1>6. e \in 1 .. NOFile /\ ofile[p][e] = 0
  BY <1>1, <1>2, FreeFdFacts
<1>7. n \in Int
  BY <1>4 DEF FileTypes
<1>8. h \in FileTypes /\ h.ref = ftable[f].ref + 1 /\ h.ip = ftable[f].ip
  <2> HIDE DEF n
  <2>1. h \in FileTypes /\ h.ref = n /\ h.ip = ftable[f].ip
    BY <1>4, <1>7, WithRefFacts
  <2> QED BY <2>1 DEF n
<1>9. me' = [me EXCEPT ![p] = m] /\ cwd' = [cwd EXCEPT ![p] = cwd[p]]
      /\ m.at \notin {"writeOp", "writei"} /\ m.at # "writei"
  BY <1>1, <1>2, <1>3, FilesTypesParts, IdleFacts
<1> HIDE DEF h, n, m, e, f
<1>10. /\ ofile' \in [Users -> [1 .. NOFile -> 0 .. NFile]]
       /\ \A q \in Users : q # p => ofile'[q] = ofile[q]
       /\ \A g \in 1 .. NFile :
            /\ Cardinality(FdsOf(g)) \in Nat
            /\ Cardinality(FdsOf(g))'
                  = Cardinality(FdsOf(g)) + One(f = g) - One(ofile[p][e] = g)
  <2>1. f \in 0 .. NFile /\ e \in 1 .. NOFile
    BY <1>4, <1>6
  <2>2. FilesTypes /\ ofile' = WithFd(p, e, f)
    BY <1>1, <1>2
  <2> QED BY <2>1, <2>2, FdsStep
<1>11. /\ ftable' \in [1 .. NFile -> FileTypes] /\ ftable'[f] = h
       /\ \A g \in 1 .. NFile : g # f => ftable'[g] = ftable[g]
  BY <1>2, <1>4, <1>5, <1>8, OpensStep
<1>12. \A g \in 1 .. NFile : ftable'[g].ip = ftable[g].ip
  BY <1>8, <1>11
<1>13. FilesOK'
  <2>1. ASSUME NEW g \in 1 .. NFile
        PROVE  /\ ftable'[g].ref = Cardinality(FdsOf(g))'
               /\ ftable'[g].ref = 0 => ftable'[g] = NoFile
               /\ ftable'[g].ref # 0 => ftable'[g].ip # 0
    <3>1. /\ ftable[g].ref = Cardinality(FdsOf(g))
          /\ ftable[g].ref = 0 => ftable[g] = NoFile
          /\ ftable[g].ref # 0 => ftable[g].ip # 0
      BY <1>2 DEF FilesOK
    <3>2. One(ofile[p][e] = g) = 0
      BY <1>6 DEF One
    <3>3. CASE g = f
      <4>1. One(f = g) = 1
        BY <3>3 DEF One
      <4>2. ftable'[g].ref = ftable[g].ref + 1 /\ ftable'[g].ip = ftable[g].ip
        BY <1>8, <1>11, <3>3
      <4>3. ftable[g].ref \in Nat /\ ftable[g].ref # 0
        BY <1>4, <1>10, <3>1, <3>3
      <4> QED BY <1>10, <3>1, <3>2, <4>1, <4>2, <4>3
    <3>4. CASE g # f
      <4>1. One(f = g) = 0
        BY <3>4 DEF One
      <4>2. ftable'[g] = ftable[g]
        BY <1>11, <3>4
      <4>3. Cardinality(FdsOf(g))' = Cardinality(FdsOf(g))
        BY <1>10, <3>2, <4>1
      <4> QED BY <3>1, <4>2, <4>3
    <3> QED BY <3>3, <3>4
  <2> QED BY <2>1 DEF FilesOK
<1>14. \A q \in Users : WritesFile(q)'
  <2>1. ASSUME NEW q \in Users, NEW x \in 1 .. NOFile, ofile[q][x] # 0
        PROVE  ofile[q][x] \in 1 .. NFile
    <3>1. ofile \in [Users -> [1 .. NOFile -> 0 .. NFile]]
      BY <1>2 DEF FilesTypes
    <3>2. ofile[q] \in [1 .. NOFile -> 0 .. NFile]
      BY <3>1
    <3>3. ofile[q][x] \in 0 .. NFile
      BY <3>2
    <3>4. NFile \in Nat
      BY FilesAssumption
    <3> QED BY <2>1, <3>3, <3>4
  <2>2. \A q \in Users, x \in 1 .. NOFile :
           q # p /\ ofile[q][x] # 0 => ftable'[ofile[q][x]].ip = ftable[ofile[q][x]].ip
    BY <1>12, <2>1
  <2> QED BY <1>9, <1>10, <2>2, WritesKept
<1>15. Relocks(p, m) /\ ilk' \in [Inums -> Users \union {Nobody}]
  BY <1>1, <1>2, <1>3, RelocksKept DEF m
<1>16. Around(p, cwd[p])
  BY <1>1, <1>2, <1>9, <1>10, <1>11, <1>13, <1>14, <1>15 DEF Around, FilesTypes
<1>17. Mine(p, K)
  BY <1>1, MineAt
<1>18. ASSUME NEW j \in Inums PROVE Fits(p, m, K, j) /\ RefFits(p, m, K, cwd[p], j)
  <2>1. Fits(p, m, K, j)
    BY <1>9, <1>17, MineFits DEF m
  <2>2. K.itab[j].ref \in Nat /\ (K.itab[j].ref = 0 => ~K.itab[j].valid)
    BY <1>17 DEF Mine
  <2>3. Cardinality(Opens(j))' = Cardinality(Opens(j)) /\ Cardinality(Opens(j)) \in Nat
    BY <1>12, OpensKept, OpensFinite
  <2>4. Count(m, cwd[p], j) \in Nat /\ m = me[p]
    BY CountType DEF m
  <2> QED BY <1>2, <2>1, <2>2, <2>3, <2>4 DEF RefFits
<1>19. Does(p, K, m)
  BY <1>1, <1>2, <1>9 DEF Does
<1>20. K.panic = "none" /\ Locked(m) # 0 => K.itab[Locked(m)].valid
  BY <1>3
<1> QED BY <1>2, <1>3, <1>15, <1>16, <1>18, <1>19, <1>20, FilesStep

\* fileclose() drops a reference, and the file with the last one.
LEMMA CloseFileFacts ==
    ASSUME NEW f \in FileTypes, f.ref \in Nat, f.ref # 0, f.ip \in Inums
    PROVE  LET h == CloseFile(f)
           IN  /\ h \in FileTypes /\ h.ref = f.ref - 1
               /\ f.ref = 1 => h = NoFile /\ h.ip = 0
               /\ f.ref # 1 => h.ip = f.ip /\ h.ref # 0
<1>1. CASE f.ref = 1
  <2>1. CloseFile(f) = NoFile
    BY <1>1 DEF CloseFile
  <2> QED BY <1>1, <2>1, NoFileFacts
<1>2. CASE f.ref # 1
  <2> DEFINE n == f.ref - 1
  <2>1. n \in Int /\ n # 0 /\ f.ref > 1
    BY <1>2
  <2>2. CloseFile(f) = WithRef(f, n)
    BY <2>1 DEF CloseFile, WithRef
  <2> HIDE DEF n
  <2>3. WithRef(f, n) \in FileTypes /\ WithRef(f, n).ref = n /\ WithRef(f, n).ip = f.ip
    BY <2>1, WithRefFacts
  <2> QED BY <1>2, <2>1, <2>2, <2>3 DEF n
<1> QED BY <1>1, <1>2

\* The last descriptor of a file is the only one.
LEMMA LastFd ==
    ASSUME Tables, NEW p \in Users, NEW d \in 1 .. NOFile, Argfd(p, d),
           ftable[ofile[p][d]].ref = 1, NEW q \in Users, q # p, NEW e \in 1 .. NOFile
    PROVE  ofile[q][e] # ofile[p][d]
<1> DEFINE f == ofile[p][d]
           S == FdsOf(f)
<1>1. S = FdsOf(f) /\ <<p, d>> \in S /\ IsFiniteSet(S) /\ Cardinality(S) = 1
  BY OpenFacts
<1>2. ASSUME ofile[q][e] = f PROVE FALSE
  <2>1. <<q, e>> \in S /\ <<q, e>> # <<p, d>>
    BY <1>2 DEF FdsOf
  <2> DEFINE x == <<p, d>>
             W == S \ {x}
  <2>2. Cardinality(W) = Cardinality(S) - 1 /\ IsFiniteSet(W)
    BY <1>1, FS_RemoveElement
  <2>3. <<q, e>> \in W
    BY <2>1
  <2> HIDE DEF W, S
  <2>4. Cardinality(W) = 0
    BY <1>1, <2>2
  <2>5. W = {}
    BY <2>2, <2>4, FS_EmptySet
  <2> QED BY <2>3, <2>5
<1> QED BY <1>2

\* After close() the references of the files are right.
LEMMA CloseFiles ==
    ASSUME Tables, NEW p \in Users, NEW d \in 1 .. NOFile, Argfd(p, d),
           ftable' = WithFile(ofile[p][d], CloseFile(ftable[ofile[p][d]])),
           ofile' = WithFd(p, d, 0),
           NEW m, me' = [me EXCEPT ![p] = m], m.at \notin {"writeOp", "writei"}
    PROVE  LET t == ftable[ofile[p][d]]
           IN  /\ FilesOK' /\ \A q \in Users : WritesFile(q)'
               /\ ofile' \in [Users -> [1 .. NOFile -> 0 .. NFile]]
               /\ ftable' \in [1 .. NFile -> FileTypes]
               /\ \A i \in Inums :
                    Cardinality(Opens(i))' - Cardinality(Opens(i))
                        = IF t.ref = 1 THEN 0 - One(t.ip = i) ELSE 0
<1> DEFINE f == ofile[p][d]
           t == ftable[f]
           h == CloseFile(t)
<1>1. FilesTypes /\ FilesOK
  BY DEF Tables
<1>2. /\ f \in 1 .. NFile /\ t.ip \in Inums /\ t \in FileTypes /\ t.ref # 0
      /\ t.ref \in Nat
  <2>1. /\ f \in 1 .. NFile /\ t.ip \in Inums /\ t \in FileTypes /\ t.ref # 0
        /\ IsFiniteSet(FdsOf(f)) /\ t.ref = Cardinality(FdsOf(f))
    BY OpenFacts
  <2>2. Cardinality(FdsOf(f)) \in Nat
    BY <2>1, FS_CardinalityType
  <2> QED BY <2>1, <2>2
<1>3. /\ h \in FileTypes /\ h.ref = t.ref - 1
      /\ t.ref = 1 => h = NoFile /\ h.ip = 0
      /\ t.ref # 1 => h.ip = t.ip /\ h.ref # 0
  <2> HIDE DEF t
  <2> QED BY <1>2, CloseFileFacts
<1>4. ftable' = WithFile(f, h)
  OBVIOUS
<1>0. ofile[p][d] = f /\ f = ofile[p][d] /\ t = ftable[f] /\ ftable[f] = t
  OBVIOUS
<1>20. ASSUME t.ref = 1, NEW q \in Users, q # p, NEW e \in 1 .. NOFile
       PROVE  ofile[q][e] # f
  BY <1>20, LastFd
<1> HIDE DEF h, t, f
<1>5. /\ ofile' \in [Users -> [1 .. NOFile -> 0 .. NFile]]
      /\ \A q \in Users : q # p => ofile'[q] = ofile[q]
      /\ \A g \in 1 .. NFile :
           /\ Cardinality(FdsOf(g)) \in Nat
           /\ Cardinality(FdsOf(g))'
                 = Cardinality(FdsOf(g)) + One(0 = g) - One(ofile[p][d] = g)
  <2>1. 0 \in 0 .. NFile
    BY FilesAssumption
  <2> QED BY <1>1, <2>1, FdsStep
<1>6. /\ ftable' \in [1 .. NFile -> FileTypes] /\ ftable'[f] = h
      /\ \A g \in 1 .. NFile : g # f => ftable'[g] = ftable[g]
      /\ \A i \in Inums :
           Cardinality(Opens(i))' - Cardinality(Opens(i)) = One(h.ip = i) - One(ftable[f].ip = i)
  BY <1>1, <1>2, <1>3, <1>4, OpensStep
<1>7. FilesOK'
  <2>1. ASSUME NEW g \in 1 .. NFile
        PROVE  /\ ftable'[g].ref = Cardinality(FdsOf(g))'
               /\ ftable'[g].ref = 0 => ftable'[g] = NoFile
               /\ ftable'[g].ref # 0 => ftable'[g].ip # 0
    <3>1. /\ ftable[g].ref = Cardinality(FdsOf(g))
          /\ ftable[g].ref = 0 => ftable[g] = NoFile
          /\ ftable[g].ref # 0 => ftable[g].ip # 0
      BY <1>1 DEF FilesOK
    <3>2. One(0 = g) = 0
      BY DEF One
    <3>3. CASE g = f
      <4>1. One(ofile[p][d] = g) = 1
        BY <1>0, <3>3 DEF One
      <4>2. Cardinality(FdsOf(g))' = Cardinality(FdsOf(g)) - 1
        BY <1>5, <3>2, <4>1
      <4>3. ftable'[g] = h /\ ftable[g] = t
        BY <1>0, <1>6, <3>3
      <4>4. h.ref = Cardinality(FdsOf(g)) - 1
        BY <1>3, <3>1, <4>3
      <4>5. h.ref = 0 => h = NoFile
        BY <1>3
      <4>6. h.ref # 0 => h.ip # 0
        BY <1>2, <1>3, Constants, NoFileFacts
      <4> QED BY <4>2, <4>3, <4>4, <4>5, <4>6
    <3>4. CASE g # f
      <4>1. One(ofile[p][d] = g) = 0
        BY <1>0, <3>4 DEF One
      <4>2. ftable'[g] = ftable[g]
        BY <1>6, <3>4
      <4>3. Cardinality(FdsOf(g))' = Cardinality(FdsOf(g))
        BY <1>5, <3>2, <4>1
      <4> QED BY <3>1, <4>2, <4>3
    <3> QED BY <3>3, <3>4
  <2> QED BY <2>1 DEF FilesOK
<1>8. \A q \in Users : WritesFile(q)'
  <2>1. ASSUME NEW q \in Users, NEW x \in 1 .. NOFile, q # p, ofile[q][x] # 0
        PROVE  ftable'[ofile[q][x]].ip = ftable[ofile[q][x]].ip
    <3>1. ofile \in [Users -> [1 .. NOFile -> 0 .. NFile]]
      BY <1>1 DEF FilesTypes
    <3>2. ofile[q] \in [1 .. NOFile -> 0 .. NFile]
      BY <3>1
    <3>3. ofile[q][x] \in 0 .. NFile /\ NFile \in Nat
      BY <3>2, FilesAssumption
    <3>4. ofile[q][x] \in 1 .. NFile
      BY <2>1, <3>3
    <3>5. CASE ofile[q][x] = f
      <4>1. t.ref # 1
        BY <1>20, <2>1, <3>5
      <4> QED BY <1>0, <1>3, <1>6, <3>5, <4>1
    <3>6. CASE ofile[q][x] # f
      BY <1>6, <3>4, <3>6
    <3> QED BY <3>5, <3>6
  <2>2. \A q \in Users, x \in 1 .. NOFile :
           q # p /\ ofile[q][x] # 0 => ftable'[ofile[q][x]].ip = ftable[ofile[q][x]].ip
    BY <2>1
  <2> QED BY <1>5, <2>2, WritesKept
<1>9. ASSUME NEW i \in Inums
      PROVE  Cardinality(Opens(i))' - Cardinality(Opens(i))
                = IF t.ref = 1 THEN 0 - One(t.ip = i) ELSE 0
  <2>1. Cardinality(Opens(i))' - Cardinality(Opens(i)) = One(h.ip = i) - One(t.ip = i)
    BY <1>0, <1>6
  <2>2. One(t.ip = i) \in Int
    BY DEF One
  <2>3. CASE t.ref = 1
    <3>1. h.ip # i
      BY <1>3, <2>3, Constants
    <3>2. One(h.ip = i) = 0
      BY <3>1 DEF One
    <3> QED BY <2>1, <2>3, <3>2
  <2>4. CASE t.ref # 1
    <3>1. One(h.ip = i) = One(t.ip = i)
      BY <1>3, <2>4
    <3> QED BY <2>1, <2>2, <2>4, <3>1
  <2> QED BY <2>3, <2>4
<1> QED BY <1>5, <1>6, <1>7, <1>8, <1>9 DEF t, f

\* Close keeps the tables.
LEMMA CloseStep ==
    ASSUME Tables, NEW p \in Users, NEW d \in 1 .. NOFile, Close(p, d) PROVE Tables'
<1> DEFINE f == ofile[p][d]
           t == ftable[f]
           s == <<t.ip>>
           m == IF t.ref = 1 THEN Then(p, "end", s) ELSE me[p]
<1>1. /\ At(p, "user") /\ Argfd(p, d)
      /\ ftable' = WithFile(ofile[p][d], CloseFile(ftable[ofile[p][d]]))
      /\ ofile' = WithFd(p, d, 0)
      /\ inTx' = (IF t.ref = 1 THEN inTx \union {p} ELSE inTx)
      /\ UNCHANGED <<fs, disk, itab, ilk, cwd, boot, panic>>
  BY DEF Close, WithFd, WithFile
<1>2. /\ FilesTypes /\ LocksOK /\ panic = "none" /\ boot = 0 /\ \A j \in Inums : ~Frees(p, j)
      /\ cwd[p] \in Inums /\ FilesOK /\ Shape(me[p])
      /\ K \in KernelTypes /\ K.fs = fs /\ K.itab = itab /\ K.panic = panic
  BY <1>1, AtFacts
<1>3. /\ me[p] = Idle /\ me[p] \in MeTypes /\ Locked(me[p]) = 0
      /\ \A j \in Inums : Count(me[p], cwd[p], j) = One(cwd[p] = j)
  BY <1>1, UserFacts
<1>4. t.ip \in Inums
  BY <1>1, OpenFacts
<1>5. me' = [me EXCEPT ![p] = m] /\ cwd' = [cwd EXCEPT ![p] = cwd[p]]
  <2>1. me = [me EXCEPT ![p] = me[p]] /\ cwd = [cwd EXCEPT ![p] = cwd[p]]
    BY <1>2, FilesTypesParts
  <2> QED BY <1>1, <2>1 DEF Close
<1>6. s \in Seq(Inums) /\ Len(s) <= 2 /\ \A j \in Inums : PutCount(s, j) = One(t.ip = j)
  BY <1>4, PutOne
<1>7. /\ m \in MeTypes /\ Shape(m) /\ Locked(m) = 0 /\ m.at \in {"user", "end"}
      /\ \A j \in Inums :
            Count(m, cwd[p], j) = One(cwd[p] = j) + (IF t.ref = 1 THEN One(t.ip = j) ELSE 0)
  <2> HIDE DEF s
  <2>1. CASE t.ref = 1
    <3>1. m = Then(p, "end", s)
      BY <2>1
    <3> HIDE DEF m, t
    <3>2. /\ m \in MeTypes /\ m.at = "end" /\ Shape(m) /\ Locked(m) = 0
          /\ \A j \in Inums : Count(m, cwd[p], j) = One(cwd[p] = j) + PutCount(s, j)
      BY <1>3, <1>6, <3>1, EndShape
    <3> QED BY <1>6, <2>1, <3>2
  <2>2. CASE t.ref # 1
    <3>1. m = me[p]
      BY <2>2
    <3>2. me[p].at = "user"
      BY <1>3, IdleFacts
    <3> HIDE DEF m, t
    <3>3. \A j \in Inums : One(cwd[p] = j) \in Int
      BY DEF One
    <3> QED BY <1>2, <1>3, <2>2, <3>1, <3>2, <3>3
  <2> QED BY <2>1, <2>2
<1>8. /\ FilesOK' /\ (\A q \in Users : WritesFile(q)')
      /\ ofile' \in [Users -> [1 .. NOFile -> 0 .. NFile]]
      /\ ftable' \in [1 .. NFile -> FileTypes]
      /\ \A i \in Inums :
           Cardinality(Opens(i))' - Cardinality(Opens(i))
               = IF t.ref = 1 THEN 0 - One(t.ip = i) ELSE 0
  <2>1. m.at \notin {"writeOp", "writei"}
    BY <1>7
  <2> HIDE DEF m
  <2> QED BY <1>1, <1>5, <2>1, CloseFiles
<1> HIDE DEF m, s, t, f
<1>9. Relocks(p, m) /\ ilk' \in [Inums -> Users \union {Nobody}]
  BY <1>1, <1>2, <1>3, <1>7, RelocksKept
<1>10. Around(p, cwd[p])
  BY <1>1, <1>2, <1>5, <1>8, <1>9 DEF Around, FilesTypes
<1>11. Mine(p, K)
  BY <1>1, MineAt
<1>12. ASSUME NEW j \in Inums PROVE Fits(p, m, K, j) /\ RefFits(p, m, K, cwd[p], j)
  <2>1. Fits(p, m, K, j)
    BY <1>3, <1>11, MineFits, IdleFacts
  <2>2. K.itab[j].ref \in Nat /\ (K.itab[j].ref = 0 => ~K.itab[j].valid)
    BY <1>11 DEF Mine
  <2>3. Cardinality(Opens(j))' - Cardinality(Opens(j))
           = IF t.ref = 1 THEN 0 - One(t.ip = j) ELSE 0
    BY <1>8
  <2>4. One(cwd[p] = j) \in Int /\ One(t.ip = j) \in Int
    BY DEF One
  <2>5. /\ Count(m, cwd[p], j) = One(cwd[p] = j) + (IF t.ref = 1 THEN One(t.ip = j) ELSE 0)
        /\ Count(me[p], cwd[p], j) = One(cwd[p] = j)
    BY <1>3, <1>7
  <2> DEFINE x == Cardinality(Opens(j))' - Cardinality(Opens(j))
             a == Count(m, cwd[p], j)
             b == Count(me[p], cwd[p], j)
  <2>6. a - b = (IF t.ref = 1 THEN One(t.ip = j) ELSE 0) /\ a \in Int /\ b \in Int
    BY <2>4, <2>5
  <2>7. x = (IF t.ref = 1 THEN 0 - One(t.ip = j) ELSE 0)
    BY <2>3
  <2> HIDE DEF x, a, b
  <2>8. K.itab[j].ref = itab[j].ref + (a - b) + x
    BY <1>2, <2>2, <2>4, <2>6, <2>7
  <2> QED BY <2>1, <2>2, <2>8 DEF RefFits, x, a, b
<1>13. Does(p, K, m)
  BY <1>1, <1>2, <1>5 DEF Does
<1>14. K.panic = "none" /\ Locked(m) # 0 => K.itab[Locked(m)].valid
  BY <1>7
<1> QED BY <1>2, <1>7, <1>9, <1>10, <1>12, <1>13, <1>14, FilesStep

\* The entry of the file table that open() fills in.
Opened(i, w, t) == [ref |-> 1, ip |-> i, off |-> 0, write |-> w, type |-> t]

\* It has one reference and refers to its inode.
LEMMA OpenedFacts ==
    ASSUME NEW i \in Inums, NEW w \in BOOLEAN, NEW t \in {"device", "inode"}
    PROVE  /\ Opened(i, w, t) \in FileTypes
           /\ Opened(i, w, t).ref = 1 /\ Opened(i, w, t).ip = i
BY DEF Opened, FileTypes

\* A free entry of the file table.
LEMMA FreeFileFacts ==
    ASSUME FilesTypes, FilesOK, FreeFiles # {}
    PROVE  LET f == First(FreeFiles)
           IN  f \in 1 .. NFile /\ ftable[f] = NoFile /\ ftable[f].ref = 0
<1>1. FreeFiles \in SUBSET Nat
  BY FilesAssumption DEF FreeFiles
<1>2. First(FreeFiles) \in FreeFiles
  BY <1>1, FirstFacts
<1> QED BY <1>2 DEF FreeFiles, FilesOK

\* After open() the references of the files are right.
LEMMA OpenFiles ==
    ASSUME Tables, NEW p \in Users, NEW d \in 1 .. NOFile, ofile[p][d] = 0,
           NEW f \in 1 .. NFile, ftable[f] = NoFile, NEW h \in FileTypes, h.ref = 1,
           NEW c \in Inums, h.ip = c, ftable' = WithFile(f, h), ofile' = WithFd(p, d, f),
           me'[p].at \notin {"writeOp", "writei"}, \A q \in Users : q # p => me'[q] = me[q]
    PROVE  /\ FilesOK' /\ \A q \in Users : WritesFile(q)'
           /\ ofile' \in [Users -> [1 .. NOFile -> 0 .. NFile]]
           /\ ftable' \in [1 .. NFile -> FileTypes]
           /\ \A i \in Inums :
                Cardinality(Opens(i))' - Cardinality(Opens(i)) = One(c = i)
<1>1. FilesTypes /\ FilesOK
  BY DEF Tables
<1>2. ftable[f].ref = 0 /\ ftable[f].ip = 0
  BY NoFileFacts
<1>5. /\ ofile' \in [Users -> [1 .. NOFile -> 0 .. NFile]]
      /\ \A q \in Users : q # p => ofile'[q] = ofile[q]
      /\ \A g \in 1 .. NFile :
           /\ Cardinality(FdsOf(g)) \in Nat
           /\ Cardinality(FdsOf(g))'
                 = Cardinality(FdsOf(g)) + One(f = g) - One(ofile[p][d] = g)
  <2>1. f \in 0 .. NFile
    BY FilesAssumption
  <2> QED BY <1>1, <2>1, FdsStep
<1>6. /\ ftable' \in [1 .. NFile -> FileTypes] /\ ftable'[f] = h
      /\ \A g \in 1 .. NFile : g # f => ftable'[g] = ftable[g]
      /\ \A i \in Inums :
           Cardinality(Opens(i))' - Cardinality(Opens(i)) = One(h.ip = i) - One(ftable[f].ip = i)
  BY <1>1, OpensStep
<1>7. FilesOK'
  <2>1. ASSUME NEW g \in 1 .. NFile
        PROVE  /\ ftable'[g].ref = Cardinality(FdsOf(g))'
               /\ ftable'[g].ref = 0 => ftable'[g] = NoFile
               /\ ftable'[g].ref # 0 => ftable'[g].ip # 0
    <3>1. /\ ftable[g].ref = Cardinality(FdsOf(g))
          /\ ftable[g].ref = 0 => ftable[g] = NoFile
          /\ ftable[g].ref # 0 => ftable[g].ip # 0
      BY <1>1 DEF FilesOK
    <3>2. One(ofile[p][d] = g) = 0
      BY DEF One
    <3>3. CASE g = f
      <4>1. One(f = g) = 1
        BY <3>3 DEF One
      <4>2. Cardinality(FdsOf(g))' = 0 + 1 - 0
        BY <1>2, <1>5, <3>1, <3>2, <3>3, <4>1
      <4>3. ftable'[g] = h /\ h.ip # 0
        BY <1>6, <3>3, Constants
      <4> QED BY <4>2, <4>3
    <3>4. CASE g # f
      <4>1. One(f = g) = 0
        BY <3>4 DEF One
      <4>2. ftable'[g] = ftable[g]
        BY <1>6, <3>4
      <4>3. Cardinality(FdsOf(g))' = Cardinality(FdsOf(g))
        BY <1>5, <3>2, <4>1
      <4> QED BY <3>1, <4>2, <4>3
    <3> QED BY <3>3, <3>4
  <2> QED BY <2>1 DEF FilesOK
<1>8. \A q \in Users : WritesFile(q)'
  <2>1. ASSUME NEW q \in Users, me[q].at \in {"writeOp", "writei"}
        PROVE  ftable'[ofile[q][me[q].fd]].ip = ftable[ofile[q][me[q].fd]].ip
    <3>1. /\ me[q].fd \in 1 .. NOFile /\ ofile[q][me[q].fd] # 0
          /\ ftable[ofile[q][me[q].fd]].ip = me[q].ip /\ me[q].ip # 0
      BY <2>1 DEF Tables, WritesFile, FileOf, Shape
    <3>2. ofile[q] \in [1 .. NOFile -> 0 .. NFile]
      BY <1>1 DEF FilesTypes
    <3>3. ofile[q][me[q].fd] \in 1 .. NFile
      <4>1. ofile[q][me[q].fd] \in 0 .. NFile /\ NFile \in Nat
        BY <3>1, <3>2, FilesAssumption
      <4> QED BY <3>1, <4>1
    <3>4. ofile[q][me[q].fd] # f
      BY <1>2, <3>1
    <3> QED BY <1>6, <3>3, <3>4
  <2>3. ASSUME NEW q \in Users, q # p PROVE WritesFile(q)'
    <3>1. WritesFile(q)
      BY DEF Tables
    <3> QED BY <1>5, <2>1, <2>3, <3>1 DEF WritesFile, FileOf
  <2>4. WritesFile(p)'
    BY DEF WritesFile, FileOf
  <2> QED BY <2>3, <2>4
<1>9. ASSUME NEW i \in Inums
      PROVE  Cardinality(Opens(i))' - Cardinality(Opens(i)) = One(c = i)
  <2>1. Cardinality(Opens(i))' - Cardinality(Opens(i)) = One(h.ip = i) - One(ftable[f].ip = i)
    BY <1>6
  <2>2. One(ftable[f].ip = i) = 0
    BY <1>2, Constants DEF One
  <2>3. One(c = i) \in Int /\ One(h.ip = i) = One(c = i)
    BY DEF One
  <2> QED BY <2>1, <2>2, <2>3
<1> QED BY <1>5, <1>6, <1>7, <1>8, <1>9

\* The contents of a file go with open(O_TRUNC), or stay.
LEMMA TruncMine ==
    ASSUME NEW p, NEW k, Mine(p, k), NEW i \in Inums, ilk[i] \in {Nobody, p}, NEW b
    PROVE  LET r == IF b THEN Itrunc(k, i) ELSE k
           IN  Mine(p, r) /\ \A j \in Inums : r.itab[j].ref = k.itab[j].ref
<1> DEFINE r == Itrunc(k, i)
<1>1. k \in KernelTypes
  BY DEF Mine
<1>2. Ip(k, i) \in Dinodes /\ Ip(k, i) = k.itab[i].copy
  BY <1>1, KernelParts DEF Ip
<1>3. /\ r \in KernelTypes
      /\ r.itab[i].ref = k.itab[i].ref /\ r.itab[i].valid = k.itab[i].valid
      /\ r.itab[i].copy = NoBlocks(Ip(k, i)) /\ r.fs.ino[i] = r.itab[i].copy
      /\ \A j \in Inums : j # i => r.itab[j] = k.itab[j] /\ r.fs.ino[j] = k.fs.ino[j]
  BY <1>1, ItruncFacts
<1>4. r.itab[i].copy.type = k.itab[i].copy.type
  BY <1>2, <1>3, NoBlocksFacts
<1> HIDE DEF r
<1>5. Mine(p, r) /\ \A j \in Inums : r.itab[j].ref = k.itab[j].ref
  BY <1>3, <1>4, MineChange
<1> QED BY <1>5 DEF r

\* OpenFile keeps the tables.
LEMMA OpenFileStep == ASSUME Tables, NEW p \in Users, OpenFile(p) PROVE Tables'
<1> DEFINE i == me[p].ip
           f == First(FreeFiles)
           e == First(FreeFds(p))
           c == me[p].call.op
           w == c # "read"
           b == c = "trunc" /\ Ip(K, i).type = "file"
           t == IF Ip(K, i).type = "device" THEN "device" ELSE "inode"
           k == IF b THEN Itrunc(K, i) ELSE K
           s == <<>>
           m == Then(p, "end", s)
           h == Opened(i, w, t)
<1>1. /\ At(p, "openFile") /\ ilk' = Release({i}) /\ Rest
      /\ \/ Does(p, K, Then(p, "end", <<i>>)) /\ FilesKept
         \/ /\ FreeFiles # {} /\ FreeFds(p) # {}
            /\ Does(p, k, m) /\ ftable' = WithFile(f, h) /\ ofile' = WithFd(p, e, f)
            /\ UNCHANGED cwd
  BY DEF OpenFile, WithFile, WithFd, Opened
<1>2. /\ FilesTypes /\ LocksOK /\ panic = "none" /\ boot = 0 /\ \A j \in Inums : ~Frees(p, j)
      /\ cwd[p] \in Inums /\ FilesOK /\ me[p].at = "openFile" /\ me[p] \in MeTypes
      /\ K \in KernelTypes /\ K.fs = fs /\ K.itab = itab /\ K.panic = panic
  BY <1>1, AtFacts
<1>3. i \in Inums /\ \A j \in Inums : Count(me[p], cwd[p], j) = One(cwd[p] = j) + One(i = j)
  BY <1>1, InHand DEF IpPlaces
<1>4. Locked(me[p]) = i /\ ilk[i] = p
  <2>1. Locked(me[p]) = i /\ i # 0
    BY <1>2, <1>3, Constants DEF Locked
  <2> QED BY <1>2, <2>1 DEF LocksOK
<1>5. CASE Does(p, K, Then(p, "end", <<i>>)) /\ FilesKept
  <2>1. ilk' = Release({i})
    BY <1>1
  <2> HIDE DEF i
  <2>2. ilk' \in [Inums -> Users \union {Nobody}] /\ Relocks(p, Then(p, "end", <<i>>))
    BY <1>1, <2>1, ReleaseRelocks DEF i
  <2>3. At(p, "openFile") /\ Does(p, K, Then(p, "end", <<i>>)) /\ FilesKept /\ Rest
    BY <1>1, <1>5
  <2> QED BY <2>2, <2>3, ReleaseStep DEF i
<1>6. CASE /\ FreeFiles # {} /\ FreeFds(p) # {}
           /\ Does(p, k, m) /\ ftable' = WithFile(f, h) /\ ofile' = WithFd(p, e, f)
           /\ UNCHANGED cwd
  <2>1. f \in 1 .. NFile /\ ftable[f] = NoFile /\ e \in 1 .. NOFile /\ ofile[p][e] = 0
    BY <1>2, <1>6, FreeFdFacts, FreeFileFacts
  <2>2. w \in BOOLEAN /\ t \in {"device", "inode"}
    OBVIOUS
  <2> HIDE DEF w, t, b
  <2>3. h \in FileTypes /\ h.ref = 1 /\ h.ip = i
    <3> HIDE DEF i
    <3> QED BY <1>3, <2>2, OpenedFacts
  <2>4. Mine(p, K)
    BY <1>1, MineAt
  <2>5. Mine(p, k) /\ \A j \in Inums : k.itab[j].ref = itab[j].ref
    <3> HIDE DEF i
    <3>1. ilk[i] \in {Nobody, p}
      BY <1>4
    <3> QED BY <1>2, <1>3, <2>4, <3>1, TruncMine
  <2>6. s \in Seq(Inums) /\ Len(s) <= 2 /\ \A j \in Inums : PutCount(s, j) = 0
    BY PutNone
  <2> HIDE DEF s
  <2>7. /\ m \in MeTypes /\ m.at = "end" /\ Shape(m) /\ Locked(m) = 0
        /\ \A j \in Inums : Count(m, cwd[p], j) = One(cwd[p] = j) + PutCount(s, j)
    BY <1>2, <2>6, EndShape
  <2>8. Relocks(p, m) /\ ilk' \in [Inums -> Users \union {Nobody}]
    <3> HIDE DEF i, m
    <3> QED BY <1>1, <1>2, <1>3, <1>4, <2>7, RelocksRelease
  <2>9. /\ ftable' = WithFile(f, h) /\ ofile' = WithFd(p, e, f) /\ Does(p, k, m)
        /\ cwd' = cwd /\ me' = [me EXCEPT ![p] = m]
    BY <1>6 DEF Does
  <2>10. m.at \notin {"writeOp", "writei"}
    BY <2>7
  <2> HIDE DEF i, f, e, k, m, h
  <2>12. /\ FilesOK' /\ (\A q \in Users : WritesFile(q)')
         /\ ofile' \in [Users -> [1 .. NOFile -> 0 .. NFile]]
         /\ ftable' \in [1 .. NFile -> FileTypes]
         /\ \A j \in Inums :
               Cardinality(Opens(j))' - Cardinality(Opens(j)) = One(i = j)
    <3>1. f \in 1 .. NFile /\ ftable[f] = NoFile /\ e \in 1 .. NOFile /\ ofile[p][e] = 0
      BY <2>1
    <3>2. /\ ftable' = WithFile(f, h) /\ ofile' = WithFd(p, e, f)
      BY <2>9
    <3>4. me'[p].at \notin {"writeOp", "writei"} /\ \A q \in Users : q # p => me'[q] = me[q]
      BY <1>2, <2>9, <2>10, FilesTypesParts
    <3>3. h \in FileTypes /\ h.ref = 1 /\ h.ip = i
      BY <2>3
    <3> QED BY <1>3, <3>1, <3>2, <3>3, <3>4, OpenFiles
  <2>13. cwd' = [cwd EXCEPT ![p] = cwd[p]]
    BY <1>2, <2>9, FilesTypesParts
  <2>14. Around(p, cwd[p])
    BY <1>1, <1>2, <2>8, <2>12, <2>13, RestFacts DEF Around
  <2>15. ASSUME NEW j \in Inums PROVE Fits(p, m, k, j) /\ RefFits(p, m, k, cwd[p], j)
    <3>1. Fits(p, m, k, j)
      BY <1>2, <2>5, MineFits
    <3>2. k.itab[j].ref \in Nat /\ (k.itab[j].ref = 0 => ~k.itab[j].valid)
          /\ k.itab[j].ref = itab[j].ref
      BY <2>5 DEF Mine
    <3>3. Cardinality(Opens(j))' - Cardinality(Opens(j)) = One(i = j)
      BY <2>12
    <3>4. One(cwd[p] = j) \in Int /\ One(i = j) \in Int
      BY DEF One
    <3> DEFINE x == Cardinality(Opens(j))' - Cardinality(Opens(j))
               y == Count(m, cwd[p], j)
               z == Count(me[p], cwd[p], j)
    <3>5. y - z = 0 - One(i = j)
      <4>1. y = One(cwd[p] = j) /\ z = One(cwd[p] = j) + One(i = j)
        BY <1>3, <2>6, <2>7, <3>4
      <4> HIDE DEF y, z
      <4> QED BY <3>4, <4>1
    <3>6. x = One(i = j)
      BY <3>3
    <3> HIDE DEF x, y, z
    <3>7. k.itab[j].ref = itab[j].ref + (y - z) + x
      BY <3>2, <3>4, <3>5, <3>6
    <3> QED BY <3>1, <3>2, <3>7 DEF RefFits, x, y, z
  <2>16. k.panic = "none" /\ Locked(m) # 0 => k.itab[Locked(m)].valid
    BY <2>7
  <2>17. k \in KernelTypes
    BY <2>5 DEF Mine
  <2> QED BY <1>2, <2>7, <2>8, <2>9, <2>14, <2>15, <2>16, <2>17, FilesStep
<1> QED BY <1>1, <1>5, <1>6

\* What the kernel did with inodes that p may touch, and without iget() or iput().
Touched(p, k, r) ==
    /\ Mine(p, r) /\ r.panic = k.panic
    /\ \A j \in Inums : r.itab[j].ref = k.itab[j].ref /\ r.itab[j].valid = k.itab[j].valid

\* dirlink() after another one.
LEMMA AndLinkTouched ==
    ASSUME NEW p, NEW k, NEW r, Touched(p, k, r.k), r.ok \in BOOLEAN, NEW d \in Inums,
           ilk[d] \in {Nobody, p}, NEW n \in Entries, NEW i \in Inums \union {0}
    PROVE  LET s == AndLink(r, d, n, i) IN Touched(p, k, s.k) /\ s.ok \in BOOLEAN
<1> DEFINE s == Dirlink(r.k, d, n, i)
<1>1. Mine(p, r.k)
  BY DEF Touched
<1>2. /\ Mine(p, s.k) /\ s.k.panic = r.k.panic
      /\ \A j \in Inums : s.k.itab[j].ref = r.k.itab[j].ref /\ s.k.itab[j].valid = r.k.itab[j].valid
      /\ s.ok \in BOOLEAN
  BY <1>1, MineDirlink
<1> HIDE DEF s
<1>3. Touched(p, k, s.k) /\ s.ok \in BOOLEAN
  BY <1>2 DEF Touched
<1> QED BY <1>3 DEF AndLink, s

\* create() enters the new inode, and a directory's own entries before.
LEMMA MakeEntriesTouched ==
    ASSUME NEW p, NEW k, Mine(p, k), NEW d \in Inums, NEW i \in Inums,
           ilk[d] \in {Nobody, p}, ilk[i] \in {Nobody, p}, NEW n \in Entries, NEW dir
    PROVE  LET r == MakeEntries(k, d, i, n, dir) IN Touched(p, k, r.k) /\ r.ok \in BOOLEAN
<1> DEFINE r0 == [k |-> k, ok |-> TRUE]
           r1 == Dirlink(k, i, Dot, i)
           r2 == AndLink(r1, i, DotDot, d)
           r3 == IF dir THEN r2 ELSE r0
<1>1. Dot \in Entries /\ DotDot \in Entries
  BY DEF Entries
<1>2. Touched(p, k, r1.k) /\ r1.ok \in BOOLEAN
  <2>1. /\ Mine(p, r1.k) /\ r1.k.panic = k.panic
        /\ \A j \in Inums : r1.k.itab[j].ref = k.itab[j].ref /\ r1.k.itab[j].valid = k.itab[j].valid
        /\ r1.ok \in BOOLEAN
    BY <1>1, MineDirlink
  <2> HIDE DEF r1
  <2> QED BY <2>1 DEF Touched
<1>3. Touched(p, k, r2.k) /\ r2.ok \in BOOLEAN
  <2> HIDE DEF r1
  <2> QED BY <1>1, <1>2, AndLinkTouched
<1>4. Touched(p, k, r0.k) /\ r0.ok \in BOOLEAN
  BY DEF Touched
<1> HIDE DEF r0, r2
<1>5. Touched(p, k, r3.k) /\ r3.ok \in BOOLEAN
  BY <1>3, <1>4
<1>6. MakeEntries(k, d, i, n, dir) = AndLink(r3, d, n, i)
  BY DEF MakeEntries, Dots, r0, r2
<1> HIDE DEF r3
<1>7. Touched(p, k, AndLink(r3, d, n, i).k) /\ AndLink(r3, d, n, i).ok \in BOOLEAN
  BY <1>5, AndLinkTouched
<1> QED BY <1>6, <1>7

\* iupdate() of an inode with another link count.
LEMMA LinksTouched ==
    ASSUME NEW p, NEW k, Mine(p, k), NEW i \in Inums, ilk[i] \in {Nobody, p}, NEW n \in Int
    PROVE  Touched(p, k, Iupdate(k, i, WithLinks(Ip(k, i), n)))
<1> DEFINE d == WithLinks(Ip(k, i), n)
<1>1. Ip(k, i) \in Dinodes /\ Ip(k, i) = k.itab[i].copy
  <2>1. k \in KernelTypes
    BY DEF Mine
  <2> QED BY <2>1, KernelParts DEF Ip
<1>2. d \in Dinodes /\ d.type = k.itab[i].copy.type
  BY <1>1, WithLinksFacts
<1> HIDE DEF d
<1> DEFINE r == Iupdate(k, i, d)
<1>3. /\ Mine(p, r) /\ r.panic = k.panic
      /\ \A j \in Inums : r.itab[j].ref = k.itab[j].ref /\ r.itab[j].valid = k.itab[j].valid
  BY <1>2, MineIupdate
<1> HIDE DEF r
<1>4. Touched(p, k, r)
  BY <1>3 DEF Touched
<1> QED BY <1>4 DEF r, d

\* One change after the other.
LEMMA TouchedTwice ==
    ASSUME NEW p, NEW k, NEW r, NEW s, Touched(p, k, r), Touched(p, r, s)
    PROVE  Touched(p, k, s)
BY DEF Touched

\* create() could not enter the inode: it takes it back.
LEMMA CreateFailFacts ==
    ASSUME Tables, NEW p \in Users, NEW a, At(p, a), me[p].dp \in Inums,
           NEW i \in Inums, i # me[p].dp
    PROVE  LET m == Then(p, "createFail", <<i>>)
           IN  /\ m \in MeTypes /\ Shape(m) /\ Locked(m) = me[p].dp /\ m.at = "createFail"
               /\ \A j \in Inums :
                    Count(m, cwd[p], j) = One(cwd[p] = j) + One(me[p].dp = j) + One(i = j)
<1> DEFINE s == <<i>>
           m == Then(p, "createFail", s)
<1>1. me[p] \in MeTypes /\ "createFail" \in Places
  BY AtFacts DEF Places
<1>2. s \in Seq(Inums) /\ Len(s) <= 2 /\ Len(s) <= 1 /\ Head(s) = i
      /\ \A j \in Inums : PutCount(s, j) = One(i = j)
  BY PutOne
<1> HIDE DEF s
<1>3. m \in MeTypes /\ m.at = "createFail" /\ m.put = s /\ m.dp = me[p].dp
  BY <1>1, <1>2, ThenFacts
<1> HIDE DEF m
<1>4. Len(m.put) <= 2 /\ Len(m.put) <= 1 /\ Head(m.put) # m.dp /\ m.dp # 0
  BY <1>2, <1>3, Constants
<1>5. Shape(m) /\ Locked(m) = me[p].dp
  BY <1>3, <1>4 DEF Shape, IpUsed, IpPlaces, DpPlaces, Locked
<1>6. \A j \in Inums :
        Count(m, cwd[p], j) = One(cwd[p] = j) + One(me[p].dp = j) + One(i = j)
  BY <1>2, <1>3, CountAt
<1> QED BY <1>3, <1>5, <1>6 DEF m, s

\* CreateNew keeps the tables.
LEMMA CreateNewStep == ASSUME Tables, NEW p \in Users, CreateNew(p) PROVE Tables'
<1> DEFINE d  == me[p].dp
           i  == me[p].ip
           k  == Ilock(K, i)
           k1 == Iupdate(k, i, WithLinks(Ip(k, i), 1))
           r  == MakeEntries(k1, d, i, LastName(p), me[p].call.op = "mkdir")
           u  == Iupdate(r.k, d, WithLinks(Ip(r.k, d), Ip(r.k, d).nlink + 1))
           k2 == IF me[p].call.op = "mkdir" THEN u ELSE r.k
           k3 == Iupdate(r.k, i, WithLinks(Ip(r.k, i), 0))
           b  == IF me[p].call.op = "create" THEN "openFile" ELSE "made"
           m2 == Then(p, b, <<d>>)
           m3 == Then(p, "createFail", <<i>>)
<1>1. /\ At(p, "createNew") /\ FreeLock(i) /\ FilesKept /\ Rest
      /\ \/ Does(p, k2, m2) /\ ilk' = [Release({d}) EXCEPT ![i] = p]
         \/ Does(p, k3, m3) /\ UNCHANGED ilk
  BY DEF CreateNew, CreateEnd, CreateFails, WithLinks
<1>2. /\ FilesTypes /\ me[p] \in MeTypes /\ me[p].at = "createNew" /\ LocksOK /\ CopiesOK
      /\ panic = "none"
  BY <1>1, AtFacts
<1>3. d \in Inums /\ i \in Inums
      /\ \A j \in Inums : Count(me[p], cwd[p], j) = One(cwd[p] = j) + One(i = j) + One(d = j)
  BY <1>1, InHand DEF IpPlaces, DpPlaces
<1>4. Locked(me[p]) = d /\ "createNew" \notin {"writeOp", "writei"}
  BY <1>2 DEF Locked
<1>5. /\ Mine(p, k) /\ k \in KernelTypes
      /\ \A j \in Inums : k.itab[j].ref = itab[j].ref /\ itab[j].ref \in Nat
      /\ \A j \in Inums : itab[j].valid => k.itab[j].valid
      /\ k.panic = "none" => k.itab[i].valid
  <2>1. "createNew" \in IpPlaces /\ "createNew" # "writei" /\ At(p, "createNew") /\ FreeLock(i)
    BY <1>1 DEF IpPlaces
  <2> QED BY <1>3, <2>1, Locks
<1>6. LastName(p) \in Entries
  BY <1>1, LastNameType
<1>7. ilk[d] = p /\ d # i /\ ilk[i] \in {Nobody, p} /\ ilk[d] \in {Nobody, p}
  BY <1>1, <1>2, <1>3, <1>4, Constants DEF LocksOK, FreeLock
<1>8. itab[d].valid
  BY <1>2, <1>3, <1>4, Constants DEF CopiesOK
<1>9. b \in {"openFile", "made"}
  OBVIOUS
<1>a. me[p].ip = i /\ me[p].dp = d
  OBVIOUS
<1> HIDE DEF i, d, k, b
<1>10. Touched(p, k, k1)
  BY <1>3, <1>5, <1>7, LinksTouched
<1> HIDE DEF k1
<1>11. Touched(p, k1, r.k) /\ Mine(p, k1)
  BY <1>3, <1>6, <1>7, <1>10, MakeEntriesTouched DEF Touched
<1> HIDE DEF r
<1>12. Touched(p, k, r.k) /\ Mine(p, r.k)
  BY <1>10, <1>11, TouchedTwice DEF Touched
<1>13. Touched(p, k, k2)
  <2>1. Ip(r.k, d).nlink + 1 \in Int
    <3>1. r.k \in KernelTypes
      BY <1>12 DEF Mine
    <3>2. Ip(r.k, d) \in Dinodes
      BY <1>3, <3>1, KernelParts DEF Ip
    <3> QED BY <3>2, DinodeParts
  <2> DEFINE n == Ip(r.k, d).nlink + 1
  <2>2. u = Iupdate(r.k, d, WithLinks(Ip(r.k, d), n)) /\ n \in Int
    BY <2>1
  <2> HIDE DEF n, u
  <2>3. Touched(p, r.k, u)
    BY <1>3, <1>7, <1>12, <2>2, LinksTouched
  <2>4. Touched(p, k, u)
    BY <1>12, <2>3, TouchedTwice
  <2> QED BY <1>12, <2>4
<1> HIDE DEF k2
<1>14. Touched(p, k, k3)
  <2>1. Touched(p, r.k, k3)
    BY <1>3, <1>7, <1>12, LinksTouched
  <2> HIDE DEF k3
  <2> QED BY <1>12, <2>1, TouchedTwice
<1> HIDE DEF k3
<1>15. ASSUME NEW j \in Inums
       PROVE  One(cwd[p] = j) \in Int /\ One(i = j) \in Int /\ One(d = j) \in Int
              /\ itab[j].ref \in Int
  BY <1>5 DEF One
<1>16. CASE Does(p, k2, m2) /\ ilk' = [Release({d}) EXCEPT ![i] = p]
  <2> DEFINE s == <<d>>
  <2>1. /\ s \in Seq(Inums) /\ Len(s) <= 1 /\ (s # <<>> => Head(s) # i)
        /\ \A j \in Inums : PutCount(s, j) = One(d = j)
    BY <1>3, <1>7, PutOne
  <2>2. m2 = Then(p, b, s)
    OBVIOUS
  <2> HIDE DEF s, m2
  <2>3. /\ m2 \in MeTypes /\ Shape(m2) /\ Locked(m2) = i /\ m2.at = b
        /\ \A j \in Inums :
              Count(m2, cwd[p], j) = One(cwd[p] = j) + One(i = j) + PutCount(s, j)
    BY <1>1, <1>3, <1>9, <1>a, <2>1, <2>2, HeldFacts
  <2>4. Relocks(p, m2) /\ ilk' \in [Inums -> Users \union {Nobody}]
    BY <1>1, <1>2, <1>3, <1>4, <1>16, <2>3, RelocksMove
  <2>5. ASSUME NEW j \in Inums
        PROVE  k2.itab[j].ref = itab[j].ref + Count(m2, cwd[p], j) - Count(me[p], cwd[p], j)
    <3>1. k2.itab[j].ref = itab[j].ref
      BY <1>5, <1>13 DEF Touched
    <3>2. /\ Count(m2, cwd[p], j) = One(cwd[p] = j) + One(i = j) + One(d = j)
          /\ Count(me[p], cwd[p], j) = One(cwd[p] = j) + One(i = j) + One(d = j)
      BY <1>3, <2>1, <2>3
    <3> QED BY <1>15, <3>1, <3>2
  <2>6. k2.panic = "none" /\ Locked(m2) # 0 => k2.itab[Locked(m2)].valid
    BY <1>3, <1>5, <1>13, <2>3 DEF Touched
  <2>7. m2.at \notin {"writeOp", "writei"}
    BY <1>9, <2>3
  <2>8. Mine(p, k2)
    BY <1>13 DEF Touched
  <2>9. Does(p, k2, m2) /\ At(p, "createNew") /\ FilesKept /\ Rest
    BY <1>1, <1>16
  <2> QED BY <1>4, <2>3, <2>4, <2>5, <2>6, <2>7, <2>8, <2>9, PlaceStep
<1>17. CASE Does(p, k3, m3) /\ UNCHANGED ilk
  <2>3. /\ m3 \in MeTypes /\ Shape(m3) /\ Locked(m3) = d /\ m3.at = "createFail"
        /\ \A j \in Inums :
              Count(m3, cwd[p], j) = One(cwd[p] = j) + One(d = j) + One(i = j)
    BY <1>1, <1>3, <1>7, <1>a, CreateFailFacts
  <2> HIDE DEF m3
  <2>4. Relocks(p, m3) /\ ilk' \in [Inums -> Users \union {Nobody}]
    BY <1>2, <1>4, <1>17, <2>3, RelocksKept
  <2>5. ASSUME NEW j \in Inums
        PROVE  k3.itab[j].ref = itab[j].ref + Count(m3, cwd[p], j) - Count(me[p], cwd[p], j)
    <3>1. k3.itab[j].ref = itab[j].ref
      BY <1>5, <1>14 DEF Touched
    <3>2. /\ Count(m3, cwd[p], j) = One(cwd[p] = j) + One(d = j) + One(i = j)
          /\ Count(me[p], cwd[p], j) = One(cwd[p] = j) + One(i = j) + One(d = j)
      BY <1>3, <2>3
    <3> QED BY <1>15, <3>1, <3>2
  <2>6. k3.panic = "none" /\ Locked(m3) # 0 => k3.itab[Locked(m3)].valid
    BY <1>3, <1>5, <1>8, <1>14, <2>3 DEF Touched
  <2>7. m3.at \notin {"writeOp", "writei"}
    BY <2>3
  <2>8. Mine(p, k3)
    BY <1>14 DEF Touched
  <2>9. Does(p, k3, m3) /\ At(p, "createNew") /\ FilesKept /\ Rest
    BY <1>1, <1>17
  <2> QED BY <1>4, <2>3, <2>4, <2>5, <2>6, <2>7, <2>8, <2>9, PlaceStep
<1> QED BY <1>1, <1>16, <1>17

-----------------------------------------------------------------------------
(* Steps of write()                                                        *)

\* A process that writes: its file, and its inode, which the file refers to.
LEMMA WriterFacts ==
    ASSUME Tables, NEW p \in Users, NEW a, At(p, a), a \in {"writeOp", "writei"}
    PROVE  LET f == FileOf(p)
           IN  /\ f \in 1 .. NFile /\ ftable[f] \in FileTypes /\ ftable[f].ref # 0
               /\ ftable[f].ip = me[p].ip /\ ftable[f].off \in Nat
               /\ me[p].ip \in Inums /\ Cardinality(Opens(me[p].ip)) >= 1
               /\ \A j \in Inums : Count(me[p], cwd[p], j) = One(cwd[p] = j)
               /\ a = "writei" => Locked(me[p]) = me[p].ip /\ ilk[me[p].ip] = p
               /\ a = "writeOp" => Locked(me[p]) = 0
<1> DEFINE i == me[p].ip
           d == me[p].fd
           f == ofile[p][d]
<1>1. /\ me[p] \in MeTypes /\ Shape(me[p]) /\ me[p].at = a /\ FilesTypes /\ LocksOK /\ FilesOK
  BY AtFacts
<1>2. d \in 1 .. NOFile /\ f # 0 /\ ftable[f].ip = i
  BY <1>1 DEF Tables, WritesFile, FileOf
<1>3. i \in Inums
  BY <1>1, MeParts DEF Shape
<1>4. f \in 1 .. NFile /\ ftable[f] \in FileTypes
  <2>1. ofile[p] \in [1 .. NOFile -> 0 .. NFile]
    BY <1>1 DEF FilesTypes
  <2>2. f \in 0 .. NFile /\ NFile \in Nat
    BY <1>2, <2>1, FilesAssumption
  <2>3. f \in 1 .. NFile
    BY <1>2, <2>2
  <2> QED BY <1>1, <2>3 DEF FilesTypes
<1>5. ftable[f].off \in Nat
  BY <1>4 DEF FileTypes
<1>6. ftable[f].ref # 0
  BY <1>1, <1>2, <1>3, <1>4, Constants, NoFileFacts DEF FilesOK
<1>7. Cardinality(Opens(i)) >= 1
  <2>1. f \in Opens(i)
    BY <1>2, <1>4 DEF Opens
  <2> HIDE DEF i, f
  <2> QED BY <2>1, OneOpen
<1>8. \A j \in Inums : Count(me[p], cwd[p], j) = One(cwd[p] = j)
  BY InHand
<1>9. a = "writei" => Locked(me[p]) = i /\ ilk[i] = p
  <2>1. a = "writei" => Locked(me[p]) = i
    BY <1>1 DEF Locked
  <2> QED BY <1>1, <1>3, <2>1, Constants DEF LocksOK
<1>10. a = "writeOp" => Locked(me[p]) = 0
  BY <1>1, NoLock
<1> QED BY <1>2, <1>3, <1>4, <1>5, <1>6, <1>7, <1>8, <1>9, <1>10 DEF FileOf

\* A process in write(), at a place, with so many blocks left in all and in this transaction.
Writes(m, a, l, n) == [m EXCEPT !.at = a, !.left = l, !.now = n]

\* It refers to nothing by itself, but through its file, and has its inode locked in writei().
LEMMA WritesFacts ==
    ASSUME NEW m \in MeTypes, m.put = <<>>, m.ip \in Inums, NEW a \in {"writeOp", "writei"},
           NEW l \in Int, NEW n \in Int
    PROVE  LET w == Writes(m, a, l, n)
           IN  /\ w \in MeTypes /\ Shape(w) /\ w.at = a /\ w.ip = m.ip /\ w.fd = m.fd
               /\ Locked(w) = IF a = "writei" THEN m.ip ELSE 0
               /\ \A c : \A j \in Inums : Count(w, c, j) = One(c = j)
<1> DEFINE w == Writes(m, a, l, n)
<1>1. /\ w \in MeTypes /\ w.at = a /\ w.ip = m.ip /\ w.fd = m.fd /\ w.put = <<>>
  <2>1. a \in Places
    BY DEF Places
  <2> QED BY <2>1 DEF Writes, MeTypes
<1> HIDE DEF w
<1>2. Shape(w) /\ Locked(w) = IF a = "writei" THEN m.ip ELSE 0
  <2>1. Len(w.put) <= 2 /\ w.ip # 0
    BY <1>1, Constants
  <2> QED BY <1>1, <2>1 DEF Shape, IpUsed, IpPlaces, DpPlaces, Locked
<1>3. ASSUME NEW c, NEW j \in Inums PROVE Count(w, c, j) = One(c = j)
  <2>1. PutCount(w.put, j) = 0
    BY <1>1, PutNone
  <2>2. Count(w, c, j) = One(c = j) + PutCount(w.put, j)
    BY <1>1, CountAt
  <2>3. One(c = j) \in Int
    BY DEF One
  <2> QED BY <2>1, <2>2, <2>3
<1> QED BY <1>1, <1>2, <1>3 DEF w

\* WriteOp keeps the tables.
LEMMA WriteOpStep == ASSUME Tables, NEW p \in Users, WriteOp(p) PROVE Tables'
<1> DEFINE i == me[p].ip
           n == Smaller(me[p].left, WriteMax)
           l == me[p].left - n
           k == Ilock(K, i)
           m == Writes(me[p], "writei", l, n)
<1>1. /\ At(p, "writeOp") /\ FreeLock(i) /\ FilesKept /\ inTx' = inTx \union {p}
      /\ ilk' = Holds(p, i) /\ Does(p, k, m) /\ UNCHANGED <<disk, boot>>
  BY DEF WriteOp, Writes
<1>2. /\ FilesTypes /\ me[p] \in MeTypes /\ me[p].at = "writeOp" /\ LocksOK
      /\ panic = "none" /\ boot = 0 /\ me[p].put = <<>> /\ \A j \in Inums : ~Frees(p, j)
  BY <1>1, AtFacts
<1>3. /\ i \in Inums /\ Cardinality(Opens(i)) >= 1 /\ Locked(me[p]) = 0
      /\ \A j \in Inums : Count(me[p], cwd[p], j) = One(cwd[p] = j)
  BY <1>1, WriterFacts
<1>4. n \in Int /\ l \in Int
  BY <1>2, FilesAssumption DEF MeTypes, Smaller
<1>5. Fetched(k, i)
  <2> HIDE DEF i
  <2> QED BY <1>1, <1>2, <1>3, Fetch
<1> HIDE DEF n, l
<1>6. /\ m \in MeTypes /\ Shape(m) /\ m.at = "writei" /\ m.ip = me[p].ip /\ m.fd = me[p].fd
      /\ Locked(m) = i
      /\ \A j \in Inums : Count(m, cwd[p], j) = One(cwd[p] = j)
  BY <1>2, <1>3, <1>4, WritesFacts
<1> HIDE DEF m, k
<1>7. Relocks(p, m) /\ ilk' \in [Inums -> Users \union {Nobody}]
  BY <1>1, <1>2, <1>3, <1>6, RelocksHold
<1>8. ASSUME NEW j \in Inums
      PROVE  /\ Fits(p, m, k, j)
             /\ k.itab[j].ref = itab[j].ref + Count(m, cwd[p], j) - Count(me[p], cwd[p], j)
             /\ k.itab[j].ref = 0 => ~k.itab[j].valid
  <2>1. /\ Fits(p, m, k, j) /\ k.itab[j].ref = itab[j].ref
        /\ k.itab[j].ref \in Nat /\ (k.itab[j].ref = 0 => ~k.itab[j].valid)
    BY <1>1, <1>2, <1>3, <1>5, FetchedKeeps
  <2>2. One(cwd[p] = j) \in Int
    BY DEF One
  <2> QED BY <1>3, <1>6, <2>1, <2>2
<1>9. k.panic = "none" /\ Locked(m) # 0 => k.itab[Locked(m)].valid
  BY <1>5, <1>6 DEF Fetched
<1>10. /\ disk' \in FsTypes /\ inTx' \in SUBSET Users /\ boot' = boot
  BY <1>1, <1>2 DEF FilesTypes
<1>11. k \in KernelTypes
  BY <1>5 DEF Fetched
<1>12. m.at \in {"writeOp", "writei"} =>
          me[p].at \in {"writeOp", "writei"} /\ m.fd = me[p].fd /\ m.ip = me[p].ip
  BY <1>2, <1>6
<1>13. Does(p, k, m) /\ FilesKept
  BY <1>1
<1> QED BY <1>2, <1>6, <1>7, <1>8, <1>9, <1>10, <1>11, <1>12, <1>13, UserStep

\* What writei() does to the inode that it has locked.
LEMMA WritingFits ==
    ASSUME Tables, NEW p \in Users, At(p, "writei"), NEW k \in KernelTypes,
           k.fs.ino = fs.ino, NEW i \in Inums, i = me[p].ip,
           k.itab[i].ref = itab[i].ref, k.itab[i].valid = itab[i].valid,
           k.itab[i].copy.type = itab[i].copy.type, k.itab[i].copy.nlink = itab[i].copy.nlink,
           \A j \in Inums : j # i => k.itab[j] = itab[j],
           NEW m, m.at = "writei", Locked(m) = i
    PROVE  /\ \A j \in Inums : /\ Fits(p, m, k, j) /\ k.itab[j].ref = itab[j].ref
                               /\ k.itab[j].ref \in Nat /\ (k.itab[j].ref = 0 => ~k.itab[j].valid)
           /\ k.itab[Locked(m)].valid
<1>1. /\ CopiesOK /\ panic = "none" /\ \A j \in Inums : ~Frees(p, j)
      /\ \A j \in Inums : itab[j].ref \in Nat /\ (itab[j].ref = 0 => ~itab[j].valid)
  BY AtFacts
<1>2. Locked(me[p]) = i /\ ilk[i] = p
  BY WriterFacts
<1>3. ASSUME NEW j \in Inums PROVE Fits(p, m, k, j)
  <2>1. CASE j = i
    <3>1. ~BeingFreed(i)
      BY <1>1, <1>2 DEF BeingFreed
    <3>2. CopyOK(i)
      BY <1>1 DEF CopiesOK
    <3>3. k.itab[i].valid => Current(k, i)
      BY <3>1, <3>2 DEF CopyOK, Current
    <3> QED BY <1>2, <2>1, <3>3 DEF Fits
  <2>2. CASE j # i
    BY <1>2, <2>2 DEF Fits
  <2> QED BY <2>1, <2>2
<1>4. \A j \in Inums : k.itab[j].ref = itab[j].ref /\ k.itab[j].valid = itab[j].valid
  OBVIOUS
<1>5. itab[i].valid
  BY <1>1, <1>2, Constants DEF CopiesOK
<1> QED BY <1>1, <1>3, <1>4, <1>5

\* A block is filled: the inode grows in memory, and only there.
LEMMA FilledFacts ==
    ASSUME NEW r, r.k \in KernelTypes, r.addr \in Blocks, NEW i \in Inums, NEW off \in Nat
    PROVE  LET u == Filled(r, i, off)
           IN  /\ u \in KernelTypes /\ u.panic = r.k.panic /\ u.fs.ino = r.k.fs.ino
               /\ u.fs.ind = r.k.fs.ind /\ u.fs.used = r.k.fs.used
               /\ u.fs.data[r.addr] = r.k.fs.data[r.addr] \union {i}
               /\ \A b \in Blocks : b # r.addr => u.fs.data[b] = r.k.fs.data[b]
               /\ u.itab[i].ref = r.k.itab[i].ref /\ u.itab[i].valid = r.k.itab[i].valid
               /\ u.itab[i].copy.type = r.k.itab[i].copy.type
               /\ u.itab[i].copy.nlink = r.k.itab[i].copy.nlink
               /\ u.itab[i].copy.addrs = r.k.itab[i].copy.addrs
               /\ \A j \in Inums : j # i => u.itab[j] = r.k.itab[j]
<1> DEFINE k == r.k
           S == k.fs.data[r.addr] \union {i}
           g == [k.fs EXCEPT !.data[r.addr] = S]
           w == WithFs(k, g)
           s == off + 1
           d == Resized(Ip(k, i), s)
           u == Change(w, i, d)
<1>1. k.fs \in FsTypes /\ k.fs.data \in [Blocks -> SUBSET Inums]
  BY KernelParts, FsParts
<1>2. Filled(r, i, off) = u
  BY <1>1 DEF Filled, Resized
<1>3. S \in SUBSET Inums
  BY <1>1
<1> HIDE DEF S
<1>4. /\ g \in FsTypes /\ g.ino = k.fs.ino /\ g.ind = k.fs.ind /\ g.used = k.fs.used
      /\ g.data[r.addr] = S /\ \A b \in Blocks : b # r.addr => g.data[b] = k.fs.data[b]
  <2> DEFINE x == k.fs
             b == r.addr
  <2>1. x \in FsTypes /\ b \in Blocks
    BY <1>1
  <2>2. g = [x EXCEPT !.data[b] = S]
    OBVIOUS
  <2> HIDE DEF k, x, b, g
  <2>3. /\ g \in FsTypes /\ g.ino = x.ino /\ g.ind = x.ind /\ g.used = x.used
        /\ g.data[b] = S /\ \A c \in Blocks : c # b => g.data[c] = x.data[c]
    BY <1>3, <2>1, <2>2, FsWithData
  <2> QED BY <2>3 DEF x, b
<1> HIDE DEF g
<1>5. w \in KernelTypes /\ w.fs = g /\ w.itab = k.itab /\ w.panic = k.panic
  BY <1>4, WithFsFacts
<1> HIDE DEF w
<1>6. Ip(k, i) \in Dinodes /\ Ip(k, i) = k.itab[i].copy
  BY KernelParts DEF Ip
<1>7. s \in Nat
  OBVIOUS
<1> HIDE DEF s, k
<1>8. d \in Dinodes /\ d.type = Ip(k, i).type /\ d.nlink = Ip(k, i).nlink
      /\ d.addrs = Ip(k, i).addrs
  BY <1>6, <1>7, ResizedFacts
<1> HIDE DEF d
<1>9. /\ u \in KernelTypes /\ u.fs = w.fs /\ u.panic = w.panic
      /\ u.itab[i].ref = w.itab[i].ref /\ u.itab[i].valid = w.itab[i].valid
      /\ u.itab[i].copy = d
      /\ \A j \in Inums : j # i => u.itab[j] = w.itab[j]
  BY <1>5, <1>8, ChangeFacts
<1> HIDE DEF u
<1> QED BY <1>2, <1>4, <1>5, <1>6, <1>8, <1>9 DEF k, S

\* The table of inodes of k is the present one, but for the blocks and the size
\* of the copy of i.
SameNode(k, i) ==
    /\ k.fs.ino = fs.ino
    /\ k.itab[i].ref = itab[i].ref /\ k.itab[i].valid = itab[i].valid
    /\ k.itab[i].copy.type = itab[i].copy.type /\ k.itab[i].copy.nlink = itab[i].copy.nlink
    /\ \A j \in Inums : j # i => k.itab[j] = itab[j]

\* The step changes at most the offset of the open file f.
OffMoves(f) == UNCHANGED ftable \/ \E o \in Nat : ftable' = WithFile(f, AtOff(ftable[f], o))

\* A step of writei() that does not end it, and that changes only blocks, the
\* size of the file and the offset, keeps the tables.
LEMMA WriteiStep ==
    ASSUME Tables, NEW p \in Users, At(p, "writei"), NEW k \in KernelTypes,
           SameNode(k, me[p].ip), NEW m, NEW l \in Int, NEW n \in Int,
           m = Writes(me[p], "writei", l, n), Does(p, k, m), OffMoves(FileOf(p)),
           Rest, UNCHANGED <<ilk, cwd, ofile>>
    PROVE  Tables'
<1> DEFINE i == me[p].ip
           f == FileOf(p)
<1>2. /\ FilesTypes /\ me[p] \in MeTypes /\ me[p].at = "writei" /\ LocksOK
      /\ panic = "none" /\ boot = 0 /\ me[p].put = <<>> /\ \A j \in Inums : ~Frees(p, j)
      /\ cwd[p] \in Inums
  BY AtFacts
<1>3. /\ i \in Inums /\ Locked(me[p]) = i
      /\ f \in 1 .. NFile /\ ftable[f] \in FileTypes /\ ftable[f].ref # 0
      /\ \A j \in Inums : Count(me[p], cwd[p], j) = One(cwd[p] = j)
  BY WriterFacts
<1>6. /\ m \in MeTypes /\ Shape(m) /\ m.at = "writei" /\ m.ip = me[p].ip /\ m.fd = me[p].fd
      /\ Locked(m) = i
      /\ \A j \in Inums : Count(m, cwd[p], j) = One(cwd[p] = j)
  BY <1>2, <1>3, WritesFacts
<1>7. Relocks(p, m) /\ ilk' \in [Inums -> Users \union {Nobody}]
  BY <1>2, <1>3, <1>6, RelocksKept
<1>8. /\ \A j \in Inums : /\ Fits(p, m, k, j) /\ k.itab[j].ref = itab[j].ref
                          /\ k.itab[j].ref \in Nat /\ (k.itab[j].ref = 0 => ~k.itab[j].valid)
      /\ k.itab[Locked(m)].valid
  <2>1. /\ k.fs.ino = fs.ino /\ k.itab[i].ref = itab[i].ref /\ k.itab[i].valid = itab[i].valid
        /\ k.itab[i].copy.type = itab[i].copy.type /\ k.itab[i].copy.nlink = itab[i].copy.nlink
        /\ \A j \in Inums : j # i => k.itab[j] = itab[j]
    BY DEF SameNode
  <2> QED BY <1>3, <1>6, <2>1, WritingFits
<1>9. Does(p, k, m)
  OBVIOUS
<1>10. me' = [me EXCEPT ![p] = m] /\ cwd' = [cwd EXCEPT ![p] = cwd[p]]
  BY <1>2, <1>9, FilesTypesParts DEF Does
<1>11. \E h \in FileTypes : /\ h.ref = ftable[f].ref /\ h.ip = ftable[f].ip
                            /\ ftable' = WithFile(f, h)
  <2>1. CASE UNCHANGED ftable
    <3>1. ftable' = WithFile(f, ftable[f])
      BY <1>2, <1>3, <2>1 DEF WithFile, FilesTypes
    <3> QED BY <1>3, <3>1
  <2>2. CASE \E o \in Nat : ftable' = WithFile(f, AtOff(ftable[f], o))
    <3>1. PICK o \in Nat : ftable' = WithFile(f, AtOff(ftable[f], o))
      BY <2>2
    <3>2. /\ AtOff(ftable[f], o) \in FileTypes /\ AtOff(ftable[f], o).ref = ftable[f].ref
          /\ AtOff(ftable[f], o).ip = ftable[f].ip
      BY <1>3, AtOffFacts
    <3> QED BY <3>1, <3>2
  <2> QED BY <2>1, <2>2 DEF OffMoves
<1>12. PICK h \in FileTypes : /\ h.ref = ftable[f].ref /\ h.ip = ftable[f].ip
                              /\ ftable' = WithFile(f, h)
  BY <1>11
<1> HIDE DEF i, f
<1>13. /\ FilesOK' /\ (\A q \in Users : WritesFile(q)')
       /\ ofile' \in [Users -> [1 .. NOFile -> 0 .. NFile]]
       /\ ftable' \in [1 .. NFile -> FileTypes]
       /\ \A j \in Inums : Cardinality(Opens(j))' = Cardinality(Opens(j))
  <2>1. m.at \in {"writeOp", "writei"} =>
           me[p].at \in {"writeOp", "writei"} /\ m.fd = me[p].fd /\ m.ip = me[p].ip
    BY <1>2, <1>6
  <2>2. me' = [me EXCEPT ![p] = m] /\ UNCHANGED ofile
    BY <1>10
  <2> QED BY <1>3, <1>12, <2>1, <2>2, OffStep
<1>14. Around(p, cwd[p])
  BY <1>2, <1>7, <1>10, <1>13, RestFacts DEF Around
<1>15. ASSUME NEW j \in Inums PROVE Fits(p, m, k, j) /\ RefFits(p, m, k, cwd[p], j)
  <2>1. /\ Fits(p, m, k, j) /\ k.itab[j].ref = itab[j].ref
        /\ k.itab[j].ref \in Nat /\ (k.itab[j].ref = 0 => ~k.itab[j].valid)
    BY <1>8
  <2>2. Cardinality(Opens(j))' = Cardinality(Opens(j)) /\ Cardinality(Opens(j)) \in Nat
    BY <1>13, OpensFinite
  <2>3. One(cwd[p] = j) \in Int
    BY DEF One
  <2> QED BY <1>3, <1>6, <2>1, <2>2, <2>3 DEF RefFits
<1>16. k.panic = "none" /\ Locked(m) # 0 => k.itab[Locked(m)].valid
  BY <1>8
<1> QED BY <1>2, <1>6, <1>7, <1>9, <1>14, <1>15, <1>16, FilesStep

\* What WriteBlock does, with the names of the lemmas above: it stops before the
\* block, stops for want of a block, or fills the block.
WriteBlockShape(p, f, r, u, stop, m) ==
    /\ Rest /\ UNCHANGED <<ilk, cwd, ofile>>
    /\ \/ Does(p, K, stop) /\ UNCHANGED ftable
       \/ /\ ftable[f].off + me[p].now <= MaxBlock /\ me[p].now > 0
          /\ Does(p, r.k, stop) /\ UNCHANGED ftable
       \/ /\ ftable[f].off + me[p].now <= MaxBlock /\ me[p].now > 0 /\ r.addr # 0
          /\ Does(p, u, m) /\ ftable' = WithFile(f, AtOff(ftable[f], ftable[f].off + 1))

\* WriteBlock has that shape.
LEMMA WriteBlockFacts ==
    ASSUME Tables, NEW p \in Users, WriteBlock(p), NEW i, i = me[p].ip,
           NEW f, f = FileOf(p), NEW r, r = Bmap(K, i, ftable[f].off),
           NEW u, u = Filled(r, i, ftable[f].off),
           NEW stop, stop = Writes(me[p], "writei", 0, 0),
           NEW m, m = Writes(me[p], "writei", me[p].left, me[p].now - 1)
    PROVE  WriteBlockShape(p, f, r, u, stop, m)
<1> DEFINE off == ftable[f].off
           h == AtOff(ftable[f], off + 1)
<1>1. At(p, "writei")
  BY DEF WriteBlock
<1>2. /\ FilesTypes /\ me[p] \in MeTypes /\ me[p].at = "writei" /\ i \in Inums /\ off \in Nat
      /\ f \in 1 .. NFile
  BY <1>1, AtFacts, WriterFacts
<1>3. me[p].left \in Int /\ me[p].now \in Int
  BY <1>2 DEF MeTypes
<1>4. stop = [me[p] EXCEPT !.left = 0, !.now = 0] /\ m = [me[p] EXCEPT !.now = @ - 1]
  BY <1>2 DEF Writes, MeTypes
<1>5. [ftable EXCEPT ![f] = Advanced(@)] = WithFile(f, h)
  <2>1. ftable \in [1 .. NFile -> FileTypes] /\ ftable[f] \in FileTypes
    BY <1>2 DEF FilesTypes
  <2>2. Advanced(ftable[f]) = h
    BY <2>1 DEF Advanced, AtOff, FileTypes
  <2> HIDE DEF h
  <2> QED BY <1>2, <2>1, <2>2 DEF WithFile
<1>6. /\ MaxBlock \in Nat
      /\ ~(off > Ip(K, i).size \/ off + me[p].now > MaxBlock) => off + me[p].now <= MaxBlock
  BY <1>2, <1>3, FilesAssumption DEF MaxBlock
<1> HIDE DEF h
<1>7. /\ Rest /\ UNCHANGED <<ilk, cwd, ofile>>
      /\ \/ Does(p, K, stop) /\ UNCHANGED ftable
         \/ /\ off + me[p].now <= MaxBlock /\ me[p].now > 0
            /\ Does(p, r.k, stop) /\ UNCHANGED ftable
         \/ /\ off + me[p].now <= MaxBlock /\ me[p].now > 0 /\ r.addr # 0
            /\ Does(p, u, m) /\ ftable' = WithFile(f, h)
  BY <1>4, <1>5, <1>6 DEF WriteBlock
<1> QED BY <1>7 DEF WriteBlockShape, h

\* WriteBlock keeps the tables.
LEMMA WriteBlockStep == ASSUME Tables, NEW p \in Users, WriteBlock(p) PROVE Tables'
<1> DEFINE i == me[p].ip
           f == FileOf(p)
           off == ftable[f].off
           r == Bmap(K, i, off)
           k == r.k
           u == Filled(r, i, off)
           stop == Writes(me[p], "writei", 0, 0)
           m == Writes(me[p], "writei", me[p].left, me[p].now - 1)
<1>1. WriteBlockShape(p, f, r, u, stop, m)
  BY WriteBlockFacts
<1>2. /\ FilesTypes /\ me[p] \in MeTypes /\ K \in KernelTypes /\ K.fs = fs /\ K.itab = itab
      /\ At(p, "writei")
  BY AtFacts DEF WriteBlock
<1>3. i \in Inums /\ off \in Nat /\ f \in 1 .. NFile
  BY <1>2, WriterFacts
<1>4. me[p].left \in Int /\ me[p].now \in Int /\ me[p].now - 1 \in Int /\ 0 \in Int
  BY <1>2 DEF MeTypes
<1>5. off + me[p].now <= MaxBlock /\ me[p].now > 0 =>
            Grown(K, r.k, i) /\ r.addr \in Blocks \union {0}
  <2> DEFINE n == me[p].now
  <2>1. off \in Nat /\ n \in Int
    BY <1>3, <1>4
  <2> HIDE DEF i, off, n
  <2>2. off + n <= MaxBlock /\ n > 0 => off \in 0 .. MaxBlock - 1
    BY <2>1, FilesAssumption DEF MaxBlock
  <2> QED BY <1>2, <1>3, <2>2, BmapGrown DEF n
<1>6. stop = Writes(me[p], "writei", 0, 0) /\ m = Writes(me[p], "writei", me[p].left, me[p].now - 1)
  OBVIOUS
<1>7. Grown(K, k, i) /\ r.addr \in Blocks =>
         /\ u \in KernelTypes /\ u.fs.ino = k.fs.ino
         /\ u.itab[i].ref = k.itab[i].ref /\ u.itab[i].valid = k.itab[i].valid
         /\ u.itab[i].copy.type = k.itab[i].copy.type
         /\ u.itab[i].copy.nlink = k.itab[i].copy.nlink
         /\ \A j \in Inums : j # i => u.itab[j] = k.itab[j]
  <2> HIDE DEF r, i, off
  <2>1. Grown(K, r.k, i) => r.k \in KernelTypes
    BY DEF Grown
  <2> QED BY <1>3, <2>1, FilledFacts
<1> HIDE DEF r, k, u, stop, m
<1>8. /\ At(p, "writei") /\ i = me[p].ip /\ f = FileOf(p) /\ k = r.k
      /\ WriteBlockShape(p, f, r, u, stop, m)
  BY <1>1, <1>2 DEF k
<1>9. K \in KernelTypes /\ SameNode(K, i)
  BY <1>2 DEF SameNode
<1> HIDE DEF i, f, off
<1>10. Grown(K, k, i) => k \in KernelTypes /\ SameNode(k, i)
  BY <1>2 DEF Grown, SameNode
<1>11. Grown(K, k, i) /\ r.addr \in Blocks => u \in KernelTypes /\ SameNode(u, i)
  <2>1. Grown(K, k, i) => SameNode(k, i)
    BY <1>10
  <2> QED BY <1>7, <2>1 DEF SameNode
<1>12. Rest /\ UNCHANGED <<ilk, cwd, ofile>>
  BY <1>8 DEF WriteBlockShape
<1>13. CASE Does(p, K, stop) /\ UNCHANGED ftable
  <2>1. OffMoves(f)
    BY <1>13 DEF OffMoves
  <2> QED BY <1>4, <1>6, <1>8, <1>9, <1>12, <1>13, <2>1, WriteiStep
<1>14. CASE /\ ftable[f].off + me[p].now <= MaxBlock /\ me[p].now > 0
            /\ Does(p, r.k, stop) /\ UNCHANGED ftable
  <2>1. OffMoves(f)
    BY <1>14 DEF OffMoves
  <2>2. k \in KernelTypes /\ SameNode(k, i) /\ Does(p, k, stop)
    BY <1>5, <1>8, <1>10, <1>14 DEF off
  <2> QED BY <1>4, <1>6, <1>8, <1>12, <2>1, <2>2, WriteiStep
<1>15. CASE /\ ftable[f].off + me[p].now <= MaxBlock /\ me[p].now > 0 /\ r.addr # 0
            /\ Does(p, u, m) /\ ftable' = WithFile(f, AtOff(ftable[f], ftable[f].off + 1))
  <2>1. OffMoves(f)
    <3>1. ftable[f].off + 1 \in Nat
      BY <1>3 DEF off
    <3> QED BY <1>15, <3>1 DEF OffMoves
  <2>2. u \in KernelTypes /\ SameNode(u, i)
    BY <1>5, <1>8, <1>11, <1>15 DEF off
  <2>3. Does(p, u, m)
    BY <1>15
  <2> QED BY <1>4, <1>6, <1>8, <1>12, <2>1, <2>2, <2>3, WriteiStep
<1> QED BY <1>8, <1>13, <1>14, <1>15 DEF WriteBlockShape

\* WriteEnd keeps the tables.
LEMMA WriteEndStep == ASSUME Tables, NEW p \in Users, WriteEnd(p) PROVE Tables'
<1> DEFINE i == me[p].ip
           d == Ip(K, i)
           k == Iupdate(K, i, d)
           m1 == Writes(me[p], "writeOp", me[p].left, me[p].now)
           m == IF me[p].left > 0 THEN m1 ELSE Idle
<1>2. /\ FilesTypes /\ me[p] \in MeTypes /\ me[p].at = "writei" /\ LocksOK /\ CopiesOK
      /\ panic = "none" /\ boot = 0 /\ me[p].put = <<>> /\ \A j \in Inums : ~Frees(p, j)
      /\ K \in KernelTypes /\ K.fs = fs /\ K.itab = itab /\ K.panic = panic
      /\ At(p, "writei")
      /\ \A j \in Inums : itab[j].ref \in Nat /\ (itab[j].ref = 0 => ~itab[j].valid)
  BY AtFacts DEF WriteEnd
<1>3. /\ i \in Inums /\ Locked(me[p]) = i /\ ilk[i] = p
      /\ \A j \in Inums : Count(me[p], cwd[p], j) = One(cwd[p] = j)
  BY <1>2, WriterFacts
<1>4. me[p].left \in Int /\ me[p].now \in Int
  BY <1>2 DEF MeTypes
<1>1. /\ Does(p, k, m) /\ disk' = (IF inTx = {p} THEN k.fs ELSE disk)
      /\ ilk' = Release({i}) /\ inTx' = inTx \ {p} /\ FilesKept /\ boot' = boot
  <2>1. m1 = [me[p] EXCEPT !.at = "writeOp"]
    BY <1>2 DEF Writes, MeTypes
  <2> HIDE DEF m1
  <2> QED BY <2>1 DEF WriteEnd, WriteSave
<1>5. d \in Dinodes /\ d = itab[i].copy
  BY <1>2, <1>3, KernelParts DEF Ip
<1>6. /\ k \in KernelTypes /\ k.panic = K.panic
      /\ k.itab[i].ref = itab[i].ref /\ k.itab[i].valid = itab[i].valid
      /\ k.itab[i].copy = d /\ k.fs.ino[i] = d
      /\ \A j \in Inums : j # i => k.itab[j] = itab[j] /\ k.fs.ino[j] = fs.ino[j]
  <2>1. /\ k \in KernelTypes /\ k.panic = K.panic
        /\ k.itab[i].ref = K.itab[i].ref /\ k.itab[i].valid = K.itab[i].valid
        /\ k.itab[i].copy = d /\ k.fs.ino[i] = d
        /\ \A j \in Inums : j # i => k.itab[j] = K.itab[j] /\ k.fs.ino[j] = K.fs.ino[j]
    <3>1. i \in Inums /\ d \in Dinodes /\ K \in KernelTypes
      BY <1>2, <1>3, <1>5
    <3> HIDE DEF d, i
    <3> QED BY <3>1, IupdateFacts
  <2> HIDE DEF k, d
  <2> QED BY <1>2, <2>1
<1> HIDE DEF k
<1>7. /\ m \in MeTypes /\ Shape(m) /\ Locked(m) = 0
      /\ m.at \in {"writeOp", "writei"} => m.ip = me[p].ip /\ m.fd = me[p].fd
      /\ \A j \in Inums : Count(m, cwd[p], j) = One(cwd[p] = j)
  <2>1. /\ m1 \in MeTypes /\ Shape(m1) /\ m1.at = "writeOp" /\ m1.ip = me[p].ip
        /\ m1.fd = me[p].fd /\ Locked(m1) = 0
        /\ \A j \in Inums : Count(m1, cwd[p], j) = One(cwd[p] = j)
    BY <1>2, <1>3, <1>4, WritesFacts
  <2> HIDE DEF m1
  <2>2. Idle \in MeTypes /\ Idle.at = "user" /\ Idle.put = <<>> /\ Len(Idle.put) <= 2
    BY IdleFacts
  <2>3. Shape(Idle) /\ Locked(Idle) = 0
    BY <2>2 DEF Shape, IpUsed, IpPlaces, DpPlaces, Locked
  <2>4. ASSUME NEW j \in Inums PROVE Count(Idle, cwd[p], j) = One(cwd[p] = j)
    <3>1. PutCount(Idle.put, j) = 0
      BY <2>2, PutNone
    <3>2. Count(Idle, cwd[p], j) = One(cwd[p] = j) + PutCount(Idle.put, j)
      BY <2>2, CountAt
    <3>3. One(cwd[p] = j) \in Int
      BY DEF One
    <3> QED BY <3>1, <3>2, <3>3
  <2>5. CASE me[p].left > 0
    BY <2>1, <2>5
  <2>6. CASE ~(me[p].left > 0)
    BY <2>2, <2>3, <2>4, <2>6
  <2> QED BY <2>5, <2>6
<1> HIDE DEF m
<1>8. Relocks(p, m) /\ ilk' \in [Inums -> Users \union {Nobody}]
  <2> HIDE DEF i
  <2> QED BY <1>1, <1>2, <1>3, <1>7, RelocksRelease
<1>9. ASSUME NEW j \in Inums
      PROVE  /\ Fits(p, m, k, j)
             /\ k.itab[j].ref = itab[j].ref + Count(m, cwd[p], j) - Count(me[p], cwd[p], j)
             /\ k.itab[j].ref = 0 => ~k.itab[j].valid
  <2>1. k.itab[j].ref = itab[j].ref /\ k.itab[j].valid = itab[j].valid
    BY <1>6
  <2>2. One(cwd[p] = j) \in Int
    BY DEF One
  <2>3. Fits(p, m, k, j)
    <3>1. CASE j = i
      <4>1. ~BeingFreed(i) /\ CopyOK(i)
        BY <1>2, <1>3 DEF BeingFreed, CopiesOK
      <4>2. itab[i].valid => itab[i].copy.type = fs.ino[i].type /\ fs.ino[i].type # "none"
        BY <4>1 DEF CopyOK
      <4>3. k.itab[i].valid => Current(k, i) /\ k.itab[i].copy = k.fs.ino[i]
        BY <1>5, <1>6, <4>2 DEF Current
      <4> QED BY <1>3, <3>1, <4>3 DEF Fits
    <3>2. CASE j # i
      BY <1>3, <1>6, <3>2 DEF Fits
    <3> QED BY <3>1, <3>2
  <2>4. itab[j].ref \in Int
    BY <1>2
  <2> QED BY <1>2, <1>3, <1>7, <2>1, <2>2, <2>3, <2>4
<1>10. k.panic = "none" /\ Locked(m) # 0 => k.itab[Locked(m)].valid
  BY <1>7
<1>11. /\ disk' \in FsTypes /\ inTx' \in SUBSET Users
  <2>1. k.fs \in FsTypes
    BY <1>6, KernelParts
  <2> QED BY <1>1, <1>2, <2>1 DEF FilesTypes
<1>12. m.at \in {"writeOp", "writei"} =>
          me[p].at \in {"writeOp", "writei"} /\ m.fd = me[p].fd /\ m.ip = me[p].ip
  BY <1>2, <1>7
<1>13. Does(p, k, m) /\ FilesKept /\ boot' = boot
  BY <1>1
<1> QED BY <1>2, <1>6, <1>7, <1>8, <1>9, <1>10, <1>11, <1>12, <1>13, UserStep

-----------------------------------------------------------------------------
(* iput()                                                                  *)

\* A process without the inode that it has put.
LEMMA DroppedFacts ==
    ASSUME NEW m \in MeTypes, Shape(m), m.put # <<>>
    PROVE  LET n == Dropped(m)
           IN  /\ n \in MeTypes /\ Shape(n) /\ n.at = m.at /\ n.ip = m.ip /\ n.fd = m.fd
               /\ Locked(n) = Locked(m) /\ Head(m.put) \in Inums /\ Head(m.put) # Locked(m)
               /\ m.at \notin {"writeOp", "writei"}
               /\ \A c : \A j \in Inums : Count(n, c, j) + One(Head(m.put) = j) = Count(m, c, j)
<1> DEFINE s == Tail(m.put)
           n == Dropped(m)
           i == Head(m.put)
<1>1. m.put \in Seq(Inums) /\ Len(m.put) <= 2
  BY MeParts DEF Shape
<1>2. /\ s \in Seq(Inums) /\ Len(s) = Len(m.put) - 1 /\ i \in Inums
      /\ Len(m.put) = 1 => s = <<>>
      /\ \A j : PutCount(m.put, j) = PutCount(s, j) + One(i = j)
  BY <1>1, PutTail
<1>3. Len(m.put) = 1 \/ Len(m.put) = 2
  <2> DEFINE t == m.put
  <2>1. t \in Seq(Inums) /\ t # <<>> /\ Len(t) <= 2
    BY <1>1
  <2> HIDE DEF t
  <2>2. (\E a \in Inums : t = <<a>>) \/ \E a, b \in Inums : t = <<a, b>>
    BY <2>1, PutShape
  <2>3. Len(t) = 1 \/ Len(t) = 2
    BY <2>2
  <2> QED BY <2>3 DEF t
<1>4. Len(s) <= 2 /\ (Len(m.put) <= 1 => s = <<>>)
  <2> DEFINE n1 == Len(m.put)
             n2 == Len(s)
  <2>1. (n1 = 1 \/ n1 = 2) /\ n2 = n1 - 1 /\ (n1 = 1 => s = <<>>)
    BY <1>2, <1>3
  <2> HIDE DEF n1, n2
  <2>2. n2 <= 2 /\ (n1 <= 1 => s = <<>>)
    BY <2>1
  <2> QED BY <2>2 DEF n1, n2
<1> HIDE DEF s
<1>5. /\ n \in MeTypes /\ n.at = m.at /\ n.ip = m.ip /\ n.dp = m.dp /\ n.put = s
      /\ n.fd = m.fd /\ n.call = m.call /\ n.path = m.path
  BY <1>2 DEF Dropped, MeTypes, s
<1> HIDE DEF n
<1>6. m.at # "user"
  BY IdleFacts DEF Shape
<1>7. m.at \notin {"linkOld", "unlink", "unlinkChild", "create", "createNew", "read", "rdwr",
                   "trunc", "chdir", "writeOp", "writei"}
  BY DEF Shape
<1>8. Shape(n)
  <2>1. m.at \in {"unlinkLast", "openFile", "made", "createFail"} => s = <<>>
    BY <1>4 DEF Shape
  <2>2. Len(n.put) <= 2 /\ (s = <<>> => Len(s) <= 1)
    BY <1>4, <1>5
  <2> QED BY <1>5, <1>6, <1>7, <2>1, <2>2 DEF Shape, IpUsed
<1>9. Locked(n) = Locked(m)
  BY <1>5 DEF Locked
<1>10. i # Locked(m)
  BY <1>2, Constants, LockedHead
<1>11. ASSUME NEW c, NEW j \in Inums PROVE Count(n, c, j) + One(i = j) = Count(m, c, j)
  <2> DEFINE a == One(c = j /\ m.at # "chdirEnd") + HandCount(m, j)
  <2>1. HandCount(n, j) = HandCount(m, j)
    BY <1>5 DEF HandCount, IpUsed, DpUsed
  <2>2. Count(n, c, j) = a + PutCount(s, j) /\ Count(m, c, j) = a + PutCount(m.put, j)
    BY <1>5, <2>1 DEF Count
  <2>3. a \in Int /\ PutCount(s, j) \in Int /\ One(i = j) \in Int
    BY DEF HandCount, PutCount, One
  <2>4. PutCount(m.put, j) = PutCount(s, j) + One(i = j)
    BY <1>2
  <2> DEFINE u == PutCount(s, j)
             v == One(i = j)
  <2>5. /\ Count(n, c, j) = a + u /\ Count(m, c, j) = a + (u + v)
        /\ a \in Int /\ u \in Int /\ v \in Int
    BY <2>2, <2>3, <2>4
  <2> HIDE DEF a, u, v
  <2>6. Count(n, c, j) + v = Count(m, c, j)
    BY <2>5
  <2> QED BY <2>6 DEF v
<1> QED BY <1>2, <1>5, <1>7, <1>8, <1>9, <1>10, <1>11 DEF n

\* Whoever has an inode locked refers to it.
LEMMA LockedCounts ==
    ASSUME Tables, NEW q \in Users, NEW i \in Inums, Locked(me[q]) = i \/ Frees(q, i)
    PROVE  Count(me[q], cwd[q], i) >= 1 \/ Cardinality(Opens(i)) >= 1
<1> DEFINE m == me[q]
           c == cwd[q]
<1>1. FilesTypes /\ m \in MeTypes /\ Shape(m) /\ WritesFile(q) /\ 0 \notin Inums
  BY FilesTypesParts, Constants DEF Tables
<1>2. One(i = i) = 1
  BY DEF One
<1>3. CASE Frees(q, i)
  <2>1. m.put # <<>> /\ Head(m.put) = i
    BY <1>3 DEF Frees
  <2>2. Count(Dropped(m), c, i) + One(i = i) = Count(m, c, i)
    BY <1>1, <2>1, DroppedFacts
  <2>3. Count(Dropped(m), c, i) \in Nat
    BY CountType
  <2> QED BY <1>2, <2>2, <2>3
<1>4. CASE Locked(m) = i /\ m.at = "writei"
  <2> DEFINE f == ofile[q][m.fd]
  <2>1. m.ip = i
    BY <1>1, <1>4 DEF Locked
  <2>2. m.fd \in 1 .. NOFile /\ f # 0 /\ ftable[f].ip = i
    BY <1>1, <1>4, <2>1 DEF WritesFile, FileOf
  <2>3. ofile[q] \in [1 .. NOFile -> 0 .. NFile]
    BY <1>1 DEF FilesTypes
  <2>4. f \in 0 .. NFile /\ NFile \in Nat
    BY <2>2, <2>3, FilesAssumption
  <2>5. f \in Opens(i)
    BY <2>2, <2>4 DEF Opens
  <2> HIDE DEF f
  <2> QED BY <2>5, OneOpen
<1>5. CASE Locked(m) = i /\ m.at # "writei"
  <2>1. /\ One(c = i) \in Nat /\ One(m.ip = i) \in Nat /\ One(m.dp = i) \in Nat
        /\ PutCount(m.put, i) \in Nat
    BY DEF One, PutCount
  <2>2. CASE m.at \in {"unlinkChild", "createNew"}
    <3>1. m.dp = i
      BY <1>5, <2>2 DEF Locked
    <3>2. Count(m, c, i) = One(c = i) + One(m.ip = i) + One(m.dp = i) + PutCount(m.put, i)
      BY <2>2, CountAt
    <3>3. One(m.dp = i) = 1
      BY <3>1 DEF One
    <3> QED BY <2>1, <3>2, <3>3
  <2>3. CASE m.at = "createFail"
    <3>1. m.dp = i
      BY <1>5, <2>3 DEF Locked
    <3>2. Count(m, c, i) = One(c = i) + One(m.dp = i) + PutCount(m.put, i)
      BY <2>3, CountAt
    <3>3. One(m.dp = i) = 1
      BY <3>1 DEF One
    <3> QED BY <2>1, <3>2, <3>3
  <2>4. CASE m.at \in {"unlinkLast", "openFile", "made"}
    <3>1. m.ip = i
      BY <1>5, <2>4 DEF Locked
    <3>2. Count(m, c, i) = One(c = i) + One(m.ip = i) + PutCount(m.put, i)
      BY <2>4, CountAt
    <3>3. One(m.ip = i) = 1
      BY <3>1 DEF One
    <3> QED BY <2>1, <3>2, <3>3
  <2>5. m.at \in {"unlinkChild", "createNew", "createFail", "unlinkLast", "openFile", "made"}
    BY <1>1, <1>5, NoLock
  <2> QED BY <2>2, <2>3, <2>4, <2>5
<1> QED BY <1>3, <1>4, <1>5

\* An inode that a process puts is in use, and by it alone if it has one reference.
LEMMA PutAlone ==
    ASSUME Tables, boot = 0, NEW p \in Users, me[p].put # <<>>
    PROVE  LET i == Head(me[p].put)
           IN  /\ i \in Inums /\ itab[i].ref \in Nat /\ itab[i].ref >= 1
               /\ itab[i].ref = 1
                    => /\ ilk[i] \in {Nobody, p} /\ Locked(me[p]) # i
                       /\ \A q \in Users : q # p => Locked(me[q]) # i
<1> DEFINE i == Head(me[p].put)
<1>1. FilesTypes /\ LocksOK /\ RefsOK /\ me[p] \in MeTypes /\ Shape(me[p])
  BY FilesTypesParts DEF Tables
<1>2. /\ i \in Inums /\ Locked(me[p]) # i
      /\ Count(Dropped(me[p]), cwd[p], i) + One(i = i) = Count(me[p], cwd[p], i)
  BY <1>1, DroppedFacts
<1>3. Count(me[p], cwd[p], i) >= 1 /\ Count(me[p], cwd[p], i) \in Nat
  <2>1. One(i = i) = 1
    BY DEF One
  <2>2. Count(Dropped(me[p]), cwd[p], i) \in Nat
    BY CountType
  <2> QED BY <1>2, <2>1, <2>2
<1> HIDE DEF i
<1>4. /\ itab[i].ref \in Nat
      /\ itab[i].ref >= Count(me[p], cwd[p], i) + Cardinality(Opens(i))
      /\ \A q \in Users : q # p =>
           itab[i].ref >= Count(me[p], cwd[p], i) + Count(me[q], cwd[q], i)
  BY <1>1, <1>2, RefAtLeast
<1>5. Cardinality(Opens(i)) \in Nat /\ \A q \in Users : Count(me[q], cwd[q], i) \in Nat
  BY OpensFinite, CountType
<1>6. itab[i].ref >= 1
  BY <1>3, <1>4, <1>5
<1>7. ASSUME itab[i].ref = 1, NEW q \in Users, q # p
      PROVE  Locked(me[q]) # i /\ ~Frees(q, i)
  <2>1. SUFFICES ASSUME Locked(me[q]) = i \/ Frees(q, i) PROVE FALSE
    OBVIOUS
  <2>2. Count(me[q], cwd[q], i) >= 1 \/ Cardinality(Opens(i)) >= 1
    BY <1>2, <2>1, LockedCounts
  <2> QED BY <1>3, <1>4, <1>5, <1>7, <2>2
<1>8. itab[i].ref = 1 => ilk[i] \in {Nobody, p}
  BY <1>1, <1>2, <1>7, FilesTypesParts DEF LocksOK
<1> QED BY <1>2, <1>4, <1>6, <1>7, <1>8 DEF i

\* The entry of the inode table with a reference less.
LEMMA DropFacts ==
    ASSUME NEW e \in EntryTypes
    PROVE  /\ Drop(e) \in EntryTypes /\ Drop(e).ref = e.ref - 1
           /\ e.ref = 1 => ~Drop(e).valid
           /\ e.ref # 1 => Drop(e).valid = e.valid /\ Drop(e).copy = e.copy
<1> DEFINE n == e.ref - 1
<1>1. e.ref \in Int /\ e.valid \in BOOLEAN /\ e.copy \in Dinodes
  BY DEF EntryTypes
<1>2. n \in Int /\ (e.ref = 1 => n = 0)
  BY <1>1
<1> HIDE DEF n
<1>3. /\ Entry(n, e.valid, e.copy) \in EntryTypes /\ Entry(n, e.valid, e.copy).ref = n
      /\ Entry(n, e.valid, e.copy).valid = e.valid /\ Entry(n, e.valid, e.copy).copy = e.copy
  BY <1>1, <1>2, EntryFacts
<1>4. Drop(e) = IF e.ref = 1 THEN Unused ELSE Entry(n, e.valid, e.copy)
  BY DEF Drop, n
<1>5. n = e.ref - 1
  BY DEF n
<1> QED BY <1>2, <1>3, <1>4, <1>5, UnusedFacts

\* The entry after the inode was freed: a reference less, and not valid.
LEMMA ForgetFacts ==
    ASSUME NEW e \in EntryTypes
    PROVE  Forget(e) \in EntryTypes /\ Forget(e).ref = e.ref - 1 /\ ~Forget(e).valid
<1> DEFINE n == e.ref - 1
           no == FALSE
<1>1. e.ref \in Int /\ FreeInode \in Dinodes
  BY UnusedFacts DEF EntryTypes
<1>2. n \in Int /\ (e.ref = 1 => n = 0) /\ no \in BOOLEAN /\ ~no
  BY <1>1
<1>4. Forget(e) = IF e.ref = 1 THEN Unused ELSE Entry(n, no, FreeInode)
  BY DEF Forget
<1>5. n = e.ref - 1
  OBVIOUS
<1> HIDE DEF n, no
<1>3. /\ Entry(n, no, FreeInode) \in EntryTypes /\ Entry(n, no, FreeInode).ref = n
      /\ Entry(n, no, FreeInode).valid = no
  BY <1>1, <1>2, EntryFacts
<1> QED BY <1>2, <1>3, <1>4, <1>5, UnusedFacts

\* An inode is put, and somebody else still uses it or it keeps its links.
LEMMA IputDropStep ==
    ASSUME Tables, boot = 0, panic = "none", NEW p \in Users, me[p].put # <<>>,
           ilk[Head(me[p].put)] # p, ~LastReference(itab[Head(me[p].put)]),
           Does(p, WithEntry(K, Head(me[p].put), Drop(itab[Head(me[p].put)])), Dropped(me[p])),
           FilesKept, Rest, UNCHANGED ilk
    PROVE  Tables'
<1> DEFINE i == Head(me[p].put)
           e == Drop(itab[i])
           k == WithEntry(K, i, e)
           m == Dropped(me[p])
<1>1. /\ FilesTypes /\ LocksOK /\ CopiesOK /\ me[p] \in MeTypes /\ Shape(me[p])
      /\ K \in KernelTypes /\ K.fs = fs /\ K.itab = itab /\ K.panic = panic
      /\ itab \in [Inums -> EntryTypes] /\ ilk \in [Inums -> Users \union {Nobody}]
  BY FilesTypesParts DEF Tables
<1>2. /\ m \in MeTypes /\ Shape(m) /\ m.at = me[p].at /\ m.ip = me[p].ip /\ m.fd = me[p].fd
      /\ Locked(m) = Locked(me[p]) /\ i \in Inums /\ i # Locked(me[p])
      /\ m.at \notin {"writeOp", "writei"}
      /\ \A c : \A j \in Inums : Count(m, c, j) + One(i = j) = Count(me[p], c, j)
  BY <1>1, DroppedFacts
<1>3. Does(p, k, m) /\ ilk[i] # p /\ ~LastReference(itab[i])
  OBVIOUS
<1>4. /\ itab[i].ref \in Nat /\ itab[i].ref >= 1
      /\ itab[i].ref = 1 => ilk[i] \in {Nobody, p}
  BY PutAlone
<1>5. \A j \in Inums : ~Frees(p, j)
  BY <1>3 DEF Frees
<1> HIDE DEF m, i
<1>6. /\ e \in EntryTypes /\ e.ref = itab[i].ref - 1
      /\ itab[i].ref = 1 => ~e.valid
      /\ itab[i].ref # 1 => e.valid = itab[i].valid /\ e.copy = itab[i].copy
  BY <1>1, <1>2, DropFacts
<1> HIDE DEF e
<1>7. /\ k \in KernelTypes /\ k.fs = fs /\ k.panic = panic
      /\ k.itab[i] = e /\ \A j \in Inums : j # i => k.itab[j] = itab[j]
  <2>1. K \in KernelTypes /\ i \in Inums /\ e \in EntryTypes
    BY <1>1, <1>2, <1>6
  <2>2. /\ k \in KernelTypes /\ k.fs = K.fs /\ k.panic = K.panic
        /\ k.itab[i] = e /\ \A j \in Inums : j # i => k.itab[j] = K.itab[j]
    BY <2>1, WithEntryFacts
  <2> HIDE DEF k
  <2> QED BY <1>1, <2>2
<1> HIDE DEF k
<1>8. Relocks(p, m) /\ ilk' \in [Inums -> Users \union {Nobody}]
  BY <1>1, <1>2, RelocksKept
<1>9. ASSUME NEW j \in Inums
      PROVE  /\ Fits(p, m, k, j)
             /\ k.itab[j].ref = itab[j].ref + Count(m, cwd[p], j) - Count(me[p], cwd[p], j)
             /\ k.itab[j].ref = 0 => ~k.itab[j].valid
  <2> DEFINE u == Count(m, cwd[p], j)
             v == Count(me[p], cwd[p], j)
             r == itab[j].ref
             n == k.itab[j].ref
  <2>1. u \in Int /\ v \in Int /\ r \in Int
    BY <1>1, CountType DEF EntryTypes
  <2>2. u + One(i = j) = v
    BY <1>2
  <2>3. n = r - One(i = j)
    <3>1. CASE i = j
      BY <1>6, <1>7, <3>1 DEF One
    <3>2. CASE i # j
      <4>1. n = r /\ One(i = j) = 0
        BY <1>7, <3>2 DEF One
      <4> HIDE DEF n, r
      <4> QED BY <2>1, <4>1
    <3> QED BY <3>1, <3>2
  <2>4. One(i = j) \in Int
    BY DEF One
  <2> DEFINE o == One(i = j)
  <2>5. /\ u + o = v /\ n = r - o /\ u \in Int /\ v \in Int /\ r \in Int /\ o \in Int
    BY <2>1, <2>2, <2>3, <2>4
  <2> HIDE DEF u, v, r, n, o
  <2>6. n = r + u - v
    BY <2>5
  <2>7. Fits(p, m, k, j)
    <3>1. CASE j # i
      BY <1>2, <1>7, <3>1 DEF Fits
    <3>2. CASE j = i /\ itab[i].ref = 1
      BY <1>4, <1>6, <1>7, <3>2 DEF Fits
    <3>3. CASE j = i /\ itab[i].ref # 1
      BY <1>2, <1>6, <1>7, <3>3 DEF Fits
    <3> QED BY <3>1, <3>2, <3>3
  <2>8. k.itab[j].ref = 0 => ~k.itab[j].valid
    <3>1. CASE j # i
      BY <1>1, <1>7, <3>1 DEF CopiesOK
    <3>2. CASE j = i
      BY <1>4, <1>6, <1>7, <3>2
    <3> QED BY <3>1, <3>2
  <2> QED BY <2>6, <2>7, <2>8 DEF n, r, u, v
<1>10. k.panic = "none" /\ Locked(m) # 0 => k.itab[Locked(m)].valid
  <2>1. Locked(me[p]) # 0 => itab[Locked(me[p])].valid /\ Locked(me[p]) \in Inums
    BY <1>1, MeParts DEF CopiesOK
  <2> QED BY <1>2, <1>7, <2>1
<1>11. boot' = boot /\ disk' \in FsTypes /\ inTx' \in SUBSET Users
  BY <1>1, RestFacts
<1> QED BY <1>2, <1>3, <1>5, <1>7, <1>8, <1>9, <1>10, <1>11, UserStep

\* The last reference to an inode without links is put: its contents and the inode on disk
\* are freed.
LEMMA IputFreeStep ==
    ASSUME Tables, boot = 0, panic = "none", NEW p \in Users, me[p].put # <<>>,
           LastReference(itab[Head(me[p].put)]),
           NEW k \in KernelTypes,
           \A j \in Inums : k.itab[j].ref = itab[j].ref /\ k.itab[j].valid = itab[j].valid,
           \A j \in Inums : j # Head(me[p].put) => k.itab[j] = itab[j] /\ k.fs.ino[j] = fs.ino[j],
           fs' = k.fs, itab' = k.itab, panic' = k.panic, me' = me,
           ilk' = Holds(p, Head(me[p].put)), FilesKept, Rest
    PROVE  Tables'
<1> DEFINE i == Head(me[p].put)
<1>1. /\ FilesTypes /\ LocksOK /\ CopiesOK /\ FilesOK /\ RefsOK /\ me[p] \in MeTypes
      /\ \A q \in Users : Shape(me[q]) /\ WritesFile(q)
      /\ ilk \in [Inums -> Users \union {Nobody}]
  BY FilesTypesParts DEF Tables
<1>2. /\ i \in Inums /\ ilk[i] \in {Nobody, p} /\ Locked(me[p]) # i
      /\ \A q \in Users : q # p => Locked(me[q]) # i
  BY PutAlone DEF LastReference
<1>3. /\ ilk'[i] = p /\ \A j \in Inums : j # i => ilk'[j] = ilk[j]
      /\ ilk' \in [Inums -> Users \union {Nobody}]
  BY <1>1, <1>2 DEF Holds
<1>4. Nobody \notin Users /\ 0 \notin Inums
  BY Constants
<1>5. Head(me[p].put) = i /\ \A j \in Inums : j # i => itab'[j] = itab[j] /\ fs'.ino[j] = fs.ino[j]
  OBVIOUS
<1>6. \A j \in Inums : itab'[j].ref = itab[j].ref /\ itab'[j].valid = itab[j].valid
  OBVIOUS
<1>7. /\ me' = me /\ cwd' = cwd /\ ofile' = ofile /\ ftable' = ftable /\ boot' = 0
      /\ disk' \in FsTypes /\ inTx' \in SUBSET Users /\ panic = "none"
  BY <1>1, RestFacts DEF FilesKept
<1>8. me[p].put # <<>>
  OBVIOUS
<1> HIDE DEF i
<1>9. FilesTypes'
  <2>1. fs' \in FsTypes /\ panic' \in Messages /\ itab' \in [Inums -> EntryTypes]
    BY KernelParts
  <2> QED BY <1>1, <1>3, <1>7, <2>1 DEF FilesTypes
<1>10. \A q \in Users : Locked(me[q]) \in Inums \union {0}
  BY <1>1, FilesTypesParts, MeParts
<1>11. LocksOK'
  <2>1. ASSUME NEW q \in Users, Locked(me'[q]) # 0 PROVE ilk'[Locked(me'[q])] = q
    BY <1>1, <1>2, <1>3, <1>7, <1>10, <2>1 DEF LocksOK
  <2>2. ASSUME NEW j \in Inums, ilk'[j] # Nobody
        PROVE  (Locked(me[ilk[j]]) = j \/ Frees(ilk[j], j))'
    <3>1. CASE j = i
      BY <1>3, <1>5, <1>7, <1>8, <3>1 DEF Frees
    <3>2. CASE j # i
      <4>1. ilk'[j] = ilk[j] /\ (Locked(me[ilk[j]]) = j \/ Frees(ilk[j], j))
        BY <1>1, <1>3, <2>2, <3>2 DEF LocksOK
      <4> QED BY <1>7, <4>1 DEF Frees
    <3> QED BY <3>1, <3>2
  <2> QED BY <2>1, <2>2 DEF LocksOK
<1>12. CopiesOK'
  <2>1. ASSUME NEW j \in Inums
        PROVE  CopyOK(j)' /\ (itab'[j].ref = 0 => ~itab'[j].valid)
    <3>1. itab'[j].ref = 0 => ~itab'[j].valid
      BY <1>1, <1>6 DEF CopiesOK
    <3>2. CASE j = i
      <4>1. BeingFreed(j)'
        BY <1>3, <1>4, <1>5, <1>7, <1>8, <3>2 DEF BeingFreed, Frees
      <4> QED BY <3>1, <4>1 DEF CopyOK
    <3>3. CASE j # i
      <4>1. (BeingFreed(j)' <=> BeingFreed(j)) /\ (BeingWritten(j)' <=> BeingWritten(j))
        BY <1>3, <1>7, <3>3 DEF BeingFreed, BeingWritten, Frees
      <4>2. CopyOK(j)
        BY <1>1 DEF CopiesOK
      <4>3. CopyOK(j)'
        BY <1>5, <3>3, <4>1, <4>2 DEF CopyOK
      <4> QED BY <3>1, <4>3
    <3> QED BY <3>2, <3>3
  <2>2. ASSUME NEW q \in Users, Locked(me'[q]) # 0 PROVE itab'[Locked(me'[q])].valid
    BY <1>1, <1>6, <1>7, <1>10, <2>2 DEF CopiesOK
  <2> QED BY <2>1, <2>2 DEF CopiesOK
<1>13. FilesOK'
  BY <1>1, <1>7 DEF FilesOK, FdsOf
<1>14. RefsOK'
  <2>1. ASSUME NEW j \in Inums
        PROVE  itab'[j].ref = Cardinality(Uses(j))' + Cardinality(Opens(j))'
    <3>1. Uses(j)' = Uses(j) /\ Opens(j)' = Opens(j)
      BY <1>7 DEF Uses, Opens
    <3> QED BY <1>1, <1>6, <3>1 DEF RefsOK
  <2> QED BY <2>1 DEF RefsOK
<1>15. \A q \in Users : Shape(me'[q]) /\ WritesFile(q)'
  BY <1>1, <1>7 DEF WritesFile, FileOf
<1>16. BootOK'
  BY <1>7 DEF BootOK
<1> QED BY <1>9, <1>11, <1>12, <1>13, <1>14, <1>15, <1>16 DEF Tables

\* Iput keeps the tables.
LEMMA IputStep == ASSUME Tables, NEW p \in Users, Iput(p) PROVE Tables'
<1> DEFINE i == Head(me[p].put)
           t == Itrunc(K, i)
           d == [Ip(t, i) EXCEPT !.type = "none"]
           k == Iupdate(t, i, d)
<1>1. /\ panic = "none" /\ boot = 0 /\ me[p].put # <<>> /\ ilk[i] # p
      /\ FilesKept /\ Rest
      /\ \/ LastReference(itab[i]) /\ Does(p, k, me[p]) /\ ilk' = Holds(p, i)
         \/ /\ ~LastReference(itab[i]) /\ UNCHANGED ilk
            /\ Does(p, WithEntry(K, i, Drop(itab[i])), Dropped(me[p]))
  BY DEF Iput
<1>2. /\ K \in KernelTypes /\ K.fs = fs /\ K.itab = itab /\ K.panic = panic
      /\ me \in [Users -> MeTypes]
  BY FilesTypesParts DEF Tables
<1>3. i \in Inums
  BY <1>1, PutAlone
<1>4. CASE LastReference(itab[i]) /\ Does(p, k, me[p]) /\ ilk' = Holds(p, i)
  <2> HIDE DEF i
  <2>1. /\ t \in KernelTypes /\ t.itab[i].ref = K.itab[i].ref /\ t.itab[i].valid = K.itab[i].valid
        /\ \A j \in Inums : j # i => t.itab[j] = K.itab[j] /\ t.fs.ino[j] = K.fs.ino[j]
    BY <1>2, <1>3, ItruncFacts
  <2> HIDE DEF t
  <2>2. d \in Dinodes
    <3>1. Ip(t, i) \in Dinodes
      BY <1>3, <2>1, KernelParts DEF Ip
    <3> QED BY <3>1 DEF Dinodes, Types
  <2> HIDE DEF d
  <2>3. /\ k \in KernelTypes /\ k.itab[i].ref = t.itab[i].ref /\ k.itab[i].valid = t.itab[i].valid
        /\ \A j \in Inums : j # i => k.itab[j] = t.itab[j] /\ k.fs.ino[j] = t.fs.ino[j]
    BY <1>3, <2>1, <2>2, IupdateFacts
  <2>4. fs' = k.fs /\ itab' = k.itab /\ panic' = k.panic /\ me' = me
    BY <1>2, <1>4 DEF Does
  <2> HIDE DEF k
  <2>5. /\ \A j \in Inums : k.itab[j].ref = itab[j].ref /\ k.itab[j].valid = itab[j].valid
        /\ \A j \in Inums : j # Head(me[p].put) =>
              k.itab[j] = itab[j] /\ k.fs.ino[j] = fs.ino[j]
    BY <1>2, <2>1, <2>3 DEF i
  <2>6. ilk' = Holds(p, Head(me[p].put)) /\ LastReference(itab[Head(me[p].put)])
    BY <1>4 DEF i
  <2> QED BY <1>1, <2>3, <2>4, <2>5, <2>6, IputFreeStep
<1>5. CASE /\ ~LastReference(itab[i]) /\ UNCHANGED ilk
           /\ Does(p, WithEntry(K, i, Drop(itab[i])), Dropped(me[p]))
  BY <1>1, <1>5, IputDropStep
<1> QED BY <1>1, <1>4, <1>5

\* IputEnd keeps the tables.
LEMMA IputEndStep == ASSUME Tables, NEW p \in Users, IputEnd(p) PROVE Tables'
<1> DEFINE i == Head(me[p].put)
           e == Forget(itab[i])
           k == WithEntry(K, i, e)
           m == Dropped(me[p])
<1>1. /\ panic = "none" /\ boot = 0 /\ me[p].put # <<>> /\ ilk[i] = p
      /\ Does(p, k, m) /\ ilk' = Release({i}) /\ FilesKept /\ Rest
  BY DEF IputEnd
<1>2. /\ FilesTypes /\ LocksOK /\ CopiesOK /\ FilesOK /\ RefsOK /\ me[p] \in MeTypes
      /\ \A q \in Users : Shape(me[q]) /\ WritesFile(q)
      /\ K \in KernelTypes /\ K.fs = fs /\ K.itab = itab /\ K.panic = panic
      /\ itab \in [Inums -> EntryTypes] /\ ilk \in [Inums -> Users \union {Nobody}]
      /\ me \in [Users -> MeTypes] /\ cwd \in [Users -> Inums]
  BY <1>1, FilesTypesParts DEF Tables
<1>3. /\ m \in MeTypes /\ Shape(m) /\ m.at = me[p].at /\ m.ip = me[p].ip /\ m.fd = me[p].fd
      /\ Locked(m) = Locked(me[p]) /\ i \in Inums /\ i # Locked(me[p])
      /\ m.at \notin {"writeOp", "writei"}
      /\ \A c : \A j \in Inums : Count(m, c, j) + One(i = j) = Count(me[p], c, j)
  BY <1>1, <1>2, DroppedFacts
<1>4. itab[i].ref \in Nat /\ itab[i].ref >= 1
  BY <1>1, PutAlone
<1>5. Head(me[p].put) = i
  OBVIOUS
<1> HIDE DEF m, i
<1>6. e \in EntryTypes /\ e.ref = itab[i].ref - 1 /\ ~e.valid
  BY <1>2, <1>3, ForgetFacts
<1> HIDE DEF e
<1>7. /\ k \in KernelTypes /\ k.fs = fs /\ k.panic = panic
      /\ k.itab[i] = e /\ \A j \in Inums : j # i => k.itab[j] = itab[j]
  <2>1. K \in KernelTypes /\ i \in Inums /\ e \in EntryTypes
    BY <1>2, <1>3, <1>6
  <2>2. /\ k \in KernelTypes /\ k.fs = K.fs /\ k.panic = K.panic
        /\ k.itab[i] = e /\ \A j \in Inums : j # i => k.itab[j] = K.itab[j]
    BY <2>1, WithEntryFacts
  <2> HIDE DEF k
  <2> QED BY <1>2, <2>2
<1> HIDE DEF k
<1>8. /\ fs' = fs /\ itab' = k.itab /\ panic' = panic /\ me' = [me EXCEPT ![p] = m]
      /\ cwd' = cwd /\ ofile' = ofile /\ ftable' = ftable /\ boot' = 0
      /\ disk' \in FsTypes /\ inTx' \in SUBSET Users
  BY <1>1, <1>2, <1>7, RestFacts DEF Does, FilesKept
<1>9. me'[p] = m /\ \A q \in Users : q # p => me'[q] = me[q]
  BY <1>2, <1>8
<1>10. /\ ilk'[i] = Nobody /\ \A j \in Inums : j # i => ilk'[j] = ilk[j]
       /\ ilk' \in [Inums -> Users \union {Nobody}]
  BY <1>1, <1>2, <1>3 DEF Release
<1>11. Nobody \notin Users /\ 0 \notin Inums
       /\ \A q \in Users : Locked(me[q]) \in Inums \union {0} /\ Locked(me'[q]) = Locked(me[q])
  BY <1>2, <1>3, <1>9, MeParts, Constants
<1>12. FilesTypes'
  <2>1. me' \in [Users -> MeTypes]
    BY <1>2, <1>3, <1>8
  <2>2. itab' \in [Inums -> EntryTypes]
    BY <1>7, <1>8, KernelParts
  <2>3. boot' \in 0 .. NInodes + 1
    BY <1>8, Constants
  <2> QED BY <1>2, <1>8, <1>10, <2>1, <2>2, <2>3 DEF FilesTypes
<1>13. ASSUME NEW j \in Inums, j # i
       PROVE  /\ ilk'[j] = ilk[j] /\ (BeingFreed(j)' <=> BeingFreed(j))
              /\ ilk[j] # Nobody => ((Frees(ilk[j], j))' <=> Frees(ilk[j], j))
              /\ BeingWritten(j)' <=> BeingWritten(j)
  <2>1. ilk'[j] = ilk[j]
    BY <1>10, <1>13
  <2>2. CASE ilk[j] = p
    <3>1. Locked(me[p]) = j
      BY <1>2, <1>5, <1>11, <1>13, <2>2 DEF LocksOK, Frees
    <3>2. ~Frees(p, j)
      BY <1>5, <1>13 DEF Frees
    <3>3. ~Frees(p, j)'
      <4>1. Locked(m) # 0 /\ Locked(m) = j
        BY <1>3, <1>11, <3>1
      <4>2. m.put # <<>> => Head(m.put) # j
        BY <1>3, <4>1, LockedHead
      <4> QED BY <1>9, <4>2 DEF Frees
    <3>4. me'[p].at = me[p].at /\ Locked(me'[p]) = Locked(me[p])
      BY <1>3, <1>9
    <3> QED BY <2>1, <2>2, <3>2, <3>3, <3>4 DEF BeingFreed, BeingWritten
  <2>3. CASE ilk[j] # p /\ ilk[j] # Nobody
    <3>1. ilk[j] \in Users /\ me'[ilk[j]] = me[ilk[j]]
      BY <1>2, <1>9, <2>3
    <3> QED BY <2>1, <3>1 DEF BeingFreed, BeingWritten, Frees
  <2>4. CASE ilk[j] = Nobody
    BY <2>1, <2>4 DEF BeingFreed, BeingWritten
  <2> QED BY <2>2, <2>3, <2>4
<1>14. LocksOK'
  <2>1. ASSUME NEW q \in Users, Locked(me'[q]) # 0 PROVE ilk'[Locked(me'[q])] = q
    <3>1. Locked(me[q]) # 0 /\ Locked(me[q]) \in Inums /\ ilk[Locked(me[q])] = q
      BY <1>2, <1>11, <2>1 DEF LocksOK
    <3>2. Locked(me[q]) # i
      BY <1>1, <1>3, <1>5, <3>1
    <3> QED BY <1>10, <1>11, <3>1, <3>2
  <2>2. ASSUME NEW j \in Inums, ilk'[j] # Nobody
        PROVE  (Locked(me[ilk[j]]) = j \/ Frees(ilk[j], j))'
    <3>1. j # i /\ ilk'[j] = ilk[j]
      BY <1>10, <2>2
    <3>2. Locked(me[ilk[j]]) = j \/ Frees(ilk[j], j)
      BY <1>2, <2>2, <3>1 DEF LocksOK
    <3>3. ilk[j] \in Users
      BY <1>2, <2>2, <3>1
    <3>4. Frees(ilk[j], j) => (Frees(ilk[j], j))'
      BY <1>13, <2>2, <3>1
    <3> QED BY <1>11, <3>1, <3>2, <3>3, <3>4
  <2> QED BY <2>1, <2>2 DEF LocksOK
<1>15. CopiesOK'
  <2>1. ASSUME NEW j \in Inums
        PROVE  CopyOK(j)' /\ (itab'[j].ref = 0 => ~itab'[j].valid)
    <3>1. CASE j = i
      BY <1>6, <1>7, <1>8, <3>1 DEF CopyOK
    <3>2. CASE j # i
      <4>1. itab'[j] = itab[j] /\ CopyOK(j) /\ (itab[j].ref = 0 => ~itab[j].valid)
        BY <1>2, <1>7, <1>8, <3>2 DEF CopiesOK
      <4> QED BY <1>8, <1>13, <3>2, <4>1 DEF CopyOK
    <3> QED BY <3>1, <3>2
  <2>2. ASSUME panic' = "none", NEW q \in Users, Locked(me'[q]) # 0
        PROVE  itab'[Locked(me'[q])].valid
    <3>1. Locked(me[q]) \in Inums /\ ilk[Locked(me[q])] = q /\ itab[Locked(me[q])].valid
      BY <1>1, <1>2, <1>11, <2>2 DEF LocksOK, CopiesOK
    <3>2. Locked(me[q]) # i
      BY <1>1, <1>3, <1>5, <3>1
    <3> QED BY <1>7, <1>8, <1>11, <3>1, <3>2
  <2> QED BY <2>1, <2>2 DEF CopiesOK
<1>16. FilesOK'
  BY <1>2, <1>8 DEF FilesOK, FdsOf
<1>17. RefsOK'
  <2>1. ASSUME NEW j \in Inums
        PROVE  itab'[j].ref = Cardinality(Uses(j))' + Cardinality(Opens(j))'
    <3>1. Cardinality(Opens(j))' = Cardinality(Opens(j)) /\ Cardinality(Opens(j)) \in Nat
      BY <1>8, OpensFinite DEF Opens
    <3>2. DOMAIN me = Users /\ DOMAIN cwd = Users /\ cwd' = [cwd EXCEPT ![p] = cwd[p]]
      BY <1>2, <1>8
    <3>3. /\ Cardinality(Uses(j))' - Cardinality(Uses(j))
                = Count(m, cwd[p], j) - Count(me[p], cwd[p], j)
          /\ Cardinality(Uses(j)) \in Nat /\ Cardinality(Uses(j))' \in Nat
      BY <1>8, <3>2, UsesStep
    <3>4. itab[j].ref = Cardinality(Uses(j)) + Cardinality(Opens(j))
      BY <1>2 DEF RefsOK
    <3>5. Count(m, cwd[p], j) \in Nat /\ Count(me[p], cwd[p], j) \in Nat /\ One(i = j) \in Int
      BY CountType DEF One
    <3>6. itab'[j].ref = itab[j].ref - One(i = j)
      <4>1. CASE i = j
        BY <1>6, <1>7, <1>8, <4>1 DEF One
      <4>2. CASE i # j
        <5>1. itab'[j].ref = itab[j].ref /\ One(i = j) = 0
          BY <1>7, <1>8, <4>2 DEF One
        <5>2. itab[j].ref \in Int
          BY <3>1, <3>3, <3>4
        <5> QED BY <5>1, <5>2
      <4> QED BY <4>1, <4>2
    <3> DEFINE u == Cardinality(Uses(j))
               v == Cardinality(Uses(j))'
               o == Cardinality(Opens(j))
               a == Count(m, cwd[p], j)
               b == Count(me[p], cwd[p], j)
               c == One(i = j)
    <3>7. /\ v - u = a - b /\ u \in Nat /\ v \in Nat /\ o \in Nat /\ a \in Nat /\ b \in Nat
          /\ c \in Int /\ a + c = b /\ itab'[j].ref = (u + o) - c
      BY <1>3, <3>1, <3>3, <3>4, <3>5, <3>6
    <3> HIDE DEF u, v, o, a, b, c
    <3>8. itab'[j].ref = v + o
      BY <3>7
    <3> QED BY <3>1, <3>8 DEF v, o
  <2> QED BY <2>1 DEF RefsOK
<1>18. ASSUME NEW q \in Users PROVE Shape(me'[q]) /\ WritesFile(q)'
  <2>1. CASE q = p
    BY <1>3, <1>9, <2>1 DEF WritesFile, FileOf
  <2>2. CASE q # p
    BY <1>2, <1>8, <1>9, <2>2 DEF WritesFile, FileOf
  <2> QED BY <2>1, <2>2
<1>19. BootOK'
  BY <1>8 DEF BootOK
<1> QED BY <1>12, <1>14, <1>15, <1>16, <1>17, <1>18, <1>19 DEF Tables
-----------------------------------------------------------------------------
(* Crash and boot                                                          *)

\* When nothing is in use, nothing is locked, no inode is valid and no file is open.
NothingUsed ==
    /\ itab = [i \in Inums |-> Unused] /\ ilk = [i \in Inums |-> Nobody]
    /\ me = [p \in Users |-> Idle]
    /\ ofile = [p \in Users |-> [d \in 1 .. NOFile |-> 0]]
    /\ ftable = [f \in 1 .. NFile |-> NoFile]
UnusedOK ==
    /\ LocksOK /\ CopiesOK /\ FilesOK
    /\ \A p \in Users : Shape(me[p]) /\ WritesFile(p)
    /\ \A i \in Inums : Opens(i) = {}

\* A system in which nothing is in use has sound tables.
LEMMA UnusedIsOK == NothingUsed => UnusedOK
<1> SUFFICES ASSUME NothingUsed PROVE UnusedOK
  OBVIOUS
<1> USE DEF NothingUsed
<1>1. /\ Idle.at = "user" /\ Idle.put = <<>> /\ Locked(Idle) = 0
      /\ \A p \in Users : me[p] = Idle
  BY IdleFacts, NoLock
<1>2. Shape(Idle)
  <2>1. Len(Idle.put) <= 2
    BY <1>1
  <2> QED BY <1>1, <2>1 DEF Shape, IpUsed, IpPlaces, DpPlaces
<1>3. LocksOK
  BY <1>1 DEF LocksOK
<1>4. \A i \in Inums : itab[i] = Unused /\ ~itab[i].valid
  BY UnusedFacts
<1>5. CopiesOK
  BY <1>1, <1>4 DEF CopiesOK, CopyOK
<1>6. \A p \in Users : WritesFile(p)
  BY <1>1 DEF WritesFile, FileOf
<1>7. NoFile.ref = 0 /\ NoFile.ip = 0
  BY NoFileFacts
<1>8. ASSUME NEW f \in 1 .. NFile
      PROVE  ftable[f].ref = Cardinality(FdsOf(f)) /\ ftable[f] = NoFile
  <2>1. FdsOf(f) = {}
    BY FilesAssumption DEF FdsOf
  <2> QED BY <1>7, <2>1, FS_EmptySet
<1>9. FilesOK
  BY <1>7, <1>8 DEF FilesOK
<1>10. \A i \in Inums : Opens(i) = {}
  BY <1>7, <1>8, Constants DEF Opens
<1> QED BY <1>1, <1>2, <1>3, <1>5, <1>6, <1>9, <1>10 DEF UnusedOK

\* What is in use when the power fails is lost.
LEMMA CrashStep == ASSUME Tables, Crash PROVE Tables'
<1>1. FilesTypes
  BY DEF Tables
<1>2. /\ itab' = [i \in Inums |-> Unused] /\ ilk' = [i \in Inums |-> Nobody]
      /\ me' = [p \in Users |-> Idle]
      /\ ofile' = [p \in Users |-> [d \in 1 .. NOFile |-> 0]]
      /\ ftable' = [f \in 1 .. NFile |-> NoFile]
      /\ fs' = disk /\ disk' = disk /\ inTx' = {} /\ panic' = "none"
      /\ cwd' = [p \in Users |-> Root] /\ boot' = Root
  BY DEF Crash
<1>3. UnusedOK'
  <2>1. NothingUsed'
    BY <1>2 DEF NothingUsed
  <2> QED BY <2>1, UnusedIsOK, PTL
<1>4. FilesTypes'
  <2>1. Root \in Inums /\ Root \in 0 .. NInodes + 1 /\ Root # 0
    BY FilesAssumption DEF Root, Inums
  <2>2. /\ itab' \in [Inums -> EntryTypes] /\ me' \in [Users -> MeTypes]
        /\ cwd' \in [Users -> Inums]
    BY <1>2, <2>1, UnusedFacts, IdleFacts
  <2>3. ilk' \in [Inums -> Users \union {Nobody}] /\ ftable' \in [1 .. NFile -> FileTypes]
    BY <1>2, NoFileFacts
  <2>4. ofile' \in [Users -> [1 .. NOFile -> 0 .. NFile]]
    BY <1>2, FilesAssumption
  <2> QED BY <1>1, <1>2, <2>1, <2>2, <2>3, <2>4 DEF FilesTypes, Messages
<1>5. BootOK'
  BY <1>2 DEF BootOK
<1>6. boot' # 0
  BY <1>2 DEF Root
<1> QED BY <1>3, <1>4, <1>5, <1>6 DEF Tables, UnusedOK

\* Ireclaim changes the disk, and nothing in memory.
LEMMA IreclaimStep == ASSUME Tables, Ireclaim PROVE Tables'
<1> DEFINE g == Iget(K, boot)
           l == Ilock(g, boot)
           t == Itrunc(l, boot)
           k == Iupdate(t, boot, FreeInode)
<1>1. /\ boot \in Inums /\ boot' = boot + 1
      /\ UNCHANGED <<inTx, itab, ilk, me, cwd, ofile, ftable>>
      /\ \/ fs' = k.fs /\ panic' = k.panic /\ disk' = k.fs
         \/ UNCHANGED <<fs, panic, disk>>
  BY DEF Ireclaim
<1>2. FilesTypes /\ K \in KernelTypes /\ K.itab = itab
  BY FilesTypesParts DEF Tables
<1>3. boot \in Nat /\ boot # 0 /\ boot' \in 0 .. NInodes + 1 /\ boot' # 0
  BY <1>1, FilesAssumption DEF Inums
<1>4. /\ itab = [i \in Inums |-> Unused] /\ ilk = [i \in Inums |-> Nobody]
      /\ me = [p \in Users |-> Idle]
      /\ ofile = [p \in Users |-> [d \in 1 .. NOFile |-> 0]]
      /\ ftable = [f \in 1 .. NFile |-> NoFile]
  BY <1>3 DEF Tables, BootOK
<1>5. k \in KernelTypes
  <2>1. K.itab[boot].ref >= 0
    <3>1. K.itab[boot] = Unused
      BY <1>1, <1>2, <1>4
    <3> QED BY <3>1, UnusedFacts
  <2>3. g \in KernelTypes
    BY <1>1, <1>2, <2>1, IgetFacts
  <2> HIDE DEF g
  <2>4. l \in KernelTypes
    BY <1>1, <2>3, IlockFacts
  <2> HIDE DEF l
  <2>5. t \in KernelTypes
    BY <1>1, <2>4, ItruncFacts
  <2> HIDE DEF t
  <2> QED BY <1>1, <2>5, IupdateFacts, Constants
<1> HIDE DEF k
<1>6. fs' \in FsTypes /\ disk' \in FsTypes /\ panic' \in Messages
  BY <1>1, <1>2, <1>5, KernelParts DEF FilesTypes
<1>7. FilesTypes'
  BY <1>1, <1>2, <1>3, <1>6 DEF FilesTypes
<1>8. /\ itab' = [i \in Inums |-> Unused] /\ ilk' = [i \in Inums |-> Nobody]
      /\ me' = [p \in Users |-> Idle]
      /\ ofile' = [p \in Users |-> [d \in 1 .. NOFile |-> 0]]
      /\ ftable' = [f \in 1 .. NFile |-> NoFile]
  BY <1>1, <1>4
<1>9. UnusedOK'
  <2>1. NothingUsed'
    BY <1>8 DEF NothingUsed
  <2> QED BY <2>1, UnusedIsOK, PTL
<1>10. BootOK'
  BY <1>8 DEF BootOK
<1> QED BY <1>3, <1>7, <1>9, <1>10 DEF Tables, UnusedOK

\* When every process is between system calls, only the current directories of processes
\* refer to an inode.
LEMMA IdleRefs ==
    ASSUME \A p \in Users : me[p] = Idle, NEW i \in Inums
    PROVE  Cardinality(Uses(i)) = Cardinality({p \in Users : cwd[p] = i})
<1> DEFINE S == {p \in Users : cwd[p] = i}
           T == Uses(i)
           f == [p \in S |-> <<p, "cwd">>]
<1>1. Idle.at = "user" /\ Idle.put = <<>> /\ Len(Idle.put) = 0
  BY IdleFacts
<1>2. \A p \in Users, s \in Slots : InSlot(me[p], cwd[p], s, i) <=> s = "cwd" /\ cwd[p] = i
  BY <1>1 DEF InSlot, IpUsed, DpUsed, IpPlaces, DpPlaces
<1>3. \A x : x \in T <=> x \in Users \X Slots /\ x[2] = "cwd" /\ cwd[x[1]] = i
  BY <1>2 DEF Uses
<1>4. \A p \in S : <<p, "cwd">> \in T
  BY <1>3 DEF Slots
<1>5. \A x \in T : x[1] \in S /\ x = <<x[1], "cwd">>
  BY <1>3
<1> HIDE DEF T
<1>6. f \in Bijection(S, T)
  <2>1. f \in [S -> T]
    BY <1>4
  <2>2. f \in Injection(S, T)
    BY <2>1 DEF Injection, IsInjective
  <2>3. \A x \in T : \E p \in S : f[p] = x
    BY <1>5
  <2> QED BY <2>1, <2>2, <2>3 DEF Bijection, Surjection
<1>7. ExistsBijection(S, T)
  BY <1>6 DEF ExistsBijection
<1>8. IsFiniteSet(S)
  BY FS_Subset, Constants
<1> HIDE DEF S
<1>9. Cardinality(T) = Cardinality(S)
  BY <1>7, <1>8, FS_Bijection
<1> QED BY <1>9 DEF S, T

\* Booted gives every inode the references of the current directories.
LEMMA BootedStep == ASSUME Tables, Booted PROVE Tables'
<1>1. /\ boot = NInodes + 1 /\ boot' = 0
      /\ itab' = [i \in Inums |-> Entry(Cardinality({p \in Users : cwd[p] = i}), FALSE, FreeInode)]
      /\ UNCHANGED <<fs, disk, inTx, ilk, me, cwd, ofile, ftable, panic>>
  BY DEF Booted
<1>2. boot # 0 /\ NInodes \in Nat
  BY <1>1, Constants
<1>3. NothingUsed /\ FilesTypes /\ LocksOK /\ FilesOK
      /\ \A p \in Users : Shape(me[p]) /\ WritesFile(p)
  BY <1>2 DEF Tables, BootOK, NothingUsed
<1>4. /\ \A p \in Users : me[p] = Idle /\ Locked(me[p]) = 0
      /\ \A i \in Inums : Opens(i) = {}
  <2>1. Locked(Idle) = 0
    BY IdleFacts, NoLock
  <2> QED BY <1>3, <2>1, UnusedIsOK DEF NothingUsed, UnusedOK
<1>5. ASSUME NEW i \in Inums
      PROVE  /\ itab'[i].ref = Cardinality({p \in Users : cwd[p] = i}) /\ itab'[i].ref \in Nat
             /\ ~itab'[i].valid /\ itab'[i] \in EntryTypes
  <2> DEFINE r == Cardinality({p \in Users : cwd[p] = i})
             no == FALSE
  <2>1. r \in Nat
    BY FS_Subset, FS_CardinalityType, Constants
  <2>2. no \in BOOLEAN /\ ~no /\ FreeInode \in Dinodes
    BY Constants
  <2>3. itab'[i] = Entry(r, no, FreeInode)
    BY <1>1
  <2> HIDE DEF r, no
  <2>4. /\ Entry(r, no, FreeInode) \in EntryTypes /\ Entry(r, no, FreeInode).ref = r
        /\ Entry(r, no, FreeInode).valid = no
    BY <2>1, <2>2, EntryFacts
  <2>5. itab'[i].ref = r /\ itab'[i].ref \in Nat /\ ~itab'[i].valid /\ itab'[i] \in EntryTypes
    BY <2>1, <2>2, <2>3, <2>4
  <2> QED BY <2>5 DEF r
<1>6. FilesTypes'
  <2>1. itab' \in [Inums -> EntryTypes]
    BY <1>1, <1>5
  <2>2. boot' \in 0 .. NInodes + 1
    BY <1>1, <1>2
  <2> QED BY <1>1, <1>3, <2>1, <2>2 DEF FilesTypes
<1>7. LocksOK'
  BY <1>1, <1>3 DEF LocksOK, Frees
<1>8. CopiesOK'
  BY <1>1, <1>4, <1>5 DEF CopiesOK, CopyOK
<1>9. FilesOK'
  BY <1>1, <1>3 DEF FilesOK, FdsOf
<1>10. RefsOK'
  <2>1. ASSUME NEW i \in Inums
        PROVE  itab'[i].ref = Cardinality(Uses(i))' + Cardinality(Opens(i))'
    <3>1. Uses(i)' = Uses(i) /\ Opens(i)' = Opens(i)
      BY <1>1 DEF Uses, Opens
    <3>2. Cardinality(Uses(i)) = Cardinality({p \in Users : cwd[p] = i})
      BY <1>4, IdleRefs
    <3>3. Cardinality(Opens(i)) = 0
      BY <1>4, FS_EmptySet
    <3>4. itab'[i].ref = Cardinality(Uses(i)) /\ itab'[i].ref \in Nat
      BY <1>5, <3>2
    <3> QED BY <3>1, <3>3, <3>4
  <2> QED BY <2>1 DEF RefsOK
<1>11. \A p \in Users : Shape(me'[p]) /\ WritesFile(p)'
  BY <1>1, <1>3 DEF WritesFile, FileOf
<1>12. BootOK'
  BY <1>1 DEF BootOK
<1> QED BY <1>6, <1>7, <1>8, <1>9, <1>10, <1>11, <1>12 DEF Tables

\* The image that the system starts with is a file system.
LEMMA ImageTypes == ASSUME NEW t \in {"file", "dir"} PROVE Image(t) \in FsTypes
<1> DEFINE a(b) == [NoAddrs EXCEPT ![0] = b]
           d1 == [type |-> "dir", nlink |-> 2, size |-> 3, addrs |-> a(1)]
           d2 == [type |-> "dir", nlink |-> IF t = "dir" THEN 2 ELSE 1, size |-> 3,
                  addrs |-> a(2)]
           d3 == [type |-> t, nlink |-> 1, size |-> IF t = "dir" THEN 2 ELSE 1,
                  addrs |-> a(3)]
           e1 == [NoEnts EXCEPT ![Dot] = 1, ![DotDot] = 1, !["a"] = 2]
           e2 == [NoEnts EXCEPT ![Dot] = 2, ![DotDot] = 1, !["b"] = 3]
           e3 == [NoEnts EXCEPT ![Dot] = 3, ![DotDot] = 2]
           ino == [i \in Inums |-> CASE i = 1 -> d1 [] i = 2 -> d2 [] i = 3 -> d3
                                     [] OTHER -> FreeInode]
           ents == [i \in Inums |-> CASE i = 1 -> e1 [] i = 2 -> e2
                                      [] i = 3 /\ t = "dir" -> e3 [] OTHER -> NoEnts]
           ind == [i \in Inums |-> NoInd]
           used == 1 .. 3
           data == [b \in Blocks |-> IF b = 3 /\ t = "file" THEN {3} ELSE {}]
<1>1. Image(t) = [ino |-> ino, ents |-> ents, ind |-> ind, used |-> used, data |-> data]
  BY DEF Image
<1>2. /\ {1, 2, 3} \subseteq Inums /\ {1, 2, 3} \subseteq Blocks /\ 1 .. 3 \subseteq Blocks
      /\ FreeInode \in Dinodes
  BY FilesAssumption, Constants DEF Inums, Blocks
<1>3. a(1) \in Addrs /\ a(2) \in Addrs /\ a(3) \in Addrs
  BY <1>2, Constants DEF Addrs
<1> HIDE DEF a
<1>4. d1 \in Dinodes /\ d2 \in Dinodes /\ d3 \in Dinodes
  BY <1>3 DEF Dinodes, Types
<1> HIDE DEF d1, d2, d3
<1>5. ino \in [Inums -> Dinodes]
  BY <1>2, <1>4
<1>6. e1 \in [Entries -> Inums \union {0}] /\ e2 \in [Entries -> Inums \union {0}]
      /\ e3 \in [Entries -> Inums \union {0}] /\ NoEnts \in [Entries -> Inums \union {0}]
  BY <1>2, Constants
<1> HIDE DEF e1, e2, e3
<1>7. ents \in Dirs
  BY <1>6 DEF Dirs
<1>8. ind \in Inds
  BY Constants DEF Inds
<1>9. used \in SUBSET Blocks /\ data \in [Blocks -> SUBSET Inums]
  BY <1>2
<1> HIDE DEF ino, ents, ind, used, data
<1> QED BY <1>1, <1>5, <1>7, <1>8, <1>9 DEF FsTypes

\* The system starts with sound tables, at the end of its first boot.
LEMMA InitTables == Init => Tables
<1> SUFFICES ASSUME Init PROVE Tables
  OBVIOUS
<1>1. /\ itab = [i \in Inums |-> Unused] /\ ilk = [i \in Inums |-> Nobody]
      /\ me = [p \in Users |-> Idle]
      /\ ofile = [p \in Users |-> [d \in 1 .. NOFile |-> 0]]
      /\ ftable = [f \in 1 .. NFile |-> NoFile]
      /\ boot = NInodes + 1 /\ disk = fs /\ inTx = {} /\ panic = "none"
  BY DEF Init
<1>2. UnusedOK
  BY <1>1, UnusedIsOK DEF NothingUsed
<1>3. fs \in FsTypes
  BY ImageTypes DEF Init
<1>4. cwd \in [Users -> Inums]
  <2>1. Root \in Inums /\ 3 \in Inums
    BY FilesAssumption DEF Inums, Root
  <2>2. cwd \in [Users -> IF fs.ino[3].type = "dir" THEN {Root, 3} ELSE {Root}]
    BY DEF Init
  <2> QED BY <2>1, <2>2
<1>5. boot \in 0 .. NInodes + 1 /\ boot # 0
  BY <1>1, Constants
<1>6. FilesTypes
  <2>1. itab \in [Inums -> EntryTypes] /\ me \in [Users -> MeTypes]
    BY <1>1, UnusedFacts, IdleFacts
  <2>2. ilk \in [Inums -> Users \union {Nobody}] /\ ftable \in [1 .. NFile -> FileTypes]
    BY <1>1, NoFileFacts
  <2>3. ofile \in [Users -> [1 .. NOFile -> 0 .. NFile]]
    BY <1>1, FilesAssumption
  <2> QED BY <1>1, <1>3, <1>4, <1>5, <2>1, <2>2, <2>3 DEF FilesTypes, Messages
<1>7. BootOK
  BY <1>1 DEF BootOK
<1> QED BY <1>2, <1>5, <1>6, <1>7 DEF Tables, UnusedOK

-----------------------------------------------------------------------------
(* The theorem                                                             *)

\* Every step keeps the tables.
LEMMA TablesKept == Tables /\ [Next]_vars => Tables'
<1> SUFFICES ASSUME Tables, [Next]_vars PROVE Tables'
  OBVIOUS
<1>1. ASSUME NEW p \in Users, NEW c \in Calls, Begin(p, c) PROVE Tables'
  BY <1>1, BeginStep
<1>2. ASSUME NEW p \in Users, WalkEnd(p) \/ Walk(p) \/ Iput(p) \/ IputEnd(p) \/ EndOp(p)
      PROVE  Tables'
  BY <1>2, WalkEndStep, WalkStep, IputStep, IputEndStep, EndOpStep
<1>3. ASSUME NEW p \in Users,
             LinkOld(p) \/ LinkNew(p) \/ LinkBad(p) \/ Unlink(p) \/ UnlinkChild(p) \/ UnlinkLast(p)
      PROVE  Tables'
  BY <1>3, LinkOldStep, LinkNewStep, LinkBadStep, UnlinkStep, UnlinkChildStep, UnlinkLastStep
<1>4. ASSUME NEW p \in Users,
             Create(p) \/ CreateOld(p) \/ CreateNew(p) \/ CreateFail(p) \/ Made(p)
      PROVE  Tables'
  BY <1>4, CreateStep, CreateOldStep, CreateNewStep, CreateFailStep, MadeStep
<1>5. ASSUME NEW p \in Users, Open(p) \/ OpenFile(p) \/ Chdir(p) \/ ChdirEnd(p) PROVE Tables'
  BY <1>5, OpenStep, OpenFileStep, ChdirStep, ChdirEndStep
<1>6. ASSUME NEW p \in Users, NEW d \in 1 .. NOFile, Close(p, d) \/ Dup(p, d) \/ Read(p, d)
      PROVE  Tables'
  BY <1>6, CloseStep, DupStep, ReadStep
<1>7. ASSUME NEW p \in Users, NEW d \in 1 .. NOFile, NEW n \in WriteSizes, Write(p, d, n)
      PROVE  Tables'
  BY <1>7, WriteStep
<1>8. ASSUME NEW p \in Users, WriteOp(p) \/ WriteBlock(p) \/ WriteEnd(p) PROVE Tables'
  BY <1>8, WriteOpStep, WriteBlockStep, WriteEndStep
<1>9. CASE Crash \/ Ireclaim \/ Booted
  BY <1>9, CrashStep, IreclaimStep, BootedStep
<1>10. CASE UNCHANGED vars
  <2>1. /\ UNCHANGED <<fs, disk, inTx, itab, ilk, me>>
        /\ UNCHANGED <<cwd, ofile, ftable, boot, panic>>
    BY <1>10 DEF vars
  <2>2. FilesTypes' /\ BootOK' /\ LocksOK'
    BY <2>1 DEF Tables, FilesTypes, BootOK, LocksOK, Frees
  <2>3. CopiesOK'
    BY <2>1 DEF Tables, CopiesOK, CopyOK, BeingFreed, BeingWritten, Frees
  <2>4. FilesOK' /\ (boot = 0 => RefsOK)'
    BY <2>1 DEF Tables, FilesOK, FdsOf, RefsOK, Uses, Opens
  <2>5. \A p \in Users : Shape(me'[p]) /\ WritesFile(p)'
    BY <2>1 DEF Tables, WritesFile, FileOf
  <2> QED BY <2>2, <2>3, <2>4, <2>5 DEF Tables
<1> QED BY <1>1, <1>2, <1>3, <1>4, <1>5, <1>6, <1>7, <1>8, <1>9, <1>10 DEF Next

\* The invariant implies the property.
LEMMA TablesImply == Tables => TablesSound
<1> SUFFICES ASSUME Tables PROVE TablesSound
  OBVIOUS
<1>1. /\ FilesTypes /\ LocksOK /\ CopiesOK /\ FilesOK /\ BootOK /\ (boot = 0 => RefsOK)
      /\ \A p \in Users : Shape(me[p])
  BY DEF Tables
<1>2. \A i \in Inums : itab[i].ref \in Nat /\ itab[i].valid \in BOOLEAN
  <2>1. CASE boot = 0
    <3>1. ASSUME NEW i \in Inums PROVE itab[i].ref \in Nat
      <4> DEFINE u == Cardinality(Uses(i))
                 o == Cardinality(Opens(i))
      <4>1. u \in Nat /\ o \in Nat /\ itab[i].ref = u + o
        BY <1>1, <2>1, UsesFinite, OpensFinite DEF RefsOK
      <4> HIDE DEF u, o
      <4> QED BY <4>1
    <3> QED BY <1>1, <3>1 DEF FilesTypes, EntryTypes
  <2>2. CASE boot # 0
    <3>1. \A i \in Inums : itab[i] = Unused
      BY <1>1, <2>2 DEF BootOK
    <3>2. Unused.ref \in Nat
      BY UnusedFacts
    <3>3. \A i \in Inums : itab[i].valid \in BOOLEAN
      BY <1>1 DEF FilesTypes, EntryTypes
    <3> QED BY <3>1, <3>2, <3>3
  <2> QED BY <2>1, <2>2
<1>3. ASSUME NEW f \in 1 .. NFile PROVE ftable[f].ref \in Nat
  <2>1. IsFiniteSet(FdsOf(f))
    BY FdsFinite
  <2> QED BY <1>1, <2>1, FS_CardinalityType DEF FilesOK
<1>4. ASSUME NEW f \in {fs, disk}
      PROVE  /\ \A i \in Inums : /\ f.ino[i].nlink \in Int /\ f.ino[i].size \in Nat
                                 /\ f.ents[i] \in [Entries -> Inums \union {0}]
             /\ f.used \subseteq Blocks /\ f.data \in [Blocks -> SUBSET Inums]
  <2>1. f \in FsTypes
    BY <1>1, <1>4 DEF FilesTypes
  <2>2. f.ino \in [Inums -> Dinodes] /\ f.ents \in Dirs
    BY <2>1, FsParts
  <2>3. \A i \in Inums : f.ino[i] \in Dinodes /\ f.ents[i] \in [Entries -> Inums \union {0}]
    BY <2>2 DEF Dirs
  <2> QED BY <2>1, <2>3 DEF FsTypes, Dinodes
<1>5. TypeOK
  BY <1>1, <1>2, <1>3, <1>4 DEF TypeOK, FilesTypes
<1>6. CachedIsCurrent
  <2>1. SUFFICES ASSUME NEW i \in Inums, itab[i].valid, ilk[i] = Nobody
                 PROVE  itab[i].copy = fs.ino[i]
    BY DEF CachedIsCurrent
  <2>2. ~BeingFreed(i) /\ ~BeingWritten(i)
    BY <2>1 DEF BeingFreed, BeingWritten
  <2> QED BY <1>1, <2>1, <2>2 DEF CopiesOK, CopyOK
<1>7. ReferencesAreHeld
  <2>1. ASSUME boot = 0, \A p \in Users : me[p].at = "user", NEW i \in Inums
        PROVE  itab[i].ref = Cardinality({p \in Users : cwd[p] = i})
                             + Cardinality({f \in 1 .. NFile : ftable[f].ip = i})
    <3>1. \A p \in Users : me[p] = Idle
      BY <1>1, <2>1 DEF Shape
    <3>2. Cardinality(Uses(i)) = Cardinality({p \in Users : cwd[p] = i})
      BY <3>1, IdleRefs
    <3> QED BY <1>1, <2>1, <3>2 DEF RefsOK, Opens
  <2>2. \A f \in 1 .. NFile :
          ftable[f].ref = Cardinality({x \in Users \X (1 .. NOFile) : ofile[x[1]][x[2]] = f})
    BY <1>1 DEF FilesOK, FdsOf
  <2> QED BY <2>1, <2>2 DEF ReferencesAreHeld
<1> QED BY <1>5, <1>6, <1>7 DEF TablesSound

\* The inode table and the file table are sound in every reachable state: an entry has as many
\* references as current directories, open files and the processes inside the kernel refer to
\* it with, and a valid one that nobody has locked is the inode on disk (iget, iput, ilock,
\* idup, filedup, fileclose).
THEOREM TablesAreSound == Spec => []TablesSound
<1>1. Spec => []Tables
  BY InitTables, TablesKept, PTL DEF Spec
<1> QED BY <1>1, TablesImply, PTL

=============================================================================
