------------------------------ MODULE Xv6Files ------------------------------
(***************************************************************************)
(* The file system of xv6 above its log: inodes, block allocation,         *)
(* directories and path names (kernel/fs.c), open files (kernel/file.c)    *)
(* and the system calls on them (kernel/sysfile.c), with crashes and the   *)
(* recovery of orphaned inodes at boot.                                    *)
(*                                                                         *)
(* A step of a process ends where it may have to wait for an inode's sleep *)
(* lock or where another process can see a difference.  The log is taken   *)
(* at its word (TransactionalDisk): what the system calls wrote reaches    *)
(* the disk all at once, when no system call is inside a transaction.      *)
(*                                                                         *)
(* Sizes and offsets of files count blocks, those of directories entries.  *)
(* What the blocks of a directory and the indirect block of an inode hold  *)
(* is kept by inode, in fs.ents and fs.ind.  Of the content of a file's    *)
(* block only the set of inodes matters that its bytes were written for.   *)
(***************************************************************************)
EXTENDS Integers, Sequences, FiniteSets

CONSTANTS
    Users,          \* processes
    Nobody,         \* no process
    NInodes,        \* the inodes are 1 .. NInodes, the root is 1
    NBlocks,        \* data blocks of the disk
    NDirect, NIndirect,
    DirSlots,       \* entries of a directory per block
    NFile, NOFile,  \* size of the file table, files of a process
    WriteMax,       \* blocks that filewrite() writes in one transaction
    Names,          \* names of files
    Calls,          \* system calls with a path, see NoCall
    WriteSizes,     \* sizes of write()
    MaxCalls,       \* system calls in a behaviour
    MaxCrashes

Root     == 1
Inums    == 1 .. NInodes
Blocks   == 1 .. NBlocks
Dot      == "dot"                       \* the entries "." and ".."
DotDot   == "dotdot"
Entries  == Names \union {Dot, DotDot}
MaxBlock == NDirect + NIndirect         \* MAXFILE
PathOps  == {"create", "mkdir", "mknod", "mkbad", "unlink", "link", "read", "rdwr", "trunc",
             "chdir"}

ASSUME FilesAssumption ==
    /\ Nobody \notin Users /\ IsFiniteSet(Users) /\ IsFiniteSet(Names)
    /\ NInodes \in Nat /\ NBlocks \in Nat /\ DirSlots \in Nat
    /\ NInodes >= 3 /\ NBlocks >= 3 /\ DirSlots >= 3 /\ {"a", "b"} \subseteq Names   \* Image
    /\ NDirect \in Nat \ {0} /\ NIndirect \in Nat
    /\ Names \intersect {Dot, DotDot} = {}
    /\ NFile \in Nat /\ NOFile \in Nat \ {0} /\ WriteMax \in Nat \ {0}
    /\ WriteSizes \subseteq Nat
    /\ \A c \in Calls : c.op \in PathOps /\ {c.path, c.new} \subseteq Seq(Entries)

VARIABLES
    fs,         \* what the file system is, through cache and log
    disk,       \* what it is on disk: fs as of the last commit
    inTx,       \* processes between begin_op() and end_op()
    itab,       \* the inode table
    ilk,        \* the holder of ip->lock
    me,         \* what a process is doing
    cwd,        \* p->cwd
    ofile,      \* p->ofile
    ftable,     \* the file table
    boot,       \* the next inode of ireclaim(), 0 when the system runs
    panic,      \* the message of panic()
    calls, crashes,
    buried,     \* history: inodes entered into a directory that had been removed
    buriedDisk, \* history: buried as of the last commit
    dangling    \* history: a process looked up the ".." of a directory whose parent is gone

history == <<buried, buriedDisk, dangling>>
vars == <<fs, disk, inTx, itab, ilk, me, cwd, ofile, ftable, boot, panic, calls, crashes,
          history>>

NoAddrs  == [b \in 0 .. NDirect |-> 0]
NoEnts   == [n \in Entries |-> 0]
NoInd    == [b \in 0 .. NIndirect - 1 |-> 0]
Dinode(t, n) == [type |-> t, nlink |-> n, size |-> 0, addrs |-> NoAddrs]
FreeInode == Dinode("none", 0)
NoFile   == [ref |-> 0, type |-> "none", ip |-> 0, off |-> 0, write |-> FALSE]
NoCall   == [op |-> "none", path |-> <<>>, new |-> <<>>]
Idle     == [at |-> "user", call |-> NoCall, path |-> <<>>, ip |-> 0, dp |-> 0,
             put |-> <<>>, fd |-> 0, left |-> 0, now |-> 0]
Entry(ref, valid, d) == [ref |-> ref, valid |-> valid, copy |-> d]
Unused   == Entry(0, FALSE, FreeInode)
-----------------------------------------------------------------------------
(* Operators on the kernel's state k = [fs, itab, panic].                  *)

K == [fs |-> fs, itab |-> itab, panic |-> panic]

Panic(k, message)  == [fs |-> k.fs, itab |-> k.itab, panic |-> message]
WithFs(k, f)       == [fs |-> f, itab |-> k.itab, panic |-> k.panic]
WithEntry(k, i, e) == [fs |-> k.fs, itab |-> [k.itab EXCEPT ![i] = e], panic |-> k.panic]

First(S) == CHOOSE x \in S : \A y \in S : x <= y

\* Mutant: the block keeps what the file that had it before wrote.
Balloc_NotZeroed(k) ==
    LET free == Blocks \ k.fs.used IN
    IF free = {} THEN [k |-> k, addr |-> 0]
    ELSE [k    |-> WithFs(k, [k.fs EXCEPT !.used = @ \union {First(free)}]),
          addr |-> First(free)]

\* balloc(): the first free block, zeroed; address 0 when there is none.
Balloc(k) ==
    LET free == Blocks \ k.fs.used IN
    IF free = {} THEN [k |-> k, addr |-> 0]
    ELSE [k    |-> WithFs(k, [k.fs EXCEPT !.used = @ \union {First(free)},
                                          !.data[First(free)] = {}]),
          addr |-> First(free)]

\* bfree() of a set of blocks.
Bfree(k, blocks) ==
    IF blocks \subseteq k.fs.used THEN WithFs(k, [k.fs EXCEPT !.used = @ \ blocks])
    ELSE Panic(k, "bfree")

\* iget(): one more reference to the entry of the inode, or a new entry.  The table has an
\* entry per inode; iget() panics when NINODE are in use (fs.c:268), which is left out.
Another(e) == IF e.ref > 0 THEN Entry(e.ref + 1, e.valid, e.copy)
              ELSE Entry(1, FALSE, FreeInode)
Iget(k, i) == WithEntry(k, i, Another(k.itab[i]))

\* ialloc(): the first free inode of the disk is given the type and referenced.
Ialloc(k, t) ==
    LET free == {i \in Inums : k.fs.ino[i].type = "none"} IN
    IF free = {} THEN [k |-> k, i |-> 0]
    ELSE [k |-> Iget(WithFs(k, [k.fs EXCEPT !.ino[First(free)] = Dinode(t, 0)]), First(free)),
          i |-> First(free)]

\* ilock(), once the lock is acquired.
Ilock(k, i) ==
    IF k.itab[i].valid THEN k
    ELSE IF k.fs.ino[i].type = "none" THEN Panic(k, "ilock")
    ELSE WithEntry(k, i, Entry(k.itab[i].ref, TRUE, k.fs.ino[i]))

\* The inode in memory.
Ip(k, i) == k.itab[i].copy

\* A change to the inode in memory, alone and with iupdate().
Change(k, i, d)  == WithEntry(k, i, Entry(k.itab[i].ref, k.itab[i].valid, d))
Iupdate(k, i, d) == WithFs(Change(k, i, d), [k.fs EXCEPT !.ino[i] = d])

\* The blocks of an inode.
BlocksOf(f, d, i) ==
    ({d.addrs[b] : b \in 0 .. NDirect} \union {f.ind[i][b] : b \in 0 .. NIndirect - 1})
        \ {0}

\* itrunc()
Emptied(k, i) == WithFs(k, [k.fs EXCEPT !.ind[i] = NoInd, !.ents[i] = NoEnts])
Itrunc(k, i)  ==
    Iupdate(Emptied(Bfree(k, BlocksOf(k.fs, Ip(k, i), i)), i), i,
            [Ip(k, i) EXCEPT !.size = 0, !.addrs = NoAddrs])

\* The block number in addrs[s], allocated when there is none.
NewAddr(new, i, s) ==
    IF new.addr = 0 THEN new
    ELSE [k    |-> Change(new.k, i, [Ip(new.k, i) EXCEPT !.addrs[s] = new.addr]),
          addr |-> new.addr]
AddrSlot(k, i, s) ==
    IF Ip(k, i).addrs[s] # 0 THEN [k |-> k, addr |-> Ip(k, i).addrs[s]]
    ELSE NewAddr(Balloc(k), i, s)

\* The block number in entry n of the indirect block ind, likewise.
NewInd(new, i, n) ==
    IF new.addr = 0 THEN new
    ELSE [k    |-> WithFs(new.k, [new.k.fs EXCEPT !.ind[i][n] = new.addr]),
          addr |-> new.addr]
IndSlot(ind, i, n) ==
    IF ind.addr = 0 THEN ind
    ELSE IF ind.k.fs.ind[i][n] # 0 THEN [k |-> ind.k, addr |-> ind.k.fs.ind[i][n]]
    ELSE NewInd(Balloc(ind.k), i, n)

\* bmap(): the address of block bn of inode i.  The indirect block is allocated
\* first and stays when there is no block left for the data.
Bmap(k, i, bn) ==
    IF bn < NDirect THEN AddrSlot(k, i, bn)
    ELSE IndSlot(AddrSlot(k, i, NDirect), i, bn - NDirect)

\* dirlookup(): the inode that a directory has under a name, 0 when there is none.
Dirlookup(k, d, name) == k.fs.ents[d][name]

\* readi(): the blocks read, one or none at the end of the file.
Readi(ip, off) == IF off < ip.size THEN 1 ELSE 0

\* The entry of a directory.
SetEnt(k, d, name, i) == WithFs(k, [k.fs EXCEPT !.ents[d][name] = i])

\* writei() of the entry at offset off, in the block r; it also saves the inode
\* when there is no block.
Larger(m, n) == IF m < n THEN n ELSE m
WriteEntry(r, d, off, name, i) ==
    IF r.addr = 0 THEN [k |-> Iupdate(r.k, d, Ip(r.k, d)), ok |-> FALSE]
    ELSE [k  |-> SetEnt(Iupdate(r.k, d, [Ip(r.k, d) EXCEPT !.size = Larger(@, off + 1)]),
                        d, name, i),
          ok |-> TRUE]

\* dirlink() after its dirlookup() found nothing: the entry goes to the first
\* empty place or to the end.
Place(k, d) ==
    LET used == Cardinality({n \in Entries : k.fs.ents[d][n] # 0})
    IN  IF used < Ip(k, d).size THEN used ELSE Ip(k, d).size
PlaceBlock(k, d) == IF Place(k, d) < Ip(k, d).size THEN 0 ELSE Place(k, d) \div DirSlots
Dirlink(k, d, name, i) ==
    IF PlaceBlock(k, d) >= MaxBlock THEN [k |-> k, ok |-> FALSE]
    ELSE WriteEntry(Bmap(k, d, PlaceBlock(k, d)), d, Place(k, d), name, i)
-----------------------------------------------------------------------------
(* Steps of a process                                                      *)

\* The kernel's state becomes k and the process goes on as m.
Does(p, k, m) ==
    /\ fs' = k.fs /\ itab' = k.itab /\ panic' = k.panic
    /\ me' = [me EXCEPT ![p] = m]

\* The process is at a place of a system call and has no iput() to do first.
At(p, place) == panic = "none" /\ boot = 0 /\ me[p].at = place /\ me[p].put = <<>>

Holds(p, i)   == [ilk EXCEPT ![i] = p]
FreeLock(i)   == ilk[i] = Nobody
Release(S)    == [i \in Inums |-> IF i \in S THEN Nobody ELSE ilk[i]]
FilesKept     == UNCHANGED <<cwd, ofile, ftable>>
Rest          == UNCHANGED <<disk, inTx, boot, calls, crashes>>

\* The call ends at place at, after iput() of the inodes in s.
Then(p, at, s) == IF at = "end" THEN [Idle EXCEPT !.at = at, !.put = s]
                  ELSE [me[p] EXCEPT !.at = at, !.put = s, !.path = <<>>]

\* The end of iput() of an inode that it freed.
Forget(e) == IF e.ref = 1 THEN Unused ELSE Entry(e.ref - 1, FALSE, FreeInode)

\* The end of another iput().
Drop(e) == IF e.ref = 1 THEN Unused ELSE Entry(e.ref - 1, e.valid, e.copy)

\* The iput() that p did is done.
Dropped(m) == [m EXCEPT !.put = Tail(@)]

\* Mutant: an inode without links is freed by whoever drops a reference.
LastReference_Any(e) == e.valid /\ e.copy.nlink = 0

\* iput() frees the inode.
LastReference(e) == e.ref = 1 /\ e.valid /\ e.copy.nlink = 0

\* iput(), all of it unless the inode is freed: then the contents and the inode
\* on disk.  The lock of the inode is held until IputEnd.
Iput(p) ==
    /\ panic = "none" /\ boot = 0
    /\ me[p].put # <<>> /\ ilk[Head(me[p].put)] # p
    /\ LET i == Head(me[p].put)
           t == Itrunc(K, i)
       IN  IF LastReference(itab[i])
           THEN /\ Does(p, Iupdate(t, i, [Ip(t, i) EXCEPT !.type = "none"]), me[p])
                /\ ilk' = Holds(p, i)
           ELSE /\ Does(p, WithEntry(K, i, Drop(itab[i])), Dropped(me[p]))
                /\ UNCHANGED ilk
    /\ FilesKept /\ Rest /\ UNCHANGED history

IputEnd(p) ==
    /\ panic = "none" /\ boot = 0
    /\ me[p].put # <<>> /\ ilk[Head(me[p].put)] = p
    /\ LET i == Head(me[p].put)
       IN  /\ Does(p, WithEntry(K, i, Forget(itab[i])), Dropped(me[p]))
           /\ ilk' = Release({i})
    /\ buried' = buried \ {Head(me[p].put)}
    /\ FilesKept /\ Rest /\ UNCHANGED <<buriedDisk, dangling>>

\* begin_op(), and the start of namex() at the root or the current directory.
Begin(p, c) ==
    /\ At(p, "user") /\ calls < MaxCalls
    /\ calls' = calls + 1
    /\ inTx' = inTx \union {p}
    /\ Does(p, Iget(K, cwd[p]),
            [Idle EXCEPT !.at = "walk", !.call = c, !.path = c.path, !.ip = cwd[p]])
    /\ FilesKept /\ UNCHANGED <<disk, ilk, boot, crashes, history>>

\* end_op(): the last one commits.
EndOp(p) ==
    /\ At(p, "end")
    /\ me' = [me EXCEPT ![p] = Idle]
    /\ inTx' = inTx \ {p}
    /\ disk' = IF inTx = {p} THEN fs ELSE disk
    /\ buriedDisk' = IF inTx = {p} THEN buried ELSE buriedDisk
    /\ FilesKept
    /\ UNCHANGED <<fs, itab, ilk, panic, boot, calls, crashes, buried, dangling>>
-----------------------------------------------------------------------------
(* namex()                                                                 *)

\* The calls that look for the directory of the last name.
WantsParent(m) == m.call.op \in {"create", "mkdir", "mknod", "mkbad", "unlink"}
                  \/ (m.call.op = "link" /\ m.dp # 0)

\* Where a call goes on with what namex() found, and when it found nothing.
Found(m) == CASE m.call.op = "link" -> IF m.dp = 0 THEN "linkOld" ELSE "linkNew"
              [] m.call.op \in {"create", "mkdir", "mknod", "mkbad"} -> "create"
              [] OTHER -> m.call.op
Missing(m) == IF m.call.op = "link" /\ m.dp # 0 THEN "linkBad" ELSE "end"

\* A directory that nothing names: it was removed while a process was using it.
Removed(f, d) == d # Root /\ \A e \in Inums, n \in Names : f.ents[e][n] # d

\* The ".." of a removed directory has the number of an inode without links: the
\* parent was removed as well, may be free by now, or in use for something new.
GoesUp(d, name) ==
    name = DotDot /\ \E i \in Inums : fs.ents[d][DotDot] = i /\ fs.ino[i].nlink = 0

\* The path is used up: the inode is found, a parent is not.
WalkEnd(p) ==
    /\ At(p, "walk") /\ me[p].path = <<>>
    /\ Does(p, K, IF WantsParent(me[p]) THEN Then(p, Missing(me[p]), <<me[p].ip>>)
                  ELSE [me[p] EXCEPT !.at = Found(me[p])])
    /\ FilesKept /\ Rest /\ UNCHANGED <<ilk, history>>

\* One name: ilock(), dirlookup(), iunlockput().  The last name is left to the
\* caller when it asked for the parent.
Walk(p) ==
    /\ At(p, "walk") /\ me[p].path # <<>>
    /\ FreeLock(me[p].ip)
    /\ LET i    == me[p].ip
           k    == Ilock(K, i)
           next == Dirlookup(k, i, Head(me[p].path))
       IN  IF Ip(k, i).type # "dir"
           THEN Does(p, k, Then(p, Missing(me[p]), <<i>>))
           ELSE IF WantsParent(me[p]) /\ Len(me[p].path) = 1
           THEN Does(p, k, [me[p] EXCEPT !.at = Found(me[p])])
           ELSE IF next = 0
           THEN Does(p, k, Then(p, Missing(me[p]), <<i>>))
           ELSE Does(p, Iget(k, next), [me[p] EXCEPT !.ip = next, !.path = Tail(@),
                                                     !.put = <<i>>])
    /\ dangling' = (dangling \/ GoesUp(me[p].ip, Head(me[p].path)))
    /\ FilesKept /\ Rest /\ UNCHANGED <<ilk, buried, buriedDisk>>

LastName(p) == Head(me[p].path)
-----------------------------------------------------------------------------
(* sys_link(): dp holds the inode of the old path during the second walk.   *)

LinkOld(p) ==
    /\ At(p, "linkOld") /\ FreeLock(me[p].ip)
    /\ LET i == me[p].ip
           k == Ilock(K, i)
       IN  IF Ip(k, i).type = "dir" THEN Does(p, k, Then(p, "end", <<i>>))
           ELSE Does(p, Iget(Iupdate(k, i, [Ip(k, i) EXCEPT !.nlink = @ + 1]), cwd[p]),
                     [me[p] EXCEPT !.at = "walk", !.dp = i, !.ip = cwd[p],
                                   !.path = me[p].call.new])
    /\ FilesKept /\ Rest /\ UNCHANGED <<ilk, history>>

\* After dirlink().
Linked(p, r, d, i) ==
    /\ Does(p, r.k, IF r.ok THEN Then(p, "end", <<d, i>>) ELSE Then(p, "linkBad", <<d>>))
    /\ buried' = IF r.ok /\ Removed(fs, d) THEN buried \union {i} ELSE buried

LinkNew(p) ==
    /\ At(p, "linkNew") /\ FreeLock(me[p].ip)
    /\ LET d   == me[p].ip
           k   == Ilock(K, d)
           old == Dirlookup(k, d, LastName(p))
       IN  IF old # 0
           THEN Does(p, Iget(k, old), Then(p, "linkBad", <<old, d>>)) /\ UNCHANGED buried
           ELSE Linked(p, Dirlink(k, d, LastName(p), me[p].dp), d, me[p].dp)
    /\ dangling' = (dangling \/ GoesUp(me[p].ip, LastName(p)))
    /\ FilesKept /\ Rest /\ UNCHANGED <<ilk, buriedDisk>>

\* Mutant: the link count stays incremented.
LinkBack_Kept(d) == d

\* The link count after label bad.
LinkBack(d) == [d EXCEPT !.nlink = @ - 1]

LinkBad(p) ==
    /\ At(p, "linkBad") /\ FreeLock(me[p].dp)
    /\ LET i == me[p].dp
           k == Ilock(K, i)
       IN  Does(p, Iupdate(k, i, LinkBack(Ip(k, i))), Then(p, "end", <<i>>))
    /\ FilesKept /\ Rest /\ UNCHANGED <<ilk, history>>
-----------------------------------------------------------------------------
(* sys_unlink()                                                            *)

\* Mutant: any name can be unlinked.
Unlinkable_Any(name) == TRUE

\* "." and ".." cannot be unlinked.
Unlinkable(name) == name \notin {Dot, DotDot}

Unlink(p) ==
    /\ At(p, "unlink") /\ FreeLock(me[p].ip)
    /\ LET d == me[p].ip
           k == Ilock(K, d)
           i == Dirlookup(k, d, LastName(p))
       IN  IF ~Unlinkable(LastName(p)) \/ i = 0
           THEN Does(p, k, Then(p, "end", <<d>>)) /\ UNCHANGED ilk
           ELSE /\ Does(p, Iget(k, i),
                        [me[p] EXCEPT !.at = "unlinkChild", !.dp = d, !.ip = i])
                /\ ilk' = Holds(p, d)
    /\ FilesKept /\ Rest /\ UNCHANGED history

IsDirEmpty(k, i) == \A n \in Names : k.fs.ents[i][n] = 0

\* The child is locked too; the entry goes, and with a directory the link of its
\* ".." to the parent.
UnlinkChild(p) ==
    /\ At(p, "unlinkChild") /\ FreeLock(me[p].ip)
    /\ LET d  == me[p].dp
           i  == me[p].ip
           k0 == Ilock(K, i)
           k  == IF Ip(k0, i).nlink < 1 THEN Panic(k0, "unlink") ELSE k0
           w  == SetEnt(k, d, LastName(p), 0)
           dir == Ip(k, i).type = "dir"
       IN  IF dir /\ ~IsDirEmpty(k, i)
           THEN /\ Does(p, k, Then(p, "end", <<i, d>>))
                /\ ilk' = Release({d})
           ELSE /\ Does(p, IF dir THEN Iupdate(w, d, [Ip(w, d) EXCEPT !.nlink = @ - 1])
                           ELSE w,
                        Then(p, "unlinkLast", <<d>>))
                /\ ilk' = [Release({d}) EXCEPT ![i] = p]
    /\ FilesKept /\ Rest /\ UNCHANGED history

UnlinkLast(p) ==
    /\ At(p, "unlinkLast")
    /\ LET i == me[p].ip
       IN  /\ Does(p, Iupdate(K, i, [Ip(K, i) EXCEPT !.nlink = @ - 1]),
                   Then(p, "end", <<i>>))
           /\ ilk' = Release({i})
    /\ FilesKept /\ Rest /\ UNCHANGED history
-----------------------------------------------------------------------------
(* create(), for sys_open(), sys_mkdir() and sys_mknod()                   *)

\* The type given to create(); "baddev" is a device whose major number does not exist.
TypeOf(op) == CASE op = "create" -> "file" [] op = "mkdir" -> "dir"
                [] op = "mknod" -> "device" [] op = "mkbad" -> "baddev"

\* The parent is locked, the name looked up, a new inode allocated.
Create(p) ==
    /\ At(p, "create") /\ FreeLock(me[p].ip)
    /\ LET d   == me[p].ip
           k   == Ilock(K, d)
           old == Dirlookup(k, d, LastName(p))
           new == Ialloc(k, TypeOf(me[p].call.op))
       IN  IF old # 0
           THEN /\ Does(p, Iget(k, old),
                        [Then(p, "createOld", <<d>>) EXCEPT !.ip = old])
                /\ UNCHANGED ilk
           ELSE IF new.i = 0
           THEN Does(p, k, Then(p, "end", <<d>>)) /\ UNCHANGED ilk
           ELSE /\ Does(p, new.k,
                        [me[p] EXCEPT !.at = "createNew", !.dp = d, !.ip = new.i])
                /\ ilk' = Holds(p, d)
    /\ dangling' = (dangling \/ GoesUp(me[p].ip, LastName(p)))
    /\ FilesKept /\ Rest /\ UNCHANGED <<buried, buriedDisk>>

\* The name exists: open() with O_CREATE takes it if it is no directory.
CreateOld(p) ==
    /\ At(p, "createOld") /\ FreeLock(me[p].ip)
    /\ LET i == me[p].ip
           k == Ilock(K, i)
       IN  IF me[p].call.op = "create" /\ Ip(k, i).type \in {"file", "device", "baddev"}
           THEN Does(p, k, Then(p, "openFile", <<>>)) /\ ilk' = Holds(p, i)
           ELSE Does(p, k, Then(p, "end", <<i>>)) /\ UNCHANGED ilk
    /\ FilesKept /\ Rest /\ UNCHANGED history

\* dirlink() after an earlier one, unless that failed.
AndLink(r, d, name, i) == IF r.ok THEN Dirlink(r.k, d, name, i) ELSE r

\* dirlink() of ".", ".." and the name, as far as they go.
Dots(k, d, i) == AndLink(Dirlink(k, i, Dot, i), i, DotDot, d)
MakeEntries(k, d, i, name, dir) ==
    AndLink(IF dir THEN Dots(k, d, i) ELSE [k |-> k, ok |-> TRUE], d, name, i)

\* Label fail of create().
CreateFails(k, i) == Iupdate(k, i, [Ip(k, i) EXCEPT !.nlink = 0])

\* After the entries are made, or some of them.
CreateEnd(p, r, d, i) ==
    IF r.ok
    THEN /\ Does(p, IF me[p].call.op = "mkdir"
                    THEN Iupdate(r.k, d, [Ip(r.k, d) EXCEPT !.nlink = @ + 1]) ELSE r.k,
                 Then(p, IF me[p].call.op = "create" THEN "openFile" ELSE "made", <<d>>))
         /\ ilk' = [Release({d}) EXCEPT ![i] = p]
         /\ buried' = IF Removed(fs, d) THEN buried \union {i} ELSE buried
    ELSE /\ Does(p, CreateFails(r.k, i), Then(p, "createFail", <<i>>))
         /\ UNCHANGED <<ilk, buried>>

\* The new inode is locked too, and entered into its parent.
CreateNew(p) ==
    /\ At(p, "createNew") /\ FreeLock(me[p].ip)
    /\ LET d == me[p].dp
           i == me[p].ip
           k == Ilock(K, i)
       IN  CreateEnd(p, MakeEntries(Iupdate(k, i, [Ip(k, i) EXCEPT !.nlink = 1]), d, i,
                                    LastName(p), me[p].call.op = "mkdir"), d, i)
    /\ FilesKept /\ Rest /\ UNCHANGED <<buriedDisk, dangling>>

\* iunlockput() of the parent after that of the inode.
CreateFail(p) ==
    /\ At(p, "createFail")
    /\ Does(p, K, Then(p, "end", <<me[p].dp>>))
    /\ ilk' = Release({me[p].dp})
    /\ FilesKept /\ Rest /\ UNCHANGED history

\* sys_mkdir() and sys_mknod(), after create().
Made(p) ==
    /\ At(p, "made")
    /\ Does(p, K, Then(p, "end", <<me[p].ip>>))
    /\ ilk' = Release({me[p].ip})
    /\ FilesKept /\ Rest /\ UNCHANGED history
-----------------------------------------------------------------------------
(* sys_open(), sys_chdir()                                                 *)

\* ilock() after namei(): a directory is opened for reading only.
Open(p) ==
    /\ me[p].at \in {"read", "rdwr", "trunc"} /\ At(p, me[p].at) /\ FreeLock(me[p].ip)
    /\ LET i == me[p].ip
           k == Ilock(K, i)
       IN  IF Ip(k, i).type = "dir" /\ me[p].at # "read"
           THEN Does(p, k, Then(p, "end", <<i>>)) /\ UNCHANGED ilk
           ELSE Does(p, k, Then(p, "openFile", <<>>)) /\ ilk' = Holds(p, i)
    /\ FilesKept /\ Rest /\ UNCHANGED history

\* filealloc() and fdalloc(): the first free ones, 0 when there is none.
FreeFiles  == {f \in 1 .. NFile : ftable[f].ref = 0}
FreeFds(p) == {d \in 1 .. NOFile : ofile[p][d] = 0}

\* The rest of sys_open(), with the inode locked.
OpenFile(p) ==
    /\ At(p, "openFile")
    /\ LET i == me[p].ip
           f == First(FreeFiles)
           c == me[p].call.op
       IN  IF Ip(K, i).type = "baddev" \/ FreeFiles = {} \/ FreeFds(p) = {}
           THEN Does(p, K, Then(p, "end", <<i>>)) /\ FilesKept
           ELSE /\ Does(p, IF c = "trunc" /\ Ip(K, i).type = "file" THEN Itrunc(K, i) ELSE K,
                        Then(p, "end", <<>>))
                /\ ftable' = [ftable EXCEPT ![f] =
                      [ref |-> 1, ip |-> i, off |-> 0, write |-> c # "read",
                       type |-> IF Ip(K, i).type = "device" THEN "device" ELSE "inode"]]
                /\ ofile' = [ofile EXCEPT ![p][First(FreeFds(p))] = f]
                /\ UNCHANGED cwd
    /\ ilk' = Release({me[p].ip})
    /\ Rest /\ UNCHANGED history

Chdir(p) ==
    /\ At(p, "chdir") /\ FreeLock(me[p].ip)
    /\ LET k == Ilock(K, me[p].ip)
       IN  Does(p, k, IF Ip(k, me[p].ip).type = "dir" THEN Then(p, "chdirEnd", <<cwd[p]>>)
                      ELSE Then(p, "end", <<me[p].ip>>))
    /\ FilesKept /\ Rest /\ UNCHANGED <<ilk, history>>

ChdirEnd(p) ==
    /\ At(p, "chdirEnd")
    /\ cwd' = [cwd EXCEPT ![p] = me[p].ip]
    /\ me' = [me EXCEPT ![p] = Then(p, "end", <<>>)]
    /\ Rest /\ UNCHANGED <<fs, itab, panic, ilk, ofile, ftable, history>>
-----------------------------------------------------------------------------
(* System calls on open files                                              *)

\* fileclose(): one reference less.
CloseFile(f) == IF f.ref > 1 THEN [f EXCEPT !.ref = @ - 1] ELSE NoFile

\* argfd()
Argfd(p, d) == ofile[p][d] # 0

\* sys_close(); the last reference puts the inode in a transaction.
Close(p, d) ==
    /\ At(p, "user") /\ calls < MaxCalls /\ Argfd(p, d)
    /\ LET f    == ftable[ofile[p][d]]
           last == f.ref = 1
       IN  /\ ftable' = [ftable EXCEPT ![ofile[p][d]] = CloseFile(f)]
           /\ ofile' = [ofile EXCEPT ![p][d] = 0]
           /\ inTx' = IF last THEN inTx \union {p} ELSE inTx
           /\ me' = IF last THEN [me EXCEPT ![p] = Then(p, "end", <<f.ip>>)] ELSE me
    /\ calls' = calls + 1
    /\ UNCHANGED <<fs, disk, itab, ilk, cwd, boot, panic, crashes, history>>

\* filedup()
Filedup(f) == [f EXCEPT !.ref = @ + 1]

\* sys_dup()
Dup(p, d) ==
    /\ At(p, "user") /\ calls < MaxCalls /\ Argfd(p, d) /\ FreeFds(p) # {}
    /\ ofile' = [ofile EXCEPT ![p][First(FreeFds(p))] = ofile[p][d]]
    /\ ftable' = [ftable EXCEPT ![ofile[p][d]] = Filedup(@)]
    /\ calls' = calls + 1
    /\ UNCHANGED <<fs, disk, inTx, itab, ilk, me, cwd, boot, panic, crashes, history>>

\* fileread() of one block, or as much as there is.
Fileread(f, ip) == [f EXCEPT !.off = @ + Readi(ip, @)]

\* sys_read(); sys_fstat() changes less.
Read(p, d) ==
    /\ At(p, "user") /\ calls < MaxCalls /\ Argfd(p, d)
    /\ LET f == ftable[ofile[p][d]]
           k == Ilock(K, f.ip)
       IN  /\ f.type = "inode" /\ FreeLock(f.ip)
           /\ Does(p, k, me[p])
           /\ ftable' = [ftable EXCEPT ![ofile[p][d]] = Fileread(f, Ip(k, f.ip))]
    /\ calls' = calls + 1
    /\ UNCHANGED <<disk, inTx, ilk, cwd, ofile, boot, crashes, history>>

\* filewrite(): the loop over transactions begins.
Write(p, d, n) ==
    /\ At(p, "user") /\ calls < MaxCalls /\ Argfd(p, d)
    /\ ftable[ofile[p][d]].type = "inode" /\ ftable[ofile[p][d]].write
    /\ me' = [me EXCEPT ![p] = [Idle EXCEPT !.at = "writeOp", !.left = n,
                                            !.ip = ftable[ofile[p][d]].ip, !.fd = d]]
    /\ calls' = calls + 1
    /\ FilesKept
    /\ UNCHANGED <<fs, disk, inTx, itab, ilk, boot, panic, crashes, history>>

Smaller(m, n) == IF m < n THEN m ELSE n
WriteOp(p) ==
    /\ At(p, "writeOp")
    /\ FreeLock(me[p].ip)
    /\ inTx' = inTx \union {p}
    /\ ilk' = Holds(p, me[p].ip)
    /\ LET n == Smaller(me[p].left, WriteMax)
       IN  Does(p, Ilock(K, me[p].ip),
                [me[p] EXCEPT !.at = "writei", !.left = @ - n, !.now = n])
    /\ FilesKept /\ UNCHANGED <<disk, boot, calls, crashes, history>>

\* The bytes of inode i are in the block r, at offset off of the file.
Filled(r, i, off) ==
    Change(WithFs(r.k, [r.k.fs EXCEPT !.data[r.addr] = @ \union {i}]), i,
           [Ip(r.k, i) EXCEPT !.size = Larger(@, off + 1)])

\* The open file of the descriptor that write() has, and the file after a block.
FileOf(p)   == ofile[p][me[p].fd]
Advanced(f) == [f EXCEPT !.off = @ + 1]

\* One block of writei(), from the offset of the file on: now is what is left of
\* this transaction.  A size above the limit, no block left or a failing
\* copyin(), which leaves a new block allocated, end the loop; r # n1 ends that of
\* filewrite(), too.
WriteBlock(p) ==
    /\ At(p, "writei") /\ me[p].now > 0
    /\ LET i   == me[p].ip
           f   == FileOf(p)
           off == ftable[f].off
           r   == Bmap(K, i, off)
           over == off > Ip(K, i).size \/ off + me[p].now > MaxBlock
           stop == [me[p] EXCEPT !.left = 0, !.now = 0]
       IN  \/ /\ over /\ Does(p, K, stop) /\ UNCHANGED ftable
           \/ /\ ~over /\ Does(p, r.k, stop) /\ UNCHANGED ftable
           \/ /\ ~over /\ r.addr # 0
              /\ Does(p, Filled(r, i, off), [me[p] EXCEPT !.now = @ - 1])
              /\ ftable' = [ftable EXCEPT ![f] = Advanced(@)]
    /\ Rest /\ UNCHANGED <<ilk, cwd, ofile, history>>

\* Mutant: the inode is not saved when the size is unchanged.
WriteSave_IfGrown(k, i) ==
    IF Ip(k, i).size > k.fs.ino[i].size THEN Iupdate(k, i, Ip(k, i)) ELSE k

\* iupdate() at the end of writei().
WriteSave(k, i) == Iupdate(k, i, Ip(k, i))

\* The end of writei() and of the transaction.
WriteEnd(p) ==
    /\ At(p, "writei") /\ me[p].now = 0
    /\ LET i    == me[p].ip
           k    == WriteSave(K, i)
           more == me[p].left > 0
       IN  /\ Does(p, k, IF more THEN [me[p] EXCEPT !.at = "writeOp"] ELSE Idle)
           /\ disk' = IF inTx = {p} THEN k.fs ELSE disk
           /\ ilk' = Release({i})
    /\ buriedDisk' = IF inTx = {p} THEN buried ELSE buriedDisk
    /\ inTx' = inTx \ {p}
    /\ FilesKept /\ UNCHANGED <<boot, calls, crashes, buried, dangling>>
-----------------------------------------------------------------------------
(* Crash and boot                                                          *)

\* The power fails: what is not on disk is lost.  initlog() restores the last
\* commit (Xv6Log).
Crash ==
    /\ crashes < MaxCrashes
    /\ crashes' = crashes + 1
    /\ fs' = disk /\ buried' = buriedDisk
    /\ inTx' = {} /\ panic' = "none"
    /\ itab' = [i \in Inums |-> Unused]
    /\ ilk' = [i \in Inums |-> Nobody]
    /\ me' = [p \in Users |-> Idle]
    /\ cwd' = [p \in Users |-> Root]
    /\ ofile' = [p \in Users |-> [d \in 1 .. NOFile |-> 0]]
    /\ ftable' = [f \in 1 .. NFile |-> NoFile]
    /\ boot' = Root
    /\ UNCHANGED <<disk, calls, buriedDisk, dangling>>

\* Mutant: orphans stay on the disk.
Orphan_Never(d) == FALSE

\* ireclaim() looks for such an inode.
Orphan(d) == d.type # "none" /\ d.nlink = 0

\* ireclaim() of one inode: a transaction with ilock(), iunlock() and iput().
Ireclaim ==
    /\ panic = "none" /\ boot \in Inums
    /\ LET t == Itrunc(Ilock(Iget(K, boot), boot), boot)
           k == Iupdate(t, boot, FreeInode)
       IN  IF Orphan(fs.ino[boot])
           THEN /\ fs' = k.fs /\ panic' = k.panic /\ disk' = k.fs
                /\ buried' = buried \ {boot} /\ buriedDisk' = buried \ {boot}
           ELSE UNCHANGED <<fs, panic, disk, buried, buriedDisk>>
    /\ boot' = boot + 1
    /\ UNCHANGED <<inTx, itab, ilk, me, cwd, ofile, ftable, calls, crashes, dangling>>

\* userinit() and kfork(): every process has its current directory, the root.
Booted ==
    /\ boot = NInodes + 1
    /\ boot' = 0
    /\ itab' = [i \in Inums |->
                    Entry(Cardinality({p \in Users : cwd[p] = i}), FALSE, FreeInode)]
    /\ UNCHANGED <<fs, disk, inTx, ilk, me, cwd, ofile, ftable, panic, calls, crashes,
                   history>>
-----------------------------------------------------------------------------
\* The image that mkfs and earlier system calls left: directory a in the root, and
\* in it b, a file or a directory.  A process may be in b already.
Image(t) ==
    [ino  |-> [i \in Inums |->
                 CASE i = 1 -> [type |-> "dir", nlink |-> 2, size |-> 3,
                                addrs |-> [NoAddrs EXCEPT ![0] = 1]]
                   [] i = 2 -> [type |-> "dir", nlink |-> IF t = "dir" THEN 2 ELSE 1,
                                size |-> 3, addrs |-> [NoAddrs EXCEPT ![0] = 2]]
                   [] i = 3 -> [type |-> t, nlink |-> 1,
                                size |-> IF t = "dir" THEN 2 ELSE 1,
                                addrs |-> [NoAddrs EXCEPT ![0] = 3]]
                   [] OTHER -> FreeInode],
     ents |-> [i \in Inums |->
                 CASE i = 1 -> [NoEnts EXCEPT ![Dot] = 1, ![DotDot] = 1, !["a"] = 2]
                   [] i = 2 -> [NoEnts EXCEPT ![Dot] = 2, ![DotDot] = 1, !["b"] = 3]
                   [] i = 3 /\ t = "dir" -> [NoEnts EXCEPT ![Dot] = 3, ![DotDot] = 2]
                   [] OTHER -> NoEnts],
     ind  |-> [i \in Inums |-> NoInd],
     used |-> 1 .. 3,
     data |-> [b \in Blocks |-> IF b = 3 /\ t = "file" THEN {3} ELSE {}]]

Init ==
    /\ \E t \in {"file", "dir"} : fs = Image(t)
    /\ cwd \in [Users -> IF fs.ino[3].type = "dir" THEN {Root, 3} ELSE {Root}]
    /\ \E p \in Users : cwd[p] = Root
    /\ disk = fs
    /\ inTx = {} /\ panic = "none"
    /\ itab = [i \in Inums |-> Unused]
    /\ ilk = [i \in Inums |-> Nobody]
    /\ me = [p \in Users |-> Idle]
    /\ ofile = [p \in Users |-> [d \in 1 .. NOFile |-> 0]]
    /\ ftable = [f \in 1 .. NFile |-> NoFile]
    /\ boot = NInodes + 1
    /\ calls = 0 /\ crashes = 0 /\ buried = {} /\ buriedDisk = {} /\ dangling = FALSE

Next ==
    \/ \E p \in Users :
        \/ \E c \in Calls : Begin(p, c)
        \/ WalkEnd(p) \/ Walk(p) \/ Iput(p) \/ IputEnd(p) \/ EndOp(p)
        \/ LinkOld(p) \/ LinkNew(p) \/ LinkBad(p)
        \/ Unlink(p) \/ UnlinkChild(p) \/ UnlinkLast(p)
        \/ Create(p) \/ CreateOld(p) \/ CreateNew(p) \/ CreateFail(p) \/ Made(p)
        \/ Open(p) \/ OpenFile(p) \/ Chdir(p) \/ ChdirEnd(p)
        \/ \E d \in 1 .. NOFile :
            \/ Close(p, d) \/ Dup(p, d) \/ Read(p, d)
            \/ \E n \in WriteSizes : Write(p, d, n)
        \/ WriteOp(p) \/ WriteBlock(p) \/ WriteEnd(p)
    \/ Crash \/ Ireclaim \/ Booted

Spec == Init /\ [][Next]_vars
-----------------------------------------------------------------------------
(* Properties                                                              *)

\* Types of the variables.
TypeOK ==
    /\ inTx \subseteq Users /\ boot \in 0 .. NInodes + 1
    /\ \A f \in {fs, disk} :
        /\ \A i \in Inums : /\ f.ino[i].nlink \in Int /\ f.ino[i].size \in Nat
                            /\ f.ents[i] \in [Entries -> Inums \union {0}]
        /\ f.used \subseteq Blocks /\ f.data \in [Blocks -> SUBSET Inums]
    /\ \A i \in Inums : itab[i].ref \in Nat /\ itab[i].valid \in BOOLEAN
    /\ ilk \in [Inums -> Users \union {Nobody}] /\ cwd \in [Users -> Inums]
    /\ ofile \in [Users -> [1 .. NOFile -> 0 .. NFile]]
    /\ \A f \in 1 .. NFile : ftable[f].ref \in Nat

\* The entries that name inode i, and one for the root, which nothing names.
\* The ".." of a directory counts while the directory itself has a name.
EntriesOf(f, i) ==
    (IF i = Root THEN 1 ELSE 0)
    + Cardinality({e \in Inums \X Names : f.ents[e[1]][e[2]] = i})
    + Cardinality({d \in Inums \ {Root} : f.ents[d][DotDot] = i /\ ~Removed(f, d)})

\* Whenever the power fails, the disk is a consistent file system: link counts
\* are those of the directory entries, which name allocated inodes.  Only inodes
\* entered into a directory that had been removed are excepted: create() and
\* link() do not look whether the directory still has a name.  And nothing is said
\* once a process went up from a directory whose parent is gone: it may be inside
\* an inode that create() has allocated and not filled in yet.
LinksOnDisk ==
    dangling \/ \A i \in Inums :
        /\ disk.ino[i].type # "none" /\ i \notin buriedDisk
              => disk.ino[i].nlink = EntriesOf(disk, i)
        /\ \A n \in Names : disk.ents[i][n] # 0
              => disk.ino[i].type = "dir" /\ disk.ino[disk.ents[i][n]].type # "none"

\* Whenever the power fails, every block that is in use belongs to one inode, at
\* one place, and every other block is free: none is lost and none shared.
BlockAt(f, x) == IF x[2] <= NDirect THEN f.ino[x[1]].addrs[x[2]]
                 ELSE f.ind[x[1]][x[2] - NDirect - 1]
Owned(f) == {x \in Inums \X (0 .. MaxBlock) : BlockAt(f, x) # 0}
BlocksOnDisk ==
    /\ {BlockAt(disk, x) : x \in Owned(disk)} = disk.used
    /\ \A x, y \in Owned(disk) : BlockAt(disk, x) = BlockAt(disk, y) => x = y

\* A block of a file holds nothing that was written to another file.
NoStaleData ==
    \A i \in Inums : fs.ino[i].type = "file"
        => \A b \in BlocksOf(fs, fs.ino[i], i) : fs.data[b] \subseteq {i}

\* A block belongs to one place of one inode, and so does what is in it.
BlocksSound == BlocksOnDisk /\ NoStaleData

\* An inode in memory that nobody has locked is what the file system says it is:
\* it is not that of a file that had the inode number before.
CachedIsCurrent ==
    \A i \in Inums : itab[i].valid /\ ilk[i] = Nobody => itab[i].copy = fs.ino[i]

\* An inode without links exists only as long as somebody uses it, and after a
\* crash the ones that were used then are gone when the first process starts.
OrphansAreUsed ==
    boot = 0 => \A i \in Inums :
        fs.ino[i].type # "none" /\ fs.ino[i].nlink = 0 => itab[i].ref > 0

\* Between system calls an inode is referenced by current directories and open
\* files and by nothing else; a file is referenced by its descriptors.
ReferencesAreHeld ==
    /\ boot = 0 /\ (\A p \in Users : me[p].at = "user") => \A i \in Inums :
        itab[i].ref = Cardinality({p \in Users : cwd[p] = i})
                      + Cardinality({f \in 1 .. NFile : ftable[f].ip = i})
    /\ \A f \in 1 .. NFile :
        ftable[f].ref = Cardinality({x \in Users \X (1 .. NOFile) : ofile[x[1]][x[2]] = f})

\* The inode whose lock a process is about to acquire.
Wants(p) ==
    IF me[p].put # <<>> THEN 0
    ELSE IF me[p].at = "linkBad" THEN me[p].dp
    ELSE IF me[p].at \in {"linkOld", "linkNew", "unlink", "unlinkChild", "create", "createOld",
                          "createNew", "read", "rdwr", "trunc", "chdir", "writeOp"}
            \/ (me[p].at = "walk" /\ me[p].path # <<>>)
    THEN me[p].ip ELSE 0

\* Processes never wait for each other's inode locks in a circle, nor for their
\* own: a parent is locked before its child, and everything else alone.
NoLockCycle ==
    \A S \in SUBSET Users : S # {} =>
        \E p \in S : IF Wants(p) = 0 THEN TRUE ELSE ilk[Wants(p)] \notin S

\* No assertion of the file system fails ("ilock: no type", "unlink: nlink < 1",
\* "freeing free block") and no link count falls below zero, unless a process went up
\* from a removed directory whose parent was removed as well: its ".." still has the
\* number of that parent, which may be free, or the inode of something else.  A panic for
\* want of entries or buffers ("iget: no inodes", "bget: no buffers") is not meant.
NoPanic == dangling \/ (panic = "none" /\ \A i \in Inums : fs.ino[i].nlink >= 0)

\* The inode and file tables in memory fit what uses them and what they are copies of.
TablesSound == TypeOK /\ CachedIsCurrent /\ ReferencesAreHeld
=============================================================================
