-------------------------- MODULE Xv6FilesSafety ----------------------------
(***************************************************************************)
(* What holds of Xv6Files on disk and between processes, for any number of *)
(* processes, inodes, names, blocks and open files.                        *)
(*                                                                         *)
(* Processes never wait for each other's inode locks in a circle           *)
(* (NoLockCycle).  Only unlink() and create() hold the lock of an inode    *)
(* while they wait for another, and always of a directory and then of an   *)
(* inode below it.  So the reason is that directories have no cycles.      *)
(* Ordered says that, of the entries of all directories, on disk and in    *)
(* memory, and of the pairs that a process is about to lock: every set of  *)
(* inodes has one from which nothing leads into the set.  It is kept       *)
(* because a new entry leads to an inode that has no entries itself: a new *)
(* one, or one that is no directory, since link() refuses those.  Entries  *)
(* ".." do not count: they lead up, and nobody locks an inode that he      *)
(* found there while holding another lock.                                 *)
(*                                                                         *)
(* Every block in use has one place in one inode (BlocksSound), and an     *)
(* inode without links has a user (OrphansAreUsed).  Stored says that of   *)
(* the inodes as they are in use, in memory where they are there (Latest), *)
(* and of the disk as a crash would leave it (Bare); what is saved of an   *)
(* inode may lag behind, and never names a block that is not the inode's.  *)
(* Each operation of fs.c keeps that (Keeps), so a step does, which is a   *)
(* row of them.                                                            *)
(*                                                                         *)
(* At the end is the invariant of the links (Joined), with the steps that  *)
(* change none; what it is for is in Xv6FilesLinks.                        *)
(***************************************************************************)
EXTENDS Xv6FilesProofs

\* From a directory to the inodes that it names.
Edges(f) == {x \in Inums \X Inums : \E n \in Names : f.ents[x[1]][n] = x[2]}

\* From the directory that a create() or unlink() has locked to the inode that it locks next.
Pairs == {"createNew", "unlinkChild"}
Begins(m, x) == m.at \in Pairs /\ m.dp = x[1] /\ m.ip = x[2]
Begun == {x \in Inums \X Inums : \E p \in Users : Begins(me[p], x)}
Ways  == Edges(fs) \union Begun

\* There is no way round in E.
Leads(E) == \A S \in SUBSET Inums : S # {} => \E d \in S : \A i \in S : <<d, i>> \notin E

\* Only directories have entries.
Tidy(f) == \A i \in Inums : f.ino[i].type # "dir" => \A n \in Names : f.ents[i][n] = 0

\* What a process has found out about an inode that it refers to, or has locked, stays true.
FromDir(f, m) == m.at \in {"create", "linkNew"} => f.ino[m.ip].type = "dir"
HoldsDir(f, m) == m.at \in Pairs => f.ino[m.dp].type = "dir"
OldInode(f, m) ==
    m.at = "linkNew" \/ (m.at = "walk" /\ m.dp # 0) => f.ino[m.dp].type \notin {"none", "dir"}
PlaceOK(f, m) == FromDir(f, m) /\ HoldsDir(f, m) /\ OldInode(f, m)

\* After a panic nothing moves any more.
Ordered ==
    /\ Tidy(disk) /\ Leads(Edges(disk)) /\ Leads(Ways)
    /\ panic = "none" => Tidy(fs) /\ \A p \in Users : PlaceOK(fs, me[p])
-----------------------------------------------------------------------------
\* Fewer ways make no circle.
LEMMA LeadsFewer ==
    ASSUME NEW E, Leads(E), NEW G, \A x \in Inums \X Inums : x \in G => x \in E
    PROVE  Leads(G)
<1> SUFFICES ASSUME NEW S \in SUBSET Inums, S # {}
             PROVE  \E d \in S : \A i \in S : <<d, i>> \notin G
  BY DEF Leads
<1>1. PICK d \in S : \A i \in S : <<d, i>> \notin E
  BY DEF Leads
<1> QED BY <1>1

\* Nor does one more way, to an inode from which none leads on.
LEMMA LeadsMore ==
    ASSUME NEW E, Leads(E), NEW d \in Inums, NEW i \in Inums, d # i,
           \A j \in Inums : <<i, j>> \notin E
    PROVE  Leads(E \union {<<d, i>>})
<1> SUFFICES ASSUME NEW S \in SUBSET Inums, S # {}
             PROVE  \E e \in S : \A j \in S : <<e, j>> \notin E \union {<<d, i>>}
  BY DEF Leads
<1>1. CASE i \in S
  <2>1. \A j \in S : <<i, j>> \notin E \union {<<d, i>>}
    OBVIOUS
  <2> QED BY <1>1, <2>1
<1>2. CASE i \notin S
  <2>1. PICK e \in S : \A j \in S : <<e, j>> \notin E
    BY DEF Leads
  <2>2. \A j \in S : <<e, j>> \notin E \union {<<d, i>>}
    BY <1>2, <2>1
  <2> QED BY <2>2
<1> QED BY <1>1, <1>2

\* An entry is a way.
LEMMA EdgeFacts ==
    ASSUME NEW f, NEW d \in Inums, NEW i \in Inums
    PROVE  <<d, i>> \in Edges(f) <=> \E n \in Names : f.ents[d][n] = i
  BY DEF Edges

\* A directory that lost entries.
Pruned(f, g) == \A d \in Inums, n \in Names : g.ents[d][n] \in {0, f.ents[d][n]}

\* It has no new ways.
LEMMA PrunedEdges ==
    ASSUME NEW f, NEW g, Pruned(f, g), NEW x \in Inums \X Inums, x \in Edges(g)
    PROVE  x \in Edges(f)
<1>1. PICK d \in Inums, i \in Inums : x = <<d, i>>
  OBVIOUS
<1>2. PICK n \in Names : g.ents[d][n] = i
  BY <1>1, EdgeFacts
<1>3. i # 0
  BY Constants
<1>4. f.ents[d][n] = i
  BY <1>2, <1>3 DEF Pruned
<1> QED BY <1>1, <1>4, EdgeFacts

\* Who has locked the first inode of a pair.
LEMMA BegunFacts ==
    ASSUME NEW d \in Inums, NEW i \in Inums
    PROVE  <<d, i>> \in Begun
             <=> \E p \in Users : me[p].at \in Pairs /\ me[p].dp = d /\ me[p].ip = i
  BY DEF Begun, Begins

\* A step of a process keeps the order if all ways, and those that it has begun, are in an
\* order that has those of the others.
LEMMA OrderStep ==
    ASSUME Tables, Ordered, NEW p \in Users, NEW k, NEW m, Does(p, k, m), panic = "none",
           NEW E, Leads(E),
           \A x \in Inums \X Inums : x \in Edges(k.fs) => x \in E,
           \A x \in Inums \X Inums : Begins(m, x) => x \in E,
           \A q \in Users : \A x \in Inums \X Inums : q # p /\ Begins(me[q], x) => x \in E,
           k.panic = "none" =>
               /\ Tidy(k.fs) /\ PlaceOK(k.fs, m)
               /\ \A q \in Users : q # p => PlaceOK(k.fs, me[q]),
           disk' = disk \/ (disk' = k.fs /\ Tidy(k.fs))
    PROVE  Ordered'
<1>1. me \in [Users -> MeTypes]
  BY DEF Tables, FilesTypes
<1>2. /\ fs' = k.fs /\ panic' = k.panic /\ me'[p] = m
      /\ \A q \in Users : q # p => me'[q] = me[q]
  BY <1>1 DEF Does
<1>3. \A x \in Inums \X Inums : x \in Ways' => x \in E
  <2> SUFFICES ASSUME NEW x \in Inums \X Inums, x \in Ways' PROVE x \in E
    OBVIOUS
  <2>1. CASE x \in Edges(fs')
    BY <1>2, <2>1
  <2>2. CASE x \in Begun'
    <3>1. PICK q \in Users : Begins(me'[q], x)
      BY <2>2 DEF Begun
    <3> QED BY <1>2, <3>1
  <2> QED BY <2>1, <2>2 DEF Ways
<1>4. Leads(Ways)'
  BY <1>3, LeadsFewer DEF Leads
<1>5. Tidy(disk') /\ Leads(Edges(disk'))
  <2>1. CASE disk' = disk
    BY <2>1 DEF Ordered
  <2>2. CASE disk' = k.fs /\ Tidy(k.fs)
    BY <2>2, LeadsFewer
  <2> QED BY <2>1, <2>2
<1>6. panic' = "none" => Tidy(fs') /\ \A q \in Users : PlaceOK(fs', me'[q])
  BY <1>2
<1> QED BY <1>4, <1>5, <1>6 DEF Ordered

\* The state k is like f in what the order is about.
Alike(f, k) ==
    /\ k.fs.ents = f.ents
    /\ k.panic = "none" => \A j \in Inums : k.fs.ino[j].type = f.ino[j].type

\* What a process has found out stays true when types stay.
LEMMA TypesPlace ==
    ASSUME NEW f, NEW g, \A j \in Inums : g.ino[j].type = f.ino[j].type,
           NEW m \in MeTypes, Shape(m), PlaceOK(f, m)
    PROVE  PlaceOK(g, m)
<1>1. m.ip \in Inums \union {0} /\ m.dp \in Inums \union {0}
  BY MeParts
<1>2. FromDir(g, m)
  BY <1>1 DEF PlaceOK, FromDir, Shape, IpUsed, IpPlaces
<1>3. HoldsDir(g, m)
  BY <1>1 DEF PlaceOK, HoldsDir, Pairs, Shape, DpPlaces
<1>4. OldInode(g, m)
  BY <1>1 DEF PlaceOK, OldInode, Shape, DpPlaces
<1> QED BY <1>2, <1>3, <1>4 DEF PlaceOK

\* So does what the others have found out.
LEMMA OthersKeep ==
    ASSUME Tables, Ordered, panic = "none", NEW g,
           \A j \in Inums : g.ino[j].type = fs.ino[j].type, NEW q \in Users
    PROVE  PlaceOK(g, me[q])
<1>1. me[q] \in MeTypes /\ Shape(me[q]) /\ PlaceOK(fs, me[q])
  BY DEF Tables, FilesTypes, Ordered
<1> QED BY <1>1, TypesPlace

\* A step that changes no directory and no type.
LEMMA AlikeStep ==
    ASSUME Tables, Ordered, NEW p \in Users, NEW k, NEW m, Does(p, k, m), panic = "none",
           Alike(fs, k), m.at \notin Pairs, k.panic = "none" => PlaceOK(k.fs, m),
           disk' = disk \/ (disk' = k.fs /\ k.panic = "none")
    PROVE  Ordered'
<1>1. /\ Leads(Ways) /\ Tidy(fs) /\ \A q \in Users : PlaceOK(fs, me[q])
  BY DEF Ordered
<1>2. \A x \in Inums \X Inums : x \in Edges(k.fs) => x \in Ways
  BY DEF Alike, Edges, Ways
<1>3. \A x \in Inums \X Inums : ~Begins(m, x)
  BY DEF Begins
<1>4. \A q \in Users : \A x \in Inums \X Inums : Begins(me[q], x) => x \in Ways
  BY DEF Begun, Ways
<1>5. k.panic = "none" => Tidy(k.fs)
  BY <1>1 DEF Alike, Tidy
<1>6. ASSUME k.panic = "none", NEW q \in Users PROVE PlaceOK(k.fs, me[q])
  BY <1>6, OthersKeep DEF Alike
<1> QED BY <1>1, <1>2, <1>3, <1>4, <1>5, <1>6, OrderStep

\* The places of which nothing needs to be known.
Plain(m) == m.at \notin {"create", "linkNew", "createNew", "unlinkChild"}
            /\ (m.at = "walk" => m.dp = 0)

\* A process at a plain place has found out nothing that could change.
LEMMA PlainPlace == ASSUME NEW m, Plain(m), NEW f PROVE PlaceOK(f, m) /\ m.at \notin Pairs
  BY DEF Plain, PlaceOK, FromDir, HoldsDir, Pairs, OldInode
-----------------------------------------------------------------------------
(* Steps that change no directory and no type                              *)

\* Only the inode table changes.
LEMMA AlikeSame == ASSUME NEW k, k.fs = fs PROVE Alike(fs, k)
  BY DEF Alike

\* iupdate() of an inode that keeps its type.
LEMMA AlikeIupdate ==
    ASSUME NEW k \in KernelTypes, Alike(fs, k), NEW i \in Inums, NEW d \in Dinodes,
           k.panic = "none" => d.type = k.fs.ino[i].type
    PROVE  Alike(fs, Iupdate(k, i, d)) /\ Iupdate(k, i, d).panic = k.panic
<1> DEFINE r == Iupdate(k, i, d)
<1>1. /\ r.panic = k.panic /\ r.fs.ino[i] = d /\ r.fs.ents = k.fs.ents
      /\ \A j \in Inums : j # i => r.fs.ino[j] = k.fs.ino[j]
  BY IupdateFacts
<1> HIDE DEF r
<1>2. r.panic = "none" => \A j \in Inums : r.fs.ino[j].type = fs.ino[j].type
  BY <1>1 DEF Alike
<1> QED BY <1>1, <1>2 DEF Alike, r

\* A plain step.
LEMMA PlainStep ==
    ASSUME Tables, Ordered, NEW p \in Users, NEW k, NEW m, Does(p, k, m), panic = "none",
           Alike(fs, k), Plain(m), disk' = disk \/ (disk' = k.fs /\ k.panic = "none")
    PROVE  Ordered'
  BY PlainPlace, AlikeStep

\* A step that changes nothing that the order is about.
LEMMA SameStep ==
    ASSUME Tables, Ordered, panic = "none", fs' = fs, panic' = panic, disk' \in {disk, fs},
           NEW p \in Users, NEW m, me' = [me EXCEPT ![p] = m], m.at \notin Pairs,
           PlaceOK(fs, m)
    PROVE  Ordered'
<1> DEFINE k == [fs |-> fs, itab |-> itab', panic |-> panic]
<1>1. Does(p, k, m) /\ Alike(fs, k) /\ k.panic = "none" /\ k.fs = fs
  BY DEF Does, Alike
<1> HIDE DEF k
<1> QED BY <1>1, AlikeStep

\* A process outside a call is at a plain place.
LEMMA IdlePlain == Plain(Idle)
  BY DEF Plain, Idle

\* The places where a call goes on with Then() are plain.
LEMMA ThenPlain ==
    ASSUME NEW p \in Users, me[p] \in MeTypes, NEW a \in Places, NEW s \in Seq(Inums),
           a \notin {"create", "linkNew", "createNew", "unlinkChild", "walk"}
    PROVE  Plain(Then(p, a, s))
  BY ThenFacts DEF Plain

\* What the steps below use of a process at its place.
LEMMA AtPlace ==
    ASSUME Tables, Ordered, NEW p \in Users, NEW a, At(p, a)
    PROVE  /\ panic = "none" /\ boot = 0 /\ me[p].at = a /\ me[p].put = <<>>
           /\ me[p] \in MeTypes /\ Shape(me[p]) /\ cwd[p] \in Inums
           /\ me \in [Users -> MeTypes] /\ K.fs = fs /\ K.panic = panic /\ K \in KernelTypes
           /\ PlaceOK(fs, me[p]) /\ Tidy(fs) /\ \A q \in Users : PlaceOK(fs, me[q])
  BY AtFacts DEF Ordered, FilesTypes

\* Begin keeps the order.
LEMMA BeginOrder ==
    ASSUME Tables, Ordered, NEW p \in Users, NEW c \in Calls, Begin(p, c)
    PROVE  Ordered'
<1> DEFINE k == Iget(K, cwd[p])
           m == [Idle EXCEPT !.at = "walk", !.call = c, !.path = c.path, !.ip = cwd[p]]
<1>1. At(p, "user") /\ Does(p, k, m) /\ disk' = disk
  BY DEF Begin
<1>2. panic = "none" /\ K.fs = fs
  BY <1>1, AtPlace
<1>3. Alike(fs, k)
  BY <1>2, AlikeSame DEF Iget, WithEntry
<1>4. Plain(m)
  BY DEF Plain, Idle
<1> HIDE DEF k, m
<1> QED BY <1>1, <1>2, <1>3, <1>4, PlainStep

\* EndOp keeps the order, also when it commits.
LEMMA EndOpOrder == ASSUME Tables, Ordered, NEW p \in Users, EndOp(p) PROVE Ordered'
<1>1. /\ At(p, "end") /\ me' = [me EXCEPT ![p] = Idle] /\ disk' \in {disk, fs}
      /\ fs' = fs /\ panic' = panic
  BY DEF EndOp
<1>2. panic = "none"
  BY <1>1, AtPlace
<1>3. Idle.at \notin Pairs /\ PlaceOK(fs, Idle)
  BY IdlePlain, PlainPlace
<1> QED BY <1>1, <1>2, <1>3, SameStep

\* WalkEnd keeps the order.
LEMMA WalkEndOrder == ASSUME Tables, Ordered, NEW p \in Users, WalkEnd(p) PROVE Ordered'
<1> DEFINE s == <<me[p].ip>>
           m1 == Then(p, Missing(me[p]), s)
           m2 == Moved(me[p], Found(me[p]))
<1>1. /\ At(p, "walk") /\ disk' = disk
      /\ \/ Does(p, K, m1)
         \/ ~WantsParent(me[p]) /\ Does(p, K, m2)
  BY DEF WalkEnd, Rest, Moved
<1>2. /\ panic = "none" /\ me[p] \in MeTypes /\ Shape(me[p]) /\ me[p].at = "walk"
      /\ K.fs = fs
  BY <1>1, AtPlace
<1>3. Alike(fs, K)
  BY <1>2, AlikeSame
<1>4. CASE Does(p, K, m1)
  <2>1. m1 \in MeTypes /\ m1.at \in {"end", "linkBad"}
    BY <1>1, MissingFacts
  <2>2. Plain(m1)
    BY <2>1 DEF Plain
  <2> HIDE DEF m1
  <2> QED BY <1>1, <1>2, <1>3, <1>4, <2>2, PlainStep
<1>5. CASE ~WantsParent(me[p]) /\ Does(p, K, m2)
  <2>1. /\ me[p].call.op \in PathOps
        /\ me[p].call.op \notin {"create", "mkdir", "mknod", "mkbad", "unlink"}
        /\ ~(me[p].call.op = "link" /\ me[p].dp # 0)
    BY <1>2, <1>5 DEF WantsParent, Shape
  <2>2. Found(me[p]) \in {"linkOld", "read", "rdwr", "trunc", "chdir"}
    BY <2>1 DEF Found, PathOps
  <2>3. m2.at = Found(me[p])
    BY <1>2, <2>2, MovedFacts DEF Places
  <2>4. Plain(m2)
    BY <2>2, <2>3 DEF Plain
  <2> HIDE DEF m2
  <2> QED BY <1>1, <1>2, <1>3, <1>5, <2>4, PlainStep
<1> QED BY <1>1, <1>4, <1>5

\* What ilock() shows of the inode in hand.
LEMMA Seen ==
    ASSUME Tables, NEW p \in Users, NEW a, At(p, a), a # "writei", NEW i \in Inums, FreeLock(i),
           \/ a \in IpPlaces /\ i = me[p].ip
           \/ a \in DpPlaces /\ i = me[p].dp
    PROVE  LET k == Ilock(K, i)
           IN  /\ k \in KernelTypes /\ k.fs = fs /\ Alike(fs, k) /\ Ip(k, i) \in Dinodes
               /\ k.panic = "none" => Ip(k, i).type = fs.ino[i].type /\ fs.ino[i].type # "none"
<1> DEFINE k == Ilock(K, i)
<1>1. /\ Mine(p, k) /\ k \in KernelTypes /\ k.fs = fs
      /\ k.panic = "none" => k.itab[i].valid
      /\ Ip(k, i) = k.itab[i].copy /\ Ip(k, i) \in Dinodes
  BY Locks
<1> HIDE DEF k
<1>2. k.panic = "none" => k.itab[i].copy = k.fs.ino[i] /\ k.fs.ino[i].type # "none"
  BY <1>1 DEF Mine, FreeLock
<1>3. Alike(fs, k)
  BY <1>1, AlikeSame
<1> QED BY <1>1, <1>2, <1>3 DEF k

\* Walk keeps the order: the process comes to a directory for a new entry.
LEMMA WalkOrder == ASSUME Tables, Ordered, NEW p \in Users, Walk(p) PROVE Ordered'
<1> DEFINE i == me[p].ip
           k == Ilock(K, i)
           next == Dirlookup(k, i, Head(me[p].path))
           n == me[p]
           m1 == Then(p, Missing(me[p]), <<i>>)
           m2 == Moved(me[p], Found(me[p]))
           m3 == [n EXCEPT !.ip = next, !.path = Tail(@), !.put = <<i>>]
<1>1. /\ At(p, "walk") /\ me[p].path # <<>> /\ FreeLock(i) /\ disk' = disk
      /\ \/ Does(p, k, m1)
         \/ WantsParent(me[p]) /\ Ip(k, i).type = "dir" /\ Does(p, k, m2)
         \/ next # 0 /\ Does(p, Iget(k, next), m3)
  BY DEF Walk, Rest, Moved
<1>2. /\ panic = "none" /\ me[p] \in MeTypes /\ Shape(me[p]) /\ me[p].at = "walk"
      /\ PlaceOK(fs, me[p])
  BY <1>1, AtPlace
<1>3. i \in Inums
  BY <1>1, WalkFacts
<1>4. /\ k \in KernelTypes /\ k.fs = fs /\ Alike(fs, k)
      /\ k.panic = "none" => Ip(k, i).type = fs.ino[i].type
  BY <1>1, <1>3, Seen DEF IpPlaces
<1>5. CASE Does(p, k, m1)
  <2>1. m1 \in MeTypes /\ m1.at \in {"end", "linkBad"}
    BY <1>1, MissingFacts
  <2>2. Plain(m1)
    BY <2>1 DEF Plain
  <2> HIDE DEF m1, k
  <2> QED BY <1>1, <1>2, <1>4, <1>5, <2>2, PlainStep
<1>6. CASE WantsParent(me[p]) /\ Ip(k, i).type = "dir" /\ Does(p, k, m2)
  <2>1. /\ me[p].call.op \in {"create", "mkdir", "mknod", "mkbad", "unlink"}
           \/ (me[p].call.op = "link" /\ me[p].dp # 0)
    BY <1>6 DEF WantsParent
  <2>2. Found(me[p]) \in {"create", "unlink", "linkNew"}
        /\ (Found(me[p]) = "linkNew" => me[p].dp # 0)
    BY <2>1 DEF Found
  <2>3. m2.at = Found(me[p]) /\ m2.ip = i /\ m2.dp = me[p].dp
    BY <1>2, <2>2, MovedFacts DEF Places
  <2>4. k.panic = "none" => k.fs.ino[i].type = "dir"
    BY <1>4, <1>6
  <2>5. me[p].dp # 0 => fs.ino[me[p].dp].type \notin {"none", "dir"}
    BY <1>2 DEF PlaceOK, OldInode
  <2> HIDE DEF m2, k, i
  <2>6. k.panic = "none" => PlaceOK(k.fs, m2)
    BY <1>4, <2>2, <2>3, <2>4, <2>5 DEF PlaceOK, FromDir, OldInode, HoldsDir, Pairs
  <2>7. m2.at \notin Pairs
    BY <2>2, <2>3 DEF Pairs
  <2>8. Does(p, k, m2)
    BY <1>6
  <2> QED BY <1>1, <1>2, <1>4, <2>6, <2>7, <2>8, AlikeStep
<1>7. CASE next # 0 /\ Does(p, Iget(k, next), m3)
  <2> DEFINE r == Iget(k, next)
  <2>1. m3.at = "walk" /\ m3.dp = me[p].dp
    BY <1>2 DEF MeTypes
  <2>2. r.fs = fs
    BY <1>4 DEF Iget, WithEntry
  <2>3. PlaceOK(fs, me[p]) /\ me[p].at = "walk"
    BY <1>2
  <2> HIDE DEF m3, k, r
  <2>4. PlaceOK(r.fs, m3) /\ m3.at \notin Pairs
    BY <2>1, <2>2, <2>3 DEF PlaceOK, FromDir, OldInode, HoldsDir, Pairs
  <2>5. Alike(fs, r)
    BY <2>2, AlikeSame
  <2>6. Does(p, r, m3)
    BY <1>7 DEF r
  <2> QED BY <1>1, <1>2, <2>4, <2>5, <2>6, AlikeStep
<1> QED BY <1>1, <1>5, <1>6, <1>7

\* LinkOld keeps the order: the inode that gets another name is no directory.
LEMMA LinkOldOrder == ASSUME Tables, Ordered, NEW p \in Users, LinkOld(p) PROVE Ordered'
<1> DEFINE i == me[p].ip
           k == Ilock(K, i)
           n == Ip(k, i).nlink + 1
           d == WithLinks(Ip(k, i), n)
           u == Iupdate(k, i, d)
           r == Iget(u, cwd[p])
           m1 == Then(p, "end", <<i>>)
           m2 == [me[p] EXCEPT !.at = "walk", !.dp = i, !.ip = cwd[p], !.path = me[p].call.new]
<1>1. /\ At(p, "linkOld") /\ FreeLock(i) /\ disk' = disk
      /\ \/ Does(p, k, m1)
         \/ Ip(k, i).type # "dir" /\ Does(p, r, m2)
  BY DEF LinkOld, Rest, WithLinks
<1>2. /\ panic = "none" /\ me[p] \in MeTypes
  BY <1>1, AtPlace
<1>3. i \in Inums
  BY <1>1, InHand DEF IpPlaces
<1>4. /\ k \in KernelTypes /\ k.fs = fs /\ Alike(fs, k) /\ Ip(k, i) \in Dinodes
      /\ k.panic = "none" => Ip(k, i).type = fs.ino[i].type /\ fs.ino[i].type # "none"
  BY <1>1, <1>3, Seen DEF IpPlaces
<1>5. CASE Does(p, k, m1)
  <2>1. Plain(m1)
    BY <1>2, <1>3, ThenPlain DEF Places
  <2> HIDE DEF m1, k
  <2> QED BY <1>1, <1>2, <1>4, <1>5, <2>1, PlainStep
<1>6. CASE Ip(k, i).type # "dir" /\ Does(p, r, m2)
  <2>1. n \in Int /\ m2.at = "walk" /\ m2.dp = i
    BY <1>2, <1>4, DinodeParts DEF MeTypes
  <2> HIDE DEF n, m2, k
  <2>2. d \in Dinodes /\ d.type = Ip(k, i).type
    BY <1>4, <2>1, WithLinksFacts
  <2> HIDE DEF d, i
  <2>3. Alike(fs, u) /\ u.panic = k.panic
    BY <1>3, <1>4, <2>2, AlikeIupdate
  <2>4. r.fs = u.fs /\ r.panic = u.panic
    BY DEF Iget, WithEntry
  <2> HIDE DEF r, u
  <2>5. Alike(fs, r)
    BY <2>3, <2>4 DEF Alike
  <2>6. r.panic = "none" => r.fs.ino[i].type \notin {"none", "dir"}
    BY <1>3, <1>4, <1>6, <2>3, <2>4, <2>5 DEF Alike
  <2>7. r.panic = "none" => PlaceOK(r.fs, m2)
    BY <2>1, <2>6 DEF PlaceOK, FromDir, OldInode, HoldsDir, Pairs
  <2>8. m2.at \notin Pairs /\ Does(p, r, m2)
    BY <1>6, <2>1 DEF Pairs
  <2> QED BY <1>1, <1>2, <2>5, <2>7, <2>8, AlikeStep
<1> QED BY <1>1, <1>5, <1>6

\* LinkBad keeps the order.
LEMMA LinkBadOrder == ASSUME Tables, Ordered, NEW p \in Users, LinkBad(p) PROVE Ordered'
<1> DEFINE i == me[p].dp
           k == Ilock(K, i)
           n == Ip(k, i).nlink - 1
           d == WithLinks(Ip(k, i), n)
           u == Iupdate(k, i, d)
           m == Then(p, "end", <<i>>)
<1>1. At(p, "linkBad") /\ FreeLock(i) /\ disk' = disk /\ Does(p, u, m)
  BY DEF LinkBad, Rest, WithLinks, LinkBack
<1>2. /\ panic = "none" /\ me[p] \in MeTypes
  BY <1>1, AtPlace
<1>3. i \in Inums
  BY <1>1, InHand DEF DpPlaces
<1>4. /\ k \in KernelTypes /\ k.fs = fs /\ Alike(fs, k) /\ Ip(k, i) \in Dinodes
      /\ k.panic = "none" => Ip(k, i).type = fs.ino[i].type /\ fs.ino[i].type # "none"
  BY <1>1, <1>3, Seen DEF DpPlaces
<1>5. Plain(m)
  <2>1. <<i>> \in Seq(Inums) /\ "end" \in Places
    BY <1>3 DEF Places
  <2> HIDE DEF i
  <2> QED BY <1>2, <2>1, ThenPlain
<1>6. n \in Int
  BY <1>4, DinodeParts
<1> HIDE DEF n, m, k
<1>7. d \in Dinodes /\ d.type = Ip(k, i).type
  BY <1>4, <1>6, WithLinksFacts
<1> HIDE DEF d, i
<1>8. Alike(fs, u)
  BY <1>3, <1>4, <1>7, AlikeIupdate
<1> HIDE DEF u
<1> QED BY <1>1, <1>2, <1>5, <1>8, PlainStep

\* Unlink keeps the order: the inode is the one that the directory has under the name.
LEMMA UnlinkOrder == ASSUME Tables, Ordered, NEW p \in Users, Unlink(p) PROVE Ordered'
<1> DEFINE d == me[p].ip
           k == Ilock(K, d)
           i == Dirlookup(k, d, LastName(p))
           r == Iget(k, i)
           m1 == Then(p, "end", <<d>>)
           m2 == Taking(me[p], "unlinkChild", d, i)
<1>1. /\ At(p, "unlink") /\ FreeLock(d) /\ disk' = disk
      /\ \/ Does(p, k, m1)
         \/ Unlinkable(LastName(p)) /\ i # 0 /\ Does(p, r, m2)
  BY DEF Unlink, Rest, Taking
<1>2. /\ panic = "none" /\ me[p] \in MeTypes /\ "end" \in Places /\ "unlinkChild" \in Places
  BY <1>1, AtPlace DEF Places
<1>3. d \in Inums
  BY <1>1, InHand DEF IpPlaces
<1>4. k \in KernelTypes /\ k.fs = fs /\ Alike(fs, k)
  BY <1>1, <1>3, Seen DEF IpPlaces
<1>5. LastName(p) \in Entries
  BY <1>1, LastNameType
<1>6. CASE Does(p, k, m1)
  <2>1. <<d>> \in Seq(Inums)
    BY <1>3
  <2> HIDE DEF d, k
  <2>2. Plain(m1)
    BY <1>2, <2>1, ThenPlain
  <2> HIDE DEF m1
  <2> QED BY <1>1, <1>2, <1>4, <1>6, <2>2, PlainStep
<1>7. CASE Unlinkable(LastName(p)) /\ i # 0 /\ Does(p, r, m2)
  <2>1. LastName(p) \in Names
    BY <1>5, <1>7 DEF Unlinkable, Entries
  <2>2. i = fs.ents[d][LastName(p)]
    <3> HIDE DEF k, d
    <3> QED BY <1>4 DEF Dirlookup
  <2>3. i \in Inums
    <3>1. fs.ents[d] \in [Entries -> Inums \union {0}]
      <4> HIDE DEF k, d
      <4> QED BY <1>3, <1>4, KernelParts
    <3> HIDE DEF i
    <3> QED BY <1>5, <1>7, <2>2, <3>1
  <2>4. r.fs = fs
    BY <1>4 DEF Iget, WithEntry
  <2> HIDE DEF r, i, d, k
  <2>5. m2.at = "unlinkChild" /\ m2.dp = d /\ m2.ip = i /\ m2.path = me[p].path
    BY <1>2, <1>3, <2>3, TakingFacts
  <2> HIDE DEF m2
  <2>6. \A x \in Inums \X Inums : Begins(m2, x) => x \in Ways
    BY <1>3, <2>1, <2>2, <2>3, <2>5, EdgeFacts DEF Begins, Ways
  <2>7. /\ Leads(Ways) /\ Tidy(fs) /\ \A q \in Users : PlaceOK(fs, me[q])
        /\ \A x \in Inums \X Inums : x \in Edges(r.fs) => x \in Ways
        /\ \A q \in Users : \A x \in Inums \X Inums : Begins(me[q], x) => x \in Ways
    BY <1>2, <2>4 DEF Ordered, Ways, Begun
  <2>8. fs.ino[d].type = "dir"
    BY <1>3, <1>7, <2>1, <2>2, <2>7 DEF Tidy
  <2>9. PlaceOK(fs, m2)
    BY <2>5, <2>8 DEF PlaceOK, FromDir, OldInode, HoldsDir
  <2> QED BY <1>1, <1>2, <1>7, <2>4, <2>6, <2>7, <2>9, OrderStep
<1> QED BY <1>1, <1>6, <1>7

\* The inode that a process has locked for its place, as it is in memory.
LEMMA Held ==
    ASSUME Tables, NEW p \in Users, NEW a, At(p, a), Locked(me[p]) # 0
    PROVE  LET i == Locked(me[p])
           IN  /\ i \in Inums /\ Ip(K, i) \in Dinodes /\ ilk[i] = p /\ itab[i].valid
               /\ Ip(K, i).type = fs.ino[i].type /\ fs.ino[i].type # "none"
<1> DEFINE i == Locked(me[p])
<1>1. /\ me[p] \in MeTypes /\ LocksOK /\ CopiesOK /\ panic = "none" /\ FilesTypes
      /\ K \in KernelTypes /\ K.itab = itab /\ \A j \in Inums : ~Frees(p, j)
  BY AtFacts
<1>2. i \in Inums
  BY <1>1, MeParts
<1> HIDE DEF i
<1>3. ilk[i] = p /\ itab[i].valid
  BY <1>1 DEF LocksOK, CopiesOK, i
<1>4. ~BeingFreed(i)
  BY <1>1, <1>2, <1>3 DEF BeingFreed
<1>5. itab[i].copy.type = fs.ino[i].type /\ fs.ino[i].type # "none"
  BY <1>1, <1>2, <1>3, <1>4 DEF CopiesOK, CopyOK
<1>6. Ip(K, i) = itab[i].copy /\ Ip(K, i) \in Dinodes
  BY <1>1, <1>2, KernelParts DEF Ip
<1> QED BY <1>2, <1>3, <1>5, <1>6 DEF i

\* UnlinkLast keeps the order.
LEMMA UnlinkLastOrder == ASSUME Tables, Ordered, NEW p \in Users, UnlinkLast(p) PROVE Ordered'
<1> DEFINE i == me[p].ip
           n == Ip(K, i).nlink - 1
           d == WithLinks(Ip(K, i), n)
           u == Iupdate(K, i, d)
           m == Then(p, "end", <<i>>)
<1>1. At(p, "unlinkLast") /\ disk' = disk /\ Does(p, u, m)
  BY DEF UnlinkLast, Rest, WithLinks
<1>2. /\ panic = "none" /\ me[p] \in MeTypes /\ me[p].at = "unlinkLast" /\ "end" \in Places
      /\ K \in KernelTypes /\ K.fs = fs
  BY <1>1, AtPlace DEF Places
<1>3. i \in Inums
  BY <1>1, InHand DEF IpPlaces
<1>4. Locked(me[p]) = i /\ i # 0
  BY <1>2, <1>3, Constants DEF Locked
<1>5. Ip(K, i) \in Dinodes /\ Ip(K, i).type = fs.ino[i].type
  BY <1>1, <1>4, Held
<1>6. n \in Int
  BY <1>5, DinodeParts
<1>7. <<i>> \in Seq(Inums)
  BY <1>3
<1> HIDE DEF n, i
<1>8. Plain(m)
  BY <1>2, <1>7, ThenPlain
<1>9. d \in Dinodes /\ d.type = Ip(K, i).type
  BY <1>5, <1>6, WithLinksFacts
<1> HIDE DEF d, m
<1>10. Alike(fs, u)
  <2>1. Alike(fs, K) /\ d.type = K.fs.ino[i].type
    BY <1>2, <1>5, <1>9, AlikeSame
  <2> QED BY <1>2, <1>3, <1>9, <2>1, AlikeIupdate
<1> HIDE DEF u
<1> QED BY <1>1, <1>2, <1>8, <1>10, PlainStep

\* A process that locks its inode, goes on with it or puts it, keeps the order.
LEMMA LooksOrder ==
    ASSUME Tables, Ordered, NEW p \in Users, NEW a, At(p, a), a # "writei", a \in IpPlaces,
           FreeLock(me[p].ip), disk' = disk, NEW m, Plain(m), Does(p, Ilock(K, me[p].ip), m)
    PROVE  Ordered'
<1> DEFINE i == me[p].ip
           k == Ilock(K, i)
<1>1. panic = "none"
  BY AtPlace
<1>2. i \in Inums
  BY InHand
<1>3. Alike(fs, k)
  BY <1>2, Seen
<1> HIDE DEF k
<1> QED BY <1>1, <1>3, PlainStep DEF k

\* CreateOld, Open and Chdir keep the order.
LEMMA CreateOldOrder == ASSUME Tables, Ordered, NEW p \in Users, CreateOld(p) PROVE Ordered'
<1>1. At(p, "createOld") /\ FreeLock(me[p].ip) /\ disk' = disk
  BY DEF CreateOld, Rest
<1>2. me[p] \in MeTypes /\ <<me[p].ip>> \in Seq(Inums) /\ <<>> \in Seq(Inums)
      /\ {"end", "openFile"} \subseteq Places /\ "createOld" \in IpPlaces
  BY <1>1, AtPlace, InHand DEF IpPlaces, Places
<1>3. Plain(Then(p, "end", <<me[p].ip>>)) /\ Plain(Then(p, "openFile", <<>>))
  BY <1>2, ThenPlain
<1>4. \/ Does(p, Ilock(K, me[p].ip), Then(p, "end", <<me[p].ip>>))
      \/ Does(p, Ilock(K, me[p].ip), Then(p, "openFile", <<>>))
  BY DEF CreateOld
<1> QED BY <1>1, <1>2, <1>3, <1>4, LooksOrder

\* Open keeps the order.
LEMMA OpenOrder == ASSUME Tables, Ordered, NEW p \in Users, Open(p) PROVE Ordered'
<1>1. /\ At(p, me[p].at) /\ FreeLock(me[p].ip) /\ disk' = disk
      /\ me[p].at \in {"read", "rdwr", "trunc"}
  BY DEF Open, Rest
<1>2. me[p] \in MeTypes /\ <<me[p].ip>> \in Seq(Inums) /\ <<>> \in Seq(Inums)
      /\ {"end", "openFile"} \subseteq Places /\ me[p].at \in IpPlaces /\ me[p].at # "writei"
  BY <1>1, AtPlace, InHand DEF IpPlaces, Places
<1>3. Plain(Then(p, "end", <<me[p].ip>>)) /\ Plain(Then(p, "openFile", <<>>))
  BY <1>2, ThenPlain
<1>4. \/ Does(p, Ilock(K, me[p].ip), Then(p, "end", <<me[p].ip>>))
      \/ Does(p, Ilock(K, me[p].ip), Then(p, "openFile", <<>>))
  BY DEF Open
<1> QED BY <1>1, <1>2, <1>3, <1>4, LooksOrder

\* Chdir keeps the order.
LEMMA ChdirOrder == ASSUME Tables, Ordered, NEW p \in Users, Chdir(p) PROVE Ordered'
<1>1. At(p, "chdir") /\ FreeLock(me[p].ip) /\ disk' = disk
  BY DEF Chdir, Rest
<1>2. me[p] \in MeTypes /\ <<me[p].ip>> \in Seq(Inums) /\ <<cwd[p]>> \in Seq(Inums)
      /\ {"end", "chdirEnd"} \subseteq Places /\ "chdir" \in IpPlaces
  BY <1>1, AtPlace, InHand DEF IpPlaces, Places
<1>3. Plain(Then(p, "end", <<me[p].ip>>)) /\ Plain(Then(p, "chdirEnd", <<cwd[p]>>))
  BY <1>2, ThenPlain
<1>4. \/ Does(p, Ilock(K, me[p].ip), Then(p, "end", <<me[p].ip>>))
      \/ Does(p, Ilock(K, me[p].ip), Then(p, "chdirEnd", <<cwd[p]>>))
  BY DEF Chdir
<1> QED BY <1>1, <1>2, <1>3, <1>4, LooksOrder

\* A process that only gives up a lock, or takes over a current directory, keeps the order.
LEMMA ReleaseOrder ==
    ASSUME Tables, Ordered, NEW p \in Users,
           CreateFail(p) \/ Made(p) \/ ChdirEnd(p)
    PROVE  Ordered'
<1> DEFINE s == IF ChdirEnd(p) THEN <<>> ELSE IF Made(p) THEN <<me[p].ip>> ELSE <<me[p].dp>>
           m == Then(p, "end", s)
<1>1. /\ \/ At(p, "createFail") \/ At(p, "made") \/ At(p, "chdirEnd")
      /\ fs' = fs /\ panic' = panic /\ disk' \in {disk, fs}
      /\ me' = [me EXCEPT ![p] = m]
  BY DEF CreateFail, Made, ChdirEnd, Rest, Does, K, At
<1>2. me[p] \in MeTypes /\ panic = "none" /\ "end" \in Places
  BY <1>1, AtPlace DEF Places
<1>3. s \in Seq(Inums)
  <2>1. CASE ChdirEnd(p)
    BY <2>1
  <2>2. CASE ~ChdirEnd(p) /\ Made(p)
    <3>1. me[p].ip \in Inums
      BY <2>2, InHand DEF Made, IpPlaces
    <3> QED BY <2>2, <3>1
  <2>3. CASE ~ChdirEnd(p) /\ ~Made(p) /\ CreateFail(p)
    <3>1. me[p].dp \in Inums
      BY <2>3, InHand DEF CreateFail, DpPlaces
    <3> QED BY <2>3, <3>1
  <2> QED BY <2>1, <2>2, <2>3
<1> HIDE DEF s
<1>4. m.at \notin Pairs /\ PlaceOK(fs, m)
  BY <1>2, <1>3, ThenPlain, PlainPlace
<1> HIDE DEF m
<1> QED BY <1>1, <1>2, <1>4, SameStep

\* What a step of write() or of the end of a call makes of a process is plain.
LEMMA EndPlain == ASSUME NEW p, NEW s PROVE Plain(Then(p, "end", s))
  BY DEF Plain, Then, Idle

\* So are those of write().
LEMMA WritesPlain ==
    ASSUME NEW m \in MeTypes, NEW a \in {"writeOp", "writei"}, NEW l, NEW n
    PROVE  Plain(Writes(m, a, l, n))
<1>1. Writes(m, a, l, n).at = a
  BY DEF Writes, MeTypes
<1> QED BY <1>1 DEF Plain

\* ilock() and a step on one entry leave the file system as it is.
LEMMA IlockSame == ASSUME NEW k, NEW i PROVE Ilock(k, i).fs = k.fs
  BY DEF Ilock, Panic, WithEntry

\* Close keeps the order.
LEMMA CloseOrder ==
    ASSUME Tables, Ordered, NEW p \in Users, NEW d \in 1 .. NOFile, Close(p, d)
    PROVE  Ordered'
<1> DEFINE m2 == Then(p, "end", <<ftable[ofile[p][d]].ip>>)
<1>1. /\ At(p, "user") /\ fs' = fs /\ panic' = panic /\ disk' \in {disk, fs}
      /\ me' = me \/ me' = [me EXCEPT ![p] = m2]
  BY DEF Close
<1>2. /\ panic = "none" /\ me[p].at = "user" /\ me \in [Users -> MeTypes]
      /\ PlaceOK(fs, me[p])
  BY <1>1, AtPlace
<1>3. m2.at \notin Pairs /\ PlaceOK(fs, m2)
  BY EndPlain, PlainPlace
<1> HIDE DEF m2
<1>4. CASE me' = [me EXCEPT ![p] = m2]
  BY <1>1, <1>2, <1>3, <1>4, SameStep
<1>5. CASE me' = me
  <2>1. me' = [me EXCEPT ![p] = me[p]] /\ me[p].at \notin Pairs
    BY <1>2, <1>5 DEF Pairs
  <2> QED BY <1>1, <1>2, <2>1, SameStep
<1> QED BY <1>1, <1>4, <1>5

\* Dup keeps the order.
LEMMA DupOrder ==
    ASSUME Tables, Ordered, NEW p \in Users, NEW d \in 1 .. NOFile, Dup(p, d)
    PROVE  Ordered'
<1>1. /\ At(p, "user") /\ fs' = fs /\ panic' = panic /\ disk' \in {disk, fs} /\ me' = me
  BY DEF Dup
<1>2. /\ panic = "none" /\ me[p].at = "user" /\ me \in [Users -> MeTypes]
      /\ PlaceOK(fs, me[p])
  BY <1>1, AtPlace
<1>3. me' = [me EXCEPT ![p] = me[p]] /\ me[p].at \notin Pairs
  BY <1>1, <1>2 DEF Pairs
<1> QED BY <1>1, <1>2, <1>3, SameStep

\* Read keeps the order: it may only fill the copy of the inode.
LEMMA ReadOrder ==
    ASSUME Tables, Ordered, NEW p \in Users, NEW d \in 1 .. NOFile, Read(p, d)
    PROVE  Ordered'
<1> DEFINE k == Ilock(K, ftable[ofile[p][d]].ip)
<1>1. At(p, "user") /\ disk' = disk /\ Does(p, k, me[p])
  BY DEF Read
<1>2. panic = "none" /\ me[p].at = "user" /\ K.fs = fs
  BY <1>1, AtPlace
<1>3. Plain(me[p])
  BY <1>2 DEF Plain
<1>4. Alike(fs, k)
  BY <1>2, IlockSame, AlikeSame
<1> HIDE DEF k
<1> QED BY <1>1, <1>2, <1>3, <1>4, PlainStep

\* Write keeps the order.
LEMMA WriteOrder ==
    ASSUME Tables, Ordered, NEW p \in Users, NEW d \in 1 .. NOFile, NEW n \in WriteSizes,
           Write(p, d, n)
    PROVE  Ordered'
<1> DEFINE m == Writing(ftable[ofile[p][d]].ip, d, n)
<1>1. /\ At(p, "user") /\ fs' = fs /\ panic' = panic /\ disk' \in {disk, fs}
      /\ me' = [me EXCEPT ![p] = m]
  BY DEF Write, Writing, FilesKept
<1>2. panic = "none"
  BY <1>1, AtPlace
<1>3. m.at = "writeOp"
  BY DEF Writing, Idle
<1> HIDE DEF m
<1>4. m.at \notin Pairs /\ PlaceOK(fs, m)
  BY <1>3 DEF PlaceOK, FromDir, HoldsDir, Pairs, OldInode
<1> QED BY <1>1, <1>2, <1>4, SameStep

\* The loop of filewrite() keeps the order.
LEMMA WriteOpOrder == ASSUME Tables, Ordered, NEW p \in Users, WriteOp(p) PROVE Ordered'
<1> DEFINE n == Smaller(me[p].left, WriteMax)
           k == Ilock(K, me[p].ip)
           m == [me[p] EXCEPT !.at = "writei", !.left = @ - n, !.now = n]
<1>1. At(p, "writeOp") /\ disk' = disk /\ Does(p, k, m)
  BY DEF WriteOp
<1>2. panic = "none" /\ me[p] \in MeTypes /\ K.fs = fs
  BY <1>1, AtPlace
<1>3. m.at = "writei"
  BY <1>2 DEF MeTypes
<1>4. Plain(m)
  BY <1>3 DEF Plain
<1>5. Alike(fs, k)
  BY <1>2, IlockSame, AlikeSame
<1> HIDE DEF k, m
<1> QED BY <1>1, <1>2, <1>4, <1>5, PlainStep

\* WriteBlock keeps the order: bmap() changes no directory and no type.
LEMMA WriteBlockOrder == ASSUME Tables, Ordered, NEW p \in Users, WriteBlock(p) PROVE Ordered'
<1> DEFINE i == me[p].ip
           f == FileOf(p)
           off == ftable[f].off
           r == Bmap(K, i, off)
           u == Filled(r, i, off)
           stop == Writes(me[p], "writei", 0, 0)
           m == Writes(me[p], "writei", me[p].left, me[p].now - 1)
<1>1. WriteBlockShape(p, f, r, u, stop, m)
  BY WriteBlockFacts
<1>2. /\ me[p] \in MeTypes /\ K \in KernelTypes /\ K.fs = fs /\ panic = "none"
      /\ At(p, "writei")
  BY AtPlace DEF WriteBlock
<1>3. i \in Inums /\ off \in Nat /\ f \in 1 .. NFile
  BY <1>2, WriterFacts
<1>4. me[p].now \in Int
  BY <1>2 DEF MeTypes
<1>5. off + me[p].now <= MaxBlock /\ me[p].now > 0 => Grown(K, r.k, i)
  <2> DEFINE n == me[p].now
  <2>1. off \in Nat /\ n \in Int
    BY <1>3, <1>4
  <2> HIDE DEF i, off, n
  <2>2. off + n <= MaxBlock /\ n > 0 => off \in 0 .. MaxBlock - 1
    BY <2>1, FilesAssumption DEF MaxBlock
  <2> QED BY <1>2, <1>3, <2>2, BmapGrown DEF n
<1>6. Plain(stop) /\ Plain(m)
  BY <1>2, WritesPlain
<1>7. Grown(K, r.k, i) => u.fs.ino = r.k.fs.ino /\ u.fs.ents = r.k.fs.ents
  <2> SUFFICES ASSUME Grown(K, r.k, i) PROVE u.fs.ino = r.k.fs.ino /\ u.fs.ents = r.k.fs.ents
    OBVIOUS
  <2> DEFINE g == r.k.fs
  <2>1. g \in FsTypes
    BY KernelParts DEF Grown
  <2>2. u.fs = [g EXCEPT !.data[r.addr] = @ \union {i}]
    <3> HIDE DEF r, i, off
    <3> QED BY DEF Filled, Change, WithEntry, WithFs
  <2> HIDE DEF g, u
  <2>3. u.fs.ino = g.ino /\ u.fs.ents = g.ents
    BY <2>1, <2>2 DEF FsTypes
  <2> QED BY <2>3 DEF g
<1> HIDE DEF i, f, off, r, u, stop, m
<1>8. Alike(fs, K)
  BY <1>2, AlikeSame
<1>9. Grown(K, r.k, i) => Alike(fs, r.k) /\ Alike(fs, u)
  BY <1>2, <1>7 DEF Grown, Alike
<1>10. disk' = disk
  BY <1>1 DEF WriteBlockShape, Rest
<1>11. CASE Does(p, K, stop)
  BY <1>2, <1>6, <1>8, <1>10, <1>11, PlainStep
<1>12. CASE /\ ftable[f].off + me[p].now <= MaxBlock /\ me[p].now > 0
            /\ Does(p, r.k, stop)
  <2>1. Alike(fs, r.k)
    BY <1>5, <1>9, <1>12 DEF off
  <2> QED BY <1>2, <1>6, <1>10, <1>12, <2>1, PlainStep
<1>13. CASE /\ ftable[f].off + me[p].now <= MaxBlock /\ me[p].now > 0
            /\ Does(p, u, m)
  <2>1. Alike(fs, u)
    BY <1>5, <1>9, <1>13 DEF off
  <2> QED BY <1>2, <1>6, <1>10, <1>13, <2>1, PlainStep
<1> QED BY <1>1, <1>11, <1>12, <1>13 DEF WriteBlockShape

\* WriteEnd keeps the order, also when it commits.
LEMMA WriteEndOrder == ASSUME Tables, Ordered, NEW p \in Users, WriteEnd(p) PROVE Ordered'
<1> DEFINE i == me[p].ip
           d == Ip(K, i)
           k == Iupdate(K, i, d)
           m1 == Writes(me[p], "writeOp", me[p].left, me[p].now)
           m == IF me[p].left > 0 THEN m1 ELSE Idle
<1>1. /\ At(p, "writei") /\ me[p] \in MeTypes /\ K.fs = fs /\ panic = "none" /\ K \in KernelTypes
      /\ K.panic = panic
  BY AtPlace DEF WriteEnd
<1>2. m1 = [me[p] EXCEPT !.at = "writeOp"]
  BY <1>1 DEF Writes, MeTypes
<1>3. Plain(m)
  BY <1>1, WritesPlain, IdlePlain
<1> HIDE DEF m1
<1>4. Does(p, k, m) /\ (disk' = k.fs \/ disk' = disk)
  BY <1>2 DEF WriteEnd, WriteSave
<1>5. i \in Inums /\ Locked(me[p]) = i
  BY <1>1, WriterFacts
<1>6. i # 0
  BY <1>5, Constants
<1>7. d \in Dinodes /\ d.type = K.fs.ino[i].type
  BY <1>1, <1>5, <1>6, Held
<1> HIDE DEF d, i, m
<1>8. Alike(fs, k) /\ k.panic = "none"
  <2>1. Alike(fs, K)
    BY <1>1, AlikeSame
  <2> QED BY <1>1, <1>5, <1>7, <2>1, AlikeIupdate
<1> HIDE DEF k
<1> QED BY <1>1, <1>3, <1>4, <1>8, PlainStep

-----------------------------------------------------------------------------
(* Steps that change a directory or a type                                 *)

\* What a process has found out stays true if the inodes that it has stay.
LEMMA PlaceKept ==
    ASSUME NEW f, NEW g, NEW m \in MeTypes, Shape(m), PlaceOK(f, m),
           IpUsed(m) => g.ino[m.ip].type = f.ino[m.ip].type,
           DpUsed(m) => g.ino[m.dp].type = f.ino[m.dp].type
    PROVE  PlaceOK(g, m)
<1>1. FromDir(g, m)
  BY DEF PlaceOK, FromDir, IpUsed, IpPlaces
<1>2. HoldsDir(g, m)
  BY DEF PlaceOK, HoldsDir, Pairs, IpUsed, IpPlaces, DpUsed, DpPlaces
<1>3. OldInode(g, m)
  BY DEF PlaceOK, OldInode, DpUsed, DpPlaces
<1> QED BY <1>1, <1>2, <1>3 DEF PlaceOK

\* When a step only removes entries, the ways stay in order.
LEMMA PrunedStep ==
    ASSUME Tables, Ordered, NEW p \in Users, NEW k, NEW m, Does(p, k, m), panic = "none",
           Pruned(fs, k.fs), m.at \notin Pairs,
           k.panic = "none" =>
               /\ Tidy(k.fs) /\ PlaceOK(k.fs, m)
               /\ \A q \in Users : q # p => PlaceOK(k.fs, me[q]),
           disk' = disk \/ (disk' = k.fs /\ Tidy(k.fs))
    PROVE  Ordered'
<1>1. Leads(Ways)
  BY DEF Ordered
<1>2. \A x \in Inums \X Inums : x \in Edges(k.fs) => x \in Ways
  BY PrunedEdges DEF Ways
<1>3. \A x \in Inums \X Inums : ~Begins(m, x)
  BY DEF Begins
<1>4. \A q \in Users : \A x \in Inums \X Inums : Begins(me[q], x) => x \in Ways
  BY DEF Begun, Ways
<1> QED BY <1>1, <1>2, <1>3, <1>4, OrderStep

\* Nobody has an inode in hand whose last reference is about to be put.
LEMMA FreedAlone ==
    ASSUME Tables, boot = 0, NEW p \in Users, me[p].put # <<>>,
           itab[Head(me[p].put)].ref = 1, NEW q \in Users
    PROVE  LET i == Head(me[p].put)
           IN  ~(IpUsed(me[q]) /\ me[q].ip = i) /\ ~(DpUsed(me[q]) /\ me[q].dp = i)
<1> DEFINE i == Head(me[p].put)
<1>1. FilesTypes /\ RefsOK /\ \A r \in Users : me[r] \in MeTypes /\ Shape(me[r])
  BY DEF Tables, FilesTypes
<1>2. /\ i \in Inums /\ itab[i].ref = 1
      /\ Count(Dropped(me[p]), cwd[p], i) + One(i = i) = Count(me[p], cwd[p], i)
      /\ Dropped(me[p]) \in MeTypes /\ Shape(Dropped(me[p]))
  BY <1>1, DroppedFacts
<1>3. /\ IpUsed(Dropped(me[p])) <=> IpUsed(me[p])
      /\ DpUsed(Dropped(me[p])) <=> DpUsed(me[p])
      /\ Dropped(me[p]).ip = me[p].ip /\ Dropped(me[p]).dp = me[p].dp
  BY <1>1 DEF Dropped, MeTypes, IpUsed, DpUsed
<1>4. me[p].put # <<>>
  OBVIOUS
<1> HIDE DEF i
<1>5. One(i = i) = 1
  BY DEF One
<1>6. ASSUME NEW m \in MeTypes, NEW c,
             (IpUsed(m) /\ m.ip = i) \/ (DpUsed(m) /\ m.dp = i)
      PROVE  Count(m, c, i) >= 1
  <2>1. HandCount(m, i) \in Nat /\ HandCount(m, i) >= 1
    BY <1>6 DEF HandCount, One
  <2>2. One(c = i /\ m.at # "chdirEnd") \in Nat /\ PutCount(m.put, i) \in Nat
    BY DEF One, PutCount
  <2> QED BY <2>1, <2>2 DEF Count
<1>7. Count(me[p], cwd[p], i) \in Nat /\ Count(Dropped(me[p]), cwd[p], i) \in Nat
      /\ Count(me[q], cwd[q], i) \in Nat
  BY <1>1, <1>2, CountType
<1>8. Cardinality(Opens(i)) \in Nat
  BY OpensFinite
<1>9. Count(me[p], cwd[p], i) = 1 /\ Count(Dropped(me[p]), cwd[p], i) = 0
  <2>1. itab[i].ref >= Count(me[p], cwd[p], i) + Cardinality(Opens(i))
    BY <1>1, <1>2, RefAtLeast
  <2> QED BY <1>2, <1>5, <1>7, <1>8, <2>1
<1>10. CASE q = p
  <2>1. ~((IpUsed(me[p]) /\ me[p].ip = i) \/ (DpUsed(me[p]) /\ me[p].dp = i))
    BY <1>2, <1>3, <1>6, <1>9
  <2> QED BY <1>10, <2>1 DEF i
<1>11. CASE q # p
  <2>1. itab[i].ref >= Count(me[p], cwd[p], i) + Count(me[q], cwd[q], i)
    BY <1>1, <1>2, <1>11, RefAtLeast
  <2>2. Count(me[q], cwd[q], i) = 0
    BY <1>2, <1>7, <1>9, <2>1
  <2>3. ~((IpUsed(me[q]) /\ me[q].ip = i) \/ (DpUsed(me[q]) /\ me[q].dp = i))
    BY <1>1, <1>6, <2>2
  <2> QED BY <2>3 DEF i
<1> QED BY <1>10, <1>11

\* Iput keeps the order: the inode that it frees has no entries any more, and is in nobody's
\* hand.
LEMMA IputOrder == ASSUME Tables, Ordered, NEW p \in Users, Iput(p) PROVE Ordered'
<1> DEFINE i == Head(me[p].put)
           t == Itrunc(K, i)
           d == Typed(Ip(t, i), "none")
           k == Iupdate(t, i, d)
           r == WithEntry(K, i, Drop(itab[i]))
           m == Dropped(me[p])
<1>1. /\ panic = "none" /\ boot = 0 /\ me[p].put # <<>> /\ disk' = disk
      /\ \/ itab[i].ref = 1 /\ Does(p, k, me[p])
         \/ Does(p, r, m)
  BY DEF Iput, Rest, Typed, LastReference
<1>2. /\ K \in KernelTypes /\ K.fs = fs /\ K.itab = itab /\ K.panic = panic
      /\ \A q \in Users : me[q] \in MeTypes /\ Shape(me[q]) /\ PlaceOK(fs, me[q])
      /\ Tidy(fs)
  BY <1>1, FilesTypesParts DEF Tables, Ordered
<1>3. i \in Inums
  BY <1>1, PutAlone
<1>4. me[p].at \notin Pairs
  BY <1>1, <1>2 DEF Shape, Pairs
<1>5. CASE itab[i].ref = 1 /\ Does(p, k, me[p])
  <2>1. ASSUME NEW q \in Users
        PROVE  ~(IpUsed(me[q]) /\ me[q].ip = i) /\ ~(DpUsed(me[q]) /\ me[q].dp = i)
    BY <1>1, <1>5, FreedAlone
  <2> HIDE DEF i
  <2>2. /\ t \in KernelTypes /\ t.fs.ents[i] = NoEnts
        /\ \A j \in Inums : j # i => t.fs.ino[j] = fs.ino[j] /\ t.fs.ents[j] = fs.ents[j]
    BY <1>2, <1>3, ItruncFacts
  <2> HIDE DEF t
  <2>3. Ip(t, i) \in Dinodes
    BY <1>3, <2>2, KernelParts DEF Ip
  <2>4. d \in Dinodes /\ d.type = "none"
    BY <2>3, TypedFacts DEF Types
  <2> HIDE DEF d
  <2>5. k.fs.ino[i] = d /\ k.fs.ents = t.fs.ents
        /\ \A j \in Inums : j # i => k.fs.ino[j] = t.fs.ino[j]
    BY <1>3, <2>2, <2>4, IupdateFacts
  <2> HIDE DEF k
  <2> DEFINE g == k.fs
  <2>6. /\ g.ino[i].type = "none" /\ g.ents[i] = NoEnts
        /\ \A j \in Inums : j # i => g.ino[j] = fs.ino[j] /\ g.ents[j] = fs.ents[j]
    BY <1>3, <2>2, <2>4, <2>5
  <2> HIDE DEF g
  <2>7. \A n \in Names : g.ents[i][n] = 0
    BY <2>6 DEF NoEnts, Entries
  <2>8. Tidy(g) /\ Pruned(fs, g)
    BY <1>2, <1>3, <2>6, <2>7 DEF Tidy, Pruned
  <2>9. ASSUME NEW q \in Users PROVE PlaceOK(g, me[q])
    <3>1. me[q].ip \in Inums \union {0} /\ me[q].dp \in Inums \union {0}
      BY <1>2, MeParts
    <3>2. IpUsed(me[q]) => me[q].ip \in Inums /\ me[q].ip # i
      BY <1>2, <2>1, <3>1 DEF Shape
    <3>3. DpUsed(me[q]) => me[q].dp \in Inums /\ me[q].dp # i
      BY <1>2, <2>1, <3>1 DEF Shape, DpUsed
    <3>4. /\ IpUsed(me[q]) => g.ino[me[q].ip].type = fs.ino[me[q].ip].type
          /\ DpUsed(me[q]) => g.ino[me[q].dp].type = fs.ino[me[q].dp].type
      BY <2>6, <3>2, <3>3
    <3> QED BY <1>2, <3>4, PlaceKept
  <2>10. Does(p, k, me[p])
    BY <1>5
  <2> QED BY <1>1, <1>4, <2>8, <2>9, <2>10, PrunedStep DEF g
<1>6. CASE Does(p, r, m)
  <2>1. m.at = me[p].at /\ m.ip = me[p].ip /\ m.dp = me[p].dp 
    BY <1>2 DEF Dropped, MeTypes
  <2>2. r.fs = fs
    BY <1>2 DEF WithEntry
  <2> HIDE DEF r, m
  <2>3. Alike(fs, r)
    BY <2>2, AlikeSame
  <2>4. PlaceOK(r.fs, m) /\ m.at \notin Pairs
    BY <1>2, <1>4, <2>1, <2>2 DEF PlaceOK, FromDir, HoldsDir, Pairs, OldInode
  <2> QED BY <1>1, <1>6, <2>3, <2>4, AlikeStep
<1> QED BY <1>1, <1>5, <1>6

\* IputEnd keeps the order.
LEMMA IputEndOrder == ASSUME Tables, Ordered, NEW p \in Users, IputEnd(p) PROVE Ordered'
<1> DEFINE k == WithEntry(K, Head(me[p].put), Forget(itab[Head(me[p].put)]))
           m == Dropped(me[p])
<1>1. panic = "none" /\ me[p].put # <<>> /\ disk' = disk /\ Does(p, k, m)
  BY DEF IputEnd, Rest
<1>2. /\ K.fs = fs /\ me[p] \in MeTypes /\ Shape(me[p]) /\ PlaceOK(fs, me[p])
  BY <1>1, FilesTypesParts DEF Tables, Ordered
<1>3. me[p].at \notin Pairs
  BY <1>1, <1>2 DEF Shape, Pairs
<1>4. m.at = me[p].at /\ m.ip = me[p].ip /\ m.dp = me[p].dp 
  BY <1>2 DEF Dropped, MeTypes
<1>5. k.fs = fs
  BY <1>2 DEF WithEntry
<1> HIDE DEF k, m
<1>6. Alike(fs, k)
  BY <1>5, AlikeSame
<1>7. PlaceOK(k.fs, m) /\ m.at \notin Pairs
  BY <1>2, <1>3, <1>4, <1>5 DEF PlaceOK, FromDir, HoldsDir, Pairs, OldInode
<1> QED BY <1>1, <1>6, <1>7, AlikeStep

\* OpenFile keeps the order, also when it empties the file.
LEMMA OpenFileOrder == ASSUME Tables, Ordered, NEW p \in Users, OpenFile(p) PROVE Ordered'
<1> DEFINE i == me[p].ip
           t == Itrunc(K, i)
           m == Then(p, "end", <<>>)
<1>1. /\ At(p, "openFile") /\ disk' = disk
      /\ \/ Does(p, K, Then(p, "end", <<i>>)) \/ Does(p, K, m) \/ Does(p, t, m)
  BY DEF OpenFile, Rest
<1>2. /\ panic = "none" /\ me[p].at = "openFile" /\ K.fs = fs /\ K \in KernelTypes
      /\ Tidy(fs) /\ K.itab = itab
  BY <1>1, AtPlace DEF K
<1>3. i \in Inums
  BY <1>1, InHand DEF IpPlaces
<1>4. Locked(me[p]) = i /\ i # 0
  BY <1>2, <1>3, Constants DEF Locked
<1>5. ilk[i] = p /\ Ip(K, i).type = fs.ino[i].type /\ Ip(K, i) \in Dinodes
  BY <1>1, <1>4, Held
<1>6. Plain(m) /\ Plain(Then(p, "end", <<i>>))
  BY EndPlain
<1>7. Alike(fs, K)
  BY <1>2, AlikeSame
<1>8. CASE Does(p, K, Then(p, "end", <<i>>)) \/ Does(p, K, m)
  BY <1>1, <1>2, <1>6, <1>7, <1>8, PlainStep
<1>9. CASE Does(p, t, m)
  <2> HIDE DEF i, m
  <2>1. /\ t.fs.ents[i] = NoEnts /\ t.fs.ino[i] = NoBlocks(Ip(K, i))
        /\ \A j \in Inums : j # i => t.fs.ino[j] = fs.ino[j] /\ t.fs.ents[j] = fs.ents[j]
    BY <1>2, <1>3, ItruncFacts
  <2>2. NoBlocks(Ip(K, i)).type = fs.ino[i].type
    BY <1>5, NoBlocksFacts
  <2> HIDE DEF t
  <2> DEFINE g == t.fs
  <2>3. /\ \A j \in Inums : g.ino[j].type = fs.ino[j].type
        /\ g.ents[i] = NoEnts /\ \A j \in Inums : j # i => g.ents[j] = fs.ents[j]
    BY <2>1, <2>2
  <2> HIDE DEF g
  <2>4. \A n \in Names : g.ents[i][n] = 0
    BY <2>3 DEF NoEnts, Entries
  <2>5. Tidy(g) /\ Pruned(fs, g)
    BY <1>2, <1>3, <2>3, <2>4 DEF Tidy, Pruned
  <2>6. \A q \in Users : q # p => PlaceOK(g, me[q])
    BY <1>2, <2>3, OthersKeep
  <2>7. PlaceOK(g, m) /\ m.at \notin Pairs
    BY <1>6, PlainPlace
  <2> QED BY <1>1, <1>2, <1>9, <2>5, <2>6, <2>7, PrunedStep DEF g
<1> QED BY <1>1, <1>8, <1>9

\* unlink() removes one entry.
LEMMA ClearedFacts ==
    ASSUME NEW k \in KernelTypes, NEW d \in Inums, NEW n \in Entries
    PROVE  LET r == SetEnt(k, d, n, 0)
           IN  /\ r \in KernelTypes /\ r.itab = k.itab /\ r.fs.ino = k.fs.ino
               /\ \A j \in Inums, l \in Entries : r.fs.ents[j][l] \in {0, k.fs.ents[j][l]}
<1> DEFINE z == 0
           r == SetEnt(k, d, n, z)
<1>1. z \in Inums \union {0}
  OBVIOUS
<1> HIDE DEF z
<1>2. /\ r \in KernelTypes /\ r.itab = k.itab /\ r.fs.ino = k.fs.ino
      /\ r.fs.ents[d][n] = z
      /\ \A j \in Inums, l \in Entries :
            j # d \/ l # n => r.fs.ents[j][l] = k.fs.ents[j][l]
  BY <1>1, SetEntFacts
<1> HIDE DEF r
<1>3. ASSUME NEW j \in Inums, NEW l \in Entries
      PROVE  r.fs.ents[j][l] \in {0, k.fs.ents[j][l]}
  <2>1. CASE j = d /\ l = n
    BY <1>2, <2>1 DEF z
  <2>2. CASE j # d \/ l # n
    BY <1>2, <2>2
  <2> QED BY <2>1, <2>2
<1> QED BY <1>2, <1>3 DEF r, z

\* UnlinkChild keeps the order.
LEMMA UnlinkChildOrder ==
    ASSUME Tables, Ordered, NEW p \in Users, UnlinkChild(p)
    PROVE  Ordered'
<1> DEFINE d  == me[p].dp
           i  == me[p].ip
           k0 == Ilock(K, i)
           k  == IF Ip(k0, i).nlink < 1 THEN Panic(k0, "unlink") ELSE k0
           w  == SetEnt(k, d, LastName(p), 0)
           n  == Ip(w, d).nlink - 1
           e  == WithLinks(Ip(w, d), n)
           r  == IF Ip(k, i).type = "dir" THEN Iupdate(w, d, e) ELSE w
           m  == Then(p, "unlinkLast", <<d>>)
<1>1. /\ At(p, "unlinkChild") /\ FreeLock(i) /\ disk' = disk
      /\ \/ Does(p, k, Then(p, "end", <<i, d>>))
         \/ Does(p, r, m)
  BY DEF UnlinkChild, WithLinks, Rest
<1>2. /\ panic = "none" /\ me[p].at = "unlinkChild" /\ me[p] \in MeTypes /\ Tidy(fs)
      /\ K \in KernelTypes /\ K.fs = fs /\ K.itab = itab
  BY <1>1, AtPlace DEF K
<1>3. d \in Inums /\ i \in Inums
  BY <1>1, InHand DEF IpPlaces, DpPlaces
<1>4. Locked(me[p]) = d /\ d # 0
  BY <1>2, <1>3, Constants DEF Locked
<1>5. ilk[d] = p /\ Ip(K, d) \in Dinodes /\ Ip(K, d).type = fs.ino[d].type
  BY <1>1, <1>4, Held
<1>6. d # i
  BY <1>1, <1>5, Constants DEF FreeLock
<1>7. LastName(p) \in Entries
  BY <1>1, LastNameType
<1>8. Plain(m) /\ Plain(Then(p, "end", <<i, d>>))
  <2>1. <<d>> \in Seq(Inums) /\ "unlinkLast" \in Places
    BY <1>3 DEF Places
  <2> HIDE DEF d
  <2> QED BY <1>2, <2>1, ThenPlain, EndPlain
<1> HIDE DEF i, d, m
<1>9. k0 \in KernelTypes /\ k0.fs = fs /\ k0.itab[d] = itab[d]
  BY <1>2, <1>3, <1>6, IlockFacts
<1> HIDE DEF k0
<1>10. k \in KernelTypes /\ k.fs = fs /\ k.itab[d] = itab[d]
  BY <1>9, PanicFacts DEF Messages
<1>11. CASE Does(p, k, Then(p, "end", <<i, d>>))
  <2> HIDE DEF k
  <2>1. Alike(fs, k)
    BY <1>10, AlikeSame
  <2> QED BY <1>1, <1>2, <1>8, <1>11, <2>1, PlainStep
<1>12. CASE Does(p, r, m)
  <2> HIDE DEF k
  <2>1. /\ w \in KernelTypes /\ w.itab[d] = itab[d] /\ w.fs.ino = fs.ino
        /\ \A j \in Inums, l \in Entries : w.fs.ents[j][l] \in {0, fs.ents[j][l]}
    <3>1. \A j \in Inums, l \in Entries : w.fs.ents[j][l] \in {0, k.fs.ents[j][l]}
      BY <1>3, <1>7, <1>10, ClearedFacts
    <3>2. w \in KernelTypes /\ w.itab = k.itab /\ w.fs.ino = k.fs.ino
      BY <1>3, <1>7, <1>10, ClearedFacts
    <3> HIDE DEF w
    <3> QED BY <1>10, <3>1, <3>2
  <2> HIDE DEF w
  <2>2. Ip(w, d) \in Dinodes /\ Ip(w, d).type = fs.ino[d].type
    BY <1>2, <1>5, <2>1 DEF Ip
  <2>3. n \in Int
    BY <2>2, DinodeParts
  <2> HIDE DEF n
  <2>4. e \in Dinodes /\ e.type = fs.ino[d].type
    BY <2>2, <2>3, WithLinksFacts
  <2> HIDE DEF e
  <2> DEFINE g == r.fs
  <2>5. g.ents = w.fs.ents /\ \A j \in Inums : g.ino[j].type = fs.ino[j].type
    <3> DEFINE y == Iupdate(w, d, e)
    <3>1. /\ y.fs.ents = w.fs.ents /\ y.fs.ino[d] = e
          /\ \A j \in Inums : j # d => y.fs.ino[j] = w.fs.ino[j]
      BY <1>3, <2>1, <2>4, IupdateFacts
    <3>2. r = y \/ r = w
      OBVIOUS
    <3> HIDE DEF y, r
    <3>3. \A j \in Inums : y.fs.ino[j].type = fs.ino[j].type
      BY <2>1, <2>4, <3>1
    <3> QED BY <2>1, <3>1, <3>2, <3>3
  <2> HIDE DEF r, g
  <2>6. Pruned(fs, g)
    <3>1. Names \subseteq Entries
      BY DEF Entries
    <3> QED BY <2>1, <2>5, <3>1 DEF Pruned
  <2>7. Tidy(g)
    BY <1>2, <2>5, <2>6 DEF Tidy, Pruned
  <2>8. \A q \in Users : PlaceOK(g, me[q])
    BY <1>2, <2>5, OthersKeep
  <2>9. PlaceOK(g, m) /\ m.at \notin Pairs
    BY <1>8, PlainPlace
  <2> QED BY <1>1, <1>2, <1>12, <2>6, <2>7, <2>8, <2>9, PrunedStep DEF g
<1> QED BY <1>1, <1>11, <1>12

\* No way leads out of an inode that is no directory.
LEMMA NoWayOut ==
    ASSUME Ordered, panic = "none", FilesTypes, NEW i \in Inums, fs.ino[i].type # "dir",
           NEW j \in Inums
    PROVE  <<i, j>> \notin Ways
<1>1. Tidy(fs) /\ \A q \in Users : PlaceOK(fs, me[q])
  BY DEF Ordered
<1>2. j # 0
  BY Constants
<1>3. <<i, j>> \notin Edges(fs)
  BY <1>1, <1>2, EdgeFacts DEF Tidy
<1>4. <<i, j>> \notin Begun
  BY <1>1, BegunFacts DEF PlaceOK, HoldsDir, Pairs
<1> QED BY <1>3, <1>4 DEF Ways

\* Create keeps the order: the new inode has no entries.
LEMMA CreateOrder == ASSUME Tables, Ordered, NEW p \in Users, Create(p) PROVE Ordered'
<1> DEFINE d == me[p].ip
           k == Ilock(K, d)
           old == Dirlookup(k, d, LastName(p))
           t == TypeOf(me[p].call.op)
           new == Ialloc(k, t)
           i == new.i
           r == new.k
           m1 == WithIp(Then(p, "createOld", <<d>>), old)
           m3 == Taking(me[p], "createNew", d, i)
<1>1. /\ At(p, "create") /\ FreeLock(d) /\ disk' = disk
      /\ \/ Does(p, Iget(k, old), m1)
         \/ Does(p, k, Then(p, "end", <<d>>))
         \/ i # 0 /\ Does(p, r, m3)
  BY DEF Create, Taking, WithIp, Rest
<1>2. /\ panic = "none" /\ me[p] \in MeTypes /\ Shape(me[p]) /\ me[p].at = "create"
      /\ PlaceOK(fs, me[p]) /\ Tidy(fs) /\ K \in KernelTypes
      /\ \A q \in Users : PlaceOK(fs, me[q])
  BY <1>1, AtPlace
<1>3. d \in Inums
  BY <1>1, InHand DEF IpPlaces
<1>4. fs.ino[d].type = "dir"
  BY <1>2 DEF PlaceOK, FromDir
<1>5. k \in KernelTypes /\ k.fs = fs /\ Alike(fs, k)
  BY <1>1, <1>3, Seen DEF IpPlaces
<1>6. \A j \in Inums : k.itab[j].ref >= 0
  <2>1. \A j \in Inums : k.itab[j].ref = itab[j].ref /\ itab[j].ref \in Nat
    BY <1>1, <1>3, Locks DEF IpPlaces
  <2> HIDE DEF k
  <2> QED BY <2>1
<1>7. t \in Types /\ t # "none"
  BY <1>2 DEF Shape, TypeOf, Types
<1> HIDE DEF t
<1>8. CASE Does(p, k, Then(p, "end", <<d>>))
  <2>1. Plain(Then(p, "end", <<d>>))
    BY EndPlain
  <2> HIDE DEF d, k
  <2> QED BY <1>1, <1>2, <1>5, <1>8, <2>1, PlainStep
<1>9. CASE Does(p, Iget(k, old), m1)
  <2>1. m1.at = "createOld"
    <3> DEFINE m0 == Then(p, "createOld", <<d>>)
    <3>1. "createOld" \in Places /\ <<d>> \in Seq(Inums)
      BY <1>3 DEF Places
    <3> HIDE DEF d, old
    <3>2. m0 \in MeTypes /\ m0.at = "createOld"
      BY <1>2, <3>1, ThenFacts
    <3> HIDE DEF m0
    <3>3. WithIp(m0, old).at = "createOld"
      BY <3>2 DEF WithIp, MeTypes
    <3> QED BY <3>3 DEF m0
  <2>2. Plain(m1)
    BY <2>1 DEF Plain
  <2>3. Alike(fs, Iget(k, old))
    BY <1>5, AlikeSame DEF Iget, WithEntry
  <2> HIDE DEF m1, k, old
  <2> QED BY <1>1, <1>2, <1>9, <2>2, <2>3, PlainStep
<1>10. CASE i # 0 /\ Does(p, r, m3)
  <2> HIDE DEF k, d
  <2>1. /\ i \in Inums /\ fs.ino[i].type = "none" /\ r.fs.ino[i] = Dinode(t, 0)
        /\ r.fs.ents = fs.ents
        /\ \A j \in Inums : j # i => r.fs.ino[j] = fs.ino[j]
    BY <1>5, <1>6, <1>7, <1>10, IallocFacts
  <2>2. Dinode(t, 0).type = t
    BY DEF Dinode
  <2> HIDE DEF i, r
  <2>3. m3.at = "createNew" /\ m3.dp = d /\ m3.ip = i
    BY <1>2, <1>3, <2>1, TakingFacts DEF Places
  <2> HIDE DEF m3
  <2> DEFINE g == r.fs
             E == Ways \union {<<d, i>>}
  <2>4. g.ents = fs.ents /\ g.ino[i].type # "none"
        /\ \A j \in Inums : fs.ino[j].type # "none" => g.ino[j].type = fs.ino[j].type
    BY <1>7, <2>1, <2>2
  <2>5. Leads(E)
    <3>1. FilesTypes
      BY DEF Tables
    <3>2. \A j \in Inums : <<i, j>> \notin Ways
      BY <1>2, <2>1, <3>1, NoWayOut
    <3>3. Leads(Ways) /\ d # i
      BY <1>4, <2>1 DEF Ordered
    <3> QED BY <1>3, <2>1, <3>2, <3>3, LeadsMore
  <2>6. \A x \in Inums \X Inums : x \in Edges(g) => x \in E
    BY <2>4 DEF Edges, Ways
  <2> HIDE DEF g
  <2>7. \A x \in Inums \X Inums : Begins(m3, x) => x \in E
    BY <2>3 DEF Begins
  <2>8. \A q \in Users : \A x \in Inums \X Inums : Begins(me[q], x) => x \in E
    BY DEF Begun, Ways
  <2>9. Tidy(g)
    <3>1. ASSUME NEW j \in Inums, g.ino[j].type # "dir", NEW n \in Names
          PROVE  g.ents[j][n] = 0
      <4>1. fs.ino[j].type # "dir"
        BY <2>4, <3>1
      <4> QED BY <1>2, <2>4, <4>1 DEF Tidy
    <3> QED BY <3>1 DEF Tidy
  <2>10. PlaceOK(g, m3)
    BY <1>3, <1>4, <2>3, <2>4 DEF PlaceOK, FromDir, HoldsDir, Pairs, OldInode
  <2>11. ASSUME NEW q \in Users PROVE PlaceOK(g, me[q])
    <3> DEFINE m == me[q]
    <3>1. m \in MeTypes /\ Shape(m) /\ PlaceOK(fs, m)
      BY <1>2 DEF Tables, FilesTypes
    <3>2. m.ip \in Inums \union {0} /\ m.dp \in Inums \union {0}
      BY <3>1, MeParts
    <3> HIDE DEF m
    <3>3. FromDir(g, m)
      <4>1. m.at \in {"create", "linkNew"} => m.ip \in Inums /\ fs.ino[m.ip].type = "dir"
        BY <3>1, <3>2 DEF PlaceOK, FromDir, Shape, IpUsed, IpPlaces
      <4> QED BY <2>4, <4>1 DEF FromDir
    <3>4. HoldsDir(g, m)
      <4>1. m.at \in Pairs => m.dp \in Inums /\ fs.ino[m.dp].type = "dir"
        BY <3>1, <3>2 DEF PlaceOK, HoldsDir, Pairs, Shape, DpPlaces
      <4> QED BY <2>4, <4>1 DEF HoldsDir
    <3>5. OldInode(g, m)
      <4>1. m.at = "linkNew" \/ (m.at = "walk" /\ m.dp # 0)
              => m.dp \in Inums /\ fs.ino[m.dp].type \notin {"none", "dir"}
        BY <3>1, <3>2 DEF PlaceOK, OldInode, Shape, DpPlaces
      <4> QED BY <2>4, <4>1 DEF OldInode
    <3> QED BY <3>3, <3>4, <3>5 DEF PlaceOK, m
  <2> HIDE DEF E
  <2>12. Does(p, r, m3)
    BY <1>10
  <2> QED BY <1>1, <1>2, <2>5, <2>6, <2>7, <2>8, <2>9, <2>10, <2>11, <2>12, OrderStep DEF g
<1> QED BY <1>1, <1>8, <1>9, <1>10

-----------------------------------------------------------------------------
(* Steps that enter an inode into a directory                              *)

\* What the kernel did to enter i into directory d, with the copies of inodes in X.
Entering(k, X, d, i) ==
    /\ k \in KernelTypes
    /\ \A e \in Inums, l \in Names :
          k.fs.ents[e][l] = fs.ents[e][l] \/ (e = d /\ k.fs.ents[e][l] = i)
    /\ k.panic = "none" =>
          /\ \A j \in Inums : k.fs.ino[j].type = fs.ino[j].type
          /\ \A j \in X : Ip(k, j).type = fs.ino[j].type

\* dirlink() goes on with that, if the name is "." or "..", or the entry is the one.
LEMMA EnteringDirlink ==
    ASSUME NEW k, NEW X \in SUBSET Inums, NEW d, NEW i, Entering(k, X, d, i),
           NEW e \in X, NEW n \in Entries, NEW t \in Inums \union {0},
           n \in Names => e = d /\ t = i
    PROVE  LET r == Dirlink(k, e, n, t) IN Entering(r.k, X, d, i) /\ r.ok \in BOOLEAN
<1> DEFINE s == Dirlink(k, e, n, t)
<1>1. k \in KernelTypes /\ e \in Inums /\ Names \subseteq Entries
  BY DEF Entering, Entries
<1>2. /\ s.k \in KernelTypes /\ s.ok \in BOOLEAN /\ Entered(k, s.k, e)
      /\ s.ok => s.k.fs.ents[e][n] = t
      /\ ~s.ok => s.k.fs.ents[e][n] = k.fs.ents[e][n]
      /\ \A l \in Entries : l # n => s.k.fs.ents[e][l] = k.fs.ents[e][l]
  BY <1>1, DirlinkFacts
<1> DEFINE r == s.k
           ok == s.ok
<1> HIDE DEF s
<1>3. ok \in BOOLEAN /\ r \in KernelTypes
  BY <1>2
<1>4. ASSUME NEW c \in Inums, NEW l \in Names
      PROVE  r.fs.ents[c][l] = fs.ents[c][l] \/ (c = d /\ r.fs.ents[c][l] = i)
  <2>1. k.fs.ents[c][l] = fs.ents[c][l] \/ (c = d /\ k.fs.ents[c][l] = i)
    BY DEF Entering
  <2>2. r.fs.ents[c][l] = k.fs.ents[c][l] \/ (c = e /\ l = n /\ r.fs.ents[c][l] = t)
    BY <1>1, <1>2 DEF Entered
  <2> HIDE DEF r
  <2> QED BY <2>1, <2>2
<1>5. ASSUME r.panic = "none"
      PROVE  /\ \A j \in Inums : r.fs.ino[j].type = fs.ino[j].type
             /\ \A j \in X : Ip(r, j).type = fs.ino[j].type
  <2>1. /\ k.panic = "none" /\ r.itab[e].copy.type = k.itab[e].copy.type
        /\ r = k \/ r.fs.ino[e] = r.itab[e].copy
        /\ \A j \in Inums : j # e => r.itab[j] = k.itab[j] /\ r.fs.ino[j] = k.fs.ino[j]
    BY <1>2, <1>5 DEF Entered
  <2> HIDE DEF r
  <2>2. /\ \A j \in Inums : k.fs.ino[j].type = fs.ino[j].type
        /\ \A j \in X : k.itab[j].copy.type = fs.ino[j].type
    BY <2>1 DEF Entering, Ip
  <2>3. r.fs.ino[e].type = fs.ino[e].type
    BY <1>1, <2>1, <2>2
  <2> QED BY <1>1, <2>1, <2>2, <2>3 DEF Ip
<1> HIDE DEF r, ok
<1>6. Entering(r, X, d, i)
  BY <1>3, <1>4, <1>5 DEF Entering
<1> QED BY <1>3, <1>6 DEF r, ok, s

\* So does a dirlink() after another one.
LEMMA EnteringAndLink ==
    ASSUME NEW r, NEW X \in SUBSET Inums, NEW d, NEW i, Entering(r.k, X, d, i),
           r.ok \in BOOLEAN, NEW e \in X, NEW n \in Entries, NEW t \in Inums \union {0},
           n \in Names => e = d /\ t = i
    PROVE  LET s == AndLink(r, e, n, t) IN Entering(s.k, X, d, i) /\ s.ok \in BOOLEAN
<1> DEFINE s == Dirlink(r.k, e, n, t)
<1>1. Entering(s.k, X, d, i) /\ s.ok \in BOOLEAN
  BY EnteringDirlink
<1> HIDE DEF s
<1> QED BY <1>1 DEF AndLink, s

\* The entries that create() makes.
LEMMA EnteringAll ==
    ASSUME NEW k, NEW d \in Inums, NEW i \in Inums, Entering(k, {d, i}, d, i),
           NEW n \in Entries, NEW dir
    PROVE  LET r == MakeEntries(k, d, i, n, dir) IN Entering(r.k, {d, i}, d, i)
<1> DEFINE r0 == [k |-> k, ok |-> TRUE]
           r1 == Dirlink(k, i, Dot, i)
           r2 == AndLink(r1, i, DotDot, d)
           r3 == IF dir THEN r2 ELSE r0
<1>1. /\ Dot \in Entries /\ DotDot \in Entries /\ Dot \notin Names /\ DotDot \notin Names
      /\ {d, i} \in SUBSET Inums /\ d \in {d, i} /\ i \in {d, i}
      /\ i \in Inums \union {0} /\ d \in Inums \union {0}
  BY FilesAssumption DEF Entries
<1>2. Entering(r1.k, {d, i}, d, i) /\ r1.ok \in BOOLEAN
  BY <1>1, EnteringDirlink
<1>3. Entering(r2.k, {d, i}, d, i) /\ r2.ok \in BOOLEAN
  <2> HIDE DEF r1
  <2> QED BY <1>1, <1>2, EnteringAndLink
<1>4. Entering(r0.k, {d, i}, d, i) /\ r0.ok \in BOOLEAN
  OBVIOUS
<1> HIDE DEF r0, r2
<1>5. Entering(r3.k, {d, i}, d, i) /\ r3.ok \in BOOLEAN
  BY <1>3, <1>4
<1>6. MakeEntries(k, d, i, n, dir) = AndLink(r3, d, n, i)
  BY DEF MakeEntries, Dots, r0, r2
<1> HIDE DEF r3
<1>7. Entering(AndLink(r3, d, n, i).k, {d, i}, d, i)
  BY <1>1, <1>5, EnteringAndLink
<1> QED BY <1>6, <1>7

\* iupdate() with another link count changes nothing of this.
LEMMA EnteringLinks ==
    ASSUME NEW k, NEW X \in SUBSET Inums, NEW d, NEW i, Entering(k, X, d, i),
           NEW e \in X, NEW n \in Int
    PROVE  Entering(Iupdate(k, e, WithLinks(Ip(k, e), n)), X, d, i)
<1>1. k \in KernelTypes /\ e \in Inums
  BY DEF Entering
<1>2. Ip(k, e) \in Dinodes
  BY <1>1, KernelParts DEF Ip
<1> DEFINE c == WithLinks(Ip(k, e), n)
<1>3. c \in Dinodes /\ c.type = Ip(k, e).type
  BY <1>2, WithLinksFacts
<1> HIDE DEF c
<1> DEFINE r == Iupdate(k, e, c)
<1>4. /\ r \in KernelTypes /\ r.panic = k.panic /\ r.fs.ents = k.fs.ents
      /\ r.itab[e].copy = c /\ r.fs.ino[e] = c
      /\ \A j \in Inums : j # e => r.itab[j] = k.itab[j] /\ r.fs.ino[j] = k.fs.ino[j]
  BY <1>1, <1>3, IupdateFacts
<1> HIDE DEF r
<1>5. ASSUME r.panic = "none"
      PROVE  /\ \A j \in Inums : r.fs.ino[j].type = fs.ino[j].type
             /\ \A j \in X : Ip(r, j).type = fs.ino[j].type
  <2>1. /\ \A j \in Inums : k.fs.ino[j].type = fs.ino[j].type
        /\ \A j \in X : Ip(k, j).type = fs.ino[j].type
    BY <1>4, <1>5 DEF Entering
  <2> QED BY <1>1, <1>3, <1>4, <2>1 DEF Ip
<1>6. Entering(r, X, d, i)
  BY <1>4, <1>5 DEF Entering
<1> QED BY <1>6 DEF r, c

\* Entering an inode keeps the order if the new way does.
LEMMA EnteringStep ==
    ASSUME Tables, Ordered, NEW p \in Users, NEW k, NEW m, Does(p, k, m), panic = "none",
           NEW d \in Inums, NEW i \in Inums, NEW X, Entering(k, X, d, i), Plain(m),
           Leads(Ways \union {<<d, i>>}), fs.ino[d].type = "dir", disk' = disk
    PROVE  Ordered'
<1> DEFINE E == Ways \union {<<d, i>>}
           g == k.fs
<1>1. /\ Tidy(fs) /\ \A e \in Inums, l \in Names :
                        g.ents[e][l] = fs.ents[e][l] \/ (e = d /\ g.ents[e][l] = i)
      /\ k.panic = "none" => \A j \in Inums : g.ino[j].type = fs.ino[j].type
  BY DEF Entering, Ordered
<1> HIDE DEF g
<1>2. \A x \in Inums \X Inums : x \in Edges(g) => x \in E
  BY <1>1 DEF Edges, Ways
<1>3. \A q \in Users : \A x \in Inums \X Inums : Begins(me[q], x) => x \in E
  BY DEF Begun, Ways
<1>4. PlaceOK(g, m) /\ \A x \in Inums \X Inums : ~Begins(m, x)
  BY PlainPlace DEF Begins
<1>5. k.panic = "none" => Tidy(g) /\ \A q \in Users : PlaceOK(g, me[q])
  <2> SUFFICES ASSUME k.panic = "none" PROVE Tidy(g) /\ \A q \in Users : PlaceOK(g, me[q])
    OBVIOUS
  <2>1. Tidy(g)
    BY <1>1 DEF Tidy
  <2> QED BY <1>1, <2>1, OthersKeep
<1> HIDE DEF E
<1>6. Leads(E)
  BY DEF E
<1> QED BY <1>2, <1>3, <1>4, <1>5, <1>6, OrderStep DEF g

\* LinkNew keeps the order: the inode that gets a new name is no directory.
LEMMA LinkNewOrder == ASSUME Tables, Ordered, NEW p \in Users, LinkNew(p) PROVE Ordered'
<1> DEFINE d == me[p].ip
           i == me[p].dp
           k == Ilock(K, d)
           old == Dirlookup(k, d, LastName(p))
           r == Dirlink(k, d, LastName(p), i)
           s1 == <<old, d>>
           s3 == <<d>>
           m1 == Then(p, "linkBad", s1)
           m2 == Then(p, "end", <<d, i>>)
           m3 == Then(p, "linkBad", s3)
<1>1. /\ At(p, "linkNew") /\ FreeLock(d) /\ disk' = disk
      /\ \/ old # 0 /\ Does(p, Iget(k, old), m1)
         \/ Does(p, r.k, m2)
         \/ Does(p, r.k, m3)
  BY DEF LinkNew, Linked, Rest
<1>2. /\ panic = "none" /\ me[p] \in MeTypes /\ Shape(me[p]) /\ me[p].at = "linkNew"
      /\ PlaceOK(fs, me[p])
  BY <1>1, AtPlace
<1>3. d \in Inums /\ i \in Inums
  BY <1>1, InHand DEF IpPlaces, DpPlaces
<1>4. LastName(p) \in Entries
  BY <1>1, LastNameType
<1>5. /\ k \in KernelTypes /\ k.fs = fs /\ Alike(fs, k)
      /\ k.panic = "none" => Ip(k, d).type = fs.ino[d].type
  BY <1>1, <1>3, Seen DEF IpPlaces
<1>6. fs.ino[d].type = "dir" /\ fs.ino[i].type # "dir"
  BY <1>2 DEF PlaceOK, FromDir, OldInode
<1>7. old \in Inums \union {0}
  <2>1. k.fs.ents[d] \in [Entries -> Inums \union {0}]
    BY <1>3, <1>5, KernelParts
  <2> HIDE DEF k, d
  <2> QED BY <1>4, <2>1 DEF Dirlookup
<1> HIDE DEF d, i, k
<1>8. CASE old # 0 /\ Does(p, Iget(k, old), m1)
  <2>1. s1 \in Seq(Inums) /\ "linkBad" \in Places
    BY <1>3, <1>7, <1>8 DEF Places
  <2> HIDE DEF s1
  <2>2. Plain(m1)
    BY <1>2, <2>1, ThenPlain
  <2>3. Alike(fs, Iget(k, old))
    BY <1>5, AlikeSame DEF Iget, WithEntry
  <2> HIDE DEF m1, old
  <2> QED BY <1>1, <1>2, <1>8, <2>2, <2>3, PlainStep
<1>9. CASE Does(p, r.k, m2) \/ Does(p, r.k, m3)
  <2> DEFINE X == {d}
  <2>1. X \in SUBSET Inums /\ d \in X /\ i \in Inums \union {0}
    BY <1>3
  <2>2. Entering(k, X, d, i)
    BY <1>5 DEF Entering, Alike
  <2> HIDE DEF X
  <2>3. Entering(r.k, X, d, i)
    BY <1>4, <2>1, <2>2, EnteringDirlink
  <2> HIDE DEF r
  <2>4. s3 \in Seq(Inums) /\ "linkBad" \in Places
    BY <1>3 DEF Places
  <2> HIDE DEF s3
  <2>5. Plain(m2) /\ Plain(m3)
    BY <1>2, <2>4, ThenPlain, EndPlain
  <2> HIDE DEF m2, m3
  <2>6. Leads(Ways \union {<<d, i>>})
    <3>1. \A j \in Inums : <<i, j>> \notin Ways
      BY <1>2, <1>3, <1>6, NoWayOut DEF Tables
    <3>2. Leads(Ways) /\ d # i
      BY <1>6 DEF Ordered
    <3> QED BY <1>3, <3>1, <3>2, LeadsMore
  <2>7. PICK m : Does(p, r.k, m) /\ Plain(m)
    BY <1>9, <2>5
  <2> QED BY <1>1, <1>2, <1>3, <1>6, <2>3, <2>6, <2>7, EnteringStep
<1> QED BY <1>1, <1>8, <1>9

\* CreateNew keeps the order: the new way was one already.
LEMMA CreateNewOrder == ASSUME Tables, Ordered, NEW p \in Users, CreateNew(p) PROVE Ordered'
<1> DEFINE d  == me[p].dp
           i  == me[p].ip
           X  == {d, i}
           k  == Ilock(K, i)
           k1 == Iupdate(k, i, WithLinks(Ip(k, i), 1))
           r  == MakeEntries(k1, d, i, LastName(p), me[p].call.op = "mkdir")
           n  == Ip(r.k, d).nlink + 1
           u  == Iupdate(r.k, d, WithLinks(Ip(r.k, d), n))
           k2 == IF me[p].call.op = "mkdir" THEN u ELSE r.k
           k3 == Iupdate(r.k, i, WithLinks(Ip(r.k, i), 0))
           b  == IF me[p].call.op = "create" THEN "openFile" ELSE "made"
           s2 == <<d>>
           s3 == <<i>>
           m2 == Then(p, b, s2)
           m3 == Then(p, "createFail", s3)
<1>1. /\ At(p, "createNew") /\ FreeLock(i) /\ disk' = disk
      /\ Does(p, k2, m2) \/ Does(p, k3, m3)
  BY DEF CreateNew, CreateEnd, CreateFails, WithLinks, Rest
<1>2. /\ panic = "none" /\ me[p] \in MeTypes /\ me[p].at = "createNew" /\ PlaceOK(fs, me[p])
      /\ K \in KernelTypes /\ K.fs = fs
  BY <1>1, AtPlace
<1>3. d \in Inums /\ i \in Inums
  BY <1>1, InHand DEF IpPlaces, DpPlaces
<1>4. Locked(me[p]) = d /\ d # 0
  BY <1>2, <1>3, Constants DEF Locked
<1>5. ilk[d] = p /\ Ip(K, d).type = fs.ino[d].type
  BY <1>1, <1>4, Held
<1>6. d # i
  BY <1>1, <1>5, Constants DEF FreeLock
<1>7. LastName(p) \in Entries
  BY <1>1, LastNameType
<1>8. /\ k \in KernelTypes /\ k.fs = fs /\ Alike(fs, k)
      /\ k.panic = "none" => Ip(k, i).type = fs.ino[i].type
  BY <1>1, <1>3, Seen DEF IpPlaces
<1>9. fs.ino[d].type = "dir"
  BY <1>2 DEF PlaceOK, HoldsDir, Pairs
<1>10. Leads(Ways \union {<<d, i>>})
  <2>1. <<d, i>> \in Ways
    BY <1>2, <1>3, BegunFacts DEF Ways, Pairs
  <2>2. Leads(Ways)
    BY DEF Ordered
  <2>3. \A x \in Inums \X Inums : x \in Ways \union {<<d, i>>} => x \in Ways
    BY <2>1
  <2> QED BY <2>2, <2>3, LeadsFewer
<1>11. Plain(m2) /\ Plain(m3)
  <2>1. s2 \in Seq(Inums) /\ s3 \in Seq(Inums)
    BY <1>3
  <2>2. /\ b \in {"openFile", "made"} /\ {"openFile", "made", "createFail"} \subseteq Places
    BY DEF Places
  <2> HIDE DEF s2, s3, b
  <2>3. b \in Places /\ b \notin {"create", "linkNew", "createNew", "unlinkChild", "walk"}
    BY <2>2
  <2> QED BY <1>2, <2>1, <2>2, <2>3, ThenPlain
<1> HIDE DEF m2, m3
<1>12. X \in SUBSET Inums /\ d \in X /\ i \in X
  BY <1>3
<1>13. Entering(k, X, d, i)
  <2>1. Ip(k, d) = Ip(K, d)
    BY <1>2, <1>3, <1>6, IlockFacts DEF Ip
  <2> HIDE DEF k, d, i
  <2> QED BY <1>5, <1>8, <2>1 DEF Entering, Alike
<1> HIDE DEF k, d, i
<1>14. Entering(k1, X, d, i)
  <2> HIDE DEF X
  <2> QED BY <1>12, <1>13, EnteringLinks
<1> HIDE DEF k1
<1>15. Entering(r.k, X, d, i)
  BY <1>3, <1>7, <1>14, EnteringAll
<1> HIDE DEF r, X
<1>16. n \in Int
  <2>1. r.k \in KernelTypes
    BY <1>15 DEF Entering
  <2>2. Ip(r.k, d) \in Dinodes
    BY <1>3, <2>1, KernelParts DEF Ip
  <2> QED BY <2>2, DinodeParts
<1> HIDE DEF n
<1>17. Entering(k2, X, d, i)
  <2>1. Entering(u, X, d, i)
    BY <1>12, <1>15, <1>16, EnteringLinks
  <2> HIDE DEF u
  <2> QED BY <1>15, <2>1
<1>18. Entering(k3, X, d, i)
  <2> DEFINE z == 0
  <2>1. z \in Int
    OBVIOUS
  <2> HIDE DEF z
  <2>2. Entering(Iupdate(r.k, i, WithLinks(Ip(r.k, i), z)), X, d, i)
    BY <1>12, <1>15, <2>1, EnteringLinks
  <2> QED BY <2>2 DEF z
<1> HIDE DEF k2, k3
<1>19. PICK q, m : Does(p, q, m) /\ Plain(m) /\ Entering(q, X, d, i)
  BY <1>1, <1>11, <1>17, <1>18
<1> QED BY <1>1, <1>2, <1>3, <1>9, <1>10, <1>19, EnteringStep
-----------------------------------------------------------------------------
(* Crash, boot, and the initial states                                     *)

\* When nobody is inside a system call, directories alone make the order.
Quiet == me = [p \in Users |-> Idle] /\ disk = fs /\ Tidy(fs) /\ Leads(Edges(fs))

\* So the order holds then.
LEMMA QuietOrdered == Quiet => Ordered
<1> SUFFICES ASSUME Quiet PROVE Ordered
  OBVIOUS
<1>1. Plain(Idle) /\ \A p \in Users : me[p] = Idle
  BY IdlePlain DEF Quiet
<1>2. PlaceOK(fs, Idle) /\ Idle.at \notin Pairs
  BY <1>1, PlainPlace
<1>3. \A x \in Inums \X Inums : x \in Ways => x \in Edges(fs)
  BY <1>1, <1>2 DEF Ways, Begun, Begins
<1>4. Leads(Edges(fs)) /\ Tidy(fs) /\ disk = fs
  BY DEF Quiet
<1>5. Leads(Ways)
  BY <1>3, <1>4, LeadsFewer
<1> QED BY <1>1, <1>2, <1>4, <1>5 DEF Ordered

\* A step that leaves files and processes as they are.
LEMMA Unmoved == ASSUME Ordered, UNCHANGED <<fs, disk, me, panic>> PROVE Ordered'
<1>1. Ways' = Ways
  BY DEF Ways, Begun
<1> QED BY <1>1 DEF Ordered

\* Crash keeps the order: that of the disk is left.
LEMMA CrashOrder == ASSUME Ordered, Crash PROVE Ordered'
<1>1. me' = [p \in Users |-> Idle] /\ fs' = disk /\ disk' = disk
  BY DEF Crash
<1>2. Tidy(fs') /\ Leads(Edges(fs'))
  BY <1>1 DEF Ordered
<1>3. Quiet'
  BY <1>1, <1>2 DEF Quiet
<1> QED BY <1>3, QuietOrdered, PTL

\* Ireclaim keeps the order: an orphan loses its entries.
LEMMA IreclaimOrder == ASSUME Tables, Ordered, Ireclaim PROVE Ordered'
<1> DEFINE g == Iget(K, boot)
           l == Ilock(g, boot)
           t == Itrunc(l, boot)
           k == Iupdate(t, boot, FreeInode)
<1>1. /\ boot \in Inums /\ panic = "none" /\ me' = me
      /\ \/ fs' = k.fs /\ disk' = k.fs
         \/ UNCHANGED <<fs, panic, disk>>
  BY DEF Ireclaim
<1>2. FilesTypes /\ K \in KernelTypes /\ K.itab = itab /\ K.fs = fs
  BY FilesTypesParts DEF Tables
<1>3. /\ itab = [i \in Inums |-> Unused] /\ me = [p \in Users |-> Idle]
  <2>1. boot # 0
    BY <1>1, Constants
  <2> QED BY <2>1 DEF Tables, BootOK
<1>4. /\ k.fs.ents[boot] = NoEnts
      /\ \A j \in Inums : j # boot => /\ k.fs.ents[j] = fs.ents[j]
                                      /\ k.fs.ino[j] = fs.ino[j]
  <2>1. K.itab[boot].ref >= 0
    <3>1. K.itab[boot] = Unused
      BY <1>1, <1>2, <1>3
    <3> QED BY <3>1, UnusedFacts
  <2>2. g \in KernelTypes /\ g.fs = fs
    BY <1>1, <1>2, <2>1, IgetFacts
  <2> HIDE DEF g
  <2>3. l \in KernelTypes /\ l.fs = fs
    BY <1>1, <2>2, IlockFacts
  <2> HIDE DEF l
  <2>4. /\ t \in KernelTypes /\ t.fs.ents[boot] = NoEnts
        /\ \A j \in Inums : j # boot => t.fs.ents[j] = fs.ents[j] /\ t.fs.ino[j] = fs.ino[j]
    BY <1>1, <2>3, ItruncFacts
  <2> HIDE DEF t
  <2>5. /\ k.fs.ents = t.fs.ents
        /\ \A j \in Inums : j # boot => k.fs.ino[j] = t.fs.ino[j]
    BY <1>1, <2>4, Constants, IupdateFacts
  <2> HIDE DEF k
  <2> QED BY <2>4, <2>5
<1> HIDE DEF k
<1>5. CASE UNCHANGED <<fs, panic, disk>>
  BY <1>1, <1>5, Unmoved
<1>6. CASE fs' = k.fs /\ disk' = k.fs
  <2> DEFINE f == k.fs
  <2>1. \A n \in Names : f.ents[boot][n] = 0
    BY <1>4 DEF NoEnts, Entries
  <2>2. \A j \in Inums : j # boot => f.ents[j] = fs.ents[j] /\ f.ino[j] = fs.ino[j]
    BY <1>4
  <2> HIDE DEF f
  <2>3. Tidy(fs) /\ Leads(Ways)
    BY <1>1 DEF Ordered
  <2>4. Pruned(fs, f) /\ Tidy(f)
    BY <1>1, <2>1, <2>2, <2>3 DEF Pruned, Tidy
  <2>5. \A x \in Inums \X Inums : x \in Edges(f) => x \in Ways
    BY <2>4, PrunedEdges DEF Ways
  <2>6. Leads(Edges(f))
    BY <2>3, <2>5, LeadsFewer
  <2>7. fs' = f /\ disk' = f /\ me' = [p \in Users |-> Idle]
    BY <1>1, <1>3, <1>6 DEF f
  <2>8. Quiet'
    BY <2>4, <2>6, <2>7 DEF Quiet
  <2> QED BY <2>8, QuietOrdered, PTL
<1> QED BY <1>1, <1>5, <1>6

\* The image is ordered: the root names directory 2, and that inode 3.
LEMMA ImageOrdered ==
    ASSUME NEW t \in {"file", "dir"}
    PROVE  Tidy(Image(t)) /\ Leads(Edges(Image(t)))
<1> DEFINE f == Image(t)
<1>1. /\ {1, 2, 3} \subseteq Inums /\ Dot \notin Names /\ DotDot \notin Names
      /\ Names \subseteq Entries /\ "a" # "b"
  BY FilesAssumption DEF Inums, Entries
<1>2. f.ino[1].type = "dir" /\ f.ino[2].type = "dir"
  BY <1>1 DEF Image
<1>3. /\ f.ents[1] = [NoEnts EXCEPT ![Dot] = 1, ![DotDot] = 1, !["a"] = 2]
      /\ f.ents[2] = [NoEnts EXCEPT ![Dot] = 2, ![DotDot] = 1, !["b"] = 3]
      /\ f.ents[3] \in {NoEnts, [NoEnts EXCEPT ![Dot] = 3, ![DotDot] = 2]}
      /\ \A i \in Inums \ {1, 2, 3} : f.ents[i] = NoEnts
  BY <1>1 DEF Image
<1> HIDE DEF f
<1>4. /\ \A n \in Names : f.ents[1][n] \in {0, 2}
      /\ \A n \in Names : f.ents[2][n] \in {0, 3}
      /\ \A i \in Inums \ {1, 2} : \A n \in Names : f.ents[i][n] = 0
  <2>1. \A n \in Names : NoEnts[n] = 0 /\ n \in Entries /\ n # Dot /\ n # DotDot
    BY <1>1 DEF NoEnts
  <2>2. NoEnts \in [Entries -> Inums \union {0}]
    BY Constants
  <2>3. \A n \in Names : f.ents[1][n] \in {0, 2} /\ f.ents[2][n] \in {0, 3} /\ f.ents[3][n] = 0
    BY <1>3, <2>1, <2>2
  <2>4. ASSUME NEW i \in Inums \ {1, 2}, NEW n \in Names PROVE f.ents[i][n] = 0
    <3>1. CASE i = 3
      BY <2>3, <3>1
    <3>2. CASE i # 3
      <4>1. f.ents[i] = NoEnts
        BY <1>3, <3>2
      <4> QED BY <2>1, <4>1
    <3> QED BY <3>1, <3>2
  <2> QED BY <2>3, <2>4
<1>5. Tidy(f)
  BY <1>2, <1>4 DEF Tidy
<1>6. \A x \in Inums \X Inums : x \in Edges(f) => x \in {<<1, 2>>, <<2, 3>>}
  <2>1. ASSUME NEW d \in Inums, NEW i \in Inums, <<d, i>> \in Edges(f)
        PROVE  (d = 1 /\ i = 2) \/ (d = 2 /\ i = 3)
    <3>1. PICK n \in Names : f.ents[d][n] = i
      BY <2>1, EdgeFacts
    <3>2. i # 0
      BY Constants
    <3> QED BY <1>4, <3>1, <3>2
  <2> QED BY <2>1
<1>7. Leads({<<1, 2>>, <<2, 3>>})
  <2> SUFFICES ASSUME NEW S \in SUBSET Inums, S # {}
               PROVE  \E d \in S : \A i \in S : <<d, i>> \notin {<<1, 2>>, <<2, 3>>}
    BY DEF Leads
  <2>1. CASE 3 \in S
    BY <2>1
  <2>2. CASE 3 \notin S /\ 2 \in S
    BY <2>2
  <2>3. CASE 3 \notin S /\ 2 \notin S
    <3>1. PICK d \in S : TRUE
      OBVIOUS
    <3> QED BY <2>3, <3>1
  <2> QED BY <2>1, <2>2, <2>3
<1> QED BY <1>5, <1>6, <1>7, LeadsFewer DEF f

\* The first state is ordered.
LEMMA InitOrder == Init => Ordered
<1> SUFFICES ASSUME Init PROVE Ordered
  OBVIOUS
<1>1. PICK t \in {"file", "dir"} : fs = Image(t)
  BY DEF Init
<1>2. Quiet
  BY <1>1, ImageOrdered DEF Init, Quiet
<1> QED BY <1>2, QuietOrdered
-----------------------------------------------------------------------------
(* The theorem                                                             *)

\* Every step keeps the order.
LEMMA OrderKept == Tables /\ Ordered /\ [Next]_vars => Ordered'
<1> SUFFICES ASSUME Tables, Ordered, [Next]_vars PROVE Ordered'
  OBVIOUS
<1>1. ASSUME NEW p \in Users, NEW c \in Calls, Begin(p, c) PROVE Ordered'
  BY <1>1, BeginOrder
<1>2. ASSUME NEW p \in Users, WalkEnd(p) \/ Walk(p) \/ Iput(p) \/ IputEnd(p) \/ EndOp(p)
      PROVE  Ordered'
  BY <1>2, WalkEndOrder, WalkOrder, IputOrder, IputEndOrder, EndOpOrder
<1>3. ASSUME NEW p \in Users,
             LinkOld(p) \/ LinkNew(p) \/ LinkBad(p) \/ Unlink(p) \/ UnlinkChild(p) \/ UnlinkLast(p)
      PROVE  Ordered'
  BY <1>3, LinkOldOrder, LinkNewOrder, LinkBadOrder, UnlinkOrder, UnlinkChildOrder,
     UnlinkLastOrder
<1>4. ASSUME NEW p \in Users,
             Create(p) \/ CreateOld(p) \/ CreateNew(p) \/ CreateFail(p) \/ Made(p)
      PROVE  Ordered'
  BY <1>4, CreateOrder, CreateOldOrder, CreateNewOrder, ReleaseOrder
<1>5. ASSUME NEW p \in Users, Open(p) \/ OpenFile(p) \/ Chdir(p) \/ ChdirEnd(p) PROVE Ordered'
  BY <1>5, OpenOrder, OpenFileOrder, ChdirOrder, ReleaseOrder
<1>6. ASSUME NEW p \in Users, NEW d \in 1 .. NOFile, Close(p, d) \/ Dup(p, d) \/ Read(p, d)
      PROVE  Ordered'
  BY <1>6, CloseOrder, DupOrder, ReadOrder
<1>7. ASSUME NEW p \in Users, NEW d \in 1 .. NOFile, NEW n \in WriteSizes, Write(p, d, n)
      PROVE  Ordered'
  BY <1>7, WriteOrder
<1>8. ASSUME NEW p \in Users, WriteOp(p) \/ WriteBlock(p) \/ WriteEnd(p) PROVE Ordered'
  BY <1>8, WriteOpOrder, WriteBlockOrder, WriteEndOrder
<1>9. CASE Crash \/ Ireclaim
  BY <1>9, CrashOrder, IreclaimOrder
<1>10. CASE Booted
  BY <1>10, Unmoved DEF Booted
<1>11. CASE UNCHANGED vars
  BY <1>11, Unmoved DEF vars
<1> QED BY <1>1, <1>2, <1>3, <1>4, <1>5, <1>6, <1>7, <1>8, <1>9, <1>10, <1>11 DEF Next

\* A process that holds the lock that another one wants, and wants one itself, wants the second
\* inode of its pair.
LEMMA WaitIsWay ==
    ASSUME Tables, NEW q \in Users, NEW i \in Inums, ilk[i] = q, Wants(q) # 0
    PROVE  <<i, Wants(q)>> \in Begun
<1> DEFINE m == me[q]
<1>1. m \in MeTypes /\ Shape(m) /\ LocksOK
  BY DEF Tables, FilesTypes
<1>2. m.put = <<>>
  BY DEF Wants
<1>3. q # Nobody
  BY Constants
<1>4. Locked(m) = i
  BY <1>1, <1>2, <1>3 DEF LocksOK, Frees
<1>5. i # 0
  BY Constants
<1>6. m.at \in Pairs
  BY <1>4, <1>5 DEF Locked, Wants, Pairs
<1>7. m.dp = i /\ Wants(q) = m.ip
  BY <1>2, <1>4, <1>6 DEF Locked, Wants, Pairs
<1>8. m.ip \in Inums
  <2>1. m.ip \in Inums \union {0} /\ m.ip # 0
    BY <1>1, <1>6, MeParts DEF Shape, IpUsed, IpPlaces, Pairs
  <2> QED BY <2>1
<1> QED BY <1>6, <1>7, <1>8, BegunFacts

\* What a process wants is an inode.
LEMMA WantsInode == ASSUME Tables, NEW p \in Users, Wants(p) # 0 PROVE Wants(p) \in Inums
<1>1. me[p] \in MeTypes
  BY DEF Tables, FilesTypes
<1>2. me[p].ip \in Inums \union {0} /\ me[p].dp \in Inums \union {0}
  BY <1>1, MeParts
<1> QED BY <1>2 DEF Wants

\* The order implies the property.
LEMMA OrderImplies == Tables /\ Ordered => NoLockCycle
<1> SUFFICES ASSUME Tables, Ordered, NEW S \in SUBSET Users, S # {}
             PROVE  \E p \in S : IF Wants(p) = 0 THEN TRUE ELSE ilk[Wants(p)] \notin S
  BY DEF NoLockCycle
<1> SUFFICES ASSUME \A p \in S : Wants(p) # 0 /\ ilk[Wants(p)] \in S PROVE FALSE
  OBVIOUS
<1> DEFINE H == {Wants(p) : p \in S}
<1>1. H \in SUBSET Inums /\ H # {}
  BY WantsInode
<1>2. PICK d \in H : \A i \in H : <<d, i>> \notin Ways
  <2> HIDE DEF H
  <2> QED BY <1>1 DEF Ordered, Leads
<1>3. PICK q \in S : ilk[d] = q
  OBVIOUS
<1>4. d \in Inums /\ Wants(q) \in H /\ Wants(q) # 0
  BY <1>1
<1>5. <<d, Wants(q)>> \in Begun
  BY <1>3, <1>4, WaitIsWay
<1> QED BY <1>2, <1>4, <1>5 DEF Ways

\* Whatever processes do, and in whatever order, no set of them waits for each other's inode
\* locks: a process that holds a lock while it waits for another is in unlink() or create(),
\* and goes from a directory to an inode that the directory names, or is going to name.
THEOREM NoLockCircle == Spec => []NoLockCycle
<1>1. Init => Tables /\ Ordered
  BY InitTables, InitOrder
<1>2. Tables /\ Ordered /\ [Next]_vars => (Tables /\ Ordered)'
  BY TablesKept, OrderKept
<1>3. Tables /\ Ordered => NoLockCycle
  BY OrderImplies
<1> QED BY <1>1, <1>2, <1>3, PTL DEF Spec
-----------------------------------------------------------------------------
(* The blocks of inodes and the inodes without links                       *)

\* An inode as it is in use: its copy in memory, if there is one.
Latest(k, i) == IF k.itab[i].valid THEN k.itab[i].copy ELSE k.fs.ino[i]

\* The block at place s of inode i: a place in addrs, or after those in the indirect block.
Here(k, i, s) == IF s <= NDirect THEN Latest(k, i).addrs[s] ELSE k.fs.ind[i][s - NDirect - 1]

\* A block in use has one place, and only what was written to its inode; the inode on disk has
\* the blocks of the one in memory, as far as they are saved; and a free inode has none.
OwnBlocks(k) ==
    \A i \in Inums, s \in 0 .. MaxBlock : Here(k, i, s) # 0
        => Here(k, i, s) \in k.fs.used /\ k.fs.data[Here(k, i, s)] \subseteq {i}
OnePlace(k) ==
    \A i, j \in Inums, s, t \in 0 .. MaxBlock :
        Here(k, i, s) # 0 /\ Here(k, i, s) = Here(k, j, t) => i = j /\ s = t
NoneLost(k) ==
    \A b \in k.fs.used : \E i \in Inums, s \in 0 .. MaxBlock : Here(k, i, s) = b
SavedSome(k) ==
    \A i \in Inums, s \in 0 .. NDirect :
        k.fs.ino[i].addrs[s] = 0 \/ k.fs.ino[i].addrs[s] = Latest(k, i).addrs[s]
FreeIsBare(k) ==
    \A i \in Inums : k.fs.ino[i].type = "none" \/ Latest(k, i).type = "none"
        => \A s \in 0 .. MaxBlock : Here(k, i, s) = 0
BlocksFit(k) ==
    OwnBlocks(k) /\ OnePlace(k) /\ NoneLost(k) /\ SavedSome(k) /\ FreeIsBare(k)

\* What a crash would leave.
Bare(f) == [fs |-> f, itab |-> [i \in Inums |-> Unused], panic |-> "none"]

\* An entry of the inode table that is not filled has nothing in it.
Blank(k) == k.panic = "none" => \A i \in Inums : ~k.itab[i].valid => k.itab[i].copy = FreeInode

\* An inode that is in memory and on disk, and one that iput() has freed but not given up.
Live(k, i) == k.itab[i].valid /\ k.itab[i].copy.type # "none" /\ k.fs.ino[i].type # "none"
Gone(k, i) == k.itab[i].valid /\ k.itab[i].copy.type = "none"

\* The inode that create() has just allocated.
BeingMade(i) == \E p \in Users : me[p].at = "createNew" /\ me[p].ip = i

\* An inode without links is in memory, or has just been allocated; while the system boots,
\* it is one that ireclaim() has not come to.
Watched ==
    /\ boot = 0 => \A i \in Inums : Orphan(fs.ino[i]) => Live(K, i) \/ BeingMade(i)
    /\ boot # 0 => \A i \in Inums : i < boot => ~Orphan(fs.ino[i])

Stored ==
    /\ BlocksFit(K) /\ BlocksFit(Bare(disk)) /\ Blank(K)
    /\ \A p \in Users : me[p].at = "writei" => p \in inTx
    /\ \A i \in Inums : BeingFreed(i) => Gone(K, i)
    /\ \A i \in Inums : BeingMade(i) => fs.ino[i].type # "none"
    /\ Watched
-----------------------------------------------------------------------------
\* The places of blocks.
LEMMA PlaceFacts ==
    /\ 0 .. NDirect \subseteq 0 .. MaxBlock
    /\ \A s \in 0 .. MaxBlock : s <= NDirect => s \in 0 .. NDirect
    /\ \A s \in 0 .. NDirect : s <= NDirect
    /\ \A s \in 0 .. MaxBlock : ~(s <= NDirect) => s - NDirect - 1 \in 0 .. NIndirect - 1
    /\ \A n \in 0 .. NIndirect - 1 :
          /\ n + NDirect + 1 \in 0 .. MaxBlock /\ ~(n + NDirect + 1 <= NDirect)
          /\ (n + NDirect + 1) - NDirect - 1 = n
    /\ \A s, t \in 0 .. MaxBlock : s - NDirect - 1 = t - NDirect - 1 => s = t
<1>1. NDirect \in Nat /\ NIndirect \in Nat
  BY Constants
<1> QED BY <1>1 DEF MaxBlock

\* The parts of an inode in use, and the block at a place.
LEMMA HereFacts ==
    ASSUME NEW k \in KernelTypes, NEW i \in Inums
    PROVE  /\ Latest(k, i) \in Dinodes /\ Latest(k, i).addrs \in Addrs
           /\ k.fs.ino[i].addrs \in Addrs
           /\ \A s \in 0 .. NDirect : Here(k, i, s) = Latest(k, i).addrs[s]
           /\ \A s \in 0 .. NDirect : Latest(k, i).addrs[s] \in Blocks \union {0}
           /\ \A n \in 0 .. NIndirect - 1 : Here(k, i, n + NDirect + 1) = k.fs.ind[i][n]
           /\ \A s \in 0 .. MaxBlock : Here(k, i, s) \in Blocks \union {0}
<1>1. Latest(k, i) \in Dinodes /\ k.fs.ino[i] \in Dinodes
  BY KernelParts DEF Latest
<1>2. Latest(k, i).addrs \in Addrs /\ k.fs.ino[i].addrs \in Addrs
  BY <1>1, DinodeParts
<1>3. k.fs \in FsTypes
  BY KernelParts
<1>4. \A n \in 0 .. NIndirect - 1 : k.fs.ind[i][n] \in Blocks \union {0}
  BY <1>3, FsParts
<1> DEFINE a == Latest(k, i).addrs
<1> HIDE DEF a
<1>5. \A s \in 0 .. NDirect : a[s] \in Blocks \union {0}
  BY <1>2 DEF Addrs, a
<1>6. \A s \in 0 .. NDirect : Here(k, i, s) = a[s]
  BY PlaceFacts DEF Here, a
<1>7. \A n \in 0 .. NIndirect - 1 : Here(k, i, n + NDirect + 1) = k.fs.ind[i][n]
  BY PlaceFacts DEF Here
<1>8. ASSUME NEW s \in 0 .. MaxBlock PROVE Here(k, i, s) \in Blocks \union {0}
  <2>1. CASE s <= NDirect
    BY <1>5, <2>1, PlaceFacts DEF Here, a
  <2>2. CASE ~(s <= NDirect)
    BY <1>4, <2>2, PlaceFacts DEF Here
  <2> QED BY <2>1, <2>2
<1> QED BY <1>1, <1>2, <1>5, <1>6, <1>7, <1>8 DEF a

\* The blocks of an inode are those at its places.
LEMMA BlocksAre ==
    ASSUME NEW k \in KernelTypes, NEW i \in Inums, NEW b
    PROVE  b \in BlocksOf(k.fs, Latest(k, i), i)
             <=> b # 0 /\ \E s \in 0 .. MaxBlock : Here(k, i, s) = b
<1>1. ASSUME b \in BlocksOf(k.fs, Latest(k, i), i)
      PROVE  b # 0 /\ \E s \in 0 .. MaxBlock : Here(k, i, s) = b
  <2>1. b # 0 /\ \/ \E s \in 0 .. NDirect : b = Latest(k, i).addrs[s]
                 \/ \E n \in 0 .. NIndirect - 1 : b = k.fs.ind[i][n]
    BY <1>1 DEF BlocksOf
  <2>2. ASSUME NEW s \in 0 .. NDirect, b = Latest(k, i).addrs[s]
        PROVE  \E t \in 0 .. MaxBlock : Here(k, i, t) = b
    BY <2>2, HereFacts, PlaceFacts
  <2>3. ASSUME NEW n \in 0 .. NIndirect - 1, b = k.fs.ind[i][n]
        PROVE  \E t \in 0 .. MaxBlock : Here(k, i, t) = b
    BY <2>3, HereFacts, PlaceFacts
  <2> QED BY <2>1, <2>2, <2>3
<1>2. ASSUME b # 0, NEW s \in 0 .. MaxBlock, Here(k, i, s) = b
      PROVE  b \in BlocksOf(k.fs, Latest(k, i), i)
  <2>1. CASE s <= NDirect
    BY <1>2, <2>1, PlaceFacts DEF Here, BlocksOf
  <2>2. CASE ~(s <= NDirect)
    BY <1>2, <2>2, PlaceFacts DEF Here, BlocksOf
  <2> QED BY <2>1, <2>2
<1> QED BY <1>1, <1>2

\* A change that moves no block.
LEMMA FitSame ==
    ASSUME NEW k \in KernelTypes, BlocksFit(k), NEW r \in KernelTypes,
           r.fs.used = k.fs.used, r.fs.data = k.fs.data,
           \A i \in Inums, s \in 0 .. MaxBlock : Here(r, i, s) = Here(k, i, s),
           \A i \in Inums, s \in 0 .. NDirect :
               \/ r.fs.ino[i].addrs[s] = 0
               \/ r.fs.ino[i].addrs[s] = k.fs.ino[i].addrs[s]
               \/ r.fs.ino[i].addrs[s] = Latest(k, i).addrs[s],
           \A i \in Inums : r.fs.ino[i].type = "none" \/ Latest(r, i).type = "none" =>
               \/ k.fs.ino[i].type = "none" \/ Latest(k, i).type = "none"
               \/ \A s \in 0 .. MaxBlock : Here(k, i, s) = 0
    PROVE  BlocksFit(r)
<1>1. /\ OwnBlocks(k) /\ OnePlace(k) /\ NoneLost(k) /\ SavedSome(k) /\ FreeIsBare(k)
  BY DEF BlocksFit
<1>2. OwnBlocks(r)
  BY <1>1 DEF OwnBlocks
<1>3. OnePlace(r)
  BY <1>1 DEF OnePlace
<1>4. NoneLost(r)
  BY <1>1 DEF NoneLost
<1>5. SavedSome(r)
  <2>1. ASSUME NEW i \in Inums, NEW s \in 0 .. NDirect
        PROVE  r.fs.ino[i].addrs[s] = 0 \/ r.fs.ino[i].addrs[s] = Latest(r, i).addrs[s]
    <3>1. Latest(r, i).addrs[s] = Latest(k, i).addrs[s]
      <4>1. Here(k, i, s) = Latest(k, i).addrs[s] /\ Here(r, i, s) = Latest(r, i).addrs[s]
        BY HereFacts
      <4> QED BY <4>1, PlaceFacts
    <3>2. k.fs.ino[i].addrs[s] = 0 \/ k.fs.ino[i].addrs[s] = Latest(k, i).addrs[s]
      BY <1>1 DEF SavedSome
    <3> QED BY <3>1, <3>2
  <2> QED BY <2>1 DEF SavedSome
<1>6. FreeIsBare(r)
  BY <1>1 DEF FreeIsBare
<1> QED BY <1>2, <1>3, <1>4, <1>5, <1>6 DEF BlocksFit

\* A change that leaves the block numbers of every inode in use.
LEMMA FitNodes ==
    ASSUME NEW k \in KernelTypes, BlocksFit(k), NEW r \in KernelTypes,
           r.fs.used = k.fs.used, r.fs.data = k.fs.data, r.fs.ind = k.fs.ind,
           \A i \in Inums : Latest(r, i).addrs = Latest(k, i).addrs,
           \A i \in Inums : \/ r.fs.ino[i].addrs = NoAddrs
                            \/ r.fs.ino[i].addrs = k.fs.ino[i].addrs
                            \/ r.fs.ino[i].addrs = Latest(k, i).addrs,
           \A i \in Inums : r.fs.ino[i].type = "none" \/ Latest(r, i).type = "none" =>
               k.fs.ino[i].type = "none" \/ Latest(k, i).type = "none"
    PROVE  BlocksFit(r)
<1>1. \A i \in Inums, s \in 0 .. MaxBlock : Here(r, i, s) = Here(k, i, s)
  BY DEF Here
<1>2. \A s \in 0 .. NDirect : NoAddrs[s] = 0
  BY DEF NoAddrs
<1>3. ASSUME NEW i \in Inums, NEW s \in 0 .. NDirect
      PROVE  \/ r.fs.ino[i].addrs[s] = 0
             \/ r.fs.ino[i].addrs[s] = k.fs.ino[i].addrs[s]
             \/ r.fs.ino[i].addrs[s] = Latest(k, i).addrs[s]
  BY <1>2
<1> QED BY <1>1, <1>3, FitSame

-----------------------------------------------------------------------------
\* The kernel's state in the course of a step: its blocks fit.
Sane(k) == k \in KernelTypes /\ BlocksFit(k) /\ Blank(k)

\* From k to r no inode in memory is lost or gets another type, no inode is freed, and the
\* ones without links that were not so before are in memory, but for x.
Keeps(k, r, x) ==
    /\ Sane(r)
    /\ \A j \in Inums :
        /\ k.itab[j].valid => r.itab[j].valid /\ r.itab[j].copy.type = k.itab[j].copy.type
        /\ k.fs.ino[j].type # "none" => r.fs.ino[j].type # "none"
        /\ Orphan(r.fs.ino[j]) /\ j # x => Orphan(k.fs.ino[j]) \/ Live(r, j)

\* The inode table keeps what is in memory.
LEMMA KeepsSame == ASSUME NEW k, Sane(k) PROVE Keeps(k, k, 0)
  BY DEF Keeps

\* One step after the other.
LEMMA KeepsTwice ==
    ASSUME NEW k, NEW r, NEW t, NEW x, Keeps(k, r, 0), Keeps(r, t, x)
    PROVE  Keeps(k, t, x)
<1>1. 0 \notin Inums
  BY Constants
<1>2. ASSUME NEW j \in Inums
      PROVE  /\ k.itab[j].valid => t.itab[j].valid /\ t.itab[j].copy.type = k.itab[j].copy.type
             /\ k.fs.ino[j].type # "none" => t.fs.ino[j].type # "none"
             /\ Orphan(t.fs.ino[j]) /\ j # x => Orphan(k.fs.ino[j]) \/ Live(t, j)
  <2>1. /\ k.itab[j].valid => r.itab[j].valid /\ r.itab[j].copy.type = k.itab[j].copy.type
        /\ k.fs.ino[j].type # "none" => r.fs.ino[j].type # "none"
        /\ Orphan(r.fs.ino[j]) => Orphan(k.fs.ino[j]) \/ Live(r, j)
    BY <1>1 DEF Keeps
  <2>2. /\ r.itab[j].valid => t.itab[j].valid /\ t.itab[j].copy.type = r.itab[j].copy.type
        /\ r.fs.ino[j].type # "none" => t.fs.ino[j].type # "none"
        /\ Orphan(t.fs.ino[j]) /\ j # x => Orphan(r.fs.ino[j]) \/ Live(t, j)
    BY DEF Keeps
  <2> QED BY <2>1, <2>2 DEF Live
<1> QED BY <1>2 DEF Keeps

\* An inode that is in memory and on disk stays so.
LEMMA KeepsLive ==
    ASSUME NEW k, NEW r, NEW x, Keeps(k, r, x), NEW i \in Inums
    PROVE  /\ Live(k, i) => Live(r, i)
           /\ Gone(k, i) => Gone(r, i)
  BY DEF Keeps, Live, Gone

\* A change of the inode table, or of what is not about blocks.
LEMMA KeepsNodes ==
    ASSUME NEW k, Sane(k), NEW r \in KernelTypes, NEW x,
           r.fs.used = k.fs.used, r.fs.data = k.fs.data, r.fs.ind = k.fs.ind,
           \A i \in Inums : /\ Latest(r, i).addrs = Latest(k, i).addrs
                            /\ \/ r.fs.ino[i].addrs = NoAddrs
                               \/ r.fs.ino[i].addrs = k.fs.ino[i].addrs
                               \/ r.fs.ino[i].addrs = Latest(k, i).addrs
                            /\ r.fs.ino[i].type = "none" \/ Latest(r, i).type = "none" =>
                                  k.fs.ino[i].type = "none" \/ Latest(k, i).type = "none",
           r.panic = "none" => k.panic = "none" /\ \A i \in Inums : \/ r.itab[i].valid
                                                                    \/ r.itab[i].copy = FreeInode
                                                                    \/ r.itab[i] = k.itab[i],
           \A i \in Inums :
               /\ k.itab[i].valid => /\ r.itab[i].valid
                                     /\ r.itab[i].copy.type = k.itab[i].copy.type
               /\ k.fs.ino[i].type # "none" => r.fs.ino[i].type # "none"
               /\ Orphan(r.fs.ino[i]) /\ i # x => Orphan(k.fs.ino[i]) \/ Live(r, i)
    PROVE  Keeps(k, r, x)
<1>1. k \in KernelTypes /\ BlocksFit(k) /\ Blank(k)
  BY DEF Sane
<1>2. BlocksFit(r)
  BY <1>1, FitNodes
<1>3. Blank(r)
  BY <1>1 DEF Blank
<1> QED BY <1>2, <1>3 DEF Keeps, Sane

\* A change of the inode table alone.
LEMMA KeepsTable ==
    ASSUME NEW k, Sane(k), NEW r \in KernelTypes, r.fs = k.fs,
           r.panic = "none" => k.panic = "none" /\ \A i \in Inums : \/ r.itab[i].valid
                                                                    \/ r.itab[i].copy = FreeInode
                                                                    \/ r.itab[i] = k.itab[i],
           \A i \in Inums :
               \/ k.itab[i].valid /\ r.itab[i].valid /\ r.itab[i].copy = k.itab[i].copy
               \/ ~k.itab[i].valid /\ ~r.itab[i].valid
               \/ ~k.itab[i].valid /\ r.itab[i].copy = k.fs.ino[i]
    PROVE  Keeps(k, r, 0)
<1>1. ASSUME NEW i \in Inums PROVE Latest(r, i) = Latest(k, i)
  BY DEF Latest
<1>2. ASSUME NEW i \in Inums
      PROVE  k.itab[i].valid => r.itab[i].valid /\ r.itab[i].copy.type = k.itab[i].copy.type
  OBVIOUS
<1> QED BY <1>1, <1>2, KeepsNodes

\* iget()
LEMMA KeepsIget ==
    ASSUME NEW k, Sane(k), NEW i \in Inums, k.itab[i].ref \in Nat,
           k.itab[i].ref = 0 => ~k.itab[i].valid
    PROVE  Keeps(k, Iget(k, i), 0)
<1> DEFINE r == Iget(k, i)
           e == Another(k.itab[i])
           no == FALSE
<1>1. k \in KernelTypes /\ r = WithEntry(k, i, e)
  BY DEF Sane, Iget
<1>2. e \in EntryTypes /\ e.valid = k.itab[i].valid
      /\ (k.itab[i].valid => e.copy = k.itab[i].copy)
      /\ (e.copy = FreeInode \/ e.copy = k.itab[i].copy)
  <2>1. k.itab[i].valid \in BOOLEAN /\ k.itab[i].copy \in Dinodes
    BY <1>1, KernelParts
  <2>2. CASE k.itab[i].ref > 0
    <3> DEFINE a == Entry(k.itab[i].ref + 1, k.itab[i].valid, k.itab[i].copy)
    <3>0. k.itab[i].ref + 1 \in Int
      OBVIOUS
    <3>1. a \in EntryTypes /\ a.valid = k.itab[i].valid /\ a.copy = k.itab[i].copy
      BY <2>1, <3>0, EntryFacts
    <3>2. e = a
      BY <2>2 DEF Another
    <3> QED BY <3>1, <3>2
  <2>3. CASE ~(k.itab[i].ref > 0)
    <3>1. ~k.itab[i].valid
      BY <2>3
    <3> HIDE DEF no
    <3> DEFINE a == Entry(1, no, FreeInode)
    <3>2. no \in BOOLEAN
      BY DEF no
    <3>3. a \in EntryTypes /\ a.valid = no /\ a.copy = FreeInode
      BY <3>2, EntryFacts, Constants
    <3>4. e = a
      BY <2>3 DEF Another, no
    <3>5. no = k.itab[i].valid
      BY <2>1, <3>1 DEF no
    <3> HIDE DEF e, a
    <3>6. e \in EntryTypes /\ e.valid = k.itab[i].valid /\ e.copy = FreeInode
      BY <3>3, <3>4, <3>5
    <3> QED BY <3>1, <3>6
  <2> QED BY <2>2, <2>3
<1> HIDE DEF e
<1>3. /\ r \in KernelTypes /\ r.fs = k.fs /\ r.panic = k.panic /\ r.itab[i] = e
      /\ \A j \in Inums : j # i => r.itab[j] = k.itab[j]
  BY <1>1, <1>2, WithEntryFacts
<1> HIDE DEF r
<1>4. ASSUME r.panic = "none", NEW j \in Inums
      PROVE  \/ r.itab[j].valid \/ r.itab[j].copy = FreeInode \/ r.itab[j] = k.itab[j]
  <2>1. CASE j # i
    BY <1>3, <2>1
  <2>2. CASE j = i
    <3>1. CASE k.itab[i].valid
      BY <1>2, <1>3, <2>2, <3>1
    <3>2. CASE ~k.itab[i].valid
      <4>1. k.panic = "none"
        BY <1>3, <1>4
      <4>2. k.itab[i].copy = FreeInode
        BY <3>2, <4>1 DEF Sane, Blank
      <4> QED BY <1>2, <1>3, <2>2, <4>2
    <3> QED BY <3>1, <3>2
  <2> QED BY <2>1, <2>2
<1>5. ASSUME NEW j \in Inums
      PROVE  \/ k.itab[j].valid /\ r.itab[j].valid /\ r.itab[j].copy = k.itab[j].copy
             \/ ~k.itab[j].valid /\ ~r.itab[j].valid
  <2>1. CASE j # i
    BY <1>3, <2>1
  <2>2. CASE j = i
    BY <1>2, <1>3, <2>2
  <2> QED BY <2>1, <2>2
<1>6. r.panic = "none" => k.panic = "none"
  BY <1>3
<1> QED BY <1>3, <1>4, <1>5, <1>6, KeepsTable DEF r

\* An inode that may be saved: it is in memory, or there was a panic because it is free.
Ready(k, i) ==
    \/ Live(k, i)
    \/ /\ k.panic # "none" /\ ~k.itab[i].valid /\ k.itab[i].copy = FreeInode
       /\ k.fs.ino[i].type = "none"

\* An inode without blocks.
LEMMA BareFacts ==
    ASSUME NEW k \in KernelTypes, NEW i \in Inums, \A s \in 0 .. NDirect : Here(k, i, s) = 0
    PROVE  Latest(k, i).addrs = NoAddrs
<1> DEFINE a == Latest(k, i).addrs
<1>1. a \in Addrs /\ \A s \in 0 .. NDirect : Here(k, i, s) = a[s]
  BY HereFacts
<1> HIDE DEF a
<1>2. \A s \in 0 .. NDirect : a[s] = 0
  BY <1>1
<1>3. a = [s \in 0 .. NDirect |-> a[s]]
  BY <1>1 DEF Addrs
<1>4. a = NoAddrs
  BY <1>2, <1>3 DEF NoAddrs
<1> QED BY <1>4 DEF a

\* Its block numbers are those of the inode in use.
LEMMA ReadyFacts ==
    ASSUME NEW k, Sane(k), NEW i \in Inums, Ready(k, i)
    PROVE  /\ Ip(k, i) \in Dinodes /\ Ip(k, i) = k.itab[i].copy
           /\ Ip(k, i).addrs = Latest(k, i).addrs
<1>1. k \in KernelTypes /\ BlocksFit(k)
  BY DEF Sane
<1>2. Ip(k, i) \in Dinodes /\ Ip(k, i) = k.itab[i].copy
  BY <1>1, KernelParts DEF Ip
<1>3. CASE Live(k, i)
  BY <1>2, <1>3 DEF Live, Latest
<1>4. CASE k.itab[i].copy = FreeInode /\ k.fs.ino[i].type = "none"
  <2>1. \A s \in 0 .. MaxBlock : Here(k, i, s) = 0
    BY <1>1, <1>4 DEF BlocksFit, FreeIsBare
  <2>2. Latest(k, i).addrs = NoAddrs
    BY <1>1, <2>1, BareFacts, PlaceFacts
  <2>3. FreeInode.addrs = NoAddrs
    BY DEF FreeInode, Dinode
  <2> QED BY <1>2, <1>4, <2>2, <2>3
<1> QED BY <1>2, <1>3, <1>4 DEF Ready

\* ilock()
LEMMA KeepsIlock ==
    ASSUME NEW k, Sane(k), NEW i \in Inums
    PROVE  Keeps(k, Ilock(k, i), 0)
<1> DEFINE r == Ilock(k, i)
<1>1. k \in KernelTypes
  BY DEF Sane
<1>2. /\ r \in KernelTypes /\ r.fs = k.fs
      /\ \A j \in Inums : j # i => r.itab[j] = k.itab[j]
      /\ k.itab[i].valid => r = k
      /\ ~k.itab[i].valid /\ k.fs.ino[i].type = "none" => r.panic = "ilock" /\ r.itab = k.itab
      /\ ~k.itab[i].valid /\ k.fs.ino[i].type # "none"
           => /\ r.panic = k.panic /\ r.itab[i].valid /\ r.itab[i].copy = k.fs.ino[i]
  BY <1>1, IlockFacts
<1> HIDE DEF r
<1>3. ASSUME r.panic = "none"
      PROVE  k.panic = "none" /\ \A j \in Inums : \/ r.itab[j].valid
                                                  \/ r.itab[j].copy = FreeInode
                                                  \/ r.itab[j] = k.itab[j]
  BY <1>2, <1>3
<1>4. ASSUME NEW j \in Inums
      PROVE  \/ k.itab[j].valid /\ r.itab[j].valid /\ r.itab[j].copy = k.itab[j].copy
             \/ ~k.itab[j].valid /\ ~r.itab[j].valid
             \/ ~k.itab[j].valid /\ r.itab[j].copy = k.fs.ino[j]
  BY <1>2
<1> QED BY <1>2, <1>3, <1>4, KeepsTable DEF r

\* iupdate() of an inode that keeps its type and its blocks.
LEMMA KeepsIupdate ==
    ASSUME NEW k, Sane(k), NEW i \in Inums, Ready(k, i), NEW d \in Dinodes,
           d.type = Ip(k, i).type, d.addrs = Ip(k, i).addrs
    PROVE  Keeps(k, Iupdate(k, i, d), 0)
<1> DEFINE r == Iupdate(k, i, d)
<1>1. k \in KernelTypes
  BY DEF Sane
<1>2. /\ r \in KernelTypes /\ r.panic = k.panic
      /\ r.itab[i].valid = k.itab[i].valid
      /\ r.itab[i].copy = d /\ r.fs.ino[i] = d
      /\ \A j \in Inums : j # i => r.itab[j] = k.itab[j] /\ r.fs.ino[j] = k.fs.ino[j]
      /\ r.fs.ind = k.fs.ind /\ r.fs.used = k.fs.used /\ r.fs.data = k.fs.data
  BY <1>1, IupdateFacts
<1>3. d.type = k.itab[i].copy.type /\ d.addrs = Latest(k, i).addrs
  BY ReadyFacts
<1> HIDE DEF r
<1>4. Latest(r, i) = d
  BY <1>2 DEF Latest
<1>5. k.itab[i].valid => d.type # "none" /\ k.fs.ino[i].type # "none"
  BY <1>3 DEF Ready, Live
<1>6. ~k.itab[i].valid => k.panic # "none" /\ d.type = "none" /\ k.fs.ino[i].type = "none"
  BY <1>3, Constants DEF Ready, Live
<1>7. ASSUME NEW j \in Inums
      PROVE  /\ Latest(r, j).addrs = Latest(k, j).addrs
             /\ \/ r.fs.ino[j].addrs = NoAddrs
                \/ r.fs.ino[j].addrs = k.fs.ino[j].addrs
                \/ r.fs.ino[j].addrs = Latest(k, j).addrs
             /\ r.fs.ino[j].type = "none" \/ Latest(r, j).type = "none" =>
                   k.fs.ino[j].type = "none" \/ Latest(k, j).type = "none"
  <2>1. CASE j = i
    BY <1>2, <1>3, <1>4, <1>5, <1>6, <2>1
  <2>2. CASE j # i
    BY <1>2, <2>2 DEF Latest
  <2> QED BY <2>1, <2>2
<1>8. ASSUME NEW j \in Inums
      PROVE  /\ k.itab[j].valid => /\ r.itab[j].valid
                                   /\ r.itab[j].copy.type = k.itab[j].copy.type
             /\ k.fs.ino[j].type # "none" => r.fs.ino[j].type # "none"
             /\ Orphan(r.fs.ino[j]) /\ j # 0 => Orphan(k.fs.ino[j]) \/ Live(r, j)
  <2>1. CASE j = i
    BY <1>2, <1>3, <1>5, <1>6, <2>1 DEF Orphan, Live
  <2>2. CASE j # i
    BY <1>2, <2>2
  <2> QED BY <2>1, <2>2
<1>9. ASSUME r.panic = "none"
      PROVE  k.panic = "none" /\ \A j \in Inums : \/ r.itab[j].valid
                                                  \/ r.itab[j].copy = FreeInode
                                                  \/ r.itab[j] = k.itab[j]
  BY <1>2, <1>6, <1>9
<1> QED BY <1>2, <1>7, <1>8, <1>9, KeepsNodes DEF r

\* A change of entries of directories only, or a panic.
LEMMA KeepsOther ==
    ASSUME NEW k, Sane(k), NEW r \in KernelTypes, r.itab = k.itab, r.fs.ino = k.fs.ino,
           r.fs.used = k.fs.used, r.fs.data = k.fs.data, r.fs.ind = k.fs.ind,
           r.panic = "none" => k.panic = "none"
    PROVE  Keeps(k, r, 0)
<1>1. \A i \in Inums : Latest(r, i) = Latest(k, i)
  BY DEF Latest
<1> QED BY <1>1, KeepsNodes

\* An entry of a directory.
LEMMA KeepsSetEnt ==
    ASSUME NEW k, Sane(k), NEW d \in Inums, NEW n \in Entries, NEW i \in Inums \union {0}
    PROVE  Keeps(k, SetEnt(k, d, n, i), 0)
<1>1. k \in KernelTypes
  BY DEF Sane
<1> QED BY <1>1, SetEntFacts, KeepsOther

-----------------------------------------------------------------------------
(* Allocating and freeing blocks                                           *)

\* A free block gets a place that was empty.
LEMMA FitGrows ==
    ASSUME NEW k \in KernelTypes, BlocksFit(k), NEW r \in KernelTypes,
           NEW i \in Inums, NEW c \in 0 .. MaxBlock, NEW b \in Blocks,
           b \notin k.fs.used, r.fs.used = k.fs.used \union {b}, r.fs.data[b] = {},
           \A a \in Blocks : a # b => r.fs.data[a] = k.fs.data[a],
           Here(k, i, c) = 0, Here(r, i, c) = b,
           \A j \in Inums, s \in 0 .. MaxBlock :
               j # i \/ s # c => Here(r, j, s) = Here(k, j, s),
           r.fs.ino = k.fs.ino, \A j \in Inums : Latest(r, j).type = Latest(k, j).type,
           k.fs.ino[i].type # "none", Latest(k, i).type # "none"
    PROVE  BlocksFit(r)
<1>1. /\ OwnBlocks(k) /\ OnePlace(k) /\ NoneLost(k) /\ SavedSome(k) /\ FreeIsBare(k)
  BY DEF BlocksFit
<1>2. b # 0 /\ k.fs.used \subseteq Blocks
  BY Constants, KernelParts, FsParts
<1>3. \A j \in Inums, s \in 0 .. MaxBlock : Here(k, j, s) # b
  BY <1>1, <1>2 DEF OwnBlocks
<1>4. \A j \in Inums, s \in 0 .. MaxBlock :
         Here(r, j, s) = IF j = i /\ s = c THEN b ELSE Here(k, j, s)
  OBVIOUS
<1>5. OwnBlocks(r)
  <2> SUFFICES ASSUME NEW j \in Inums, NEW s \in 0 .. MaxBlock, Here(r, j, s) # 0
               PROVE  Here(r, j, s) \in r.fs.used /\ r.fs.data[Here(r, j, s)] \subseteq {j}
    BY DEF OwnBlocks
  <2>1. CASE j = i /\ s = c
    BY <1>4, <2>1
  <2>2. CASE ~(j = i /\ s = c)
    <3>1. Here(r, j, s) = Here(k, j, s)
      BY <1>4, <2>2
    <3>2. Here(k, j, s) \in k.fs.used /\ k.fs.data[Here(k, j, s)] \subseteq {j}
      BY <1>1, <3>1 DEF OwnBlocks
    <3>3. Here(k, j, s) # b
      BY <1>3
    <3> QED BY <1>2, <3>1, <3>2, <3>3
  <2> QED BY <2>1, <2>2
<1>6. OnePlace(r)
  BY <1>1, <1>3, <1>4 DEF OnePlace
<1>7. NoneLost(r)
  <2> SUFFICES ASSUME NEW a \in r.fs.used
               PROVE  \E j \in Inums, s \in 0 .. MaxBlock : Here(r, j, s) = a
    BY DEF NoneLost
  <2>1. CASE a = b
    BY <2>1
  <2>2. CASE a # b
    <3>1. a \in k.fs.used /\ a # 0
      BY <1>2, <2>2, Constants
    <3>2. PICK j \in Inums, s \in 0 .. MaxBlock : Here(k, j, s) = a
      BY <1>1, <3>1 DEF NoneLost
    <3>3. ~(j = i /\ s = c)
      BY <3>1, <3>2
    <3> QED BY <1>4, <3>2, <3>3
  <2> QED BY <2>1, <2>2
<1>8. SavedSome(r)
  <2> SUFFICES ASSUME NEW j \in Inums, NEW s \in 0 .. NDirect
               PROVE  r.fs.ino[j].addrs[s] = 0 \/ r.fs.ino[j].addrs[s] = Latest(r, j).addrs[s]
    BY DEF SavedSome
  <2>1. k.fs.ino[j].addrs[s] = 0 \/ k.fs.ino[j].addrs[s] = Latest(k, j).addrs[s]
    BY <1>1 DEF SavedSome
  <2>2. Here(k, j, s) = Latest(k, j).addrs[s] /\ Here(r, j, s) = Latest(r, j).addrs[s]
    BY HereFacts
  <2>3. s \in 0 .. MaxBlock
    BY PlaceFacts
  <2> QED BY <1>4, <2>1, <2>2, <2>3
<1>9. FreeIsBare(r)
  BY <1>1, <1>4 DEF FreeIsBare
<1> QED BY <1>5, <1>6, <1>7, <1>8, <1>9 DEF BlocksFit

\* A change of blocks alone.
LEMMA KeepsFits ==
    ASSUME NEW k, NEW r \in KernelTypes, BlocksFit(r), Blank(r), r.fs.ino = k.fs.ino,
           \A j \in Inums : k.itab[j].valid => /\ r.itab[j].valid
                                              /\ r.itab[j].copy.type = k.itab[j].copy.type
    PROVE  Keeps(k, r, 0)
  BY DEF Keeps, Sane

\* The block in addrs[s]: it has a place in the inode.
LEMMA KeepsAddrSlot ==
    ASSUME NEW k, Sane(k), NEW i \in Inums, Live(k, i), NEW s \in 0 .. NDirect
    PROVE  LET r == AddrSlot(k, i, s)
           IN  /\ Keeps(k, r.k, 0) /\ r.addr \in Blocks \union {0}
               /\ r.addr # 0 => \E t \in 0 .. MaxBlock : Here(r.k, i, t) = r.addr
<1> DEFINE a == AddrSlot(k, i, s)
           r == a.k
           b == a.addr
<1>1. k \in KernelTypes /\ BlocksFit(k) /\ Blank(k)
  BY DEF Sane
<1>2. /\ r \in KernelTypes /\ b \in Blocks \union {0}
      /\ r.panic = k.panic
      /\ r.fs.ino = k.fs.ino /\ r.fs.ind = k.fs.ind
      /\ r.itab[i].valid = k.itab[i].valid
      /\ \A j \in Inums : j # i => r.itab[j] = k.itab[j]
      /\ Ip(k, i).addrs[s] # 0 => r = k /\ b = Ip(k, i).addrs[s]
      /\ Ip(k, i).addrs[s] = 0 /\ b = 0 => r = k
      /\ Ip(k, i).addrs[s] = 0 /\ b # 0 =>
           /\ b \notin k.fs.used
           /\ r.fs.used = k.fs.used \union {b}
           /\ r.fs.data[b] = {}
           /\ \A c \in Blocks : c # b => r.fs.data[c] = k.fs.data[c]
           /\ r.itab[i].copy = SetAddr(Ip(k, i), s, b)
  BY <1>1, AddrSlotFacts
<1> SUFFICES /\ Keeps(k, r, 0) /\ b \in Blocks \union {0}
             /\ b # 0 => \E t \in 0 .. MaxBlock : Here(r, i, t) = b
  OBVIOUS
<1> HIDE DEF a
<1>3. k.itab[i].valid /\ Ip(k, i) = k.itab[i].copy /\ Latest(k, i) = Ip(k, i)
      /\ Ip(k, i).type # "none" /\ k.fs.ino[i].type # "none" /\ Ip(k, i) \in Dinodes
  BY <1>1, KernelParts DEF Live, Ip, Latest
<1>4. s \in 0 .. MaxBlock /\ s <= NDirect
  BY PlaceFacts
<1>5. CASE r = k
  <2>1. Keeps(k, r, 0)
    BY <1>5, KeepsSame
  <2>2. b # 0 => Here(r, i, s) = b
    <3>1. CASE Ip(k, i).addrs[s] # 0
      BY <1>2, <1>3, <1>4, <3>1 DEF Here
    <3>2. CASE Ip(k, i).addrs[s] = 0
      <4>1. b # 0 => b \in r.fs.used /\ b \notin k.fs.used
        BY <1>2, <3>2
      <4> QED BY <1>5, <4>1
    <3> QED BY <3>1, <3>2
  <2> QED BY <1>2, <1>4, <2>1, <2>2
<1>6. CASE r # k
  <2> DEFINE d == SetAddr(Ip(k, i), s, b)
  <2>1. Ip(k, i).addrs[s] = 0 /\ b \in Blocks /\ b # 0 /\ r.itab[i].copy = d
    BY <1>2, <1>6
  <2>2. /\ d \in Dinodes /\ d.type = Ip(k, i).type
        /\ d.addrs[s] = b
        /\ \A u \in 0 .. NDirect : u # s => d.addrs[u] = Ip(k, i).addrs[u]
    BY <1>3, <2>1, SetAddrFacts
  <2> HIDE DEF d
  <2>3. Latest(r, i) = d /\ \A j \in Inums : j # i => Latest(r, j) = Latest(k, j)
    BY <1>2, <1>3, <2>1 DEF Latest
  <2>4. Here(k, i, s) = 0 /\ Here(r, i, s) = b
    BY <1>3, <1>4, <2>1, <2>2, <2>3 DEF Here
  <2>5. ASSUME NEW j \in Inums, NEW t \in 0 .. MaxBlock, j # i \/ t # s
        PROVE  Here(r, j, t) = Here(k, j, t)
    <3>1. CASE j # i
      BY <1>2, <2>3, <3>1 DEF Here
    <3>2. CASE j = i /\ t # s
      <4>1. t <= NDirect => t \in 0 .. NDirect
        BY PlaceFacts
      <4> QED BY <1>2, <1>3, <2>2, <2>3, <3>2, <4>1 DEF Here
    <3> QED BY <2>5, <3>1, <3>2
  <2>6. \A j \in Inums : Latest(r, j).type = Latest(k, j).type
    BY <1>3, <2>2, <2>3
  <2>7. /\ b \notin k.fs.used /\ r.fs.used = k.fs.used \union {b} /\ r.fs.data[b] = {}
        /\ \A c \in Blocks : c # b => r.fs.data[c] = k.fs.data[c]
    BY <1>2, <2>1
  <2>8. BlocksFit(r)
    BY <1>1, <1>2, <1>3, <1>4, <2>1, <2>4, <2>5, <2>6, <2>7, FitGrows
  <2>9. Blank(r)
    BY <1>1, <1>2, <1>3 DEF Blank
  <2>10. ASSUME NEW j \in Inums
         PROVE  k.itab[j].valid => /\ r.itab[j].valid
                                   /\ r.itab[j].copy.type = k.itab[j].copy.type
    BY <1>2, <1>3, <2>1, <2>2
  <2>11. Keeps(k, r, 0)
    <3>1. r \in KernelTypes /\ r.fs.ino = k.fs.ino
      BY <1>2
    <3> QED BY <2>8, <2>9, <2>10, <3>1, KeepsFits
  <2> QED BY <1>2, <1>4, <2>4, <2>11
<1> QED BY <1>5, <1>6

\* The block in entry n of the indirect block, likewise.
LEMMA KeepsIndSlot ==
    ASSUME NEW ind, Sane(ind.k), ind.addr \in Blocks \union {0}, NEW i \in Inums,
           Live(ind.k, i), NEW n \in 0 .. NIndirect - 1,
           ind.addr # 0 => \E t \in 0 .. MaxBlock : Here(ind.k, i, t) = ind.addr
    PROVE  LET r == IndSlot(ind, i, n)
           IN  /\ Keeps(ind.k, r.k, 0) /\ r.addr \in Blocks \union {0}
               /\ r.addr # 0 => \E t \in 0 .. MaxBlock : Here(r.k, i, t) = r.addr
<1> DEFINE k == ind.k
           a == IndSlot(ind, i, n)
           r == a.k
           b == a.addr
           c == n + NDirect + 1
<1>1. k \in KernelTypes /\ BlocksFit(k) /\ Blank(k)
  BY DEF Sane
<1>2. /\ r \in KernelTypes /\ b \in Blocks \union {0}
      /\ r.panic = k.panic /\ r.itab = k.itab
      /\ r.fs.ino = k.fs.ino
      /\ ind.addr = 0 => a = ind
      /\ ind.addr # 0 /\ k.fs.ind[i][n] # 0 => r = k /\ b = k.fs.ind[i][n]
      /\ ind.addr # 0 /\ k.fs.ind[i][n] = 0 /\ b = 0 => r = k
      /\ ind.addr # 0 /\ k.fs.ind[i][n] = 0 /\ b # 0 =>
           /\ b \notin k.fs.used
           /\ r.fs.used = k.fs.used \union {b}
           /\ r.fs.data[b] = {}
           /\ \A x \in Blocks : x # b => r.fs.data[x] = k.fs.data[x]
           /\ r.fs.ind[i][n] = b
           /\ \A j \in Inums, l \in 0 .. NIndirect - 1 :
                 j # i \/ l # n => r.fs.ind[j][l] = k.fs.ind[j][l]
  BY <1>1, IndSlotFacts
<1>3. c \in 0 .. MaxBlock /\ ~(c <= NDirect) /\ c - NDirect - 1 = n
  BY PlaceFacts
<1>4. k.fs.ino[i].type # "none" /\ Latest(k, i).type # "none"
  BY DEF Live, Latest
<1> SUFFICES /\ Keeps(k, r, 0) /\ b \in Blocks \union {0}
             /\ b # 0 => \E t \in 0 .. MaxBlock : Here(r, i, t) = b
  OBVIOUS
<1> HIDE DEF a, c
<1>5. CASE ind.addr = 0 \/ b = 0
  <2>1. CASE ind.addr = 0
    <3>1. r = k /\ b = ind.addr
      BY <1>2, <2>1
    <3> QED BY <1>2, <2>1, <3>1, KeepsSame
  <2>2. CASE b = 0
    <3>1. r = k
      <4>1. CASE ind.addr = 0
        BY <1>2, <4>1
      <4>2. CASE ind.addr # 0
        BY <1>2, <2>2, <4>2
      <4> QED BY <4>1, <4>2
    <3> QED BY <1>2, <2>2, <3>1, KeepsSame
  <2> QED BY <1>5, <2>1, <2>2
<1>6. CASE ind.addr # 0 /\ k.fs.ind[i][n] # 0
  <2>1. r = k /\ b = k.fs.ind[i][n]
    BY <1>2, <1>6
  <2>2. Keeps(k, r, 0)
    BY <2>1, KeepsSame
  <2>3. Here(r, i, c) = b
    <3>1. Here(k, i, c) = k.fs.ind[i][n]
      BY <1>3 DEF Here
    <3> QED BY <2>1, <3>1
  <2> QED BY <1>2, <1>3, <2>2, <2>3
<1>7. CASE ind.addr # 0 /\ k.fs.ind[i][n] = 0 /\ b # 0
  <2>1. /\ b \notin k.fs.used /\ r.fs.used = k.fs.used \union {b} /\ r.fs.data[b] = {}
        /\ \A x \in Blocks : x # b => r.fs.data[x] = k.fs.data[x]
        /\ r.fs.ind[i][n] = b
        /\ \A j \in Inums, l \in 0 .. NIndirect - 1 :
              j # i \/ l # n => r.fs.ind[j][l] = k.fs.ind[j][l]
    BY <1>2, <1>7
  <2>2. \A j \in Inums : Latest(r, j) = Latest(k, j)
    BY <1>2 DEF Latest
  <2>3. Here(k, i, c) = 0 /\ Here(r, i, c) = b
    BY <1>3, <1>7, <2>1 DEF Here
  <2>4. ASSUME NEW j \in Inums, NEW t \in 0 .. MaxBlock, j # i \/ t # c
        PROVE  Here(r, j, t) = Here(k, j, t)
    <3>1. CASE t <= NDirect
      BY <2>2, <3>1 DEF Here
    <3>2. CASE ~(t <= NDirect)
      <4>1. t - NDirect - 1 \in 0 .. NIndirect - 1 /\ (t - NDirect - 1 = n => t = c)
        BY <1>3, <3>2, PlaceFacts
      <4>2. r.fs.ind[j][t - NDirect - 1] = k.fs.ind[j][t - NDirect - 1]
        BY <2>1, <2>4, <4>1
      <4> QED BY <3>2, <4>2 DEF Here
    <3> QED BY <3>1, <3>2
  <2>5. b \in Blocks
    BY <1>2, <1>7
  <2>6. BlocksFit(r)
    BY <1>1, <1>2, <1>3, <1>4, <2>1, <2>2, <2>3, <2>4, <2>5, FitGrows
  <2>7. Blank(r)
    BY <1>1, <1>2 DEF Blank
  <2>8. Keeps(k, r, 0)
    <3>1. r \in KernelTypes /\ r.fs.ino = k.fs.ino /\ r.itab = k.itab
      BY <1>2
    <3> QED BY <2>6, <2>7, <3>1, KeepsFits
  <2> QED BY <1>2, <1>3, <2>3, <2>8
<1> QED BY <1>2, <1>5, <1>6, <1>7

\* bmap()
LEMMA KeepsBmap ==
    ASSUME NEW k, Sane(k), NEW i \in Inums, Live(k, i), NEW bn \in 0 .. MaxBlock - 1
    PROVE  LET r == Bmap(k, i, bn)
           IN  /\ Keeps(k, r.k, 0) /\ r.addr \in Blocks \union {0}
               /\ r.addr # 0 => \E t \in 0 .. MaxBlock : Here(r.k, i, t) = r.addr
<1>1. CASE bn < NDirect
  <2>1. Bmap(k, i, bn) = AddrSlot(k, i, bn)
    BY <1>1 DEF Bmap
  <2>2. bn \in 0 .. NDirect
    BY <1>1, Constants
  <2> QED BY <2>1, <2>2, KeepsAddrSlot
<1>2. CASE ~(bn < NDirect)
  <2> DEFINE a == AddrSlot(k, i, NDirect)
             n == bn - NDirect
             r == IndSlot(a, i, n)
  <2>1. Bmap(k, i, bn) = r
    BY <1>2 DEF Bmap
  <2>2. n \in 0 .. NIndirect - 1 /\ NDirect \in 0 .. NDirect
    BY <1>2, Constants DEF MaxBlock
  <2>3. /\ Keeps(k, a.k, 0) /\ a.addr \in Blocks \union {0}
        /\ a.addr # 0 => \E t \in 0 .. MaxBlock : Here(a.k, i, t) = a.addr
    BY <2>2, KeepsAddrSlot
  <2> HIDE DEF a, n
  <2>4. Sane(a.k) /\ Live(a.k, i)
    BY <2>3, KeepsLive DEF Keeps
  <2>5. /\ Keeps(a.k, r.k, 0) /\ r.addr \in Blocks \union {0}
        /\ r.addr # 0 => \E t \in 0 .. MaxBlock : Here(r.k, i, t) = r.addr
    BY <2>2, <2>3, <2>4, KeepsIndSlot
  <2> HIDE DEF r
  <2>6. Keeps(k, r.k, 0)
    BY <2>3, <2>5, KeepsTwice
  <2> QED BY <2>1, <2>5, <2>6
<1> QED BY <1>1, <1>2

\* dirlink()
LEMMA KeepsDirlink ==
    ASSUME NEW k, Sane(k), NEW d \in Inums, Live(k, d), NEW n \in Entries,
           NEW i \in Inums \union {0}
    PROVE  LET r == Dirlink(k, d, n, i)
           IN  Keeps(k, r.k, 0) /\ r.ok \in BOOLEAN
<1> DEFINE bn  == PlaceBlock(k, d)
           off == Place(k, d)
<1>1. CASE bn >= MaxBlock
  <2>1. Dirlink(k, d, n, i) = [k |-> k, ok |-> FALSE]
    BY <1>1 DEF Dirlink
  <2>2. Dirlink(k, d, n, i).k = k /\ Dirlink(k, d, n, i).ok = FALSE
    BY <2>1
  <2> QED BY <2>2, KeepsSame
<1>2. CASE ~(bn >= MaxBlock)
  <2> DEFINE r == Bmap(k, d, bn)
  <2>1. off \in Nat /\ bn \in 0 .. MaxBlock - 1
    <3>1. k \in KernelTypes
      BY DEF Sane
    <3> QED BY <1>2, <3>1, PlaceRange
  <2>2. Dirlink(k, d, n, i) = WriteEntry(r, d, off, n, i)
    BY <1>2 DEF Dirlink
  <2> HIDE DEF bn, off
  <2>3. Keeps(k, r.k, 0)
    BY <2>1, KeepsBmap
  <2> HIDE DEF r
  <2>4. Sane(r.k) /\ Live(r.k, d) /\ Ready(r.k, d)
    BY <2>3, KeepsLive DEF Keeps, Ready
  <2>5. Ip(r.k, d) \in Dinodes
    BY <2>4, ReadyFacts
  <2>6. CASE r.addr = 0
    <3> DEFINE u == Iupdate(r.k, d, Ip(r.k, d))
    <3>1. Dirlink(k, d, n, i) = [k |-> u, ok |-> FALSE]
      BY <2>2, <2>6 DEF WriteEntry
    <3>2. Keeps(r.k, u, 0)
      BY <2>4, <2>5, KeepsIupdate
    <3> HIDE DEF u
    <3>3. Dirlink(k, d, n, i).k = u /\ Dirlink(k, d, n, i).ok = FALSE
      BY <3>1
    <3>4. Keeps(k, u, 0)
      BY <2>3, <3>2, KeepsTwice
    <3> QED BY <3>3, <3>4
  <2>7. CASE r.addr # 0
    <3> DEFINE c == Resized(Ip(r.k, d), off + 1)
               u == Iupdate(r.k, d, c)
               w == SetEnt(u, d, n, i)
    <3>1. Dirlink(k, d, n, i) = [k |-> w, ok |-> TRUE]
      BY <2>2, <2>7 DEF WriteEntry, Resized
    <3>2. c \in Dinodes /\ c.type = Ip(r.k, d).type /\ c.addrs = Ip(r.k, d).addrs
      <4>1. off + 1 \in Nat
        BY <2>1
      <4> QED BY <2>5, <4>1, ResizedFacts
    <3> HIDE DEF c
    <3>3. Keeps(r.k, u, 0)
      BY <2>4, <3>2, KeepsIupdate
    <3> HIDE DEF u
    <3>4. Keeps(u, w, 0)
      <4>1. Sane(u)
        BY <3>3 DEF Keeps
      <4> QED BY <4>1, KeepsSetEnt
    <3> HIDE DEF w
    <3>5. Dirlink(k, d, n, i).k = w /\ Dirlink(k, d, n, i).ok = TRUE
      BY <3>1
    <3>6. Keeps(k, w, 0)
      <4>1. Keeps(r.k, w, 0)
        BY <3>3, <3>4, KeepsTwice
      <4> QED BY <2>3, <4>1, KeepsTwice
    <3> QED BY <3>5, <3>6
  <2> QED BY <2>6, <2>7
<1> QED BY <1>1, <1>2

\* dirlink() after an earlier one.
LEMMA KeepsAndLink ==
    ASSUME NEW k, NEW r, Keeps(k, r.k, 0), r.ok \in BOOLEAN, NEW d \in Inums, Live(k, d),
           NEW n \in Entries, NEW i \in Inums \union {0}
    PROVE  LET s == AndLink(r, d, n, i) IN Keeps(k, s.k, 0) /\ s.ok \in BOOLEAN
<1>1. CASE r.ok
  <2> DEFINE s == Dirlink(r.k, d, n, i)
  <2>1. AndLink(r, d, n, i) = s
    BY <1>1 DEF AndLink
  <2>2. Sane(r.k)
    BY DEF Keeps
  <2>4. Live(r.k, d)
    BY KeepsLive
  <2>3. Keeps(r.k, s.k, 0) /\ s.ok \in BOOLEAN
    BY <2>2, <2>4, KeepsDirlink
  <2> HIDE DEF s
  <2> QED BY <2>1, <2>3, KeepsTwice
<1>2. CASE ~r.ok
  BY <1>2 DEF AndLink
<1> QED BY <1>1, <1>2

\* The entries that create() makes.
LEMMA KeepsMakeEntries ==
    ASSUME NEW k, Sane(k), NEW d \in Inums, Live(k, d), NEW i \in Inums, Live(k, i),
           NEW n \in Entries, NEW dir
    PROVE  LET r == MakeEntries(k, d, i, n, dir)
           IN  Keeps(k, r.k, 0) /\ r.ok \in BOOLEAN
<1> DEFINE a == Dirlink(k, i, Dot, i)
           b == Dots(k, d, i)
           s == [k |-> k, ok |-> TRUE]
           c == IF dir THEN b ELSE s
<1>0. Dot \in Entries /\ DotDot \in Entries
  BY DEF Entries
<1>1. Keeps(k, a.k, 0) /\ a.ok \in BOOLEAN
  BY <1>0, KeepsDirlink
<1>2. b = AndLink(a, i, DotDot, d)
  BY DEF Dots
<1> HIDE DEF a
<1>3. Keeps(k, b.k, 0) /\ b.ok \in BOOLEAN
  BY <1>0, <1>1, <1>2, KeepsAndLink
<1> HIDE DEF b
<1>4. s.k = k /\ s.ok \in BOOLEAN
  OBVIOUS
<1> HIDE DEF s
<1>5. Keeps(k, c.k, 0) /\ c.ok \in BOOLEAN
  <2>1. CASE dir
    BY <1>3, <2>1
  <2>2. CASE ~dir
    BY <1>4, <2>2, KeepsSame
  <2> QED BY <2>1, <2>2
<1>6. MakeEntries(k, d, i, n, dir) = AndLink(c, d, n, i)
  BY DEF MakeEntries, b, s
<1> HIDE DEF c
<1> QED BY <1>5, <1>6, KeepsAndLink

\* The bytes of an inode go to one of its blocks.
LEMMA KeepsFilled ==
    ASSUME NEW r, Sane(r.k), r.addr \in Blocks, NEW i \in Inums, Live(r.k, i), NEW off \in Nat,
           \E t \in 0 .. MaxBlock : Here(r.k, i, t) = r.addr
    PROVE  Keeps(r.k, Filled(r, i, off), 0)
<1> DEFINE k == r.k
           u == Filled(r, i, off)
           b == r.addr
<1>1. k \in KernelTypes /\ BlocksFit(k) /\ Blank(k)
  BY DEF Sane
<1>2. /\ u \in KernelTypes /\ u.panic = k.panic /\ u.fs.ino = k.fs.ino
      /\ u.fs.ind = k.fs.ind /\ u.fs.used = k.fs.used
      /\ u.fs.data[b] = k.fs.data[b] \union {i}
      /\ \A c \in Blocks : c # b => u.fs.data[c] = k.fs.data[c]
      /\ u.itab[i].valid = k.itab[i].valid
      /\ u.itab[i].copy.type = k.itab[i].copy.type
      /\ u.itab[i].copy.addrs = k.itab[i].copy.addrs
      /\ \A j \in Inums : j # i => u.itab[j] = k.itab[j]
  BY <1>1, FilledFacts
<1>3. PICK t \in 0 .. MaxBlock : Here(k, i, t) = b
  OBVIOUS
<1>4. k.itab[i].valid /\ b \in Blocks /\ Live(k, i)
  BY DEF Live
<1> SUFFICES Keeps(k, u, 0)
  OBVIOUS
<1> HIDE DEF k, u, b
<1>5. \A j \in Inums : /\ Latest(u, j).addrs = Latest(k, j).addrs
                       /\ Latest(u, j).type = Latest(k, j).type
  BY <1>2, <1>4 DEF Latest
<1>6. \A j \in Inums, s \in 0 .. MaxBlock : Here(u, j, s) = Here(k, j, s)
  BY <1>2, <1>5 DEF Here
<1>7. OwnBlocks(k) /\ OnePlace(k) /\ NoneLost(k) /\ SavedSome(k) /\ FreeIsBare(k)
  BY <1>1 DEF BlocksFit
<1>8. OwnBlocks(u)
  <2> SUFFICES ASSUME NEW j \in Inums, NEW s \in 0 .. MaxBlock, Here(u, j, s) # 0
               PROVE  Here(u, j, s) \in u.fs.used /\ u.fs.data[Here(u, j, s)] \subseteq {j}
    BY DEF OwnBlocks
  <2> DEFINE a == Here(k, j, s)
  <2>1. Here(u, j, s) = a /\ a # 0
    BY <1>6
  <2>2. a \in k.fs.used /\ k.fs.data[a] \subseteq {j} /\ a \in Blocks
    <3>1. a \in k.fs.used /\ k.fs.data[a] \subseteq {j}
      BY <1>7, <2>1 DEF OwnBlocks
    <3>2. k.fs.used \subseteq Blocks
      BY <1>1, KernelParts, FsParts
    <3> QED BY <3>1, <3>2
  <2>3. a = b => j = i
    BY <1>3, <1>7, <2>1 DEF OnePlace
  <2> HIDE DEF a
  <2>4. CASE a = b
    BY <1>2, <2>1, <2>2, <2>3, <2>4
  <2>5. CASE a # b
    BY <1>2, <2>1, <2>2, <2>5
  <2> QED BY <2>4, <2>5
<1>9. OnePlace(u)
  BY <1>6, <1>7 DEF OnePlace
<1>10. NoneLost(u)
  BY <1>2, <1>6, <1>7 DEF NoneLost
<1>11. SavedSome(u)
  BY <1>2, <1>5, <1>7 DEF SavedSome
<1>12. FreeIsBare(u)
  BY <1>2, <1>5, <1>6, <1>7 DEF FreeIsBare
<1>13. BlocksFit(u)
  BY <1>8, <1>9, <1>10, <1>11, <1>12 DEF BlocksFit
<1>14. Blank(u)
  BY <1>1, <1>2, <1>4 DEF Blank
<1>15. ASSUME NEW j \in Inums
       PROVE  k.itab[j].valid => u.itab[j].valid /\ u.itab[j].copy.type = k.itab[j].copy.type
  BY <1>2
<1> QED BY <1>2, <1>13, <1>14, <1>15, KeepsFits

\* itrunc(): the blocks of the inode are in use, and it has none afterwards.
LEMMA KeepsItrunc ==
    ASSUME NEW k, Sane(k), NEW i \in Inums, Live(k, i)
    PROVE  LET r == Itrunc(k, i)
           IN  /\ Keeps(k, r, 0) /\ r.panic = k.panic
               /\ \A s \in 0 .. MaxBlock : Here(r, i, s) = 0
<1> DEFINE r == Itrunc(k, i)
           S == BlocksOf(k.fs, Ip(k, i), i)
<1>1. k \in KernelTypes /\ BlocksFit(k) /\ Blank(k)
  BY DEF Sane
<1>2. /\ r \in KernelTypes
      /\ r.itab[i].valid = k.itab[i].valid
      /\ r.itab[i].copy = NoBlocks(Ip(k, i)) /\ r.fs.ino[i] = r.itab[i].copy
      /\ \A j \in Inums : j # i => /\ r.itab[j] = k.itab[j] /\ r.fs.ino[j] = k.fs.ino[j]
                                   /\ r.fs.ind[j] = k.fs.ind[j]
      /\ r.fs.ind[i] = NoInd
      /\ r.fs.data = k.fs.data
      /\ S \subseteq k.fs.used => r.panic = k.panic /\ r.fs.used = k.fs.used \ S
  BY <1>1, ItruncFacts
<1>3. /\ k.itab[i].valid /\ Ip(k, i) = k.itab[i].copy /\ Latest(k, i) = Ip(k, i)
      /\ Ip(k, i).type # "none" /\ k.fs.ino[i].type # "none" /\ Ip(k, i) \in Dinodes
  BY <1>1, KernelParts DEF Live, Ip, Latest
<1>4. \A b : b \in S <=> b # 0 /\ \E s \in 0 .. MaxBlock : Here(k, i, s) = b
  BY <1>1, <1>3, BlocksAre
<1>5. OwnBlocks(k) /\ OnePlace(k) /\ NoneLost(k) /\ SavedSome(k) /\ FreeIsBare(k)
  BY <1>1 DEF BlocksFit
<1>6. S \subseteq k.fs.used
  BY <1>4, <1>5 DEF OwnBlocks
<1>7. NoBlocks(Ip(k, i)).type = Ip(k, i).type /\ NoBlocks(Ip(k, i)).addrs = NoAddrs
  BY <1>3, NoBlocksFacts
<1> SUFFICES /\ Keeps(k, r, 0) /\ r.panic = k.panic
             /\ \A s \in 0 .. MaxBlock : Here(r, i, s) = 0
  OBVIOUS
<1> HIDE DEF r, S
<1>8. Latest(r, i).addrs = NoAddrs /\ \A j \in Inums : j # i => Latest(r, j) = Latest(k, j)
  BY <1>2, <1>3, <1>7 DEF Latest
<1>9. ASSUME NEW s \in 0 .. MaxBlock PROVE Here(r, i, s) = 0
  <2>1. CASE s <= NDirect
    <3>1. Here(r, i, s) = NoAddrs[s] /\ s \in 0 .. NDirect
      BY <1>8, <2>1, PlaceFacts DEF Here
    <3> QED BY <3>1 DEF NoAddrs
  <2>2. CASE ~(s <= NDirect)
    <3>1. Here(r, i, s) = NoInd[s - NDirect - 1] /\ s - NDirect - 1 \in 0 .. NIndirect - 1
      BY <1>2, <2>2, PlaceFacts DEF Here
    <3> QED BY <3>1 DEF NoInd
  <2> QED BY <2>1, <2>2
<1>10. ASSUME NEW j \in Inums, NEW s \in 0 .. MaxBlock, j # i
       PROVE  Here(r, j, s) = Here(k, j, s)
  BY <1>2, <1>8, <1>10 DEF Here
<1>11. OwnBlocks(r)
  <2> SUFFICES ASSUME NEW j \in Inums, NEW s \in 0 .. MaxBlock, Here(r, j, s) # 0
               PROVE  Here(r, j, s) \in r.fs.used /\ r.fs.data[Here(r, j, s)] \subseteq {j}
    BY DEF OwnBlocks
  <2>1. j # i
    BY <1>9
  <2>2. Here(r, j, s) = Here(k, j, s)
    BY <1>10, <2>1
  <2>3. Here(k, j, s) \in k.fs.used /\ k.fs.data[Here(k, j, s)] \subseteq {j}
    BY <1>5, <2>2 DEF OwnBlocks
  <2>4. Here(k, j, s) \notin S
    BY <1>4, <1>5, <2>1 DEF OnePlace
  <2> QED BY <1>2, <1>6, <2>2, <2>3, <2>4
<1>12. OnePlace(r)
  BY <1>5, <1>9, <1>10 DEF OnePlace
<1>13. NoneLost(r)
  <2> SUFFICES ASSUME NEW b \in r.fs.used
               PROVE  \E j \in Inums, s \in 0 .. MaxBlock : Here(r, j, s) = b
    BY DEF NoneLost
  <2>1. b \in k.fs.used /\ b \notin S
    BY <1>2, <1>6
  <2>2. b # 0
    BY <1>1, <2>1, Constants, KernelParts, FsParts
  <2>3. PICK j \in Inums, s \in 0 .. MaxBlock : Here(k, j, s) = b
    BY <1>5, <2>1 DEF NoneLost
  <2>4. j # i
    BY <1>4, <2>1, <2>2, <2>3
  <2> QED BY <1>10, <2>3, <2>4
<1>14. SavedSome(r)
  <2> SUFFICES ASSUME NEW j \in Inums, NEW s \in 0 .. NDirect
               PROVE  r.fs.ino[j].addrs[s] = 0 \/ r.fs.ino[j].addrs[s] = Latest(r, j).addrs[s]
    BY DEF SavedSome
  <2>1. CASE j = i
    <3>1. r.fs.ino[i].addrs[s] = NoAddrs[s]
      BY <1>2, <1>7
    <3> QED BY <2>1, <3>1 DEF NoAddrs
  <2>2. CASE j # i
    <3>1. k.fs.ino[j].addrs[s] = 0 \/ k.fs.ino[j].addrs[s] = Latest(k, j).addrs[s]
      BY <1>5 DEF SavedSome
    <3> QED BY <1>2, <1>8, <2>2, <3>1
  <2> QED BY <2>1, <2>2
<1>15. FreeIsBare(r)
  <2> SUFFICES ASSUME NEW j \in Inums, r.fs.ino[j].type = "none" \/ Latest(r, j).type = "none",
                      NEW s \in 0 .. MaxBlock
               PROVE  Here(r, j, s) = 0
    BY DEF FreeIsBare
  <2>1. CASE j = i
    BY <1>9, <2>1
  <2>2. CASE j # i
    <3>1. k.fs.ino[j].type = "none" \/ Latest(k, j).type = "none"
      BY <1>2, <1>8, <2>2
    <3>2. Here(k, j, s) = 0
      BY <1>5, <3>1 DEF FreeIsBare
    <3> QED BY <1>10, <2>2, <3>2
  <2> QED BY <2>1, <2>2
<1>16. BlocksFit(r)
  BY <1>11, <1>12, <1>13, <1>14, <1>15 DEF BlocksFit
<1>17. Blank(r)
  BY <1>1, <1>2, <1>3, <1>6 DEF Blank
<1>18. ASSUME NEW j \in Inums
       PROVE  /\ k.itab[j].valid => r.itab[j].valid /\ r.itab[j].copy.type = k.itab[j].copy.type
              /\ k.fs.ino[j].type # "none" => r.fs.ino[j].type # "none"
              /\ Orphan(r.fs.ino[j]) /\ j # 0 => Orphan(k.fs.ino[j]) \/ Live(r, j)
  <2>1. CASE j = i
    BY <1>2, <1>3, <1>7, <2>1 DEF Live
  <2>2. CASE j # i
    BY <1>2, <2>2
  <2> QED BY <2>1, <2>2
<1>19. Keeps(k, r, 0)
  BY <1>2, <1>16, <1>17, <1>18 DEF Keeps, Sane
<1> QED BY <1>2, <1>6, <1>9, <1>19

\* A step after one that left an inode without links.
LEMMA KeepsAfter ==
    ASSUME NEW k, NEW r, NEW t, NEW x, Keeps(k, r, x), Keeps(r, t, 0)
    PROVE  Keeps(k, t, x)
<1>1. 0 \notin Inums
  BY Constants
<1>2. ASSUME NEW j \in Inums
      PROVE  /\ k.itab[j].valid => t.itab[j].valid /\ t.itab[j].copy.type = k.itab[j].copy.type
             /\ k.fs.ino[j].type # "none" => t.fs.ino[j].type # "none"
             /\ Orphan(t.fs.ino[j]) /\ j # x => Orphan(k.fs.ino[j]) \/ Live(t, j)
  <2>1. /\ k.itab[j].valid => r.itab[j].valid /\ r.itab[j].copy.type = k.itab[j].copy.type
        /\ k.fs.ino[j].type # "none" => r.fs.ino[j].type # "none"
        /\ Orphan(r.fs.ino[j]) /\ j # x => Orphan(k.fs.ino[j]) \/ Live(r, j)
    BY DEF Keeps
  <2>2. /\ r.itab[j].valid => t.itab[j].valid /\ t.itab[j].copy.type = r.itab[j].copy.type
        /\ r.fs.ino[j].type # "none" => t.fs.ino[j].type # "none"
        /\ Orphan(t.fs.ino[j]) => Orphan(r.fs.ino[j]) \/ Live(t, j)
    BY <1>1 DEF Keeps
  <2> QED BY <2>1, <2>2 DEF Live
<1> QED BY <1>2 DEF Keeps

\* ialloc(): the new inode has no links yet.
LEMMA KeepsIalloc ==
    ASSUME NEW k, Sane(k), NEW t \in Types, t # "none",
           \A j \in Inums : k.itab[j].ref \in Nat /\ (k.itab[j].ref = 0 => ~k.itab[j].valid),
           Ialloc(k, t).i # 0
    PROVE  LET r == Ialloc(k, t)
           IN  /\ Keeps(k, r.k, r.i) /\ r.i \in Inums /\ r.k.fs.ino[r.i].type # "none"
               /\ k.fs.ino[r.i].type = "none"
<1> DEFINE free == {i \in Inums : k.fs.ino[i].type = "none"}
           x == First(free)
           d == Dinode(t, 0)
           g == [k.fs EXCEPT !.ino[x] = d]
           u == WithFs(k, g)
           r == Iget(u, x)
<1>1. k \in KernelTypes /\ BlocksFit(k) /\ Blank(k) /\ k.fs \in FsTypes
  BY KernelParts DEF Sane
<1>2. free # {}
  <2>1. [k |-> k, i |-> 0].i = 0
    OBVIOUS
  <2> QED BY <2>1 DEF Ialloc
<1>3. Ialloc(k, t) = [k |-> r, i |-> x]
  BY <1>2 DEF Ialloc
<1>4. x \in Inums /\ k.fs.ino[x].type = "none"
  <2>1. free \in SUBSET Nat
    BY Constants
  <2> HIDE DEF free
  <2>2. x \in free
    BY <1>2, <2>1, FirstFacts
  <2> QED BY <2>2 DEF free
<1>5. d \in Dinodes /\ d.type = t /\ d.addrs = NoAddrs
  BY Constants DEF Dinode, Dinodes
<1> HIDE DEF d, x
<1>g. /\ g \in FsTypes /\ g.ino[x] = d /\ \A j \in Inums : j # x => g.ino[j] = k.fs.ino[j]
      /\ g.ind = k.fs.ind /\ g.used = k.fs.used /\ g.data = k.fs.data
  BY <1>1, <1>4, <1>5, FsWithIno
<1> HIDE DEF g
<1>6. /\ u \in KernelTypes /\ u.itab = k.itab /\ u.panic = k.panic
      /\ u.fs.ino[x] = d /\ \A j \in Inums : j # x => u.fs.ino[j] = k.fs.ino[j]
      /\ u.fs.ind = k.fs.ind /\ u.fs.used = k.fs.used /\ u.fs.data = k.fs.data
  BY <1>1, <1>g, WithFsFacts
<1> HIDE DEF u
<1>7. Latest(k, x).addrs = NoAddrs
  <2>1. \A s \in 0 .. MaxBlock : Here(k, x, s) = 0
    BY <1>1, <1>4 DEF BlocksFit, FreeIsBare
  <2> QED BY <1>1, <1>4, <2>1, BareFacts, PlaceFacts
<1>8. ASSUME NEW j \in Inums
      PROVE  /\ Latest(u, j).addrs = Latest(k, j).addrs
             /\ \/ u.fs.ino[j].addrs = NoAddrs
                \/ u.fs.ino[j].addrs = k.fs.ino[j].addrs
                \/ u.fs.ino[j].addrs = Latest(k, j).addrs
             /\ u.fs.ino[j].type = "none" \/ Latest(u, j).type = "none" =>
                   k.fs.ino[j].type = "none" \/ Latest(k, j).type = "none"
  <2>1. CASE j = x
    BY <1>4, <1>5, <1>6, <1>7, <2>1 DEF Latest
  <2>2. CASE j # x
    BY <1>6, <2>2 DEF Latest
  <2> QED BY <2>1, <2>2
<1>9. ASSUME NEW j \in Inums
      PROVE  /\ k.itab[j].valid => u.itab[j].valid /\ u.itab[j].copy.type = k.itab[j].copy.type
             /\ k.fs.ino[j].type # "none" => u.fs.ino[j].type # "none"
             /\ Orphan(u.fs.ino[j]) /\ j # x => Orphan(k.fs.ino[j]) \/ Live(u, j)
  BY <1>4, <1>6
<1>10. Keeps(k, u, x)
  BY <1>6, <1>8, <1>9, KeepsNodes
<1>11. Keeps(u, r, 0)
  <2>1. Sane(u) /\ u.itab[x].ref \in Nat /\ (u.itab[x].ref = 0 => ~u.itab[x].valid)
    BY <1>4, <1>6, <1>10 DEF Keeps
  <2> QED BY <1>4, <2>1, KeepsIget
<1> HIDE DEF r
<1>12. Keeps(k, r, x)
  BY <1>10, <1>11, KeepsAfter
<1>13. r.fs.ino[x].type # "none"
  BY <1>4, <1>5, <1>6, <1>11 DEF Keeps
<1> QED BY <1>3, <1>4, <1>12, <1>13

\* A panic.
LEMMA KeepsPanic ==
    ASSUME NEW k, Sane(k), NEW m \in Messages, m # "none" PROVE Keeps(k, Panic(k, m), 0)
<1>1. k \in KernelTypes
  BY DEF Sane
<1> QED BY <1>1, PanicFacts, KeepsOther

-----------------------------------------------------------------------------
(* Steps of a process                                                      *)

\* The kernel's state between steps.
LEMMA SaneNow == ASSUME Tables, Stored PROVE Sane(K)
<1>1. K \in KernelTypes
  BY FilesTypesParts DEF Tables
<1> QED BY <1>1 DEF Stored, Sane

\* No process begins to free an inode.
NoneFreed == \A j \in Inums : BeingFreed(j)' => BeingFreed(j)

\* A step of process p, which is not freeing an inode afterwards.
LEMMA NotFreeing ==
    ASSUME Tables, NEW p \in Users, NEW m, me' = [me EXCEPT ![p] = m],
           \A j \in Inums : ilk'[j] \in {ilk[j], Nobody, p},
           \A j \in Inums : ilk'[j] = p /\ m.put # <<>> => Head(m.put) # j
    PROVE  NoneFreed
<1> SUFFICES ASSUME NEW j \in Inums, BeingFreed(j)' PROVE BeingFreed(j)
  BY DEF NoneFreed
<1> DEFINE q == ilk'[j]
<1>1. /\ me \in [Users -> MeTypes] /\ ilk[j] \in Users \union {Nobody}
  BY DEF Tables, FilesTypes
<1>2. q # Nobody /\ me'[q].put # <<>> /\ Head(me'[q].put) = j
  BY DEF BeingFreed, Frees
<1>3. q # p
  BY <1>1, <1>2
<1>4. q = ilk[j] /\ q \in Users
  BY <1>1, <1>2, <1>3
<1>5. me'[q] = me[q]
  BY <1>1, <1>3, <1>4
<1> HIDE DEF q
<1> QED BY <1>2, <1>4, <1>5 DEF BeingFreed, Frees

\* The locks that a process may have at a place of a system call.
LEMMA OnlyLock ==
    ASSUME Tables, NEW p \in Users, NEW a, At(p, a), NEW j \in Inums, ilk[j] = p
    PROVE  Locked(me[p]) = j
<1>1. LocksOK /\ ~Frees(p, j) /\ p # Nobody
  BY AtFacts, Constants
<1> QED BY <1>1 DEF LocksOK

\* The lock is kept, released or moved.
LEMMA LockFreesNot ==
    ASSUME Tables, NEW p \in Users, NEW a, At(p, a), NEW m, me' = [me EXCEPT ![p] = m],
           \/ UNCHANGED ilk /\ Locked(me[p]) = 0
           \/ UNCHANGED ilk /\ (m.put # <<>> => Head(m.put) # Locked(me[p]))
           \/ /\ m.put = <<>>
              /\ UNCHANGED ilk \/ \E i \in Inums : ilk' = Holds(p, i)
           \/ ilk' = Release({Locked(me[p])})
           \/ \E i \in Inums : /\ ilk' = [Release({Locked(me[p])}) EXCEPT ![i] = p]
                               /\ m.put # <<>> => Head(m.put) # i
    PROVE  NoneFreed
<1>1. ilk \in [Inums -> Users \union {Nobody}] /\ 0 \notin Inums /\ p # Nobody
  BY Constants DEF Tables, FilesTypes
<1>2. \A j \in Inums : ilk[j] = p => Locked(me[p]) = j
  BY OnlyLock
<1> SUFFICES \A j \in Inums : /\ ilk'[j] \in {ilk[j], Nobody, p}
                              /\ ilk'[j] = p /\ m.put # <<>> => Head(m.put) # j
  <2> HIDE DEF NoneFreed
  <2>1. \A j \in Inums : ilk'[j] \in {ilk[j], Nobody, p}
    OBVIOUS
  <2>2. \A j \in Inums : ilk'[j] = p /\ m.put # <<>> => Head(m.put) # j
    OBVIOUS
  <2> QED BY <2>1, <2>2, NotFreeing
<1> TAKE j \in Inums
<1>3. CASE UNCHANGED ilk /\ (Locked(me[p]) = 0 \/ (m.put # <<>> => Head(m.put) # Locked(me[p])))
  BY <1>1, <1>2, <1>3
<1>4. CASE m.put = <<>> /\ (UNCHANGED ilk \/ \E i \in Inums : ilk' = Holds(p, i))
  BY <1>1, <1>4 DEF Holds
<1>5. CASE ilk' = Release({Locked(me[p])})
  BY <1>1, <1>2, <1>5 DEF Release
<1>6. CASE \E i \in Inums : /\ ilk' = [Release({Locked(me[p])}) EXCEPT ![i] = p]
                            /\ m.put # <<>> => Head(m.put) # i
  BY <1>1, <1>2, <1>6 DEF Release
<1> QED BY <1>3, <1>4, <1>5, <1>6

\* A step of a process keeps the blocks if it keeps the kernel's state as it goes on. A new
\* inode is that of create(), and on the way into its directory.
LEMMA StoredStep ==
    ASSUME Tables, Stored, NEW p \in Users, NEW k, NEW m, Does(p, k, m), boot = 0, boot' = boot,
           NEW x, Keeps(K, k, x), NoneFreed,
           x # 0 => m.at = "createNew" /\ m.ip = x /\ k.fs.ino[x].type # "none",
           m.at = "createNew" => m.ip = x \/ (me[p].at = "createNew" /\ m.ip = me[p].ip),
           me[p].at = "createNew" =>
               (m.at = "createNew" /\ m.ip = me[p].ip) \/ Live(k, me[p].ip),
           disk' = disk \/ (disk' = k.fs /\ BlocksFit(Bare(k.fs))),
           \A q \in Users : q # p /\ me[q].at = "writei" => q \in inTx',
           m.at = "writei" => p \in inTx'
    PROVE  Stored'
<1>1. /\ me \in [Users -> MeTypes] /\ K.fs = fs /\ K.itab = itab
  BY FilesTypesParts DEF Tables
<1>2. /\ fs' = k.fs /\ itab' = k.itab /\ panic' = k.panic
      /\ me'[p] = m /\ \A q \in Users : q # p => me'[q] = me[q]
  BY <1>1 DEF Does
<1>3. K' = k
  <2>1. k \in KernelTypes
    BY DEF Keeps, Sane
  <2>2. k = [fs |-> k.fs, itab |-> k.itab, panic |-> k.panic]
    BY <2>1 DEF KernelTypes
  <2> QED BY <1>2, <2>2 DEF K
<1>4. BlocksFit(k) /\ Blank(k)
  BY DEF Keeps, Sane
<1>5. BlocksFit(Bare(disk'))
  BY DEF Stored
<1>6. \A q \in Users : me'[q].at = "writei" => q \in inTx'
  BY <1>2
<1>7. ASSUME NEW i \in Inums, BeingFreed(i)' PROVE Gone(k, i)
  <2>1. Gone(K, i)
    BY <1>7 DEF NoneFreed, Stored
  <2> QED BY <2>1, KeepsLive
<1>8. ASSUME NEW i \in Inums, BeingMade(i)' PROVE k.fs.ino[i].type # "none"
  <2>1. PICK q \in Users : me'[q].at = "createNew" /\ me'[q].ip = i
    BY <1>8 DEF BeingMade
  <2>2. BeingMade(i) => k.fs.ino[i].type # "none"
    BY <1>1 DEF Stored, Keeps
  <2>3. CASE me[q].at = "createNew" /\ me[q].ip = i
    BY <2>2, <2>3 DEF BeingMade
  <2>4. CASE q # p
    BY <1>2, <2>1, <2>3, <2>4
  <2>5. CASE q = p /\ m.ip = x
    BY <1>2, <2>1, <2>5, Constants
  <2> QED BY <1>2, <2>1, <2>3, <2>4, <2>5
<1>9. ASSUME NEW i \in Inums, Orphan(k.fs.ino[i]) PROVE Live(k, i) \/ BeingMade(i)'
  <2>1. CASE i = x
    <3>1. me'[p].at = "createNew" /\ me'[p].ip = i
      BY <1>2, <2>1, Constants
    <3> QED BY <3>1 DEF BeingMade
  <2>2. CASE i # x /\ ~Live(k, i)
    <3>1. Orphan(fs.ino[i]) /\ ~Live(K, i)
      BY <1>1, <1>9, <2>2, KeepsLive DEF Keeps
    <3>2. PICK q \in Users : me[q].at = "createNew" /\ me[q].ip = i
      BY <3>1 DEF Stored, Watched, BeingMade
    <3>3. me'[q].at = "createNew" /\ me'[q].ip = i
      BY <1>2, <2>2, <3>2
    <3> QED BY <3>3 DEF BeingMade
  <2> QED BY <2>1, <2>2
<1>10. Watched'
  BY <1>2, <1>3, <1>9 DEF Watched
<1> QED BY <1>2, <1>3, <1>4, <1>5, <1>6, <1>7, <1>8, <1>10 DEF Stored

\* Most steps make no inode, neither begin nor end a transaction, and do not write.
LEMMA CalmStep ==
    ASSUME Tables, Stored, NEW p \in Users, NEW a, At(p, a), NEW k, NEW m, Does(p, k, m),
           Keeps(K, k, 0), NoneFreed, UNCHANGED <<disk, boot>>,
           inTx \subseteq inTx', m.at \notin {"createNew", "writei"},
           a = "createNew" => Live(k, me[p].ip)
    PROVE  Stored'
<1>1. boot = 0 /\ me[p].at = a
  BY AtFacts
<1>2. \A q \in Users : me[q].at = "writei" => q \in inTx'
  BY DEF Stored
<1> QED BY <1>1, <1>2, StoredStep

\* A process acquires a lock that is free: the inode is in memory, or there is a panic.
LEMMA LockedNow ==
    ASSUME Tables, Stored, panic = "none", NEW i \in Inums, FreeLock(i)
    PROVE  LET k == Ilock(K, i)
           IN  /\ Keeps(K, k, 0) /\ Sane(k) /\ Ready(k, i) /\ k.fs = fs
               /\ fs.ino[i].type # "none" => Live(k, i)
               /\ k.panic = "none" => Live(k, i)
<1> DEFINE k == Ilock(K, i)
<1>1. Sane(K) /\ K \in KernelTypes /\ K.fs = fs /\ K.itab = itab /\ K.panic = panic
  BY SaneNow, FilesTypesParts DEF Tables
<1>2. Keeps(K, k, 0)
  BY <1>1, KeepsIlock
<1>3. /\ k.fs = fs
      /\ itab[i].valid => k = K
      /\ ~itab[i].valid /\ fs.ino[i].type = "none" => k.panic = "ilock" /\ k.itab = itab
      /\ ~itab[i].valid /\ fs.ino[i].type # "none"
           => /\ k.panic = panic /\ k.itab[i].valid /\ k.itab[i].copy = fs.ino[i]
  BY <1>1, IlockFacts
<1>4. Sane(k)
  BY <1>2 DEF Keeps
<1> SUFFICES /\ Ready(k, i) /\ (fs.ino[i].type # "none" => Live(k, i))
             /\ k.panic = "none" => Live(k, i)
  BY <1>2, <1>3, <1>4
<1> HIDE DEF k
<1>5. CASE itab[i].valid
  <2>1. CopyOK(i) /\ ~BeingFreed(i)
    BY DEF Tables, CopiesOK, BeingFreed, FreeLock
  <2>2. itab[i].copy.type = fs.ino[i].type /\ fs.ino[i].type # "none"
    BY <1>5, <2>1 DEF CopyOK
  <2>3. Live(k, i)
    BY <1>1, <1>3, <1>5, <2>2 DEF Live
  <2> QED BY <2>3 DEF Ready
<1>6. CASE ~itab[i].valid /\ fs.ino[i].type = "none"
  <2>1. itab[i].copy = FreeInode
    BY <1>1, <1>6 DEF Stored, Blank
  <2> QED BY <1>3, <1>6, <2>1 DEF Ready
<1>7. CASE ~itab[i].valid /\ fs.ino[i].type # "none"
  <2>1. Live(k, i)
    BY <1>3, <1>7 DEF Live
  <2> QED BY <2>1 DEF Ready
<1> QED BY <1>5, <1>6, <1>7

\* An inode that a process has locked is in memory.
LEMMA HeldLive ==
    ASSUME Tables, NEW p \in Users, NEW a, At(p, a), Locked(me[p]) # 0
    PROVE  /\ Locked(me[p]) \in Inums /\ Live(K, Locked(me[p]))
<1>1. K.itab = itab /\ K.fs = fs /\ K \in KernelTypes
  BY AtFacts
<1> QED BY <1>1, Held DEF Live, Ip

-----------------------------------------------------------------------------
(* The blocks stay where they are                                          *)

\* The places where a process has no lock.
Unlocked == {"user", "end", "walk", "linkOld", "linkNew", "linkBad", "unlink", "create",
             "createOld", "read", "rdwr", "trunc", "chdir", "chdirEnd", "writeOp"}

\* From there it goes on without one, or acquires one and has no iput() to do.
LEMMA LooseFreesNot ==
    ASSUME Tables, NEW p \in Users, NEW a \in Unlocked, At(p, a), NEW m,
           me' = [me EXCEPT ![p] = m],
           \/ UNCHANGED ilk
           \/ m.put = <<>> /\ \E i \in Inums : ilk' = Holds(p, i)
    PROVE  NoneFreed
<1>1. me[p].at = a
  BY AtFacts
<1>2. Locked(me[p]) = 0
  BY <1>1 DEF Locked, Unlocked
<1> QED BY <1>2, LockFreesNot

\* So such a step keeps the blocks if it keeps the kernel's state as it goes on.
LEMMA LooseStep ==
    ASSUME Tables, Stored, NEW p \in Users, NEW a \in Unlocked, At(p, a), NEW k, NEW m,
           Does(p, k, m), Keeps(K, k, 0),
           \/ UNCHANGED ilk
           \/ m.put = <<>> /\ \E i \in Inums : ilk' = Holds(p, i),
           UNCHANGED <<disk, boot>>, inTx \subseteq inTx', m.at \notin {"createNew", "writei"}
    PROVE  Stored'
<1>1. NoneFreed
  BY LooseFreesNot DEF Does
<1>2. a # "createNew"
  BY DEF Unlocked
<1> QED BY <1>1, <1>2, CalmStep

\* What Rest leaves alone.
LEMMA RestSame == ASSUME Rest PROVE UNCHANGED <<disk, boot>> /\ inTx \subseteq inTx'
  BY DEF Rest

\* An inode is fetched, and then another referenced.
LEMMA KeepsLockGet ==
    ASSUME Tables, Stored, NEW p \in Users, NEW a, At(p, a), a # "writei", NEW i \in Inums,
           FreeLock(i), \/ a \in IpPlaces /\ i = me[p].ip
                        \/ a \in DpPlaces /\ i = me[p].dp
    PROVE  LET k == Ilock(K, i)
           IN  /\ Keeps(K, k, 0) /\ Sane(k) /\ Ready(k, i) /\ k.fs = fs
               /\ fs.ino[i].type # "none" => Live(k, i)
               /\ k.panic = "none" => Live(k, i)
               /\ \A j \in Inums : k.itab[j].ref \in Nat /\ (k.itab[j].ref = 0 => ~k.itab[j].valid)
               /\ \A j \in Inums : Keeps(K, Iget(k, j), 0)
<1> DEFINE k == Ilock(K, i)
<1>1. panic = "none"
  BY AtFacts
<1>2. /\ Keeps(K, k, 0) /\ Sane(k) /\ Ready(k, i) /\ k.fs = fs
      /\ fs.ino[i].type # "none" => Live(k, i)
      /\ k.panic = "none" => Live(k, i)
  BY <1>1, LockedNow
<1>3. Mine(p, k)
  BY Locks
<1> HIDE DEF k
<1>4. \A j \in Inums : k.itab[j].ref \in Nat /\ (k.itab[j].ref = 0 => ~k.itab[j].valid)
  BY <1>3 DEF Mine
<1>5. \A j \in Inums : Keeps(K, Iget(k, j), 0)
  BY <1>2, <1>4, KeepsIget, KeepsTwice
<1> QED BY <1>2, <1>4, <1>5 DEF k

\* Begin keeps the blocks.
LEMMA BeginStored ==
    ASSUME Tables, Stored, NEW p \in Users, NEW c \in Calls, Begin(p, c)
    PROVE  Stored'
<1> DEFINE k == Iget(K, cwd[p])
           m == [Idle EXCEPT !.at = "walk", !.call = c, !.path = c.path, !.ip = cwd[p]]
<1>1. /\ At(p, "user") /\ Does(p, k, m) /\ UNCHANGED <<disk, boot, ilk>>
      /\ inTx \subseteq inTx'
  BY DEF Begin
<1>2. /\ cwd[p] \in Inums /\ K.itab = itab
      /\ \A i \in Inums : itab[i].ref \in Nat /\ (itab[i].ref = 0 => ~itab[i].valid)
  BY <1>1, AtFacts
<1>3. Keeps(K, k, 0)
  BY <1>2, SaneNow, KeepsIget
<1>4. m.at = "walk"
  BY DEF Idle
<1> HIDE DEF k, m
<1> QED BY <1>1, <1>3, <1>4, LooseStep DEF Unlocked

\* WalkEnd keeps the blocks.
LEMMA WalkEndStored == ASSUME Tables, Stored, NEW p \in Users, WalkEnd(p) PROVE Stored'
<1> DEFINE s == <<me[p].ip>>
           m1 == Then(p, Missing(me[p]), s)
           m2 == Moved(me[p], Found(me[p]))
           m == IF WantsParent(me[p]) THEN m1 ELSE m2
<1>1. /\ At(p, "walk") /\ Rest /\ UNCHANGED ilk /\ me[p].path = <<>>
      /\ Does(p, K, m)
  BY DEF WalkEnd, Moved
<1>2. Keeps(K, K, 0)
  BY SaneNow, KeepsSame
<1>3. m1.at \in {"end", "linkBad"}
  BY <1>1, MissingFacts
<1>4. ~WantsParent(me[p]) => m2.at \notin {"createNew", "writei"}
  <2>1. me[p] \in MeTypes /\ me[p].call.op \in PathOps
    BY <1>1, AtFacts, WalkFacts
  <2>2. Found(me[p]) \notin {"createNew", "writei"}
    BY <2>1 DEF Found, PathOps
  <2> QED BY <2>1, <2>2 DEF Moved, MeTypes
<1>5. m.at \notin {"createNew", "writei"}
  BY <1>3, <1>4
<1> HIDE DEF m
<1> QED BY <1>1, <1>2, <1>5, LooseStep, RestSame DEF Unlocked

\* Walk keeps the blocks.
LEMMA WalkStored == ASSUME Tables, Stored, NEW p \in Users, Walk(p) PROVE Stored'
<1> DEFINE i == me[p].ip
           k == Ilock(K, i)
           next == Dirlookup(k, i, Head(me[p].path))
           n == me[p]
           m1 == Then(p, Missing(me[p]), <<i>>)
           m2 == Moved(me[p], Found(me[p]))
           m3 == [n EXCEPT !.ip = next, !.path = Tail(@), !.put = <<i>>]
<1>1. /\ At(p, "walk") /\ me[p].path # <<>> /\ FreeLock(i) /\ Rest /\ UNCHANGED ilk
      /\ \/ Does(p, k, m1)
         \/ Does(p, k, m2)
         \/ next # 0 /\ Does(p, Iget(k, next), m3)
  BY DEF Walk, Moved
<1>2. /\ me[p] \in MeTypes /\ i \in Inums /\ me[p].call.op \in PathOps /\ me[p].at = "walk"
  BY <1>1, AtFacts, WalkFacts
<1>3. /\ Keeps(K, k, 0) /\ k.fs = fs /\ \A j \in Inums : Keeps(K, Iget(k, j), 0)
  BY <1>1, <1>2, KeepsLockGet DEF IpPlaces
<1>4. m1.at \in {"end", "linkBad"}
  BY <1>1, MissingFacts
<1>5. m2.at \notin {"createNew", "writei"}
  <2>1. Found(me[p]) \notin {"createNew", "writei"}
    BY <1>2 DEF Found, PathOps
  <2> QED BY <1>2, <2>1 DEF Moved, MeTypes
<1>6. m3.at = "walk"
  BY <1>2 DEF MeTypes
<1>7. next \in Inums \union {0}
  <2>1. Head(me[p].path) \in Entries
    BY <1>1, <1>2 DEF MeTypes
  <2>2. fs.ents[i] \in [Entries -> Inums \union {0}]
    BY <1>1, <1>2, AtFacts, KernelParts
  <2> HIDE DEF k, i
  <2> QED BY <1>3, <2>1, <2>2 DEF Dirlookup
<1> HIDE DEF k, m1, m2, m3, next
<1>8. UNCHANGED <<disk, boot>> /\ inTx \subseteq inTx' /\ "walk" \in Unlocked
  BY <1>1, RestSame DEF Unlocked
<1>9. CASE Does(p, k, m1)
  BY <1>1, <1>3, <1>4, <1>8, <1>9, LooseStep
<1>10. CASE Does(p, k, m2)
  BY <1>1, <1>3, <1>5, <1>8, <1>10, LooseStep
<1>11. CASE next # 0 /\ Does(p, Iget(k, next), m3)
  BY <1>1, <1>3, <1>6, <1>7, <1>8, <1>11, LooseStep
<1> QED BY <1>1, <1>9, <1>10, <1>11

\* Where a call goes on.
LEMMA ThenAt ==
    ASSUME NEW p, me[p] \in MeTypes, NEW a, NEW s
    PROVE  Then(p, a, s).at = a /\ Then(p, a, s).put = s
  BY DEF Then, Idle, MeTypes

\* A link count is saved.
LEMMA KeepsLinks ==
    ASSUME NEW k, Sane(k), NEW i \in Inums, Ready(k, i), NEW n \in Int
    PROVE  Keeps(k, Iupdate(k, i, WithLinks(Ip(k, i), n)), 0)
<1> DEFINE d == WithLinks(Ip(k, i), n)
<1>1. Ip(k, i) \in Dinodes
  BY ReadyFacts
<1>2. d \in Dinodes /\ d.type = Ip(k, i).type /\ d.addrs = Ip(k, i).addrs
  BY <1>1, WithLinksFacts
<1> HIDE DEF d
<1> QED BY <1>2, KeepsIupdate DEF d

\* LinkOld keeps the blocks.
LEMMA LinkOldStored == ASSUME Tables, Stored, NEW p \in Users, LinkOld(p) PROVE Stored'
<1> DEFINE i == me[p].ip
           k == Ilock(K, i)
           n == Ip(k, i).nlink + 1
           d == WithLinks(Ip(k, i), n)
           u == Iupdate(k, i, d)
           r == Iget(u, cwd[p])
           m1 == Then(p, "end", <<i>>)
           m2 == [me[p] EXCEPT !.at = "walk", !.dp = i, !.ip = cwd[p], !.path = me[p].call.new]
<1>1. /\ At(p, "linkOld") /\ FreeLock(i) /\ Rest /\ UNCHANGED ilk
      /\ \/ Does(p, k, m1)
         \/ Does(p, r, m2)
  BY DEF LinkOld, WithLinks
<1>2. me[p] \in MeTypes /\ i \in Inums /\ cwd[p] \in Inums
  BY <1>1, AtFacts, InHand DEF IpPlaces
<1>3. /\ Keeps(K, k, 0) /\ Sane(k) /\ Ready(k, i)
      /\ \A j \in Inums : k.itab[j].ref \in Nat /\ (k.itab[j].ref = 0 => ~k.itab[j].valid)
  BY <1>1, <1>2, KeepsLockGet DEF IpPlaces
<1>4. m1.at = "end" /\ m2.at = "walk"
  BY <1>2, ThenAt DEF MeTypes
<1>5. Ip(k, i) \in Dinodes /\ n \in Int
  <2>1. Ip(k, i) \in Dinodes
    BY <1>2, <1>3, ReadyFacts
  <2> QED BY <2>1, DinodeParts
<1> HIDE DEF n, m1, m2, k, i
<1>6. Keeps(k, u, 0) /\ Sane(u)
  <2>1. Keeps(k, u, 0)
    BY <1>2, <1>3, <1>5, KeepsLinks
  <2> QED BY <2>1 DEF Keeps
<1>7. \A j \in Inums : u.itab[j].ref = k.itab[j].ref /\ u.itab[j].valid = k.itab[j].valid
  <2>1. d \in Dinodes /\ k \in KernelTypes
    BY <1>3, <1>5, WithLinksFacts DEF Sane
  <2> HIDE DEF d
  <2>2. /\ u.itab[i].ref = k.itab[i].ref /\ u.itab[i].valid = k.itab[i].valid
        /\ \A j \in Inums : j # i => u.itab[j] = k.itab[j]
    BY <1>2, <2>1, IupdateFacts
  <2> HIDE DEF u
  <2> QED BY <2>2
<1> HIDE DEF u
<1>8. Keeps(K, r, 0)
  <2>1. Keeps(u, r, 0)
    BY <1>2, <1>3, <1>6, <1>7, KeepsIget
  <2> HIDE DEF r
  <2> QED BY <1>3, <1>6, <2>1, KeepsTwice
<1> HIDE DEF r
<1>9. "linkOld" \in Unlocked /\ UNCHANGED <<disk, boot>> /\ inTx \subseteq inTx'
  BY <1>1, RestSame DEF Unlocked
<1> QED BY <1>1, <1>3, <1>4, <1>8, <1>9, LooseStep

\* LinkNew keeps the blocks: the directory is in memory.
LEMMA LinkNewStored ==
    ASSUME Tables, Ordered, Stored, NEW p \in Users, LinkNew(p)
    PROVE  Stored'
<1> DEFINE d == me[p].ip
           i == me[p].dp
           k == Ilock(K, d)
           old == Dirlookup(k, d, LastName(p))
           r == Dirlink(k, d, LastName(p), i)
           m1 == Then(p, "linkBad", <<old, d>>)
           m2 == Then(p, "end", <<d, i>>)
           m3 == Then(p, "linkBad", <<d>>)
<1>1. /\ At(p, "linkNew") /\ FreeLock(d) /\ Rest /\ UNCHANGED ilk
      /\ \/ old # 0 /\ Does(p, Iget(k, old), m1)
         \/ Does(p, r.k, m2)
         \/ Does(p, r.k, m3)
  BY DEF LinkNew, Linked
<1>2. me[p] \in MeTypes /\ d \in Inums /\ i \in Inums \union {0} /\ LastName(p) \in Entries
  BY <1>1, AtFacts, InHand, LastNameType DEF IpPlaces, DpPlaces
<1>3. fs.ino[d].type = "dir"
  BY <1>1, AtPlace DEF PlaceOK, FromDir
<1>4. /\ Keeps(K, k, 0) /\ Sane(k) /\ Live(k, d) /\ k.fs = fs
      /\ \A j \in Inums : Keeps(K, Iget(k, j), 0)
  BY <1>1, <1>2, <1>3, KeepsLockGet DEF IpPlaces
<1>5. m1.at = "linkBad" /\ m2.at = "end" /\ m3.at = "linkBad"
  BY <1>2, ThenAt
<1>6. old \in Inums \union {0}
  <2>1. fs.ents[d] \in [Entries -> Inums \union {0}]
    BY <1>1, <1>2, AtFacts, KernelParts
  <2> HIDE DEF k, d
  <2> QED BY <1>2, <1>4, <2>1 DEF Dirlookup
<1> HIDE DEF m1, m2, m3, k, i, d, old
<1>7. Keeps(K, r.k, 0)
  <2>1. Keeps(k, r.k, 0)
    BY <1>2, <1>4, KeepsDirlink
  <2> HIDE DEF r
  <2> QED BY <1>4, <2>1, KeepsTwice
<1> HIDE DEF r
<1>8. "linkNew" \in Unlocked /\ UNCHANGED <<disk, boot>> /\ inTx \subseteq inTx'
  BY <1>1, RestSame DEF Unlocked
<1>9. PICK q, m : Does(p, q, m) /\ Keeps(K, q, 0) /\ m.at \in {"linkBad", "end"}
  BY <1>1, <1>4, <1>5, <1>6, <1>7
<1> QED BY <1>1, <1>8, <1>9, LooseStep

\* LinkBad keeps the blocks.
LEMMA LinkBadStored == ASSUME Tables, Stored, NEW p \in Users, LinkBad(p) PROVE Stored'
<1> DEFINE i == me[p].dp
           k == Ilock(K, i)
           n == Ip(k, i).nlink - 1
           u == Iupdate(k, i, WithLinks(Ip(k, i), n))
           m == Then(p, "end", <<i>>)
<1>1. At(p, "linkBad") /\ FreeLock(i) /\ Rest /\ UNCHANGED ilk /\ Does(p, u, m)
  BY DEF LinkBad, WithLinks, LinkBack
<1>2. me[p] \in MeTypes /\ i \in Inums
  BY <1>1, AtFacts, InHand DEF DpPlaces
<1>3. Keeps(K, k, 0) /\ Sane(k) /\ Ready(k, i)
  BY <1>1, <1>2, KeepsLockGet DEF DpPlaces
<1>4. m.at = "end"
  BY <1>2, ThenAt
<1>5. n \in Int
  <2>1. Ip(k, i) \in Dinodes
    BY <1>2, <1>3, ReadyFacts
  <2> QED BY <2>1, DinodeParts
<1> HIDE DEF n, m, k, i
<1>6. Keeps(k, u, 0)
  BY <1>2, <1>3, <1>5, KeepsLinks
<1> HIDE DEF u
<1>7. Keeps(K, u, 0)
  BY <1>3, <1>6, KeepsTwice
<1>8. "linkBad" \in Unlocked /\ UNCHANGED <<disk, boot>> /\ inTx \subseteq inTx'
  BY <1>1, RestSame DEF Unlocked
<1> QED BY <1>1, <1>4, <1>7, <1>8, LooseStep

\* Unlink keeps the blocks.
LEMMA UnlinkStored == ASSUME Tables, Stored, NEW p \in Users, Unlink(p) PROVE Stored'
<1> DEFINE d == me[p].ip
           k == Ilock(K, d)
           i == Dirlookup(k, d, LastName(p))
           m1 == Then(p, "end", <<d>>)
           m2 == Taking(me[p], "unlinkChild", d, i)
<1>1. /\ At(p, "unlink") /\ FreeLock(d) /\ Rest
      /\ \/ Does(p, k, m1) /\ UNCHANGED ilk
         \/ i # 0 /\ Does(p, Iget(k, i), m2) /\ ilk' = Holds(p, d)
  BY DEF Unlink, Taking
<1>2. /\ me[p] \in MeTypes /\ d \in Inums /\ LastName(p) \in Entries
      /\ me[p].put = <<>>
  BY <1>1, AtFacts, InHand, LastNameType DEF IpPlaces
<1>3. /\ Keeps(K, k, 0) /\ k.fs = fs /\ \A j \in Inums : Keeps(K, Iget(k, j), 0)
  BY <1>1, <1>2, KeepsLockGet DEF IpPlaces
<1>4. i \in Inums \union {0}
  <2>1. fs.ents[d] \in [Entries -> Inums \union {0}]
    BY <1>1, <1>2, AtFacts, KernelParts
  <2> HIDE DEF k, d
  <2> QED BY <1>2, <1>3, <2>1 DEF Dirlookup
<1> HIDE DEF k, i, d
<1>5. m1.at = "end" /\ m2.at = "unlinkChild" /\ m2.put = <<>>
  BY <1>2, ThenAt DEF Taking, MeTypes
<1> HIDE DEF m1, m2
<1>6. "unlink" \in Unlocked /\ UNCHANGED <<disk, boot>> /\ inTx \subseteq inTx'
  BY <1>1, RestSame DEF Unlocked
<1>7. CASE Does(p, k, m1) /\ UNCHANGED ilk
  BY <1>1, <1>3, <1>5, <1>6, <1>7, LooseStep
<1>8. CASE i # 0 /\ Does(p, Iget(k, i), m2) /\ ilk' = Holds(p, d)
  <2>1. Keeps(K, Iget(k, i), 0) /\ \E j \in Inums : ilk' = Holds(p, j)
    BY <1>2, <1>3, <1>4, <1>8
  <2> QED BY <1>1, <1>5, <1>6, <1>8, <2>1, LooseStep
<1> QED BY <1>1, <1>7, <1>8

\* A process that looks at its inode, and keeps the lock or not, keeps the blocks.
LEMMA LooksStored ==
    ASSUME Tables, Stored, NEW p \in Users, NEW a \in Unlocked, At(p, a), a \in IpPlaces,
           FreeLock(me[p].ip), Rest,
           \/ /\ \/ \E s : Does(p, Ilock(K, me[p].ip), Then(p, "end", s))
                 \/ \E s : Does(p, Ilock(K, me[p].ip), Then(p, "chdirEnd", s))
              /\ UNCHANGED ilk
           \/ /\ Does(p, Ilock(K, me[p].ip), Then(p, "openFile", <<>>))
              /\ ilk' = Holds(p, me[p].ip)
    PROVE  Stored'
<1> DEFINE i == me[p].ip
           k == Ilock(K, i)
<1>1. me[p] \in MeTypes /\ i \in Inums /\ a # "writei"
  BY AtFacts, InHand DEF Unlocked
<1>2. Keeps(K, k, 0)
  BY <1>1, KeepsLockGet
<1>3. UNCHANGED <<disk, boot>> /\ inTx \subseteq inTx'
  BY RestSame
<1>4. PICK m : /\ Does(p, k, m) /\ m.at \in {"end", "chdirEnd", "openFile"}
               /\ UNCHANGED ilk \/ (m.put = <<>> /\ \E j \in Inums : ilk' = Holds(p, j))
  <2>1. CASE \E s : Does(p, k, Then(p, "end", s)) /\ UNCHANGED ilk
    BY <1>1, <2>1, ThenAt
  <2>2. CASE \E s : Does(p, k, Then(p, "chdirEnd", s)) /\ UNCHANGED ilk
    BY <1>1, <2>2, ThenAt
  <2>3. CASE Does(p, k, Then(p, "openFile", <<>>)) /\ ilk' = Holds(p, i)
    BY <1>1, <2>3, ThenAt
  <2> QED BY <2>1, <2>2, <2>3
<1> HIDE DEF k, i
<1> QED BY <1>2, <1>3, <1>4, LooseStep

\* CreateOld, Open and Chdir keep the blocks.
LEMMA LookStored ==
    ASSUME Tables, Stored, NEW p \in Users, CreateOld(p) \/ Open(p) \/ Chdir(p)
    PROVE  Stored'
<1>1. CASE CreateOld(p)
  <2>1. At(p, "createOld") /\ "createOld" \in Unlocked /\ "createOld" \in IpPlaces
    BY <1>1 DEF CreateOld, IpPlaces, Unlocked
  <2> QED BY <1>1, <2>1, LooksStored DEF CreateOld
<1>2. CASE Open(p)
  <2>1. At(p, me[p].at) /\ me[p].at \in Unlocked /\ me[p].at \in IpPlaces
    BY <1>2 DEF Open, IpPlaces, Unlocked
  <2> QED BY <1>2, <2>1, LooksStored DEF Open
<1>3. CASE Chdir(p)
  <2>1. At(p, "chdir") /\ "chdir" \in Unlocked /\ "chdir" \in IpPlaces
    BY <1>3 DEF Chdir, IpPlaces, Unlocked
  <2> QED BY <1>3, <2>1, LooksStored DEF Chdir
<1> QED BY <1>1, <1>2, <1>3

\* A step that changes nothing of the kernel's state.
LEMMA StayStored ==
    ASSUME Tables, Stored, NEW p \in Users, NEW a \in Unlocked, At(p, a), NEW m,
           me' = [me EXCEPT ![p] = m], UNCHANGED <<fs, itab, panic, ilk, disk, boot>>,
           inTx \subseteq inTx', m.at \notin {"createNew", "writei"}
    PROVE  Stored'
<1>1. Does(p, K, m)
  BY DEF Does, K
<1>2. Keeps(K, K, 0)
  BY SaneNow, KeepsSame
<1> QED BY <1>1, <1>2, LooseStep

\* Close keeps the blocks.
LEMMA CloseStored ==
    ASSUME Tables, Stored, NEW p \in Users, NEW d \in 1 .. NOFile, Close(p, d)
    PROVE  Stored'
<1> DEFINE m == Then(p, "end", <<ftable[ofile[p][d]].ip>>)
<1>1. /\ At(p, "user") /\ UNCHANGED <<fs, itab, panic, ilk, disk, boot>>
      /\ inTx \subseteq inTx' /\ (me' = me \/ me' = [me EXCEPT ![p] = m])
  BY DEF Close
<1>2. me[p] \in MeTypes /\ me[p].at = "user" /\ me \in [Users -> MeTypes]
  BY <1>1, AtFacts DEF FilesTypes
<1>3. m.at = "end"
  BY <1>2, ThenAt
<1> HIDE DEF m
<1>4. PICK n : me' = [me EXCEPT ![p] = n] /\ n.at \in {"end", "user"}
  <2>1. CASE me' = me
    <3>1. me' = [me EXCEPT ![p] = me[p]]
      BY <1>2, <2>1
    <3> QED BY <1>2, <3>1
  <2>2. CASE me' = [me EXCEPT ![p] = m]
    BY <1>3, <2>2
  <2> QED BY <1>1, <2>1, <2>2
<1> QED BY <1>1, <1>4, StayStored DEF Unlocked

\* Dup keeps the blocks.
LEMMA DupStored ==
    ASSUME Tables, Stored, NEW p \in Users, NEW d \in 1 .. NOFile, Dup(p, d)
    PROVE  Stored'
<1>1. /\ At(p, "user") /\ UNCHANGED <<fs, itab, panic, ilk, disk, boot, inTx, me>>
  BY DEF Dup
<1>2. me[p].at = "user" /\ me \in [Users -> MeTypes]
  BY <1>1, AtFacts DEF FilesTypes
<1>3. me' = [me EXCEPT ![p] = me[p]] /\ inTx \subseteq inTx'
  BY <1>1, <1>2
<1> QED BY <1>1, <1>2, <1>3, StayStored DEF Unlocked

\* Read keeps the blocks.
LEMMA ReadStored ==
    ASSUME Tables, Stored, NEW p \in Users, NEW d \in 1 .. NOFile, Read(p, d)
    PROVE  Stored'
<1> DEFINE i == ftable[ofile[p][d]].ip
           k == Ilock(K, i)
<1>1. /\ At(p, "user") /\ Argfd(p, d) /\ UNCHANGED <<disk, boot, ilk, inTx>> /\ FreeLock(i)
      /\ Does(p, k, me[p])
  BY DEF Read
<1>2. me[p].at = "user" /\ i \in Inums /\ panic = "none"
  BY <1>1, AtFacts, OpenFacts
<1>3. Keeps(K, k, 0)
  BY <1>1, <1>2, LockedNow
<1> HIDE DEF i, k
<1>4. inTx \subseteq inTx' /\ "user" \in Unlocked
  BY <1>1 DEF Unlocked
<1> QED BY <1>1, <1>2, <1>3, <1>4, LooseStep

\* Write keeps the blocks: nothing is written yet.
LEMMA WriteStored ==
    ASSUME Tables, Stored, NEW p \in Users, NEW d \in 1 .. NOFile, NEW n \in WriteSizes,
           Write(p, d, n)
    PROVE  Stored'
<1> DEFINE m == Writing(ftable[ofile[p][d]].ip, d, n)
<1>1. /\ At(p, "user") /\ UNCHANGED <<fs, itab, panic, ilk, disk, boot, inTx>>
      /\ me' = [me EXCEPT ![p] = m]
  BY DEF Write, Writing
<1>2. m.at = "writeOp" /\ inTx \subseteq inTx'
  BY <1>1 DEF Writing, Idle
<1> HIDE DEF m
<1> QED BY <1>1, <1>2, StayStored DEF Unlocked

\* ChdirEnd keeps the blocks.
LEMMA ChdirEndStored == ASSUME Tables, Stored, NEW p \in Users, ChdirEnd(p) PROVE Stored'
<1> DEFINE m == Then(p, "end", <<>>)
<1>1. /\ At(p, "chdirEnd") /\ UNCHANGED <<fs, itab, panic, ilk>> /\ Rest
      /\ me' = [me EXCEPT ![p] = m]
  BY DEF ChdirEnd
<1>2. me[p] \in MeTypes
  BY <1>1, AtFacts
<1>3. m.at = "end"
  BY <1>2, ThenAt
<1> HIDE DEF m
<1> QED BY <1>1, <1>3, StayStored, RestSame DEF Unlocked

\* WriteOp keeps the blocks: who writes is in a transaction.
LEMMA WriteOpStored == ASSUME Tables, Stored, NEW p \in Users, WriteOp(p) PROVE Stored'
<1> DEFINE i == me[p].ip
           n == Smaller(me[p].left, WriteMax)
           k == Ilock(K, i)
           m == [me[p] EXCEPT !.at = "writei", !.left = @ - n, !.now = n]
<1>1. /\ At(p, "writeOp") /\ FreeLock(i) /\ UNCHANGED <<disk, boot>>
      /\ inTx' = inTx \union {p} /\ ilk' = Holds(p, i) /\ Does(p, k, m)
  BY DEF WriteOp
<1>2. /\ me[p] \in MeTypes /\ me[p].at = "writeOp" /\ me[p].put = <<>> /\ i \in Inums
      /\ panic = "none" /\ boot = 0
  BY <1>1, AtFacts, WriterFacts
<1>3. Keeps(K, k, 0)
  BY <1>1, <1>2, LockedNow
<1>4. m.at = "writei" /\ m.put = <<>>
  BY <1>2 DEF MeTypes
<1> HIDE DEF m, k, i
<1>5. NoneFreed
  <2>1. me' = [me EXCEPT ![p] = m] /\ "writeOp" \in Unlocked
    BY <1>1 DEF Does, Unlocked
  <2>2. \E j \in Inums : ilk' = Holds(p, j)
    BY <1>1, <1>2
  <2> QED BY <1>1, <1>4, <2>1, <2>2, LooseFreesNot
<1>6. \A q \in Users : me[q].at = "writei" => q \in inTx'
  BY <1>1 DEF Stored
<1> QED BY <1>1, <1>2, <1>3, <1>4, <1>5, <1>6, StoredStep

\* A step that gives up the lock of its place.
LEMMA ReleasesStored ==
    ASSUME Tables, Stored, NEW p \in Users, NEW a, At(p, a), NEW k, NEW m, Does(p, k, m),
           Keeps(K, k, 0), ilk' = Release({Locked(me[p])}), Rest,
           m.at \notin {"createNew", "writei"}, a # "createNew"
    PROVE  Stored'
<1>1. NoneFreed
  BY LockFreesNot DEF Does
<1> QED BY <1>1, CalmStep, RestSame

\* CreateFail and Made keep the blocks.
LEMMA CreateFailStored == ASSUME Tables, Stored, NEW p \in Users, CreateFail(p) PROVE Stored'
<1> DEFINE m == Then(p, "end", <<me[p].dp>>)
<1>1. At(p, "createFail") /\ Does(p, K, m) /\ ilk' = Release({me[p].dp}) /\ Rest
  BY DEF CreateFail
<1>2. me[p] \in MeTypes /\ me[p].at = "createFail"
  BY <1>1, AtFacts
<1>3. m.at = "end" /\ Locked(me[p]) = me[p].dp
  BY <1>2, ThenAt DEF Locked
<1>4. Keeps(K, K, 0)
  BY SaneNow, KeepsSame
<1> HIDE DEF m
<1> QED BY <1>1, <1>3, <1>4, ReleasesStored

\* Made keeps the blocks.
LEMMA MadeStored == ASSUME Tables, Stored, NEW p \in Users, Made(p) PROVE Stored'
<1> DEFINE m == Then(p, "end", <<me[p].ip>>)
<1>1. At(p, "made") /\ Does(p, K, m) /\ ilk' = Release({me[p].ip}) /\ Rest
  BY DEF Made
<1>2. me[p] \in MeTypes /\ me[p].at = "made"
  BY <1>1, AtFacts
<1>3. m.at = "end" /\ Locked(me[p]) = me[p].ip
  BY <1>2, ThenAt DEF Locked
<1>4. Keeps(K, K, 0)
  BY SaneNow, KeepsSame
<1> HIDE DEF m
<1> QED BY <1>1, <1>3, <1>4, ReleasesStored

\* UnlinkLast keeps the blocks: an inode that lost its last link is in memory.
LEMMA UnlinkLastStored == ASSUME Tables, Stored, NEW p \in Users, UnlinkLast(p) PROVE Stored'
<1> DEFINE i == me[p].ip
           n == Ip(K, i).nlink - 1
           u == Iupdate(K, i, WithLinks(Ip(K, i), n))
           m == Then(p, "end", <<i>>)
<1>1. At(p, "unlinkLast") /\ Rest /\ ilk' = Release({i}) /\ Does(p, u, m)
  BY DEF UnlinkLast, WithLinks
<1>2. me[p] \in MeTypes /\ me[p].at = "unlinkLast" /\ i \in Inums
  BY <1>1, AtFacts, InHand DEF IpPlaces
<1>3. Locked(me[p]) = i /\ i # 0
  BY <1>2, Constants DEF Locked
<1>4. Live(K, i)
  BY <1>1, <1>3, HeldLive
<1>5. Sane(K) /\ Ready(K, i)
  BY <1>4, SaneNow DEF Ready
<1>6. n \in Int
  <2>1. Ip(K, i) \in Dinodes
    BY <1>2, <1>5, ReadyFacts
  <2> QED BY <2>1, DinodeParts
<1>7. m.at = "end"
  BY <1>2, ThenAt
<1> HIDE DEF n, m, i
<1>8. Keeps(K, u, 0)
  BY <1>2, <1>5, <1>6, KeepsLinks
<1> HIDE DEF u
<1> QED BY <1>1, <1>3, <1>7, <1>8, ReleasesStored

\* OpenFile keeps the blocks, also when it truncates.
LEMMA OpenFileStored == ASSUME Tables, Stored, NEW p \in Users, OpenFile(p) PROVE Stored'
<1> DEFINE i == me[p].ip
           t == Itrunc(K, i)
           m1 == Then(p, "end", <<i>>)
           m2 == Then(p, "end", <<>>)
<1>1. /\ At(p, "openFile") /\ Rest /\ ilk' = Release({i})
      /\ \/ Does(p, K, m1) \/ Does(p, K, m2)
         \/ Does(p, t, m2)
  BY DEF OpenFile
<1>2. me[p] \in MeTypes /\ me[p].at = "openFile" /\ i \in Inums
  BY <1>1, AtFacts, InHand DEF IpPlaces
<1>3. Locked(me[p]) = i /\ i # 0
  BY <1>2, Constants DEF Locked
<1>4. Live(K, i)
  BY <1>1, <1>3, HeldLive
<1>5. m1.at = "end" /\ m2.at = "end"
  BY <1>2, ThenAt
<1> HIDE DEF m1, m2, i
<1>6. Keeps(K, t, 0) /\ Keeps(K, K, 0)
  BY <1>2, <1>4, SaneNow, KeepsSame, KeepsItrunc
<1> HIDE DEF t
<1>7. PICK k, m : Does(p, k, m) /\ Keeps(K, k, 0) /\ m.at = "end"
  BY <1>1, <1>5, <1>6
<1> QED BY <1>1, <1>3, <1>7, ReleasesStored

-----------------------------------------------------------------------------
(* Steps that enter an inode into a directory, or take it out              *)

\* A step that gives up the lock of its place for that of another inode.
LEMMA MovesStored ==
    ASSUME Tables, Stored, NEW p \in Users, NEW a, At(p, a), NEW k, NEW m, Does(p, k, m),
           Keeps(K, k, 0), Rest, NEW i \in Inums,
           ilk' = [Release({Locked(me[p])}) EXCEPT ![i] = p],
           m.put # <<>> => Head(m.put) # i, m.at \notin {"createNew", "writei"},
           a = "createNew" => Live(k, me[p].ip)
    PROVE  Stored'
<1>1. NoneFreed
  BY LockFreesNot DEF Does
<1> QED BY <1>1, CalmStep, RestSame

\* One step after the other, on inodes that are in memory.
LEMMA KeepsOn ==
    ASSUME NEW k, NEW r, NEW t, Keeps(k, r, 0), Keeps(r, t, 0)
    PROVE  /\ Keeps(k, t, 0) /\ Sane(t)
           /\ \A i \in Inums : Live(r, i) => Live(t, i)
<1>1. Keeps(k, t, 0)
  BY KeepsTwice
<1>2. Sane(t)
  BY <1>1 DEF Keeps
<1>3. \A i \in Inums : Live(r, i) => Live(t, i)
  BY KeepsLive
<1> QED BY <1>1, <1>2, <1>3

\* UnlinkChild keeps the blocks, also when it panics.
LEMMA UnlinkChildStored ==
    ASSUME Tables, Stored, NEW p \in Users, UnlinkChild(p)
    PROVE  Stored'
<1> DEFINE d  == me[p].dp
           i  == me[p].ip
           k0 == Ilock(K, i)
           k  == IF Ip(k0, i).nlink < 1 THEN Panic(k0, "unlink") ELSE k0
           z  == 0
           w  == SetEnt(k, d, LastName(p), z)
           n  == Ip(w, d).nlink - 1
           u  == Iupdate(w, d, WithLinks(Ip(w, d), n))
           r  == IF Ip(k, i).type = "dir" THEN u ELSE w
           m1 == Then(p, "end", <<i, d>>)
           m2 == Then(p, "unlinkLast", <<d>>)
<1>1. /\ At(p, "unlinkChild") /\ FreeLock(i) /\ Rest
      /\ \/ Does(p, k, m1) /\ ilk' = Release({d})
         \/ Does(p, r, m2) /\ ilk' = [Release({d}) EXCEPT ![i] = p]
  BY DEF UnlinkChild, WithLinks
<1>2. /\ panic = "none" /\ me[p].at = "unlinkChild" /\ me[p] \in MeTypes
  BY <1>1, AtFacts
<1>3. d \in Inums /\ i \in Inums /\ LastName(p) \in Entries /\ z \in Inums \union {0}
  BY <1>1, InHand, LastNameType DEF IpPlaces, DpPlaces
<1>4. Locked(me[p]) = d /\ d # 0
  BY <1>2, <1>3, Constants DEF Locked
<1>5. Live(K, d) /\ d # i
  <2>1. ilk[d] = p
    BY <1>1, <1>4, Held
  <2> QED BY <1>1, <1>4, <2>1, HeldLive, Constants DEF FreeLock
<1>6. m1.at = "end" /\ m2.at = "unlinkLast" /\ m2.put = <<d>>
  BY <1>2, ThenAt
<1> HIDE DEF z, m1, m2, d, i
<1>7. Keeps(K, k0, 0) /\ Sane(k0)
  BY <1>1, <1>2, <1>3, LockedNow
<1> HIDE DEF k0
<1>8. Keeps(K, k, 0) /\ Sane(k)
  <2>1. Keeps(k0, Panic(k0, "unlink"), 0)
    BY <1>7, KeepsPanic DEF Messages
  <2>2. Keeps(K, Panic(k0, "unlink"), 0)
    BY <1>7, <2>1, KeepsTwice
  <2>3. Keeps(K, k, 0)
    BY <1>7, <2>2
  <2> QED BY <2>3 DEF Keeps
<1>9. CASE Does(p, k, m1) /\ ilk' = Release({d})
  <2> HIDE DEF k
  <2> QED BY <1>1, <1>4, <1>6, <1>8, <1>9, ReleasesStored
<1>10. CASE Does(p, r, m2) /\ ilk' = [Release({d}) EXCEPT ![i] = p]
  <2> HIDE DEF k
  <2>1. Keeps(K, w, 0) /\ Sane(w)
    <3>1. Keeps(k, w, 0)
      BY <1>3, <1>8, KeepsSetEnt
    <3> HIDE DEF w
    <3> QED BY <1>8, <3>1, KeepsOn
  <2> HIDE DEF w
  <2>2. Ready(w, d)
    BY <1>3, <1>5, <2>1, KeepsLive DEF Ready
  <2>3. n \in Int
    <3>1. Ip(w, d) \in Dinodes
      BY <1>3, <2>1, <2>2, ReadyFacts
    <3> QED BY <3>1, DinodeParts
  <2> HIDE DEF n
  <2>4. Keeps(K, u, 0)
    <3>1. Keeps(w, u, 0)
      BY <1>3, <2>1, <2>2, <2>3, KeepsLinks
    <3> HIDE DEF u
    <3> QED BY <2>1, <3>1, KeepsTwice
  <2> HIDE DEF u
  <2>5. Keeps(K, r, 0)
    BY <2>1, <2>4
  <2> HIDE DEF r
  <2>6. Head(m2.put) # i
    BY <1>5, <1>6
  <2> QED BY <1>1, <1>3, <1>4, <1>6, <1>10, <2>5, <2>6, MovesStored
<1> QED BY <1>1, <1>9, <1>10

\* Create keeps the blocks: the new inode, which has no links yet, is the one that the
\* process is making.
LEMMA CreateStored == ASSUME Tables, Ordered, Stored, NEW p \in Users, Create(p) PROVE Stored'
<1> DEFINE d == me[p].ip
           k == Ilock(K, d)
           old == Dirlookup(k, d, LastName(p))
           t == TypeOf(me[p].call.op)
           new == Ialloc(k, t)
           i == new.i
           r == new.k
           m1 == WithIp(Then(p, "createOld", <<d>>), old)
           m2 == Then(p, "end", <<d>>)
           m3 == Taking(me[p], "createNew", d, i)
<1>1. /\ At(p, "create") /\ FreeLock(d) /\ Rest
      /\ \/ old # 0 /\ Does(p, Iget(k, old), m1) /\ UNCHANGED ilk
         \/ Does(p, k, m2) /\ UNCHANGED ilk
         \/ i # 0 /\ Does(p, r, m3) /\ ilk' = Holds(p, d)
  BY DEF Create, Taking, WithIp
<1>2. /\ panic = "none" /\ boot = 0 /\ me[p] \in MeTypes /\ Shape(me[p])
      /\ me[p].at = "create" /\ me[p].put = <<>> /\ d \in Inums /\ LastName(p) \in Entries
  BY <1>1, AtFacts, InHand, LastNameType DEF IpPlaces
<1>3. /\ Keeps(K, k, 0) /\ Sane(k) /\ k.fs = fs
      /\ \A j \in Inums : k.itab[j].ref \in Nat /\ (k.itab[j].ref = 0 => ~k.itab[j].valid)
      /\ \A j \in Inums : Keeps(K, Iget(k, j), 0)
  BY <1>1, <1>2, KeepsLockGet DEF IpPlaces
<1>4. t \in Types /\ t # "none"
  BY <1>2 DEF Shape, TypeOf, Types
<1> HIDE DEF t
<1>5. m1.at = "createOld" /\ m2.at = "end"
  BY <1>2 DEF Then, WithIp, MeTypes, Idle
<1>6. UNCHANGED <<disk, boot>> /\ inTx \subseteq inTx' /\ "create" \in Unlocked
  BY <1>1, RestSame DEF Unlocked
<1>7. old \in Inums \union {0}
  <2>1. fs.ents[d] \in [Entries -> Inums \union {0}]
    BY <1>1, <1>2, AtFacts, KernelParts
  <2> HIDE DEF k, d
  <2> QED BY <1>2, <1>3, <2>1 DEF Dirlookup
<1> HIDE DEF m1, m2, k, old
<1>8. CASE old # 0 /\ Does(p, Iget(k, old), m1) /\ UNCHANGED ilk
  BY <1>1, <1>3, <1>5, <1>6, <1>7, <1>8, LooseStep
<1>9. CASE Does(p, k, m2) /\ UNCHANGED ilk
  BY <1>1, <1>3, <1>5, <1>6, <1>9, LooseStep
<1>10. CASE i # 0 /\ Does(p, r, m3) /\ ilk' = Holds(p, d)
  <2>1. Keeps(k, r, i) /\ i \in Inums /\ r.fs.ino[i].type # "none"
    BY <1>3, <1>4, <1>10, KeepsIalloc
  <2> HIDE DEF i, r, new, d
  <2>2. Keeps(K, r, i)
    BY <1>3, <2>1, KeepsTwice
  <2>3. m3.at = "createNew" /\ m3.ip = i /\ m3.put = <<>>
    BY <1>2 DEF Taking, MeTypes
  <2> HIDE DEF m3
  <2>4. NoneFreed
    <3>1. me' = [me EXCEPT ![p] = m3] /\ \E j \in Inums : ilk' = Holds(p, j)
      BY <1>2, <1>10 DEF Does
    <3> QED BY <1>1, <1>6, <2>3, <3>1, LooseFreesNot
  <2>5. \A q \in Users : me[q].at = "writei" => q \in inTx'
    BY <1>6 DEF Stored
  <2> QED BY <1>2, <1>6, <1>10, <2>1, <2>2, <2>3, <2>4, <2>5, StoredStep
<1> QED BY <1>1, <1>8, <1>9, <1>10

\* CreateNew keeps the blocks: when the inode that was being made has no links in the end,
\* it is in memory.
LEMMA CreateNewStored == ASSUME Tables, Stored, NEW p \in Users, CreateNew(p) PROVE Stored'
<1> DEFINE d  == me[p].dp
           i  == me[p].ip
           k  == Ilock(K, i)
           k1 == Iupdate(k, i, WithLinks(Ip(k, i), 1))
           r  == MakeEntries(k1, d, i, LastName(p), me[p].call.op = "mkdir")
           n  == Ip(r.k, d).nlink + 1
           u  == Iupdate(r.k, d, WithLinks(Ip(r.k, d), n))
           k2 == IF me[p].call.op = "mkdir" THEN u ELSE r.k
           z  == 0
           k3 == Iupdate(r.k, i, WithLinks(Ip(r.k, i), z))
           b  == IF me[p].call.op = "create" THEN "openFile" ELSE "made"
           m2 == Then(p, b, <<d>>)
           m3 == Then(p, "createFail", <<i>>)
<1>1. /\ At(p, "createNew") /\ FreeLock(i) /\ Rest
      /\ \/ Does(p, k2, m2) /\ ilk' = [Release({d}) EXCEPT ![i] = p]
         \/ Does(p, k3, m3) /\ UNCHANGED ilk
  BY DEF CreateNew, CreateEnd, CreateFails, WithLinks
<1>2. /\ panic = "none" /\ me[p].at = "createNew" /\ me[p] \in MeTypes
  BY <1>1, AtFacts
<1>3. d \in Inums /\ i \in Inums /\ LastName(p) \in Entries /\ z \in Int
  BY <1>1, InHand, LastNameType DEF IpPlaces, DpPlaces
<1>4. Locked(me[p]) = d /\ d # 0
  BY <1>2, <1>3, Constants DEF Locked
<1>5. Live(K, d) /\ d # i
  <2>1. ilk[d] = p
    BY <1>1, <1>4, Held
  <2> QED BY <1>1, <1>4, <2>1, HeldLive, Constants DEF FreeLock
<1>6. /\ m2.at \in {"openFile", "made"} /\ m2.put = <<d>>
      /\ m3.at = "createFail" /\ m3.put = <<i>>
  BY <1>2, ThenAt
<1>7. fs.ino[i].type # "none"
  BY <1>2, <1>3 DEF Stored, BeingMade
<1> HIDE DEF z, m2, m3
<1>8. Keeps(K, k, 0) /\ Sane(k) /\ Live(k, i) /\ Live(k, d)
  BY <1>1, <1>2, <1>3, <1>5, <1>7, LockedNow, KeepsLive
<1> HIDE DEF k, d, i
<1>9. Keeps(K, k1, 0) /\ Sane(k1) /\ Live(k1, i) /\ Live(k1, d)
  <2> DEFINE one == 1
             y == Iupdate(k, i, WithLinks(Ip(k, i), one))
  <2>1. one \in Int /\ Ready(k, i)
    BY <1>8 DEF Ready
  <2> HIDE DEF one
  <2>2. Keeps(k, y, 0)
    BY <1>3, <1>8, <2>1, KeepsLinks
  <2>3. y = k1
    BY DEF one
  <2> HIDE DEF y, k1
  <2> QED BY <1>3, <1>8, <2>2, <2>3, KeepsOn
<1> HIDE DEF k1
<1>10. Keeps(K, r.k, 0) /\ Sane(r.k) /\ Live(r.k, i) /\ Live(r.k, d)
  <2>1. Keeps(k1, r.k, 0)
    BY <1>3, <1>9, KeepsMakeEntries
  <2> HIDE DEF r
  <2> QED BY <1>3, <1>9, <2>1, KeepsOn
<1> HIDE DEF r
<1>11. n \in Int /\ Ready(r.k, i) /\ Ready(r.k, d)
  <2>1. Ready(r.k, i) /\ Ready(r.k, d)
    BY <1>10 DEF Ready
  <2>2. Ip(r.k, d) \in Dinodes
    BY <1>3, <1>10, <2>1, ReadyFacts
  <2> QED BY <2>1, <2>2, DinodeParts
<1> HIDE DEF n
<1>12. Keeps(r.k, u, 0) /\ Keeps(r.k, k3, 0)
  BY <1>3, <1>10, <1>11, KeepsLinks
<1> HIDE DEF u, k3
<1>13. Keeps(K, u, 0) /\ Keeps(K, k3, 0)
  BY <1>10, <1>12, KeepsTwice
<1>14. Live(u, i) /\ Live(k3, i)
  BY <1>3, <1>10, <1>12, KeepsLive
<1>15. Keeps(K, k2, 0) /\ Live(k2, i)
  BY <1>10, <1>13, <1>14
<1> HIDE DEF k2
<1>16. me[p].ip = i
  BY DEF i
<1>17. CASE Does(p, k2, m2) /\ ilk' = [Release({d}) EXCEPT ![i] = p]
  <2>1. Head(m2.put) # i
    BY <1>5, <1>6
  <2>2. m2.at \notin {"createNew", "writei"}
    BY <1>6
  <2> QED BY <1>1, <1>3, <1>4, <1>15, <1>16, <1>17, <2>1, <2>2, MovesStored
<1>18. CASE Does(p, k3, m3) /\ UNCHANGED ilk
  <2>1. m3.put # <<>> => Head(m3.put) # Locked(me[p])
    BY <1>4, <1>5, <1>6
  <2>2. NoneFreed
    BY <1>1, <1>18, <2>1, LockFreesNot DEF Does
  <2> QED BY <1>1, <1>6, <1>13, <1>14, <1>16, <1>18, <2>2, CalmStep, RestSame
<1> QED BY <1>1, <1>17, <1>18

-----------------------------------------------------------------------------
(* Steps of write(), and those that commit                                 *)

\* A step within writei().
LEMMA WriteiStored ==
    ASSUME Tables, Stored, NEW p \in Users, At(p, "writei"), NEW k, NEW m, Does(p, k, m),
           Keeps(K, k, 0), m.at = "writei", m.put = <<>>, Rest, UNCHANGED ilk
    PROVE  Stored'
<1>1. boot = 0 /\ me[p].at = "writei"
  BY AtFacts
<1>2. NoneFreed
  BY LockFreesNot DEF Does
<1>3. \A q \in Users : me[q].at = "writei" => q \in inTx'
  BY RestSame DEF Stored
<1> QED BY <1>1, <1>2, <1>3, StoredStep, RestSame

\* WriteBlock keeps the blocks.
LEMMA WriteBlockStored == ASSUME Tables, Stored, NEW p \in Users, WriteBlock(p) PROVE Stored'
<1> DEFINE i == me[p].ip
           f == FileOf(p)
           off == ftable[f].off
           now == me[p].now
           r == Bmap(K, i, off)
           u == Filled(r, i, off)
           stop == Writes(me[p], "writei", 0, 0)
           m == Writes(me[p], "writei", me[p].left, me[p].now - 1)
<1>1. WriteBlockShape(p, f, r, u, stop, m)
  BY WriteBlockFacts
<1>2. /\ At(p, "writei") /\ me[p] \in MeTypes /\ me[p].put = <<>> /\ me[p].at = "writei"
  BY AtFacts DEF WriteBlock
<1>3. i \in Inums /\ off \in Nat /\ Locked(me[p]) = i /\ now \in Int
  BY <1>2, WriterFacts DEF MeTypes
<1>4. Live(K, i)
  <2>1. i # 0
    BY <1>3, Constants
  <2> QED BY <1>2, <1>3, <2>1, HeldLive
<1>5. /\ stop.at = "writei" /\ stop.put = <<>>
      /\ m.at = "writei" /\ m.put = <<>>
  BY <1>2 DEF Writes, MeTypes
<1>6. Rest /\ UNCHANGED ilk
  BY <1>1 DEF WriteBlockShape
<1>7. \/ Does(p, K, stop)
      \/ off + now <= MaxBlock /\ now > 0 /\ Does(p, r.k, stop)
      \/ off + now <= MaxBlock /\ now > 0 /\ r.addr # 0 /\ Does(p, u, m)
  BY <1>1 DEF WriteBlockShape
<1> HIDE DEF stop, m, i, off, now
<1>8. off + now <= MaxBlock /\ now > 0 => off \in 0 .. MaxBlock - 1
  BY <1>3, FilesAssumption DEF MaxBlock
<1>9. off \in 0 .. MaxBlock - 1 =>
        /\ Keeps(K, r.k, 0) /\ r.addr \in Blocks \union {0}
        /\ r.addr # 0 => \E t \in 0 .. MaxBlock : Here(r.k, i, t) = r.addr
  BY <1>3, <1>4, SaneNow, KeepsBmap
<1> HIDE DEF r
<1>10. off \in 0 .. MaxBlock - 1 /\ r.addr # 0 => Keeps(K, u, 0)
  <2> SUFFICES ASSUME off \in 0 .. MaxBlock - 1, r.addr # 0 PROVE Keeps(K, u, 0)
    OBVIOUS
  <2>1. Live(r.k, i)
    BY <1>3, <1>4, <1>9, KeepsLive
  <2>2. Sane(r.k)
    BY <1>9 DEF Keeps
  <2>3. Keeps(r.k, u, 0)
    BY <1>3, <1>9, <2>1, <2>2, KeepsFilled
  <2> HIDE DEF u
  <2> QED BY <1>9, <2>3, KeepsTwice
<1> HIDE DEF u
<1>11. Keeps(K, K, 0)
  BY SaneNow, KeepsSame
<1>12. PICK k, n : Does(p, k, n) /\ Keeps(K, k, 0) /\ n.at = "writei" /\ n.put = <<>>
  BY <1>5, <1>7, <1>8, <1>9, <1>10, <1>11
<1> QED BY <1>2, <1>6, <1>12, WriteiStored

\* What is committed fits if the inodes in memory are saved, but for those that are freed.
LEMMA CommitFits ==
    ASSUME NEW k, Sane(k),
           \A i \in Inums : k.itab[i].valid => Gone(k, i) \/ k.itab[i].copy = k.fs.ino[i]
    PROVE  BlocksFit(Bare(k.fs))
<1> DEFINE r == Bare(k.fs)
<1>1. k \in KernelTypes /\ BlocksFit(k) /\ k.fs \in FsTypes
  BY KernelParts DEF Sane
<1>2. /\ r \in KernelTypes /\ r.fs = k.fs
      /\ \A i \in Inums : ~r.itab[i].valid
  <2>1. "none" \in Messages /\ [i \in Inums |-> Unused] \in [Inums -> EntryTypes]
    BY UnusedFacts DEF Messages
  <2> QED BY <1>1, <2>1, UnusedFacts DEF Bare, KernelTypes
<1> HIDE DEF r
<1>3. ASSUME NEW i \in Inums, NEW s \in 0 .. MaxBlock PROVE Here(r, i, s) = Here(k, i, s)
  <2>1. Latest(r, i) = k.fs.ino[i]
    BY <1>2 DEF Latest
  <2>2. CASE Latest(k, i) = k.fs.ino[i]
    BY <1>2, <2>1, <2>2 DEF Here
  <2>3. CASE Gone(k, i)
    <3>1. Latest(k, i).type = "none"
      BY <2>3 DEF Gone, Latest
    <3>2. \A t \in 0 .. MaxBlock : Here(k, i, t) = 0
      BY <1>1, <3>1 DEF BlocksFit, FreeIsBare
    <3>3. \A t \in 0 .. NDirect : Latest(k, i).addrs[t] = 0
      BY <1>1, <3>2, HereFacts, PlaceFacts
    <3>4. \A t \in 0 .. NDirect : k.fs.ino[i].addrs[t] = 0
      BY <1>1, <3>3 DEF BlocksFit, SavedSome
    <3>5. CASE s <= NDirect
      BY <2>1, <3>2, <3>4, <3>5, PlaceFacts DEF Here
    <3>6. CASE ~(s <= NDirect)
      BY <1>2, <3>6 DEF Here
    <3> QED BY <3>5, <3>6
  <2>4. CASE ~k.itab[i].valid \/ k.itab[i].copy = k.fs.ino[i]
    BY <2>2, <2>4 DEF Latest
  <2> QED BY <2>3, <2>4
<1>4. \A i \in Inums : Latest(r, i).type = k.fs.ino[i].type
  BY <1>2 DEF Latest
<1>5. BlocksFit(r)
  BY <1>1, <1>2, <1>3, <1>4, FitSame
<1> QED BY <1>5 DEF r

\* When p is the only process in a transaction, nobody else writes.
LEMMA LoneSaved ==
    ASSUME Tables, Stored, NEW p \in Users, inTx = {p}, NEW i \in Inums, itab[i].valid
    PROVE  \/ Gone(K, i) \/ itab[i].copy = fs.ino[i]
           \/ me[p].at = "writei" /\ Locked(me[p]) = i
<1>1. ilk[i] \in Users \union {Nobody}
  BY DEF Tables, FilesTypes
<1>2. BeingFreed(i) => Gone(K, i)
  BY DEF Stored
<1>3. BeingWritten(i) => me[p].at = "writei" /\ Locked(me[p]) = i
  BY <1>1 DEF BeingWritten, Stored
<1> QED BY <1>2, <1>3 DEF Tables, CopiesOK, CopyOK

\* EndOp keeps the blocks, also when it commits.
LEMMA EndOpStored == ASSUME Tables, Stored, NEW p \in Users, EndOp(p) PROVE Stored'
<1>1. /\ At(p, "end") /\ me' = [me EXCEPT ![p] = Idle] /\ inTx' = inTx \ {p}
      /\ disk' = (IF inTx = {p} THEN fs ELSE disk)
      /\ UNCHANGED <<fs, itab, ilk, panic, boot>>
  BY DEF EndOp
<1>2. boot = 0 /\ me[p].at = "end" /\ K.fs = fs /\ K.itab = itab
  BY <1>1, AtFacts
<1>3. Does(p, K, Idle) /\ Idle.at = "user"
  BY <1>1 DEF Does, K, Idle
<1>4. Sane(K) /\ Keeps(K, K, 0)
  BY SaneNow, KeepsSame
<1>5. NoneFreed
  BY <1>1, LooseFreesNot DEF Unlocked
<1>6. inTx = {p} => BlocksFit(Bare(K.fs))
  <2> SUFFICES ASSUME inTx = {p} PROVE BlocksFit(Bare(K.fs))
    OBVIOUS
  <2>1. \A i \in Inums : K.itab[i].valid => Gone(K, i) \/ K.itab[i].copy = K.fs.ino[i]
    BY <1>2, LoneSaved
  <2> QED BY <1>4, <2>1, CommitFits
<1>7. \A q \in Users : q # p /\ me[q].at = "writei" => q \in inTx'
  BY <1>1 DEF Stored
<1>8. disk' = disk \/ (disk' = K.fs /\ BlocksFit(Bare(K.fs)))
  BY <1>1, <1>2, <1>6
<1> QED BY <1>1, <1>2, <1>3, <1>4, <1>5, <1>7, <1>8, StoredStep

\* WriteEnd keeps the blocks: what it commits has those of the inode that it wrote.
LEMMA WriteEndStored == ASSUME Tables, Stored, NEW p \in Users, WriteEnd(p) PROVE Stored'
<1> DEFINE i == me[p].ip
           d == Ip(K, i)
           k == Iupdate(K, i, d)
           m == IF me[p].left > 0 THEN [me[p] EXCEPT !.at = "writeOp"] ELSE Idle
<1>1. /\ At(p, "writei") /\ Does(p, k, m) /\ ilk' = Release({i}) /\ inTx' = inTx \ {p}
      /\ disk' = (IF inTx = {p} THEN k.fs ELSE disk) /\ boot' = boot
  BY DEF WriteEnd, WriteSave
<1>2. /\ me[p].at = "writei" /\ me[p] \in MeTypes /\ boot = 0 /\ K.fs = fs /\ K.itab = itab
  BY <1>1, AtFacts
<1>3. i \in Inums /\ Locked(me[p]) = i /\ i # 0
  BY <1>1, WriterFacts, Constants
<1>4. Live(K, i)
  BY <1>1, <1>3, HeldLive
<1>5. m.at \in {"writeOp", "user"}
  BY <1>2 DEF MeTypes, Idle
<1>6. Sane(K) /\ K \in KernelTypes /\ d \in Dinodes
  <2>1. Sane(K)
    BY SaneNow
  <2> QED BY <1>3, <2>1, KernelParts DEF Sane, Ip
<1>7. d = Ip(K, i)
  OBVIOUS
<1> HIDE DEF m, d, i
<1>8. Keeps(K, k, 0)
  BY <1>3, <1>4, <1>6, <1>7, KeepsIupdate DEF Ready
<1>9. /\ k.itab[i].copy = k.fs.ino[i]
      /\ \A j \in Inums : j # i => k.itab[j] = itab[j] /\ k.fs.ino[j] = fs.ino[j]
  BY <1>2, <1>3, <1>6, IupdateFacts
<1> HIDE DEF k
<1>10. inTx = {p} => BlocksFit(Bare(k.fs))
  <2> SUFFICES ASSUME inTx = {p} PROVE BlocksFit(Bare(k.fs))
    OBVIOUS
  <2>1. ASSUME NEW j \in Inums, k.itab[j].valid
        PROVE  Gone(k, j) \/ k.itab[j].copy = k.fs.ino[j]
    <3>1. CASE j # i
      <4>1. Gone(K, j) \/ itab[j].copy = fs.ino[j]
        BY <1>3, <1>9, <2>1, <3>1, LoneSaved
      <4> QED BY <1>2, <1>9, <3>1, <4>1 DEF Gone
    <3> QED BY <1>9, <3>1
  <2> QED BY <1>8, <2>1, CommitFits DEF Keeps
<1>11. NoneFreed
  BY <1>1, <1>3, LockFreesNot DEF Does
<1>12. \A q \in Users : q # p /\ me[q].at = "writei" => q \in inTx'
  BY <1>1 DEF Stored
<1>13. disk' = disk \/ (disk' = k.fs /\ BlocksFit(Bare(k.fs)))
  BY <1>1, <1>10
<1> QED BY <1>1, <1>2, <1>5, <1>8, <1>11, <1>12, <1>13, StoredStep

-----------------------------------------------------------------------------
(* iput()                                                                  *)

\* A step of iput() of inode i: nothing else changes.
LEMMA PutStored ==
    ASSUME Tables, Stored, boot = 0, NEW p \in Users, NEW k, NEW m, Does(p, k, m),
           m.at = me[p].at, m.ip = me[p].ip, Sane(k), NEW i \in Inums,
           \A j \in Inums : j # i => k.itab[j] = itab[j] /\ k.fs.ino[j] = fs.ino[j],
           Orphan(k.fs.ino[i]) => Live(k, i) \/ BeingMade(i),
           BeingMade(i) => k.fs.ino[i].type # "none",
           \A j \in Inums : BeingFreed(j)' => Gone(k, j),
           UNCHANGED <<disk, inTx, boot>>
    PROVE  Stored'
<1>1. /\ me \in [Users -> MeTypes] /\ K.fs = fs /\ K.itab = itab
  BY FilesTypesParts DEF Tables
<1>2. /\ fs' = k.fs /\ itab' = k.itab /\ panic' = k.panic
      /\ \A q \in Users : me'[q].at = me[q].at /\ me'[q].ip = me[q].ip
  BY <1>1 DEF Does
<1>3. K' = k
  <2>1. k = [fs |-> k.fs, itab |-> k.itab, panic |-> k.panic]
    BY DEF KernelTypes, Sane
  <2> QED BY <1>2, <2>1 DEF K
<1>4. BlocksFit(k) /\ Blank(k)
  BY DEF Sane
<1>5. BlocksFit(Bare(disk'))
  BY DEF Stored
<1>6. \A q \in Users : me'[q].at = "writei" => q \in inTx'
  BY <1>2 DEF Stored
<1>7. \A j \in Inums : BeingMade(j)' <=> BeingMade(j)
  BY <1>2 DEF BeingMade
<1>8. ASSUME NEW j \in Inums, BeingMade(j) PROVE k.fs.ino[j].type # "none"
  BY <1>8 DEF Stored
<1>9. ASSUME NEW j \in Inums, Orphan(k.fs.ino[j]) PROVE Live(k, j) \/ BeingMade(j)
  <2>1. CASE j # i
    <3>1. Live(K, j) \/ BeingMade(j)
      BY <1>9, <2>1 DEF Stored, Watched
    <3> QED BY <1>1, <2>1, <3>1 DEF Live
  <2> QED BY <1>9, <2>1
<1>10. Watched'
  BY <1>2, <1>3, <1>7, <1>9 DEF Watched
<1> QED BY <1>2, <1>3, <1>4, <1>5, <1>6, <1>7, <1>8, <1>10 DEF Stored

\* The iput() that is next is not of an inode that the process has locked.
LEMMA DropFreesNot ==
    ASSUME Tables, NEW p \in Users, me[p].put # <<>>,
           me' = [me EXCEPT ![p] = Dropped(me[p])],
           \/ UNCHANGED ilk /\ ilk[Head(me[p].put)] # p
           \/ ilk' = Release({Head(me[p].put)})
    PROVE  NoneFreed
<1> DEFINE i == Head(me[p].put)
           m == Dropped(me[p])
<1>1. /\ me[p] \in MeTypes /\ Shape(me[p]) /\ ilk \in [Inums -> Users \union {Nobody}]
      /\ p # Nobody /\ 0 \notin Inums
  BY Constants DEF Tables, FilesTypes
<1>2. m \in MeTypes /\ Shape(m) /\ Locked(m) = Locked(me[p])
  BY <1>1, DroppedFacts
<1>3. ASSUME NEW j \in Inums, ilk'[j] = p, m.put # <<>> PROVE Head(m.put) # j
  <2>1. ilk[j] = p /\ j # i
    BY <1>1, <1>3 DEF Release
  <2>2. Locked(me[p]) = j
    <3>1. Locked(me[p]) = j \/ Frees(p, j)
      BY <1>1, <2>1 DEF Tables, LocksOK
    <3> QED BY <2>1, <3>1 DEF Frees
  <2>3. Locked(m) # 0
    BY <1>1, <1>2, <2>2
  <2> HIDE DEF m
  <2> QED BY <1>2, <1>3, <2>2, <2>3, LockedHead
<1>4. \A j \in Inums : ilk'[j] \in {ilk[j], Nobody, p}
  BY <1>1 DEF Release
<1> HIDE DEF m
<1>5. me' = [me EXCEPT ![p] = m]
  BY DEF m
<1>6. \A j \in Inums : ilk'[j] = p /\ m.put # <<>> => Head(m.put) # j
  BY <1>3
<1> HIDE DEF i
<1> QED BY <1>4, <1>5, <1>6, NotFreeing

\* Another state of the inode table with the inode i given up, for which the disk is right.
LEMMA GivenUp ==
    ASSUME NEW k, Sane(k), NEW i \in Inums, NEW r \in KernelTypes, r.fs = k.fs,
           r.panic = k.panic, ~r.itab[i].valid, r.itab[i].copy = FreeInode,
           \A j \in Inums : j # i => r.itab[j] = k.itab[j],
           k.itab[i].valid => k.itab[i].copy = k.fs.ino[i] \/ Gone(k, i)
    PROVE  Sane(r)
<1>1. k \in KernelTypes /\ BlocksFit(k)
  BY DEF Sane
<1>2. \A j \in Inums : j # i => Latest(r, j) = Latest(k, j)
  BY DEF Latest
<1>3. Latest(r, i) = k.fs.ino[i]
  BY DEF Latest
<1>4. Latest(k, i) = k.fs.ino[i] \/ Gone(k, i)
  BY DEF Latest
<1>5. Gone(k, i) => Latest(k, i).type = "none"
  BY DEF Gone, Latest
<1>6. ASSUME Gone(k, i) PROVE Latest(r, i).addrs = Latest(k, i).addrs
  <2>1. \A s \in 0 .. MaxBlock : Here(k, i, s) = 0
    BY <1>1, <1>5, <1>6 DEF BlocksFit, FreeIsBare
  <2>2. \A s \in 0 .. NDirect : Here(k, i, s) = 0 /\ Latest(k, i).addrs[s] = 0
    BY <1>1, <2>1, HereFacts, PlaceFacts
  <2>3. \A s \in 0 .. NDirect : k.fs.ino[i].addrs[s] = 0
    BY <1>1, <2>2 DEF BlocksFit, SavedSome
  <2>4. \A s \in 0 .. NDirect : Here(r, i, s) = 0
    BY <1>3, <2>3, HereFacts
  <2> QED BY <1>1, <2>2, <2>4, BareFacts
<1>7. \A j \in Inums : Latest(r, j).addrs = Latest(k, j).addrs
  BY <1>2, <1>3, <1>4, <1>6
<1>8. \A j \in Inums : r.fs.ino[j].type = "none" \/ Latest(r, j).type = "none" =>
        k.fs.ino[j].type = "none" \/ Latest(k, j).type = "none"
  BY <1>2, <1>3
<1>9. BlocksFit(r)
  BY <1>1, <1>7, <1>8, FitNodes
<1>10. Blank(r)
  BY DEF Sane, Blank
<1> QED BY <1>9, <1>10 DEF Sane

\* iput() that only gives up a reference keeps the blocks.
LEMMA DropStored ==
    ASSUME Tables, Stored, boot = 0, panic = "none", NEW p \in Users, me[p].put # <<>>,
           ilk[Head(me[p].put)] # p, ~LastReference(itab[Head(me[p].put)]),
           Does(p, WithEntry(K, Head(me[p].put), Drop(itab[Head(me[p].put)])), Dropped(me[p])),
           UNCHANGED <<ilk, disk, inTx, boot>>
    PROVE  Stored'
<1> DEFINE i == Head(me[p].put)
           e == Drop(itab[i])
           r == WithEntry(K, i, e)
           m == Dropped(me[p])
<1>1. /\ Sane(K) /\ K \in KernelTypes /\ K.fs = fs /\ K.itab = itab /\ me[p] \in MeTypes
      /\ ilk[i] # p /\ ~LastReference(itab[i])
  BY SaneNow, FilesTypesParts DEF Tables
<1>2. /\ i \in Inums /\ itab[i].ref \in Nat /\ itab[i].ref >= 1
      /\ itab[i].ref = 1 => ilk[i] \in {Nobody, p}
  BY PutAlone
<1>3. m.at = me[p].at /\ m.ip = me[p].ip
  BY <1>1 DEF Dropped, MeTypes
<1>4. NoneFreed
  BY DropFreesNot DEF Does
<1>5. Does(p, r, m)
  OBVIOUS
<1> HIDE DEF i, m
<1>6. /\ itab[i] \in EntryTypes /\ e \in EntryTypes
      /\ itab[i].ref # 1 => e.valid = itab[i].valid /\ e.copy = itab[i].copy
      /\ itab[i].ref = 1 => e = Unused
  BY <1>1, <1>2, KernelParts, DropFacts DEF Drop
<1> HIDE DEF e
<1>7. /\ r \in KernelTypes /\ r.fs = K.fs /\ r.panic = K.panic /\ r.itab[i] = e
      /\ \A j \in Inums : j # i => r.itab[j] = K.itab[j]
  BY <1>1, <1>2, <1>6, WithEntryFacts
<1> HIDE DEF r
<1>8. BeingMade(i) => r.fs.ino[i].type # "none"
  BY <1>1, <1>2, <1>7 DEF Stored
<1>9. Orphan(fs.ino[i]) => Live(K, i) \/ BeingMade(i)
  BY <1>2 DEF Stored, Watched
<1>10. \A j \in Inums : j # i => r.itab[j] = itab[j] /\ r.fs.ino[j] = fs.ino[j]
  BY <1>1, <1>7
<1>11. CASE itab[i].ref # 1
  <2>1. Keeps(K, r, 0)
    <3>1. \A j \in Inums : r.itab[j].valid = K.itab[j].valid /\ r.itab[j].copy = K.itab[j].copy
      BY <1>1, <1>6, <1>7, <1>11
    <3>2. ASSUME r.panic = "none", NEW j \in Inums
          PROVE  r.itab[j].valid \/ r.itab[j].copy = FreeInode
      <4>1. K.panic = "none"
        BY <1>7, <3>2
      <4>2. ~K.itab[j].valid => K.itab[j].copy = FreeInode
        BY <1>1, <4>1 DEF Sane, Blank
      <4> QED BY <3>1, <4>2
    <3>3. \A j \in Inums : K.itab[j].valid \in BOOLEAN
      BY <1>1, KernelParts
    <3> QED BY <1>1, <1>7, <3>1, <3>2, <3>3, KeepsTable
  <2>2. Sane(r) /\ \A j \in Inums : Gone(K, j) => Gone(r, j)
    BY <2>1, KeepsLive DEF Keeps
  <2>3. Live(K, i) => Live(r, i)
    BY <1>2, <2>1, KeepsLive
  <2>4. \A j \in Inums : BeingFreed(j)' => Gone(r, j)
    BY <1>4, <2>2 DEF NoneFreed, Stored
  <2>5. Orphan(r.fs.ino[i]) => Live(r, i) \/ BeingMade(i)
    BY <1>1, <1>7, <1>9, <2>3
  <2> QED BY <1>2, <1>3, <1>5, <1>8, <1>10, <2>2, <2>4, <2>5, PutStored
<1>12. CASE itab[i].ref = 1
  <2>1. ilk[i] = Nobody
    BY <1>1, <1>2, <1>12
  <2>2. ~BeingFreed(i) /\ ~BeingWritten(i)
    BY <2>1 DEF BeingFreed, BeingWritten
  <2>3. itab[i].valid => itab[i].copy = fs.ino[i]
    BY <1>2, <2>2 DEF Tables, CopiesOK, CopyOK
  <2>4. Sane(r)
    <3>1. ~r.itab[i].valid /\ r.itab[i].copy = FreeInode
      BY <1>6, <1>7, <1>12, UnusedFacts
    <3> QED BY <1>1, <1>2, <1>7, <2>3, <3>1, GivenUp
  <2>5. ASSUME NEW j \in Inums, BeingFreed(j)' PROVE Gone(r, j)
    <3>1. BeingFreed(j) /\ j # i
      BY <1>4, <2>2, <2>5 DEF NoneFreed
    <3>2. Gone(K, j)
      BY <3>1 DEF Stored
    <3> QED BY <1>7, <3>1, <3>2 DEF Gone
  <2>6. Orphan(r.fs.ino[i]) => Live(r, i) \/ BeingMade(i)
    <3> SUFFICES ASSUME Orphan(r.fs.ino[i]), ~BeingMade(i) PROVE FALSE
      OBVIOUS
    <3>1. Live(K, i) /\ Orphan(fs.ino[i])
      BY <1>1, <1>7, <1>9
    <3>2. itab[i].valid /\ itab[i].copy.nlink = 0
      BY <1>1, <2>3, <3>1 DEF Live, Orphan
    <3> QED BY <1>1, <1>12, <3>2 DEF LastReference
  <2> QED BY <1>2, <1>3, <1>5, <1>8, <1>10, <2>4, <2>5, <2>6, PutStored
<1> QED BY <1>11, <1>12

\* itrunc() of an inode that then is saved as a free one: its blocks are free, too.
LEMMA FreedNow ==
    ASSUME NEW k, Sane(k), NEW i \in Inums, Live(k, i), NEW d \in Dinodes, d.type = "none",
           d.addrs = NoAddrs
    PROVE  LET r == Iupdate(Itrunc(k, i), i, d)
           IN  /\ Sane(r) /\ Gone(r, i) /\ r.fs.ino[i] = d /\ r.panic = k.panic
               /\ \A j \in Inums : j # i => r.itab[j] = k.itab[j] /\ r.fs.ino[j] = k.fs.ino[j]
<1> DEFINE t == Itrunc(k, i)
           r == Iupdate(t, i, d)
<1>1. Keeps(k, t, 0) /\ t.panic = k.panic /\ \A s \in 0 .. MaxBlock : Here(t, i, s) = 0
  BY KeepsItrunc
<1>2. \A j \in Inums : j # i => t.itab[j] = k.itab[j] /\ t.fs.ino[j] = k.fs.ino[j]
  BY ItruncFacts DEF Sane
<1> HIDE DEF t
<1>3. Live(t, i)
  BY <1>1, KeepsLive
<1>4. t \in KernelTypes /\ BlocksFit(t) /\ Blank(t)
  BY <1>1 DEF Keeps, Sane
<1>5. /\ r \in KernelTypes /\ r.panic = t.panic
      /\ r.itab[i].valid = t.itab[i].valid /\ r.itab[i].copy = d /\ r.fs.ino[i] = d
      /\ \A j \in Inums : j # i => r.itab[j] = t.itab[j] /\ r.fs.ino[j] = t.fs.ino[j]
      /\ r.fs.ind = t.fs.ind /\ r.fs.used = t.fs.used /\ r.fs.data = t.fs.data
  BY <1>4, IupdateFacts
<1> HIDE DEF r
<1>6. Latest(t, i).addrs = NoAddrs
  <2>1. \A s \in 0 .. NDirect : Here(t, i, s) = 0
    BY <1>1, PlaceFacts
  <2> QED BY <1>4, <2>1, BareFacts
<1>7. BlocksFit(r)
  <2>1. \A j \in Inums : j # i => Latest(r, j) = Latest(t, j)
    BY <1>5 DEF Latest
  <2>2. Latest(r, i) = d
    BY <1>5 DEF Latest
  <2>3. \A j \in Inums, s \in 0 .. MaxBlock : Here(r, j, s) = Here(t, j, s)
    BY <1>5, <1>6, <2>1, <2>2 DEF Here
  <2>4. \A j \in Inums, s \in 0 .. NDirect :
            \/ r.fs.ino[j].addrs[s] = t.fs.ino[j].addrs[s]
            \/ r.fs.ino[j].addrs[s] = Latest(t, j).addrs[s]
    BY <1>5, <1>6
  <2>5. \A j \in Inums : r.fs.ino[j].type = "none" \/ Latest(r, j).type = "none" =>
            \/ t.fs.ino[j].type = "none" \/ Latest(t, j).type = "none"
            \/ \A s \in 0 .. MaxBlock : Here(t, j, s) = 0
    BY <1>1, <1>5, <2>1
  <2> QED BY <1>4, <1>5, <2>3, <2>4, <2>5, FitSame
<1>8. Gone(r, i) /\ Blank(r)
  <2>1. t.itab[i].valid
    BY <1>3 DEF Live
  <2> QED BY <1>4, <1>5, <2>1 DEF Gone, Blank
<1>9. Sane(r)
  BY <1>5, <1>7, <1>8 DEF Sane
<1>10. \A j \in Inums : j # i => r.itab[j] = k.itab[j] /\ r.fs.ino[j] = k.fs.ino[j]
  BY <1>2, <1>5
<1> QED BY <1>1, <1>5, <1>8, <1>9, <1>10 DEF r, t

\* iput() that frees the inode keeps the blocks: the inode is in nobody's hand, and it is
\* Gone until IputEnd.
LEMMA FreeStored ==
    ASSUME Tables, Stored, boot = 0, panic = "none", NEW p \in Users, me[p].put # <<>>,
           ilk[Head(me[p].put)] # p, LastReference(itab[Head(me[p].put)]),
           ilk' = Holds(p, Head(me[p].put)), UNCHANGED <<disk, inTx, boot>>,
           LET i == Head(me[p].put)
               t == Itrunc(K, i)
           IN  Does(p, Iupdate(t, i, Typed(Ip(t, i), "none")), me[p])
    PROVE  Stored'
<1> DEFINE i == Head(me[p].put)
           m == me[p]
           t == Itrunc(K, i)
           d == Typed(Ip(t, i), "none")
           k == Iupdate(t, i, d)
<1>1. /\ Sane(K) /\ K \in KernelTypes /\ K.fs = fs /\ K.itab = itab /\ me \in [Users -> MeTypes]
      /\ ilk[i] # p /\ LastReference(itab[i])
      /\ Does(p, k, m) /\ ilk' = Holds(p, i) /\ ilk \in [Inums -> Users \union {Nobody}]
  BY SaneNow, FilesTypesParts DEF Tables
<1>2. i \in Inums /\ itab[i].ref = 1 /\ itab[i].valid /\ ilk[i] = Nobody
  BY <1>1, PutAlone DEF LastReference
<1>3. ~BeingMade(i)
  <2> SUFFICES ASSUME NEW q \in Users, me[q].at = "createNew", me[q].ip = i PROVE FALSE
    BY DEF BeingMade
  <2>1. ~(IpUsed(me[q]) /\ me[q].ip = i)
    BY <1>2, FreedAlone
  <2> QED BY <2>1 DEF IpUsed, IpPlaces
<1>4. ASSUME NEW j \in Inums, j # i, BeingFreed(j)' PROVE BeingFreed(j)
  <2>1. ilk'[j] = ilk[j]
    BY <1>1, <1>4 DEF Holds
  <2>2. me' = me
    BY <1>1 DEF Does
  <2> QED BY <1>4, <2>1, <2>2 DEF BeingFreed, Frees
<1>5. m.at = me[p].at /\ m.ip = me[p].ip
  OBVIOUS
<1> HIDE DEF i, m
<1>6. Live(K, i)
  <2>1. ~BeingFreed(i) /\ CopyOK(i)
    BY <1>2 DEF BeingFreed, Tables, CopiesOK
  <2> QED BY <1>1, <1>2, <2>1 DEF CopyOK, Live
<1>7. d \in Dinodes /\ d.type = "none" /\ d.addrs = NoAddrs
  <2>1. K.itab[i].copy \in Dinodes /\ Ip(K, i) = K.itab[i].copy
    BY <1>1, <1>2, KernelParts DEF Ip
  <2>2. Ip(t, i) = NoBlocks(Ip(K, i))
    BY <1>1, <1>2, ItruncFacts DEF Ip
  <2> HIDE DEF t
  <2>3. Ip(t, i) \in Dinodes /\ Ip(t, i).addrs = NoAddrs
    BY <2>1, <2>2, NoBlocksFacts
  <2> QED BY <2>3, TypedFacts DEF Types
<1> HIDE DEF d
<1>8. /\ Sane(k) /\ Gone(k, i) /\ k.fs.ino[i] = d
      /\ \A j \in Inums : j # i => k.itab[j] = itab[j] /\ k.fs.ino[j] = fs.ino[j]
  BY <1>1, <1>2, <1>6, <1>7, FreedNow
<1> HIDE DEF k
<1>9. ASSUME NEW j \in Inums, BeingFreed(j)' PROVE Gone(k, j)
  <2>1. CASE j # i
    <3>1. Gone(K, j)
      BY <1>4, <1>9, <2>1 DEF Stored
    <3> QED BY <1>1, <1>8, <2>1, <3>1 DEF Gone
  <2> QED BY <1>8, <2>1
<1>10. ~Orphan(k.fs.ino[i])
  BY <1>7, <1>8 DEF Orphan
<1> QED BY <1>1, <1>2, <1>3, <1>5, <1>8, <1>9, <1>10, PutStored

\* Iput keeps the blocks.
LEMMA IputStored == ASSUME Tables, Stored, NEW p \in Users, Iput(p) PROVE Stored'
<1> DEFINE i == Head(me[p].put)
           t == Itrunc(K, i)
           d == Typed(Ip(t, i), "none")
<1>1. /\ panic = "none" /\ boot = 0 /\ me[p].put # <<>> /\ ilk[i] # p
      /\ UNCHANGED <<disk, inTx, boot>>
      /\ \/ LastReference(itab[i]) /\ Does(p, Iupdate(t, i, d), me[p]) /\ ilk' = Holds(p, i)
         \/ /\ ~LastReference(itab[i]) /\ UNCHANGED ilk
            /\ Does(p, WithEntry(K, i, Drop(itab[i])), Dropped(me[p]))
  BY DEF Iput, Rest, Typed
<1>2. CASE LastReference(itab[i]) /\ Does(p, Iupdate(t, i, d), me[p]) /\ ilk' = Holds(p, i)
  BY <1>1, <1>2, FreeStored
<1>3. CASE /\ ~LastReference(itab[i]) /\ UNCHANGED ilk
           /\ Does(p, WithEntry(K, i, Drop(itab[i])), Dropped(me[p]))
  BY <1>1, <1>3, DropStored
<1> QED BY <1>1, <1>2, <1>3

\* IputEnd keeps the blocks: the inode that was freed is given up.
LEMMA IputEndStored == ASSUME Tables, Stored, NEW p \in Users, IputEnd(p) PROVE Stored'
<1> DEFINE i == Head(me[p].put)
           e == Forget(itab[i])
           r == WithEntry(K, i, e)
           m == Dropped(me[p])
<1>1. /\ panic = "none" /\ boot = 0 /\ me[p].put # <<>> /\ ilk[i] = p /\ Does(p, r, m)
      /\ ilk' = Release({i}) /\ UNCHANGED <<disk, inTx, boot>>
  BY DEF IputEnd, Rest
<1>2. /\ Sane(K) /\ K \in KernelTypes /\ K.fs = fs /\ K.itab = itab /\ me[p] \in MeTypes
      /\ p # Nobody
  BY SaneNow, FilesTypesParts, Constants DEF Tables
<1>3. i \in Inums
  BY <1>1, PutAlone
<1>4. m.at = me[p].at /\ m.ip = me[p].ip
  BY <1>2 DEF Dropped, MeTypes
<1>5. NoneFreed
  BY <1>1, DropFreesNot DEF Does
<1>6. BeingFreed(i)
  BY <1>1, <1>2 DEF BeingFreed, Frees
<1>7. \A j \in Inums : BeingFreed(j)' => j # i
  <2>1. ilk'[i] = Nobody
    BY <1>1, <1>3 DEF Release
  <2> QED BY <2>1 DEF BeingFreed
<1>8. Gone(K, i)
  BY <1>3, <1>6 DEF Stored
<1> HIDE DEF i, m
<1>9. e \in EntryTypes /\ ~e.valid /\ e.copy = FreeInode
  <2>1. itab[i] \in EntryTypes /\ itab[i].ref - 1 \in Int
    BY <1>2, <1>3, KernelParts
  <2>2. e = Unused \/ e = Entry(itab[i].ref - 1, FALSE, FreeInode)
    BY DEF Forget
  <2>3. CASE e = Unused
    BY <2>3, UnusedFacts
  <2>4. CASE e = Entry(itab[i].ref - 1, FALSE, FreeInode)
    <3> HIDE DEF e
    <3> DEFINE n == itab[i].ref - 1
               v == FALSE
    <3>1. n \in Int /\ v \in BOOLEAN /\ ~v /\ e = Entry(n, v, FreeInode)
      BY <2>1, <2>4
    <3> HIDE DEF n, v
    <3>2. FreeInode \in Dinodes
      BY Constants
    <3>3. /\ Entry(n, v, FreeInode) \in EntryTypes /\ Entry(n, v, FreeInode).valid = v
          /\ Entry(n, v, FreeInode).copy = FreeInode
      BY <3>1, <3>2, EntryFacts
    <3> QED BY <3>1, <3>3
  <2> QED BY <2>2, <2>3, <2>4
<1> HIDE DEF e
<1>10. /\ r \in KernelTypes /\ r.fs = K.fs /\ r.panic = K.panic /\ r.itab[i] = e
       /\ \A j \in Inums : j # i => r.itab[j] = K.itab[j]
  BY <1>2, <1>3, <1>9, WithEntryFacts
<1> HIDE DEF r
<1>11. Sane(r)
  BY <1>2, <1>3, <1>8, <1>9, <1>10, GivenUp
<1>12. ASSUME NEW j \in Inums, BeingFreed(j)' PROVE Gone(r, j)
  <2>1. BeingFreed(j) /\ j # i
    BY <1>5, <1>7, <1>12 DEF NoneFreed
  <2>2. Gone(K, j)
    BY <2>1 DEF Stored
  <2> QED BY <1>10, <2>1, <2>2 DEF Gone
<1>13. Orphan(r.fs.ino[i]) => Live(r, i) \/ BeingMade(i)
  <2>1. Orphan(fs.ino[i]) => Live(K, i) \/ BeingMade(i)
    BY <1>1, <1>3 DEF Stored, Watched
  <2>2. ~Live(K, i)
    BY <1>8 DEF Live, Gone
  <2> QED BY <1>2, <1>10, <2>1, <2>2
<1>14. BeingMade(i) => r.fs.ino[i].type # "none"
  BY <1>2, <1>3, <1>10 DEF Stored
<1>15. \A j \in Inums : j # i => r.itab[j] = itab[j] /\ r.fs.ino[j] = fs.ino[j]
  BY <1>2, <1>10
<1> QED BY <1>1, <1>3, <1>4, <1>11, <1>12, <1>13, <1>14, <1>15, PutStored

-----------------------------------------------------------------------------
(* Crash, boot, and the initial states of the blocks                       *)

\* Between a crash and the first process nothing is under way.
Still ==
    /\ me = [p \in Users |-> Idle] /\ ilk = [i \in Inums |-> Nobody]
    /\ BlocksFit(K) /\ BlocksFit(Bare(disk)) /\ Blank(K) /\ Watched

\* So the blocks are right then.
LEMMA StillStored == Still => Stored
  BY DEF Still, Stored, BeingFreed, BeingMade, Idle

\* The inode table that a crash leaves has nothing in it.
LEMMA BareIs ==
    ASSUME NEW f \in FsTypes
    PROVE  /\ Bare(f) \in KernelTypes /\ Bare(f).fs = f /\ Bare(f).panic = "none" /\ Blank(Bare(f))
           /\ \A i \in Inums : Bare(f).itab[i] = Unused /\ Latest(Bare(f), i) = f.ino[i]
<1>1. "none" \in Messages /\ [i \in Inums |-> Unused] \in [Inums -> EntryTypes]
  BY UnusedFacts DEF Messages
<1>2. /\ Bare(f) \in KernelTypes /\ Bare(f).fs = f /\ Bare(f).panic = "none"
      /\ \A i \in Inums : Bare(f).itab[i] = Unused
  BY <1>1 DEF Bare, KernelTypes
<1> QED BY <1>2, UnusedFacts DEF Latest, Blank

\* Crash keeps the blocks: those of the disk are right.
LEMMA CrashStored == ASSUME Tables, Stored, Crash PROVE Stored'
<1>1. /\ me' = [p \in Users |-> Idle] /\ ilk' = [i \in Inums |-> Nobody] /\ disk' = disk
      /\ fs' = disk /\ panic' = "none" /\ itab' = [i \in Inums |-> Unused] /\ boot' = Root
  BY DEF Crash
<1>2. K' = Bare(disk)
  BY <1>1 DEF K, Bare
<1>3. disk \in FsTypes /\ BlocksFit(Bare(disk))
  BY DEF Tables, FilesTypes, Stored
<1>4. BlocksFit(K') /\ Blank(K')
  BY <1>2, <1>3, BareIs
<1>5. Watched'
  <2>1. \A i \in Inums : ~(i < 1)
    BY DEF Inums
  <2> QED BY <1>1, <2>1 DEF Watched, Root
<1>6. Still'
  BY <1>1, <1>3, <1>4, <1>5 DEF Still
<1> QED BY <1>6, StillStored, PTL

\* While the system boots, the kernel's state is that of the disk.
LEMMA BootState ==
    ASSUME Tables, boot # 0, panic = "none"
    PROVE  /\ K = Bare(fs) /\ fs \in FsTypes /\ itab = [i \in Inums |-> Unused]
           /\ me = [p \in Users |-> Idle] /\ ilk = [i \in Inums |-> Nobody]
  BY DEF Tables, BootOK, FilesTypes, K, Bare

\* What ireclaim() makes of an orphan: it is free, and so are its blocks.
LEMMA ReclaimFacts ==
    ASSUME NEW f \in FsTypes, BlocksFit(Bare(f)), NEW i \in Inums, Orphan(f.ino[i])
    PROVE  LET k == Iupdate(Itrunc(Ilock(Iget(Bare(f), i), i), i), i, FreeInode)
           IN  /\ k.fs \in FsTypes /\ BlocksFit(Bare(k.fs)) /\ k.panic = "none"
               /\ k.fs.ino[i] = FreeInode
               /\ \A j \in Inums : j # i => k.fs.ino[j] = f.ino[j]
<1> DEFINE b == Bare(f)
           g == Iget(b, i)
           l == Ilock(g, i)
           k == Iupdate(Itrunc(l, i), i, FreeInode)
<1>1. /\ Sane(b) /\ b \in KernelTypes /\ b.fs = f /\ b.panic = "none"
      /\ \A j \in Inums : b.itab[j] = Unused
  BY BareIs DEF Sane
<1>2. /\ FreeInode \in Dinodes /\ FreeInode.type = "none" /\ FreeInode.addrs = NoAddrs
  BY Constants DEF FreeInode, Dinode
<1> SUFFICES /\ k.fs \in FsTypes /\ BlocksFit(Bare(k.fs)) /\ k.panic = "none"
             /\ k.fs.ino[i] = FreeInode
             /\ \A j \in Inums : j # i => k.fs.ino[j] = f.ino[j]
  OBVIOUS
<1> HIDE DEF b
<1>3. b.itab[i].ref = 0 /\ ~b.itab[i].valid
  BY <1>1, UnusedFacts
<1>4. Keeps(b, g, 0)
  BY <1>1, <1>3, KeepsIget
<1>5. /\ g \in KernelTypes /\ g.fs = f /\ g.panic = "none" /\ ~g.itab[i].valid
      /\ \A j \in Inums : j # i => g.itab[j] = Unused
  BY <1>1, <1>3, IgetFacts
<1> HIDE DEF g
<1>6. Keeps(g, l, 0)
  BY <1>4, KeepsIlock DEF Keeps
<1>7. /\ l.fs = f /\ l.panic = "none" /\ Live(l, i)
      /\ \A j \in Inums : j # i => l.itab[j] = Unused
  <2>1. f.ino[i].type # "none"
    BY DEF Orphan
  <2>2. /\ l.fs = f /\ l.panic = "none" /\ l.itab[i].valid /\ l.itab[i].copy = f.ino[i]
        /\ \A j \in Inums : j # i => l.itab[j] = g.itab[j]
    BY <1>5, <2>1, IlockFacts
  <2> HIDE DEF l
  <2> QED BY <1>5, <2>1, <2>2 DEF Live
<1>8. Sane(l)
  BY <1>6 DEF Keeps
<1> HIDE DEF l
<1>9. /\ Sane(k) /\ Gone(k, i) /\ k.fs.ino[i] = FreeInode /\ k.panic = "none"
      /\ \A j \in Inums : j # i => k.itab[j] = Unused /\ k.fs.ino[j] = f.ino[j]
  BY <1>2, <1>7, <1>8, FreedNow
<1> HIDE DEF k
<1>10. k.fs \in FsTypes
  BY <1>9, KernelParts DEF Sane
<1>11. /\ Bare(k.fs) \in KernelTypes /\ Bare(k.fs).fs = k.fs /\ Bare(k.fs).panic = k.panic
       /\ \A j \in Inums : Bare(k.fs).itab[j] = Unused
  BY <1>9, <1>10, BareIs
<1> DEFINE r == Bare(k.fs)
<1>12. /\ r \in KernelTypes /\ r.fs = k.fs /\ r.panic = k.panic /\ ~r.itab[i].valid
       /\ r.itab[i].copy = FreeInode
       /\ \A j \in Inums : j # i => r.itab[j] = k.itab[j]
  BY <1>9, <1>11, UnusedFacts
<1> HIDE DEF r
<1>13. Sane(r)
  BY <1>9, <1>12, GivenUp
<1> QED BY <1>9, <1>10, <1>13 DEF Sane, r

\* Ireclaim keeps the blocks, and leaves no orphan behind.
LEMMA IreclaimStored == ASSUME Tables, Stored, Ireclaim PROVE Stored'
<1> DEFINE k == Iupdate(Itrunc(Ilock(Iget(K, boot), boot), boot), boot, FreeInode)
           g == k.fs
<1>1. /\ boot \in Inums /\ panic = "none" /\ boot' = boot + 1 /\ UNCHANGED <<itab, ilk, me>>
      /\ \/ Orphan(fs.ino[boot]) /\ fs' = g /\ panic' = k.panic /\ disk' = g
         \/ ~Orphan(fs.ino[boot]) /\ UNCHANGED <<fs, panic, disk>>
  BY DEF Ireclaim
<1>2. boot # 0 /\ boot' # 0 /\ \A i \in Inums : i < boot' => i < boot \/ i = boot
  BY <1>1 DEF Inums
<1>3. /\ K = Bare(fs) /\ fs \in FsTypes /\ itab = [i \in Inums |-> Unused]
      /\ me = [p \in Users |-> Idle] /\ ilk = [i \in Inums |-> Nobody]
  BY <1>1, <1>2, BootState
<1>4. BlocksFit(Bare(fs)) /\ Blank(Bare(fs)) /\ BlocksFit(Bare(disk))
  BY <1>3 DEF Stored
<1>5. \A i \in Inums : i < boot => ~Orphan(fs.ino[i])
  BY <1>2 DEF Stored, Watched
<1>6. CASE ~Orphan(fs.ino[boot]) /\ UNCHANGED <<fs, panic, disk>>
  <2>1. K' = K
    BY <1>1, <1>6 DEF K
  <2>2. Watched'
    BY <1>2, <1>5, <1>6 DEF Watched
  <2>3. Still'
    BY <1>1, <1>3, <1>4, <1>6, <2>1, <2>2 DEF Still
  <2> QED BY <2>3, StillStored, PTL
<1>7. CASE Orphan(fs.ino[boot]) /\ fs' = g /\ panic' = k.panic /\ disk' = g
  <2>1. /\ g \in FsTypes /\ BlocksFit(Bare(g)) /\ k.panic = "none"
        /\ g.ino[boot] = FreeInode
        /\ \A j \in Inums : j # boot => g.ino[j] = fs.ino[j]
    BY <1>1, <1>3, <1>4, <1>7, ReclaimFacts
  <2>2. fs' = g /\ panic' = "none" /\ disk' = g
    BY <1>7, <2>1
  <2> HIDE DEF g
  <2>3. K' = Bare(g)
    BY <1>1, <1>3, <2>2 DEF K, Bare
  <2>4. BlocksFit(K') /\ Blank(K')
    BY <2>1, <2>3, BareIs
  <2>5. ~Orphan(FreeInode)
    BY Constants DEF Orphan
  <2>6. Watched'
    BY <1>2, <1>5, <2>1, <2>2, <2>5 DEF Watched
  <2>7. Still'
    BY <1>1, <1>3, <2>1, <2>2, <2>4, <2>6 DEF Still
  <2> QED BY <2>7, StillStored, PTL
<1> QED BY <1>1, <1>6, <1>7

\* Booted keeps the blocks: nothing is in memory, and no orphan is left.
LEMMA BootedStored == ASSUME Tables, Stored, Booted PROVE Stored'
<1>1. /\ boot = NInodes + 1 /\ boot' = 0
      /\ itab' = [i \in Inums |-> Entry(Cardinality({p \in Users : cwd[p] = i}), FALSE, FreeInode)]
      /\ UNCHANGED <<fs, disk, ilk, me, panic>>
  BY DEF Booted
<1>2. boot # 0 /\ \A i \in Inums : i < boot
  BY <1>1, Constants DEF Inums
<1>3. /\ me = [p \in Users |-> Idle] /\ ilk = [i \in Inums |-> Nobody]
      /\ itab = [i \in Inums |-> Unused]
  BY <1>2 DEF Tables, BootOK
<1>4. Sane(K) /\ K.fs = fs /\ K.itab = itab /\ K.panic = panic
  BY SaneNow, FilesTypesParts DEF Tables
<1>5. K' \in KernelTypes
  <2>1. FilesTypes'
    BY BootedStep DEF Tables
  <2> QED BY <2>1 DEF FilesTypes, K, KernelTypes
<1> DEFINE r == K'
<1>6. r.fs = fs /\ r.itab = itab' /\ r.panic = panic
  BY <1>1 DEF K
<1> HIDE DEF r
<1>7. \A i \in Inums : ~itab'[i].valid /\ itab'[i].copy = FreeInode
  BY <1>1 DEF Entry
<1>8. \A i \in Inums : Latest(r, i) = fs.ino[i] /\ Latest(K, i) = fs.ino[i]
  BY <1>3, <1>4, <1>6, <1>7, UnusedFacts DEF Latest
<1>9. BlocksFit(r) /\ Blank(r)
  <2>1. r \in KernelTypes
    BY <1>5 DEF r
  <2>2. BlocksFit(r)
    BY <1>4, <1>6, <1>8, <2>1, FitNodes DEF Sane
  <2> QED BY <1>6, <1>7, <2>2 DEF Blank
<1>10. Watched'
  BY <1>1, <1>2 DEF Stored, Watched
<1>11. Still'
  BY <1>1, <1>3, <1>9, <1>10 DEF Still, Stored, r
<1> QED BY <1>11, StillStored, PTL

\* The blocks of the image: inode i has block i, for the first three, and nothing else has any.
LEMMA ImageStored ==
    ASSUME NEW t \in {"file", "dir"}, Image(t) \in FsTypes
    PROVE  BlocksFit(Bare(Image(t))) /\ \A i \in Inums : ~Orphan(Image(t).ino[i])
<1> DEFINE f == Image(t)
           k == Bare(f)
<1>1. {1, 2, 3} \subseteq Inums /\ {1, 2, 3} \subseteq Blocks
  BY FilesAssumption DEF Inums, Blocks
<1>2. /\ \A i \in {1, 2, 3} : /\ f.ino[i].addrs = [NoAddrs EXCEPT ![0] = i]
                              /\ f.ino[i].type # "none" /\ f.ino[i].nlink # 0
      /\ \A i \in Inums \ {1, 2, 3} : f.ino[i] = FreeInode
      /\ f.used = {1, 2, 3}
      /\ \A b \in {1, 2, 3} : f.data[b] \subseteq {b}
      /\ \A i \in Inums : f.ind[i] = NoInd
  <2>1. /\ f.ino[1].addrs = [NoAddrs EXCEPT ![0] = 1] /\ f.ino[1].type = "dir"
        /\ f.ino[1].nlink = 2
    BY <1>1 DEF Image
  <2>2. /\ f.ino[2].addrs = [NoAddrs EXCEPT ![0] = 2] /\ f.ino[2].type = "dir"
        /\ f.ino[2].nlink \in {1, 2}
    BY <1>1 DEF Image
  <2>3. /\ f.ino[3].addrs = [NoAddrs EXCEPT ![0] = 3] /\ f.ino[3].type = t /\ f.ino[3].nlink = 1
    BY <1>1 DEF Image
  <2>4. \A i \in Inums \ {1, 2, 3} : f.ino[i] = FreeInode
    BY <1>1 DEF Image
  <2>5. f.used = {1, 2, 3}
    BY DEF Image
  <2>6. f.data[1] = {} /\ f.data[2] = {} /\ f.data[3] \subseteq {3}
    BY <1>1 DEF Image
  <2>7. \A i \in Inums : f.ind[i] = NoInd
    BY DEF Image
  <2> HIDE DEF f
  <2> QED BY <2>1, <2>2, <2>3, <2>4, <2>5, <2>6, <2>7
<1>3. f \in FsTypes
  OBVIOUS
<1> HIDE DEF f
<1>4. /\ k \in KernelTypes /\ k.fs = f
      /\ \A i \in Inums : Latest(k, i) = f.ino[i]
  BY <1>3, BareIs
<1> HIDE DEF k
<1>5. /\ 0 \in 0 .. NDirect /\ 0 \in 0 .. MaxBlock
      /\ \A s \in 0 .. NDirect : NoAddrs[s] = 0 /\ FreeInode.addrs[s] = 0
      /\ \A n \in 0 .. NIndirect - 1 : NoInd[n] = 0
  BY Constants DEF NoAddrs, NoInd, FreeInode, Dinode, MaxBlock
<1>6. NoAddrs \in [0 .. NDirect -> Blocks \union {0}] /\ FreeInode.type = "none"
  BY Constants DEF Addrs
<1>7. \A i \in {1, 2, 3}, s \in 0 .. NDirect : f.ino[i].addrs[s] = IF s = 0 THEN i ELSE 0
  BY <1>2, <1>5, <1>6
<1>8. \A i \in Inums, s \in 0 .. MaxBlock :
         Here(k, i, s) = IF i \in {1, 2, 3} /\ s = 0 THEN i ELSE 0
  <2> SUFFICES ASSUME NEW i \in Inums, NEW s \in 0 .. MaxBlock
               PROVE  Here(k, i, s) = IF i \in {1, 2, 3} /\ s = 0 THEN i ELSE 0
    OBVIOUS
  <2>1. CASE s <= NDirect
    <3>1. Here(k, i, s) = f.ino[i].addrs[s] /\ s \in 0 .. NDirect
      BY <1>4, <2>1, PlaceFacts DEF Here
    <3>2. CASE i \in {1, 2, 3}
      BY <1>7, <3>1, <3>2
    <3>3. CASE i \notin {1, 2, 3}
      BY <1>2, <1>5, <3>1, <3>3
    <3> QED BY <3>2, <3>3
  <2>2. CASE ~(s <= NDirect)
    <3>1. Here(k, i, s) = 0
      BY <1>2, <1>4, <1>5, <2>2, PlaceFacts DEF Here
    <3>2. s # 0
      BY <1>5, <2>2, PlaceFacts
    <3> QED BY <3>1, <3>2
  <2> QED BY <2>1, <2>2
<1>9. OwnBlocks(k)
  BY <1>2, <1>4, <1>8 DEF OwnBlocks
<1>10. OnePlace(k)
  BY <1>8 DEF OnePlace
<1>11. NoneLost(k)
  <2> SUFFICES ASSUME NEW b \in {1, 2, 3}
               PROVE  \E i \in Inums, s \in 0 .. MaxBlock : Here(k, i, s) = b
    BY <1>2, <1>4 DEF NoneLost
  <2>1. b \in Inums /\ Here(k, b, 0) = b
    BY <1>1, <1>5, <1>8
  <2> QED BY <1>5, <2>1
<1>12. SavedSome(k)
  BY <1>4 DEF SavedSome
<1>13. FreeIsBare(k)
  BY <1>2, <1>4, <1>8 DEF FreeIsBare
<1>14. BlocksFit(k)
  BY <1>9, <1>10, <1>11, <1>12, <1>13 DEF BlocksFit
<1>15. \A i \in Inums : ~Orphan(f.ino[i])
  BY <1>2, <1>6 DEF Orphan
<1> QED BY <1>14, <1>15 DEF k, f

\* The first state has its blocks.
LEMMA InitStored == Init => Stored
<1> SUFFICES ASSUME Init PROVE Stored
  OBVIOUS
<1>1. PICK t \in {"file", "dir"} : fs = Image(t)
  BY DEF Init
<1>2. /\ fs \in FsTypes /\ boot # 0 /\ K = Bare(fs) /\ disk = fs
      /\ me = [p \in Users |-> Idle] /\ ilk = [i \in Inums |-> Nobody]
  BY InitTables, Constants DEF Init, Tables, FilesTypes, K, Bare
<1>3. BlocksFit(Bare(fs)) /\ \A i \in Inums : ~Orphan(fs.ino[i])
  BY <1>1, <1>2, ImageStored
<1>4. Blank(Bare(fs))
  BY <1>2, BareIs
<1>5. Watched
  BY <1>2, <1>3 DEF Watched
<1>6. Still
  BY <1>2, <1>3, <1>4, <1>5 DEF Still
<1> QED BY <1>6, StillStored

-----------------------------------------------------------------------------
(* The theorems about blocks and inodes without links                      *)

\* Every step keeps the blocks right, and somebody watches over the inodes without links.
LEMMA StoredKept == Tables /\ Ordered /\ Stored /\ [Next]_vars => Stored'
<1> SUFFICES ASSUME Tables, Ordered, Stored, [Next]_vars PROVE Stored'
  OBVIOUS
<1>1. ASSUME NEW p \in Users, NEW c \in Calls, Begin(p, c) PROVE Stored'
  BY <1>1, BeginStored
<1>2. ASSUME NEW p \in Users, WalkEnd(p) \/ Walk(p) \/ Iput(p) \/ IputEnd(p) \/ EndOp(p)
      PROVE  Stored'
  BY <1>2, WalkEndStored, WalkStored, IputStored, IputEndStored, EndOpStored
<1>3. ASSUME NEW p \in Users,
             LinkOld(p) \/ LinkNew(p) \/ LinkBad(p) \/ Unlink(p) \/ UnlinkChild(p) \/ UnlinkLast(p)
      PROVE  Stored'
  BY <1>3, LinkOldStored, LinkNewStored, LinkBadStored, UnlinkStored, UnlinkChildStored,
     UnlinkLastStored
<1>4. ASSUME NEW p \in Users,
             Create(p) \/ CreateOld(p) \/ CreateNew(p) \/ CreateFail(p) \/ Made(p)
      PROVE  Stored'
  BY <1>4, CreateStored, LookStored, CreateNewStored, CreateFailStored, MadeStored
<1>5. ASSUME NEW p \in Users, Open(p) \/ OpenFile(p) \/ Chdir(p) \/ ChdirEnd(p) PROVE Stored'
  BY <1>5, LookStored, OpenFileStored, ChdirEndStored
<1>6. ASSUME NEW p \in Users, NEW d \in 1 .. NOFile, Close(p, d) \/ Dup(p, d) \/ Read(p, d)
      PROVE  Stored'
  BY <1>6, CloseStored, DupStored, ReadStored
<1>7. ASSUME NEW p \in Users, NEW d \in 1 .. NOFile, NEW n \in WriteSizes, Write(p, d, n)
      PROVE  Stored'
  BY <1>7, WriteStored
<1>8. ASSUME NEW p \in Users, WriteOp(p) \/ WriteBlock(p) \/ WriteEnd(p) PROVE Stored'
  BY <1>8, WriteOpStored, WriteBlockStored, WriteEndStored
<1>9. CASE Crash \/ Ireclaim \/ Booted
  BY <1>9, CrashStored, IreclaimStored, BootedStored
<1>10. CASE UNCHANGED vars
  <2>1. UNCHANGED <<fs, disk, inTx, itab, ilk, me, boot, panic>>
    BY <1>10 DEF vars
  <2> QED BY <2>1 DEF Stored, Watched, K, BeingFreed, Frees, BeingMade
<1> QED BY <1>1, <1>2, <1>3, <1>4, <1>5, <1>6, <1>7, <1>8, <1>9, <1>10 DEF Next

\* The invariant of the theorems.
LEMMA StoredAlways == Spec => [](Tables /\ Stored)
<1>1. Init => Tables /\ Ordered /\ Stored
  BY InitTables, InitOrder, InitStored
<1>2. Tables /\ Ordered /\ Stored /\ [Next]_vars => (Tables /\ Ordered /\ Stored)'
  BY TablesKept, OrderKept, StoredKept
<1> QED BY <1>1, <1>2, PTL DEF Spec

\* The blocks on disk have one place each, and every block in use has one.
LEMMA DiskBlocks == ASSUME Tables, Stored PROVE BlocksOnDisk
<1> DEFINE k == Bare(disk)
<1>1. disk \in FsTypes /\ BlocksFit(k)
  BY DEF Tables, FilesTypes, Stored
<1>2. k.fs = disk /\ \A i \in Inums : Latest(k, i) = disk.ino[i]
  BY <1>1, BareIs
<1>3. \A i \in Inums, s \in 0 .. MaxBlock : BlockAt(disk, <<i, s>>) = Here(k, i, s)
  BY <1>2 DEF BlockAt, Here
<1> HIDE DEF k
<1>4. \A x \in Inums \X (0 .. MaxBlock) :
         x[1] \in Inums /\ x[2] \in 0 .. MaxBlock /\ x = <<x[1], x[2]>>
  OBVIOUS
<1>5. \A x \in Inums \X (0 .. MaxBlock) : BlockAt(disk, x) = Here(k, x[1], x[2])
  BY <1>3, <1>4
<1>6. ASSUME NEW x \in Owned(disk), NEW y \in Owned(disk), BlockAt(disk, x) = BlockAt(disk, y)
      PROVE  x = y
  <2>1. /\ x \in Inums \X (0 .. MaxBlock) /\ y \in Inums \X (0 .. MaxBlock)
        /\ BlockAt(disk, x) # 0
    BY DEF Owned
  <2>2. /\ Here(k, x[1], x[2]) # 0 /\ Here(k, x[1], x[2]) = Here(k, y[1], y[2])
    BY <1>5, <1>6, <2>1
  <2>3. x[1] = y[1] /\ x[2] = y[2]
    BY <1>1, <1>4, <2>1, <2>2 DEF BlocksFit, OnePlace
  <2> QED BY <1>4, <2>1, <2>3
<1>7. ASSUME NEW x \in Owned(disk) PROVE BlockAt(disk, x) \in disk.used
  <2>1. x \in Inums \X (0 .. MaxBlock) /\ BlockAt(disk, x) # 0
    BY DEF Owned
  <2>2. Here(k, x[1], x[2]) # 0 /\ BlockAt(disk, x) = Here(k, x[1], x[2])
    BY <1>5, <2>1
  <2> QED BY <1>1, <1>2, <1>4, <2>1, <2>2 DEF BlocksFit, OwnBlocks
<1>8. ASSUME NEW b \in disk.used PROVE \E x \in Owned(disk) : BlockAt(disk, x) = b
  <2>1. PICK i \in Inums, s \in 0 .. MaxBlock : Here(k, i, s) = b
    BY <1>1, <1>2 DEF BlocksFit, NoneLost
  <2>2. b # 0
    BY <1>1, FsParts, Constants
  <2>3. <<i, s>> \in Inums \X (0 .. MaxBlock) /\ BlockAt(disk, <<i, s>>) = b
    BY <1>3, <2>1
  <2> QED BY <2>2, <2>3 DEF Owned
<1>9. {BlockAt(disk, x) : x \in Owned(disk)} = disk.used
  BY <1>7, <1>8
<1> QED BY <1>6, <1>9 DEF BlocksOnDisk

\* What is in them was written to the inode that has them.
LEMMA OwnData == ASSUME Tables, Stored PROVE NoStaleData
<1>1. K \in KernelTypes /\ K.fs = fs /\ BlocksFit(K)
  BY FilesTypesParts DEF Tables, Stored
<1> SUFFICES ASSUME NEW i \in Inums, NEW b \in BlocksOf(fs, fs.ino[i], i)
             PROVE  fs.data[b] \subseteq {i}
  BY DEF NoStaleData
<1>2. \E s \in 0 .. MaxBlock : Here(K, i, s) = b /\ b # 0
  <2>1. b # 0 /\ \/ \E s \in 0 .. NDirect : b = fs.ino[i].addrs[s]
                 \/ \E n \in 0 .. NIndirect - 1 : b = fs.ind[i][n]
    BY DEF BlocksOf
  <2>2. ASSUME NEW s \in 0 .. NDirect, b = fs.ino[i].addrs[s]
        PROVE  s \in 0 .. MaxBlock /\ Here(K, i, s) = b
    <3>1. b = Latest(K, i).addrs[s]
      BY <1>1, <2>1, <2>2 DEF BlocksFit, SavedSome
    <3> QED BY <1>1, <3>1, HereFacts, PlaceFacts
  <2>3. ASSUME NEW n \in 0 .. NIndirect - 1, b = fs.ind[i][n]
        PROVE  n + NDirect + 1 \in 0 .. MaxBlock /\ Here(K, i, n + NDirect + 1) = b
    BY <1>1, <2>3, HereFacts, PlaceFacts
  <2> QED BY <2>1, <2>2, <2>3
<1> QED BY <1>1, <1>2 DEF BlocksFit, OwnBlocks

\* An inode without links is referenced.
LEMMA WatchedUsed == ASSUME Tables, Stored PROVE OrphansAreUsed
<1> SUFFICES ASSUME boot = 0, NEW i \in Inums, Orphan(fs.ino[i]) PROVE itab[i].ref > 0
  BY DEF OrphansAreUsed, Orphan
<1>1. /\ RefsOK /\ FilesTypes /\ CopiesOK /\ K.itab = itab
      /\ \A p \in Users : me[p] \in MeTypes
  BY FilesTypesParts DEF Tables, FilesTypes
<1>2. CASE Live(K, i)
  <2>1. itab[i].valid
    BY <1>1, <1>2 DEF Live
  <2>2. itab[i].ref # 0
    BY <1>1, <2>1 DEF CopiesOK
  <2>3. itab[i].ref \in Nat
    BY TablesImply DEF TablesSound, TypeOK
  <2> QED BY <2>2, <2>3
<1>3. CASE BeingMade(i)
  <2>1. PICK p \in Users : me[p].at = "createNew" /\ me[p].ip = i
    BY <1>3 DEF BeingMade
  <2>2. /\ itab[i].ref \in Nat
        /\ itab[i].ref >= Count(me[p], cwd[p], i) + Cardinality(Opens(i))
        /\ Cardinality(Opens(i)) \in Nat
    BY <1>1, RefAtLeast, OpensFinite
  <2>3. Count(me[p], cwd[p], i) \in Nat /\ Count(me[p], cwd[p], i) >= 1
    <3>1. One(me[p].ip = i /\ IpUsed(me[p])) = 1
      BY <2>1 DEF One, IpUsed, IpPlaces
    <3>2. /\ One(me[p].dp = i /\ DpUsed(me[p])) \in Nat
          /\ One(cwd[p] = i /\ me[p].at # "chdirEnd") \in Nat
          /\ PutCount(me[p].put, i) \in Nat
      BY DEF One, PutCount
    <3> QED BY <3>1, <3>2 DEF Count, HandCount
  <2> QED BY <2>2, <2>3
<1>4. Live(K, i) \/ BeingMade(i)
  BY DEF Stored, Watched
<1> QED BY <1>2, <1>3, <1>4

\* A block belongs to one place of one inode: whenever the power fails, the blocks in use on
\* disk are those of the inodes on disk, each at one place (balloc, bfree, bmap, itrunc); and a
\* block of a file holds nothing that was written to another file (balloc clears it).
THEOREM BlocksAreSound == Spec => []BlocksSound
<1>1. Tables /\ Stored => BlocksSound
  BY DiskBlocks, OwnData DEF BlocksSound
<1> QED BY <1>1, StoredAlways, PTL

\* An inode without links has a user as long as it exists, so that a last iput() comes to
\* free it; those that a crash leaves are freed by ireclaim() before the first process starts.
THEOREM OrphansHaveUsers == Spec => []OrphansAreUsed
<1>1. Tables /\ Stored => OrphansAreUsed
  BY WatchedUsed
<1> QED BY <1>1, StoredAlways, PTL
-----------------------------------------------------------------------------
(* Links                                                                   *)

\* What counts as a link of inode i: the names it has, and the ".." of directories that have
\* a name themselves.
Links(f, i) ==
    {x \in Inums \X (Names \union {DotDot}) :
        f.ents[x[1]][x[2]] = i /\ (x[2] = DotDot => x[1] # Root /\ ~Removed(f, x[1]))}

\* A link that a process has counted and not made yet, or removed and not discounted yet.
Owes(m, i) ==
    \/ m.at \in {"walk", "linkNew", "linkBad"} /\ m.dp = i
    \/ m.at = "unlinkLast" /\ m.ip = i
Owed(M, i) == {q \in Users : Owes(M[q], i)}
Total(f, M, i) == One(i = Root) + Cardinality(Links(f, i)) + Cardinality(Owed(M, i))
Counted(f, M, B) ==
    \A i \in Inums : /\ f.ino[i].nlink >= Total(f, M, i)
                     /\ i \notin B => f.ino[i].nlink = Total(f, M, i)

\* The directories are a tree, but for those in U, which are not finished, and for what was
\* entered into a removed directory, B.
FreeNone(f) == \A i \in Inums : f.ino[i].type = "none" => f.ino[i].nlink = 0
DirsOnly(f) == \A i \in Inums : f.ino[i].type # "dir" => f.ents[i] = NoEnts
RootTop(f) ==
    f.ino[Root].type = "dir" /\ \A d \in Inums, n \in Names : f.ents[d][n] # Root
DotsOK(f, U) ==
    \A d \in Inums :
        /\ f.ents[d][Dot] \in {0, d}
        /\ f.ino[d].type = "dir" /\ d \notin U => f.ents[d][Dot] = d /\ f.ents[d][DotDot] # 0
OneName(f) ==
    \A d, i \in Inums, n \in Names : f.ents[d][n] = i /\ f.ino[i].type = "dir"
        => f.ents[i][DotDot] = d /\ \A l \in Names : f.ents[d][l] = i => l = n
Burying(f, B) ==
    \A d, i \in Inums, n \in Names : f.ents[d][n] = i /\ Removed(f, d) => i \in B
Tree(f, B, U) ==
    FreeNone(f) /\ DirsOnly(f) /\ RootTop(f) /\ DotsOK(f, U) /\ OneName(f) /\ Burying(f, B)

Failed(p, i) == me[p].at = "createFail" /\ me[p].put # <<>> /\ Head(me[p].put) = i /\ ilk[i] # p
Unfinished == {i \in Inums : BeingMade(i) \/ \E p \in Users : Failed(p, i)}
NoneOwed == [p \in Users |-> Idle]

InHands(p) ==
    /\ me[p].at \notin {"user", "writeOp"} => p \in inTx
    /\ me[p].at = "unlink" => fs.ino[me[p].ip].type = "dir"
    /\ me[p].at = "createNew" =>
         /\ me[p].call.op \in {"create", "mkdir", "mknod", "mkbad"}
         /\ fs.ino[me[p].ip].nlink = 0 /\ fs.ino[me[p].ip].type = TypeOf(me[p].call.op)
         /\ fs.ents[me[p].ip] = NoEnts
         /\ itab[me[p].ip].ref = 1 + One(BeingFreed(me[p].ip))
         /\ fs.ents[me[p].dp][LastName(p)] = 0
    /\ me[p].at = "unlinkChild" =>
         LastName(p) \in Names /\ fs.ents[me[p].dp][LastName(p)] = me[p].ip
    /\ \A i \in Inums : Failed(p, i) =>
         /\ fs.ino[i].nlink = 0 /\ fs.ino[i].type # "none"
         /\ itab[i].ref = 1 /\ itab[i].valid /\ ~BeingFreed(i)

InTable ==
    \A i \in Inums :
        /\ itab[i].ref > 0 => fs.ino[i].type # "none" \/ BeingFreed(i)
        /\ BeingFreed(i) => (fs.ino[i].type = "none" /\ itab[i].ref = 1) \/ BeingMade(i)

Joined ==
    /\ panic = "none"
    /\ Tree(fs, buried, Unfinished) /\ Counted(fs, me, buried)
    /\ Tree(disk, buriedDisk, {}) /\ Counted(disk, NoneOwed, buriedDisk)
    /\ \A p \in Users : InHands(p)
    /\ boot = 0 => InTable
    /\ boot # 0 => \A p \in Users : fs.ino[cwd[p]].nlink > 0
Consistent == dangling \/ Joined

\* The links of an inode can be counted, and so can the processes that owe one.
LEMMA LinksFinite ==
    ASSUME NEW f, NEW i
    PROVE  IsFiniteSet(Links(f, i)) /\ Cardinality(Links(f, i)) \in Nat
<1>1. IsFiniteSet(Inums)
  BY Constants, FS_Interval DEF Inums
<1>2. IsFiniteSet(Names \union {DotDot})
  BY FilesAssumption, FS_AddElement
<1>3. IsFiniteSet(Inums \X (Names \union {DotDot}))
  BY <1>1, <1>2, FS_Product
<1>4. Links(f, i) \in SUBSET (Inums \X (Names \union {DotDot}))
  BY DEF Links
<1> QED BY <1>3, <1>4, FS_Subset, FS_CardinalityType

\* The processes that owe a link can be counted.
LEMMA OwedFinite ==
    ASSUME NEW M, NEW i
    PROVE  IsFiniteSet(Owed(M, i)) /\ Cardinality(Owed(M, i)) \in Nat
<1>1. Owed(M, i) \in SUBSET Users
  BY DEF Owed
<1> QED BY <1>1, Constants, FS_Subset, FS_CardinalityType

\* The total is at least each of its parts.
LEMMA TotalFacts ==
    ASSUME NEW f, NEW M, NEW i
    PROVE  /\ Total(f, M, i) \in Nat
           /\ Total(f, M, i) >= Cardinality(Links(f, i))
           /\ Total(f, M, i) >= Cardinality(Owed(M, i))
           /\ Total(f, M, i) >= One(i = Root)
<1>1. Cardinality(Links(f, i)) \in Nat /\ Cardinality(Owed(M, i)) \in Nat
  BY LinksFinite, OwedFinite
<1>2. One(i = Root) \in Nat
  BY DEF One
<1> QED BY <1>1, <1>2 DEF Total

\* A set that is not empty has elements.
LEMMA AtLeastOne ==
    ASSUME NEW S, IsFiniteSet(S), NEW x \in S PROVE Cardinality(S) >= 1
<1>1. Cardinality(S) \in Nat
  BY FS_CardinalityType
<1>2. Cardinality(S) # 0
  BY FS_EmptySet
<1> QED BY <1>1, <1>2

\* An inode without links is named by nothing.
LEMMA NoLinks ==
    ASSUME NEW f \in FsTypes, NEW M, NEW B, Counted(f, M, B), NEW i \in Inums,
           f.ino[i].nlink <= 0
    PROVE  /\ f.ino[i].nlink = 0 /\ i # Root
           /\ \A d \in Inums, n \in Names : f.ents[d][n] # i
           /\ \A d \in Inums : f.ents[d][DotDot] = i => d = Root \/ Removed(f, d)
           /\ \A q \in Users : ~Owes(M[q], i)
           /\ Removed(f, i)
<1>1. f.ino[i].nlink >= Total(f, M, i) /\ f.ino[i].nlink \in Int
  BY FsParts, DinodeParts DEF Counted
<1>2. /\ Total(f, M, i) \in Nat /\ Total(f, M, i) >= Cardinality(Links(f, i))
      /\ Total(f, M, i) >= Cardinality(Owed(M, i)) /\ Total(f, M, i) >= One(i = Root)
  BY TotalFacts
<1>3. Cardinality(Links(f, i)) \in Nat /\ Cardinality(Owed(M, i)) \in Nat
  BY LinksFinite, OwedFinite
<1>4. /\ f.ino[i].nlink = 0 /\ Cardinality(Links(f, i)) = 0 /\ Cardinality(Owed(M, i)) = 0
      /\ One(i = Root) = 0
  BY <1>1, <1>2, <1>3 DEF One
<1>5. Links(f, i) = {} /\ Owed(M, i) = {}
  BY <1>4, LinksFinite, OwedFinite, FS_EmptySet
<1>6. i # Root
  BY <1>4 DEF One
<1>7. \A d \in Inums, n \in Names : f.ents[d][n] # i
  <2> SUFFICES ASSUME NEW d \in Inums, NEW n \in Names, f.ents[d][n] = i PROVE FALSE
    OBVIOUS
  <2>1. n # DotDot
    BY FilesAssumption
  <2>2. <<d, n>> \in Links(f, i)
    BY <2>1 DEF Links
  <2> QED BY <2>2, <1>5
<1>8. \A d \in Inums : f.ents[d][DotDot] = i => d = Root \/ Removed(f, d)
  <2> SUFFICES ASSUME NEW d \in Inums, f.ents[d][DotDot] = i, d # Root, ~Removed(f, d)
               PROVE  FALSE
    OBVIOUS
  <2>1. <<d, DotDot>> \in Links(f, i)
    BY DEF Links
  <2> QED BY <2>1, <1>5
<1>9. \A q \in Users : ~Owes(M[q], i)
  BY <1>5 DEF Owed
<1> QED BY <1>4, <1>6, <1>7, <1>8, <1>9 DEF Removed

\* An inode that an entry names has a link.
LEMMA NamedHasLink ==
    ASSUME NEW f \in FsTypes, NEW M, NEW B, Counted(f, M, B), NEW i \in Inums,
           NEW d \in Inums, NEW n \in Names, f.ents[d][n] = i
    PROVE  f.ino[i].nlink > 0
<1>1. f.ino[i].nlink \in Int
  BY FsParts, DinodeParts
<1> SUFFICES ASSUME f.ino[i].nlink <= 0 PROVE FALSE
  BY <1>1
<1> QED BY NoLinks

\* The root has a link that nobody makes.
LEMMA RootHasLink ==
    ASSUME NEW f \in FsTypes, NEW M, NEW B, Counted(f, M, B)
    PROVE  f.ino[Root].nlink > 0
<1>0. Root \in Inums
  BY Constants
<1>1. f.ino[Root].nlink \in Int
  BY <1>0, FsParts, DinodeParts
<1> SUFFICES ASSUME f.ino[Root].nlink <= 0 PROVE FALSE
  BY <1>1
<1> QED BY <1>0, NoLinks

\* One process more or less that owes a link.
LEMMA OwedStep ==
    ASSUME me \in [Users -> MeTypes], NEW p \in Users, NEW m, me' = [me EXCEPT ![p] = m], NEW i
    PROVE  Cardinality(Owed(me', i))
               = Cardinality(Owed(me, i)) + One(Owes(m, i)) - One(Owes(me[p], i))
<1> DEFINE S == Owed(me, i)
           T == Owed(me', i)
<1>1. me'[p] = m /\ \A q \in Users : q # p => me'[q] = me[q]
  OBVIOUS
<1>2. \A y : y # p => (y \in T <=> y \in S)
  BY <1>1 DEF Owed
<1>3. IsFiniteSet(S)
  BY OwedFinite
<1>4. (p \in S <=> Owes(me[p], i)) /\ (p \in T <=> Owes(m, i))
  BY <1>1 DEF Owed
<1> HIDE DEF S, T
<1>5. Cardinality(T) = Cardinality(S) + One(p \in T) - One(p \in S)
  BY <1>2, <1>3, SetStep
<1>6. One(p \in T) = One(Owes(m, i)) /\ One(p \in S) = One(Owes(me[p], i))
  BY <1>4 DEF One
<1> QED BY <1>5, <1>6 DEF S, T

\* f and g differ in one name: g has inode i in directory d under n, f has nothing there.
Enters(f, g, d, n, i) ==
    /\ f.ents[d][n] = 0 /\ g.ents[d][n] = i
    /\ \A e \in Inums, l \in Names : e # d \/ l # n => g.ents[e][l] = f.ents[e][l]

\* Then no other inode gains or loses its last name.
LEMMA RemovedOther ==
    ASSUME NEW f, NEW g, NEW d \in Inums, NEW n \in Names, NEW i \in Inums,
           Enters(f, g, d, n, i), NEW e \in Inums, e # i
    PROVE  Removed(g, e) <=> Removed(f, e)
<1>0. 0 \notin Inums
  BY Constants
<1>1. \A j \in Inums, l \in Names : g.ents[j][l] = e <=> f.ents[j][l] = e
  <2> TAKE j \in Inums, l \in Names
  <2>1. CASE j = d /\ l = n
    BY <1>0, <2>1 DEF Enters
  <2>2. CASE j # d \/ l # n
    BY <2>2 DEF Enters
  <2> QED BY <2>1, <2>2
<1> QED BY <1>1 DEF Removed

\* Between f and g inode i gains a link, and t one more.
Gains(f, g, i, t) ==
    \A j \in Inums :
        Cardinality(Links(g, j)) = Cardinality(Links(f, j)) + One(j = i) + One(t = j)

\* What i and d have of links more in g, with t the ".." of i.
LEMMA LinksEntered ==
    ASSUME NEW f, NEW g, NEW d \in Inums, NEW n \in Names, NEW i \in Inums,
           Enters(f, g, d, n, i), d # i, i # Root, NEW t \in {0, d},
           \A e \in Inums : e # i => g.ents[e][DotDot] = f.ents[e][DotDot],
           g.ents[i][DotDot] = t, f.ents[i][DotDot] = 0 \/ Removed(f, i)
    PROVE  Gains(f, g, i, t)
<1> SUFFICES ASSUME NEW j \in Inums
             PROVE  Cardinality(Links(g, j)) = Cardinality(Links(f, j)) + One(j = i) + One(t = j)
  BY DEF Gains
<1>0. 0 \notin Inums /\ DotDot \notin Names
  BY Constants, FilesAssumption
<1>1. ~Removed(g, i)
  BY DEF Removed, Enters
<1>2. \A e \in Inums : e # i => (Removed(g, e) <=> Removed(f, e))
  BY RemovedOther
<1> DEFINE S == Links(f, j)
           T == Links(g, j)
<1>3. IsFiniteSet(S) /\ Cardinality(S) \in Nat
  BY LinksFinite
<1>4. \A e \in Inums, l \in Names : (e # d \/ l # n) => (<<e, l>> \in T <=> <<e, l>> \in S)
  BY <1>0 DEF Links, Enters
<1>5. \A e \in Inums : e # i => (<<e, DotDot>> \in T <=> <<e, DotDot>> \in S)
  BY <1>2 DEF Links
<1>6. <<i, DotDot>> \notin S /\ (<<i, DotDot>> \in T <=> t = j)
  BY <1>0, <1>1 DEF Links
<1>7. <<d, n>> \notin S /\ (<<d, n>> \in T <=> j = i)
  BY <1>0 DEF Links, Enters
<1>8. \A y : y \in S \/ y \in T =>
          \E e \in Inums : \E l \in Names \union {DotDot} : y = <<e, l>>
  BY DEF Links
<1> HIDE DEF S, T
<1>9. CASE j = i
  <2>1. t # j
    BY <1>0, <1>9
  <2>2. \A y : y # <<d, n>> => (y \in T <=> y \in S)
    <3> SUFFICES ASSUME NEW e \in Inums, NEW l \in Names \union {DotDot}, <<e, l>> # <<d, n>>
                 PROVE  <<e, l>> \in T <=> <<e, l>> \in S
      BY <1>8
    <3>1. CASE l \in Names
      BY <1>4, <3>1
    <3>2. CASE l = DotDot
      BY <1>5, <1>6, <2>1, <3>2
    <3> QED BY <3>1, <3>2
  <2>3. Cardinality(T) = Cardinality(S) + One(<<d, n>> \in T) - One(<<d, n>> \in S)
    BY <1>3, <2>2, SetStep
  <2>4. /\ One(<<d, n>> \in T) = 1 /\ One(<<d, n>> \in S) = 0 /\ One(j = i) = 1
        /\ One(t = j) = 0
    BY <1>7, <1>9, <2>1 DEF One
  <2> QED BY <1>3, <2>3, <2>4 DEF S, T
<1>10. CASE j # i
  <2>1. \A y : y # <<i, DotDot>> => (y \in T <=> y \in S)
    <3> SUFFICES ASSUME NEW e \in Inums, NEW l \in Names \union {DotDot},
                        <<e, l>> # <<i, DotDot>>
                 PROVE  <<e, l>> \in T <=> <<e, l>> \in S
      BY <1>8
    <3>1. CASE l \in Names
      BY <1>4, <1>7, <1>10, <3>1
    <3>2. CASE l = DotDot
      BY <1>5, <3>2
    <3> QED BY <3>1, <3>2
  <2>2. Cardinality(T) = Cardinality(S) + One(<<i, DotDot>> \in T) - One(<<i, DotDot>> \in S)
    BY <1>3, <2>1, SetStep
  <2>3. /\ One(<<i, DotDot>> \in T) = One(t = j) /\ One(<<i, DotDot>> \in S) = 0
        /\ One(j = i) = 0 /\ One(t = j) \in Nat
    BY <1>6, <1>10 DEF One
  <2> QED BY <1>3, <2>2, <2>3 DEF S, T
<1> QED BY <1>9, <1>10

\* The entry of i in d is the only one of a directory i.
LEMMA OnlyName ==
    ASSUME NEW f, OneName(f), NEW d \in Inums, NEW n \in Names, NEW i \in Inums,
           f.ents[d][n] = i, f.ino[i].type = "dir", NEW e \in Inums, NEW l \in Names,
           f.ents[e][l] = i
    PROVE  e = d /\ l = n
<1>1. f.ents[i][DotDot] = d /\ f.ents[i][DotDot] = e
  BY DEF OneName
<1> QED BY <1>1 DEF OneName

\* Entries, types and link counts are the same.
Same(f, g) ==
    \A j \in Inums : /\ g.ents[j] = f.ents[j] /\ g.ino[j].type = f.ino[j].type
                     /\ g.ino[j].nlink = f.ino[j].nlink

\* The same entries: the same directories are removed.
LEMMA RemovedSame ==
    ASSUME NEW f, NEW g, \A j \in Inums : g.ents[j] = f.ents[j], NEW e
    PROVE  Removed(g, e) <=> Removed(f, e)
BY DEF Removed

\* The same entries: the same links.
LEMMA LinksSame ==
    ASSUME NEW f, NEW g, \A j \in Inums : g.ents[j] = f.ents[j], NEW i
    PROVE  Links(g, i) = Links(f, i)
BY RemovedSame DEF Links

\* The tree stays when entries and types do, and more may be excepted.
LEMMA TreeSame ==
    ASSUME NEW f, NEW g, \A j \in Inums : g.ents[j] = f.ents[j],
           \A j \in Inums : g.ino[j].type = f.ino[j].type,
           \A j \in Inums : g.ino[j].type = "none" => g.ino[j].nlink = 0,
           NEW B, NEW C, B \subseteq C, NEW U, NEW V, U \subseteq V, Tree(f, B, U)
    PROVE  Tree(g, C, V)
<1>1. FreeNone(g) /\ DirsOnly(g)
  BY DEF Tree, FreeNone, DirsOnly
<1>2. RootTop(g)
  BY Constants DEF Tree, RootTop
<1>3. DotsOK(g, V)
  BY DEF Tree, DotsOK
<1>4. OneName(g)
  BY DEF Tree, OneName
<1>5. Burying(g, C)
  BY RemovedSame DEF Tree, Burying
<1> QED BY <1>1, <1>2, <1>3, <1>4, <1>5 DEF Tree
\* A tree stays one with a name more, of an inode that has none or is no directory.
LEMMA TreeEntered ==
    ASSUME NEW f \in FsTypes, NEW g \in FsTypes, NEW d \in Inums, NEW n \in Names, NEW i \in Inums,
           Enters(f, g, d, n, i), d # i, i # Root, NEW B, NEW U, Tree(f, B, U),
           \A j \in Inums : g.ino[j].type = f.ino[j].type,
           \A j \in Inums : g.ino[j].type = "none" => g.ino[j].nlink = 0,
           f.ino[d].type = "dir",
           \A e \in Inums : e # d /\ e # i => g.ents[e] = f.ents[e],
           \A l \in Entries : l # n => g.ents[d][l] = f.ents[d][l],
           f.ino[i].type # "dir" => g.ents[i] = NoEnts,
           f.ino[i].type = "dir" =>
               /\ g.ents[i][Dot] = i /\ g.ents[i][DotDot] = d
               /\ \A l \in Names : g.ents[i][l] = 0
               /\ \A e \in Inums, l \in Names : f.ents[e][l] # i,
           NEW C, B \subseteq C, Removed(f, d) => i \in C, NEW V, U \subseteq V \union {i}
    PROVE  Tree(g, C, V)
<1>0. /\ 0 \notin Inums /\ Dot \notin Names /\ DotDot \notin Names /\ Names \subseteq Entries
      /\ Dot \in Entries /\ DotDot \in Entries /\ Dot # DotDot
  BY Constants, FilesAssumption DEF Entries, Dot, DotDot
<1>1. /\ FreeNone(f) /\ DirsOnly(f) /\ RootTop(f) /\ DotsOK(f, U) /\ OneName(f) /\ Burying(f, B)
  BY DEF Tree
<1>2. FreeNone(g)
  BY DEF FreeNone
<1>3. DirsOnly(g)
  <2> SUFFICES ASSUME NEW j \in Inums, f.ino[j].type # "dir" PROVE g.ents[j] = NoEnts
    BY DEF DirsOnly
  <2>1. j # d
    OBVIOUS
  <2>2. CASE j = i
    BY <2>2
  <2>3. CASE j # i
    BY <1>1, <2>1, <2>3 DEF DirsOnly
  <2> QED BY <2>2, <2>3
<1>4. RootTop(g)
  <2>1. g.ino[Root].type = "dir"
    BY <1>1, Constants DEF RootTop
  <2>2. \A e \in Inums, l \in Names : g.ents[e][l] # Root
    <3> TAKE e \in Inums, l \in Names
    <3>1. CASE e = d /\ l = n
      BY <3>1 DEF Enters
    <3>2. CASE e # d \/ l # n
      BY <1>1, <3>2 DEF Enters, RootTop
    <3> QED BY <3>1, <3>2
  <2> QED BY <2>1, <2>2 DEF RootTop
<1>5. DotsOK(g, V)
  <2> SUFFICES ASSUME NEW e \in Inums
               PROVE  /\ g.ents[e][Dot] \in {0, e}
                      /\ f.ino[e].type = "dir" /\ e \notin V
                            => g.ents[e][Dot] = e /\ g.ents[e][DotDot] # 0
    BY DEF DotsOK
  <2>1. CASE e = i /\ f.ino[i].type = "dir"
    BY <1>0, <2>1
  <2>2. CASE e = i /\ f.ino[i].type # "dir"
    BY <1>0, <2>2 DEF NoEnts
  <2>3. CASE e # i
    <3>1. g.ents[e][Dot] = f.ents[e][Dot] /\ g.ents[e][DotDot] = f.ents[e][DotDot]
      BY <1>0, <2>3
    <3> QED BY <1>1, <2>3, <3>1 DEF DotsOK
  <2> QED BY <2>1, <2>2, <2>3
<1>6. OneName(g)
  <2> SUFFICES ASSUME NEW e \in Inums, NEW j \in Inums, NEW l \in Names, g.ents[e][l] = j,
                      f.ino[j].type = "dir"
               PROVE  /\ g.ents[j][DotDot] = e
                      /\ \A o \in Names : g.ents[e][o] = j => o = l
    BY DEF OneName
  <2>1. CASE j = i
    <3>1. e = d /\ l = n
      BY <2>1 DEF Enters
    <3>2. \A o \in Names : g.ents[d][o] = i => o = n
      BY <2>1 DEF Enters
    <3> QED BY <2>1, <3>1, <3>2
  <2>2. CASE j # i
    <3>1. f.ents[e][l] = j
      BY <2>2 DEF Enters
    <3>2. f.ents[j][DotDot] = e /\ \A o \in Names : f.ents[e][o] = j => o = l
      BY <1>1, <3>1 DEF OneName
    <3>3. g.ents[j][DotDot] = f.ents[j][DotDot]
      BY <1>0, <2>2
    <3>4. \A o \in Names : g.ents[e][o] = j => f.ents[e][o] = j
      BY <2>2 DEF Enters
    <3> QED BY <3>2, <3>3, <3>4
  <2> QED BY <2>1, <2>2
<1>7. Burying(g, C)
  <2> SUFFICES ASSUME NEW e \in Inums, NEW j \in Inums, NEW l \in Names, g.ents[e][l] = j,
                      Removed(g, e)
               PROVE  j \in C
    BY DEF Burying
  <2>1. e # i
    BY DEF Removed, Enters
  <2>2. Removed(f, e)
    BY <2>1, RemovedOther
  <2>3. CASE e = d /\ l = n
    BY <2>2, <2>3 DEF Enters
  <2>4. CASE e # d \/ l # n
    <3>1. f.ents[e][l] = j
      BY <2>4 DEF Enters
    <3> QED BY <1>1, <2>2, <3>1 DEF Burying
  <2> QED BY <2>3, <2>4
<1> QED BY <1>2, <1>3, <1>4, <1>5, <1>6, <1>7 DEF Tree

\* A tree stays one with a name less, of an inode that has no entries.
LEMMA TreeLeft ==
    ASSUME NEW f \in FsTypes, NEW g \in FsTypes, NEW d \in Inums, NEW n \in Names, NEW i \in Inums,
           Enters(g, f, d, n, i), NEW B, NEW U, Tree(f, B, U),
           \A j \in Inums : g.ino[j].type = f.ino[j].type,
           \A j \in Inums : g.ino[j].type = "none" => g.ino[j].nlink = 0,
           \A e \in Inums : g.ents[e][Dot] = f.ents[e][Dot],
           \A e \in Inums : g.ents[e][DotDot] = f.ents[e][DotDot],
           \A e \in Inums : e # d => g.ents[e] = f.ents[e],
           f.ino[d].type = "dir", \A l \in Names : f.ents[i][l] = 0, NEW V, U \subseteq V
    PROVE  Tree(g, B, V)
<1>0. 0 \notin Inums /\ DotDot \notin Names
  BY Constants, FilesAssumption
<1>1. /\ FreeNone(f) /\ DirsOnly(f) /\ RootTop(f) /\ DotsOK(f, U) /\ OneName(f) /\ Burying(f, B)
  BY DEF Tree
<1>2. \A e, j \in Inums, l \in Names : g.ents[e][l] = j => f.ents[e][l] = j
  BY <1>0 DEF Enters
<1>3. FreeNone(g) /\ DotsOK(g, V)
  BY <1>1 DEF FreeNone, DotsOK
<1>4. DirsOnly(g)
  BY <1>1 DEF DirsOnly
<1>5. RootTop(g)
  BY <1>1, <1>2, Constants DEF RootTop
<1>6. OneName(g)
  BY <1>1, <1>2 DEF OneName
<1>7. Burying(g, B)
  <2> SUFFICES ASSUME NEW e \in Inums, NEW j \in Inums, NEW l \in Names, g.ents[e][l] = j,
                      Removed(g, e)
               PROVE  j \in B
    BY DEF Burying
  <2>1. f.ents[e][l] = j
    BY <1>2
  <2>2. e # i
    BY <1>0, <2>1
  <2>3. Removed(f, e)
    BY <2>2, RemovedOther
  <2> QED BY <1>1, <2>1, <2>3 DEF Burying
<1> QED BY <1>3, <1>4, <1>5, <1>6, <1>7 DEF Tree

\* g is f without inode i and its entries.
Wipes(f, g, i) ==
    /\ g.ents[i] = NoEnts /\ \A e \in Inums : e # i => g.ents[e] = f.ents[e]
    /\ g.ino[i].type = "none" /\ g.ino[i].nlink = 0
    /\ \A e \in Inums : e # i => /\ g.ino[e].type = f.ino[e].type
                                 /\ g.ino[e].nlink = f.ino[e].nlink

\* A directory without links names no directories.
LEMMA RemovedWiped ==
    ASSUME NEW f \in FsTypes, NEW g \in FsTypes, NEW i \in Inums, Wipes(f, g, i),
           NEW B, NEW U, Tree(f, B, U), NEW M, NEW C, Counted(f, M, C), f.ino[i].nlink <= 0,
           NEW e \in Inums, f.ino[e].type = "dir"
    PROVE  Removed(g, e) <=> Removed(f, e)
<1>0. 0 \notin Inums /\ Names \subseteq Entries
  BY Constants DEF Entries
<1>1. \A l \in Names : g.ents[i][l] # e
  BY <1>0 DEF Wipes, NoEnts
<1>2. CASE e = Root
  BY <1>2 DEF Removed
<1>3. CASE e # Root
  <2>1. \A l \in Names : f.ents[i][l] # e
    <3> SUFFICES ASSUME NEW l \in Names, f.ents[i][l] = e PROVE FALSE
      OBVIOUS
    <3>1. f.ents[e][DotDot] = i
      BY DEF Tree, OneName
    <3>2. Removed(f, e)
      BY <1>3, <3>1, NoLinks
    <3> QED BY <3>2 DEF Removed
  <2>2. \A j \in Inums, l \in Names : g.ents[j][l] = e <=> f.ents[j][l] = e
    BY <1>1, <2>1 DEF Wipes
  <2> QED BY <2>2 DEF Removed
<1> QED BY <1>2, <1>3

\* The tree stays when an inode without links is made free.
LEMMA TreeWiped ==
    ASSUME NEW f \in FsTypes, NEW g \in FsTypes, NEW i \in Inums, Wipes(f, g, i),
           NEW B, NEW U, Tree(f, B, U), NEW M, NEW A, Counted(f, M, A), f.ino[i].nlink <= 0,
           NEW C, B \subseteq C \union {i}, NEW V, U \subseteq V \union {i}
    PROVE  Tree(g, C, V)
<1>0. /\ 0 \notin Inums /\ Names \subseteq Entries /\ Dot \in Entries /\ DotDot \in Entries
      /\ \A l \in Entries : NoEnts[l] = 0
  BY Constants DEF Entries, NoEnts
<1>1. /\ FreeNone(f) /\ DirsOnly(f) /\ RootTop(f) /\ DotsOK(f, U) /\ OneName(f) /\ Burying(f, B)
  BY DEF Tree
<1>2. i # Root /\ \A d \in Inums, n \in Names : f.ents[d][n] # i
  BY NoLinks
<1>3. \A e, j \in Inums, l \in Entries : g.ents[e][l] = j => e # i /\ f.ents[e][l] = j
  BY <1>0 DEF Wipes
<1>4. FreeNone(g)
  BY <1>1 DEF FreeNone, Wipes
<1>5. DirsOnly(g)
  BY <1>1 DEF DirsOnly, Wipes
<1>6. RootTop(g)
  BY <1>0, <1>1, <1>2, <1>3, Constants DEF RootTop, Wipes
<1>7. DotsOK(g, V)
  <2> SUFFICES ASSUME NEW e \in Inums
               PROVE  /\ g.ents[e][Dot] \in {0, e}
                      /\ g.ino[e].type = "dir" /\ e \notin V
                            => g.ents[e][Dot] = e /\ g.ents[e][DotDot] # 0
    BY DEF DotsOK
  <2>1. CASE e = i
    BY <1>0, <2>1 DEF Wipes
  <2>2. CASE e # i
    BY <1>1, <2>2 DEF DotsOK, Wipes
  <2> QED BY <2>1, <2>2
<1>8. OneName(g)
  <2> SUFFICES ASSUME NEW e \in Inums, NEW j \in Inums, NEW l \in Names, g.ents[e][l] = j,
                      g.ino[j].type = "dir"
               PROVE  /\ g.ents[j][DotDot] = e
                      /\ \A o \in Names : g.ents[e][o] = j => o = l
    BY DEF OneName
  <2>1. e # i /\ f.ents[e][l] = j /\ j # i
    BY <1>0, <1>2, <1>3
  <2>2. f.ino[j].type = "dir" /\ g.ents[j] = f.ents[j] /\ g.ents[e] = f.ents[e]
    BY <2>1 DEF Wipes
  <2> QED BY <1>1, <2>1, <2>2 DEF OneName
<1>9. Burying(g, C)
  <2> SUFFICES ASSUME NEW e \in Inums, NEW j \in Inums, NEW l \in Names, g.ents[e][l] = j,
                      Removed(g, e)
               PROVE  j \in C
    BY DEF Burying
  <2>1. e # i /\ f.ents[e][l] = j /\ j # i
    BY <1>0, <1>2, <1>3
  <2>2. f.ino[e].type = "dir"
    <3> SUFFICES ASSUME f.ino[e].type # "dir" PROVE FALSE
      OBVIOUS
    <3>1. f.ents[e] = NoEnts
      BY <1>1 DEF DirsOnly
    <3> QED BY <1>0, <2>1, <3>1
  <2>3. Removed(f, e)
    BY <2>2, RemovedWiped
  <2> QED BY <1>1, <2>1, <2>3 DEF Burying
<1> QED BY <1>4, <1>5, <1>6, <1>7, <1>8, <1>9 DEF Tree

\* The inodes that a removed directory named lose that link; they are in B.
LEMMA CountedWiped ==
    ASSUME NEW f \in FsTypes, NEW g \in FsTypes, NEW i \in Inums, Wipes(f, g, i),
           NEW B, NEW U, Tree(f, B, U), NEW M, Counted(f, M, B), f.ino[i].nlink <= 0,
           NEW N, \A j : Owed(N, j) = Owed(M, j)
    PROVE  Counted(g, N, B)
<1>0. /\ 0 \notin Inums /\ Names \subseteq Entries /\ DotDot \in Entries
      /\ \A l \in Entries : NoEnts[l] = 0
  BY Constants DEF Entries, NoEnts
<1>1. f.ino[i].nlink = 0 /\ i # Root /\ Removed(f, i)
  BY NoLinks
<1>2. \A e, j \in Inums, l \in Entries : g.ents[e][l] = j => e # i /\ f.ents[e][l] = j
  BY <1>0 DEF Wipes
<1>3. \A e, j \in Inums : f.ents[e][DotDot] = j => f.ino[e].type = "dir"
  BY <1>0 DEF Tree, DirsOnly
<1> SUFFICES ASSUME NEW j \in Inums
             PROVE  /\ g.ino[j].nlink >= Total(g, N, j)
                    /\ j \notin B => g.ino[j].nlink = Total(g, N, j)
  BY DEF Counted
<1>4. Links(g, j) \subseteq Links(f, j)
  <2> SUFFICES ASSUME NEW e \in Inums, NEW l \in Names \union {DotDot}, <<e, l>> \in Links(g, j)
               PROVE  <<e, l>> \in Links(f, j)
    BY DEF Links
  <2>1. g.ents[e][l] = j /\ (l = DotDot => e # Root /\ ~Removed(g, e))
    BY DEF Links
  <2>2. f.ents[e][l] = j
    BY <1>0, <1>2, <2>1
  <2>3. l = DotDot => ~Removed(f, e)
    BY <1>3, <2>1, <2>2, RemovedWiped
  <2> QED BY <2>1, <2>2, <2>3 DEF Links
<1>5. j \notin B => Links(f, j) \subseteq Links(g, j)
  <2> SUFFICES ASSUME j \notin B, NEW e \in Inums, NEW l \in Names \union {DotDot},
                      <<e, l>> \in Links(f, j)
               PROVE  <<e, l>> \in Links(g, j)
    BY DEF Links
  <2>1. f.ents[e][l] = j /\ (l = DotDot => e # Root /\ ~Removed(f, e))
    BY DEF Links
  <2>2. e # i
    BY <1>1, <2>1 DEF Tree, Burying
  <2>3. g.ents[e][l] = j
    BY <2>1, <2>2 DEF Wipes
  <2>4. l = DotDot => ~Removed(g, e)
    BY <1>3, <2>1, RemovedWiped
  <2> QED BY <2>1, <2>3, <2>4 DEF Links
<1>6. g.ino[j].nlink = f.ino[j].nlink /\ f.ino[j].nlink \in Int
  BY <1>1, FsParts, DinodeParts DEF Wipes
<1>7. /\ Cardinality(Links(g, j)) <= Cardinality(Links(f, j))
      /\ Cardinality(Links(g, j)) \in Nat /\ Cardinality(Links(f, j)) \in Nat
  BY <1>4, LinksFinite, FS_Subset
<1>8. j \notin B => Cardinality(Links(g, j)) = Cardinality(Links(f, j))
  BY <1>4, <1>5
<1>9. Cardinality(Owed(N, j)) = Cardinality(Owed(M, j)) /\ Cardinality(Owed(M, j)) \in Nat
  BY OwedFinite
<1>10. /\ f.ino[j].nlink >= Total(f, M, j)
       /\ j \notin B => f.ino[j].nlink = Total(f, M, j)
  BY DEF Counted
<1>11. One(j = Root) \in Nat
  BY DEF One
<1> DEFINE lg == Cardinality(Links(g, j))
           lf == Cardinality(Links(f, j))
           o  == Cardinality(Owed(M, j))
           r  == One(j = Root)
<1>12. Total(g, N, j) = r + lg + o /\ Total(f, M, j) = r + lf + o
  BY <1>9 DEF Total
<1>13. r \in Nat /\ lg \in Nat /\ lf \in Nat /\ o \in Nat /\ lg <= lf /\ (j \notin B => lg = lf)
  BY <1>7, <1>8, <1>9, <1>11
<1> HIDE DEF lg, lf, o, r
<1> QED BY <1>6, <1>10, <1>12, <1>13

\* A step of a process from f to g in which every link count moves with the links.
Balanced(f, g, p, m) ==
    \A j \in Inums :
        g.ino[j].nlink = f.ino[j].nlink
                         + (Cardinality(Links(g, j)) - Cardinality(Links(f, j)))
                         + (One(Owes(m, j)) - One(Owes(me[p], j)))

\* The counts stay right when each link made or removed is counted, or owed by the process.
LEMMA CountedStep ==
    ASSUME NEW f \in FsTypes, NEW g \in FsTypes, NEW B, Counted(f, me, B),
           me \in [Users -> MeTypes], NEW p \in Users, NEW m, me' = [me EXCEPT ![p] = m],
           Balanced(f, g, p, m), NEW C, B \subseteq C
    PROVE  Counted(g, me', C)
<1> SUFFICES ASSUME NEW j \in Inums
             PROVE  /\ g.ino[j].nlink >= Total(g, me', j)
                    /\ j \notin C => g.ino[j].nlink = Total(g, me', j)
  BY DEF Counted
<1> DEFINE lf == Cardinality(Links(f, j))
           lg == Cardinality(Links(g, j))
           of == Cardinality(Owed(me, j))
           og == Cardinality(Owed(me', j))
           a  == One(Owes(m, j))
           b  == One(Owes(me[p], j))
           r  == One(j = Root)
           nf == f.ino[j].nlink
           ng == g.ino[j].nlink
<1>1. /\ lf \in Nat /\ lg \in Nat /\ of \in Nat /\ og \in Nat /\ a \in Nat /\ b \in Nat
      /\ r \in Nat /\ nf \in Int
  BY LinksFinite, OwedFinite, FsParts, DinodeParts DEF One
<1>2. og = of + a - b
  BY OwedStep
<1>3. ng = nf + (lg - lf) + (a - b)
  BY DEF Balanced
<1>4. nf >= r + lf + of /\ (j \notin B => nf = r + lf + of)
  BY DEF Counted, Total
<1>5. j \notin C => j \notin B
  OBVIOUS
<1> SUFFICES ng >= r + lg + og /\ (j \notin C => ng = r + lg + og)
  BY DEF Total
<1> HIDE DEF lf, lg, of, og, a, b, r, nf, ng
<1> QED BY <1>1, <1>2, <1>3, <1>4, <1>5

\* So does one that changes no links.
LEMMA CountedSame ==
    ASSUME NEW f \in FsTypes, NEW g \in FsTypes, NEW B, Counted(f, me, B), Same(f, g),
           me \in [Users -> MeTypes], NEW p \in Users, NEW m, me' = [me EXCEPT ![p] = m],
           \A j \in Inums : Owes(m, j) <=> Owes(me[p], j), NEW C, B \subseteq C
    PROVE  Counted(g, me', C)
<1>1. \A j \in Inums : Links(g, j) = Links(f, j)
  BY LinksSame DEF Same
<1>2. \A j \in Inums : Cardinality(Links(f, j)) \in Nat /\ f.ino[j].nlink \in Int
  BY LinksFinite, FsParts, DinodeParts
<1>3. \A j \in Inums : One(Owes(m, j)) = One(Owes(me[p], j)) /\ One(Owes(m, j)) \in Nat
  BY DEF One
<1>4. Balanced(f, g, p, m)
  <2> SUFFICES ASSUME NEW j \in Inums
               PROVE  g.ino[j].nlink = f.ino[j].nlink
                          + (Cardinality(Links(g, j)) - Cardinality(Links(f, j)))
                          + (One(Owes(m, j)) - One(Owes(me[p], j)))
    BY DEF Balanced
  <2>1. Cardinality(Links(g, j)) = Cardinality(Links(f, j)) /\ g.ino[j].nlink = f.ino[j].nlink
    BY <1>1 DEF Same
  <2> QED BY <1>2, <1>3, <2>1
<1> QED BY <1>4, CountedStep

\* The same count for other processes that owe the same.
LEMMA CountedOwed ==
    ASSUME NEW f, NEW g, NEW M, NEW N, NEW B, Counted(f, M, B), Same(f, g),
           \A j \in Inums : Owed(N, j) = Owed(M, j)
    PROVE  Counted(g, N, B)
<1>1. \A j \in Inums : Links(g, j) = Links(f, j)
  BY LinksSame DEF Same
<1>2. \A j \in Inums : Total(g, N, j) = Total(f, M, j)
  BY <1>1 DEF Total
<1> QED BY <1>2 DEF Counted, Same

\* An inode without links need not be excepted.
LEMMA CountedShrunk ==
    ASSUME NEW f \in FsTypes, NEW M, NEW B, Counted(f, M, B), NEW C,
           \A j \in Inums : j \in B /\ j \notin C => f.ino[j].nlink = 0
    PROVE  Counted(f, M, C)
<1> SUFFICES ASSUME NEW j \in Inums, j \notin C PROVE f.ino[j].nlink = Total(f, M, j)
  BY DEF Counted
<1>1. CASE j \notin B
  BY <1>1 DEF Counted
<1>2. CASE j \in B
  <2>1. f.ino[j].nlink = 0 /\ f.ino[j].nlink >= Total(f, M, j) /\ Total(f, M, j) \in Nat
    BY <1>2, TotalFacts DEF Counted
  <2> QED BY <2>1
<1> QED BY <1>1, <1>2

\* An inode without links need not be excepted.
LEMMA TreeShrunk ==
    ASSUME NEW f \in FsTypes, NEW M, NEW A, Counted(f, M, A), NEW B, NEW U, Tree(f, B, U), NEW C,
           \A j \in Inums : j \in B /\ j \notin C => f.ino[j].nlink = 0
    PROVE  Tree(f, C, U)
<1>1. Burying(f, C)
  <2> SUFFICES ASSUME NEW d \in Inums, NEW j \in Inums, NEW n \in Names, f.ents[d][n] = j,
                      Removed(f, d)
               PROVE  j \in C
    BY DEF Burying
  <2>1. j \in B
    BY DEF Tree, Burying
  <2>2. f.ino[j].nlink # 0
    BY NamedHasLink
  <2> QED BY <2>1, <2>2
<1> QED BY <1>1 DEF Tree
-----------------------------------------------------------------------------
(* Inodes in use                                                           *)

\* What is known of an inode that can be looked at: it is neither free nor being freed, and
\* no create() has it to itself.
Settled(i) ==
    /\ fs.ino[i].type # "none" /\ ~BeingFreed(i) /\ ~BeingMade(i)
    /\ \A q \in Users : ~Failed(q, i)

\* Counting up to three.
LEMMA ThreeOf ==
    ASSUME NEW S, IsFiniteSet(S), NEW x \in S, NEW y \in S, x # y
    PROVE  /\ Cardinality(S) >= 2
           /\ \A z \in S : z # x /\ z # y => Cardinality(S) >= 3
<1>1. IsFiniteSet({x}) /\ Cardinality({x}) = 1
  BY FS_Singleton
<1>2. IsFiniteSet({x, y}) /\ Cardinality({x, y}) = 2
  <2>1. {x, y} = {x} \union {y} /\ y \notin {x}
    OBVIOUS
  <2> QED BY <1>1, <2>1, FS_AddElement
<1>3. Cardinality({x, y}) <= Cardinality(S) /\ Cardinality(S) \in Nat
  <2>1. {x, y} \subseteq S
    OBVIOUS
  <2> QED BY <2>1, FS_Subset, FS_CardinalityType
<1>4. ASSUME NEW z \in S, z # x, z # y PROVE Cardinality(S) >= 3
  <2>1. {x, y, z} = {x, y} \union {z} /\ z \notin {x, y} /\ {x, y, z} \subseteq S
    BY <1>4
  <2>2. Cardinality({x, y, z}) = 3
    BY <1>2, <2>1, FS_AddElement
  <2>3. Cardinality({x, y, z}) <= Cardinality(S)
    BY <2>1, FS_Subset
  <2> QED BY <1>3, <2>2, <2>3
<1> QED BY <1>2, <1>3, <1>4
\* The slot of the inode that a process is dropping.
HeadSlot(m) == IF Len(m.put) = 2 THEN "first" ELSE "last"

\* The inode that a process is to put next is in use.
LEMMA HeadUsed ==
    ASSUME Tables, NEW q \in Users, NEW i \in Inums, me[q].put # <<>>, Head(me[q].put) = i
    PROVE  <<q, HeadSlot(me[q])>> \in Uses(i) /\ HeadSlot(me[q]) \in {"first", "last"}
<1>1. me[q] \in MeTypes /\ Shape(me[q])
  BY DEF Tables, FilesTypes
<1>2. me[q].put \in Seq(Inums) /\ Len(me[q].put) <= 2 /\ Len(me[q].put) \in Nat
  BY <1>1 DEF Shape, MeTypes
<1>3. Len(me[q].put) # 0 /\ me[q].put[1] = i
  BY <1>2
<1>4. HeadSlot(me[q]) \in Slots /\ HeadSlot(me[q]) \in {"first", "last"}
  BY DEF HeadSlot, Slots
<1>5. CASE Len(me[q].put) = 2
  <2>1. HeadSlot(me[q]) = "first"
    BY <1>5 DEF HeadSlot
  <2>2. InSlot(me[q], cwd[q], "first", i)
    BY <1>3, <1>5 DEF InSlot
  <2> QED BY <1>4, <2>1, <2>2 DEF Uses
<1>6. CASE Len(me[q].put) # 2
  <2>0. Len(me[q].put) = 1
    <3> DEFINE l == Len(me[q].put)
    <3>1. l \in Nat /\ l <= 2 /\ l # 0 /\ l # 2
      BY <1>2, <1>3, <1>6
    <3> HIDE DEF l
    <3>2. l = 1
      BY <3>1
    <3> QED BY <3>2 DEF l
  <2>1. HeadSlot(me[q]) = "last" /\ Len(me[q].put) = 1
    BY <1>6, <2>0 DEF HeadSlot
  <2>2. InSlot(me[q], cwd[q], "last", i)
    BY <1>3, <2>1 DEF InSlot
  <2> QED BY <1>4, <2>1, <2>2 DEF Uses
<1> QED BY <1>5, <1>6

\* So is one that is being freed.
LEMMA FreedUsed ==
    ASSUME Tables, NEW i \in Inums, BeingFreed(i)
    PROVE  /\ ilk[i] \in Users /\ <<ilk[i], HeadSlot(me[ilk[i]])>> \in Uses(i)
           /\ HeadSlot(me[ilk[i]]) \in {"first", "last"}
<1>1. ilk[i] \in Users
  BY DEF Tables, FilesTypes, BeingFreed
<1> QED BY <1>1, HeadUsed DEF BeingFreed, Frees

\* So is one that create() has allocated.
LEMMA MadeUsed ==
    ASSUME Tables, NEW q \in Users, NEW i \in Inums, me[q].at = "createNew", me[q].ip = i
    PROVE  <<q, "ip">> \in Uses(i)
BY DEF Uses, InSlot, Slots, IpUsed, IpPlaces

\* So is one that create() gives up.
LEMMA FailedUsed ==
    ASSUME Tables, NEW q \in Users, NEW i \in Inums, Failed(q, i)
    PROVE  <<q, HeadSlot(me[q])>> \in Uses(i) /\ HeadSlot(me[q]) \in {"first", "last"}
BY HeadUsed DEF Failed

\* An inode that somebody has, other than to make or to free it, is settled.
LEMMA UseSettled ==
    ASSUME Tables, Joined, boot = 0, NEW i \in Inums, NEW p \in Users, NEW s \in Slots,
           InSlot(me[p], cwd[p], s, i), ~(me[p].at = "createNew" /\ s = "ip"),
           s \in {"last", "first"} => ilk[i] # p /\ ~Failed(p, i)
    PROVE  Settled(i)
<1> DEFINE U == Uses(i)
           x == <<p, s>>
           n == Cardinality(U)
<1>1. x \in U
  BY DEF Uses
<1>2. IsFiniteSet(U) /\ n \in Nat
  BY UsesFinite
<1>3. Cardinality(Opens(i)) \in Nat /\ itab[i].ref = n + Cardinality(Opens(i))
  BY OpensFinite DEF Tables, RefsOK
<1>4. itab[i].ref >= n /\ itab[i].ref \in Nat /\ n >= 1
  BY <1>1, <1>2, <1>3, AtLeastOne
<1>5. InTable /\ \A q \in Users : InHands(q)
  BY DEF Joined
<1>6. BeingFreed(i) => <<ilk[i], HeadSlot(me[ilk[i]])>> \in U
                       /\ <<ilk[i], HeadSlot(me[ilk[i]])>> # x
                       /\ HeadSlot(me[ilk[i]]) # "ip"
  BY FreedUsed
<1>7. BeingFreed(i) => n >= 2
  BY <1>1, <1>2, <1>6, ThreeOf
<1>8. ~BeingMade(i)
  <2> SUFFICES ASSUME NEW q \in Users, me[q].at = "createNew", me[q].ip = i PROVE FALSE
    BY DEF BeingMade
  <2>1. <<q, "ip">> \in U /\ <<q, "ip">> # x
    BY MadeUsed
  <2>2. itab[i].ref = 1 + One(BeingFreed(i))
    BY <1>5 DEF InHands
  <2>3. CASE BeingFreed(i)
    <3>1. itab[i].ref = 2
      BY <2>2, <2>3 DEF One
    <3>2. <<ilk[i], HeadSlot(me[ilk[i]])>> # <<q, "ip">>
      BY <1>6, <2>3
    <3>3. n >= 3
      BY <1>1, <1>2, <1>6, <2>1, <2>3, <3>2, ThreeOf
    <3> QED BY <1>2, <1>4, <3>1, <3>3
  <2>4. CASE ~BeingFreed(i)
    <3>1. itab[i].ref = 1
      BY <2>2, <2>4 DEF One
    <3>2. n >= 2
      BY <1>1, <1>2, <2>1, ThreeOf
    <3> QED BY <1>2, <1>4, <3>1, <3>2
  <2> QED BY <2>3, <2>4
<1>9. ~BeingFreed(i)
  <2> SUFFICES ASSUME BeingFreed(i) PROVE FALSE
    OBVIOUS
  <2>1. itab[i].ref = 1
    BY <1>5, <1>8 DEF InTable
  <2> QED BY <1>2, <1>4, <1>7, <2>1
<1>10. fs.ino[i].type # "none"
  BY <1>2, <1>4, <1>5, <1>9 DEF InTable
<1>11. ASSUME NEW q \in Users, Failed(q, i) PROVE FALSE
  <2>1. itab[i].ref = 1
    BY <1>5, <1>11 DEF InHands
  <2>2. <<q, HeadSlot(me[q])>> \in U /\ <<q, HeadSlot(me[q])>> # x
    BY <1>11, FailedUsed
  <2>3. n >= 2
    BY <1>1, <1>2, <2>2, ThreeOf
  <2> QED BY <1>2, <1>4, <2>1, <2>3
<1> QED BY <1>8, <1>9, <1>10, <1>11 DEF Settled

\* So is one that an open file refers to.
LEMMA OpenSettled ==
    ASSUME Tables, Joined, boot = 0, NEW i \in Inums, Cardinality(Opens(i)) >= 1
    PROVE  Settled(i)
<1> DEFINE U == Uses(i)
           n == Cardinality(U)
<1>2. IsFiniteSet(U) /\ n \in Nat
  BY UsesFinite
<1>3. Cardinality(Opens(i)) \in Nat /\ itab[i].ref = n + Cardinality(Opens(i))
  BY OpensFinite DEF Tables, RefsOK
<1>4. itab[i].ref >= n + 1 /\ itab[i].ref \in Nat
  BY <1>2, <1>3
<1>5. InTable /\ \A q \in Users : InHands(q)
  BY DEF Joined
<1>6. BeingFreed(i) => <<ilk[i], HeadSlot(me[ilk[i]])>> \in U
                       /\ HeadSlot(me[ilk[i]]) # "ip"
  BY FreedUsed
<1>7. BeingFreed(i) => n >= 1
  BY <1>2, <1>6, AtLeastOne
<1>8. ~BeingMade(i)
  <2> SUFFICES ASSUME NEW q \in Users, me[q].at = "createNew", me[q].ip = i PROVE FALSE
    BY DEF BeingMade
  <2>1. <<q, "ip">> \in U
    BY MadeUsed
  <2>2. itab[i].ref = 1 + One(BeingFreed(i))
    BY <1>5 DEF InHands
  <2>3. CASE BeingFreed(i)
    <3>1. itab[i].ref = 2
      BY <2>2, <2>3 DEF One
    <3>2. <<ilk[i], HeadSlot(me[ilk[i]])>> # <<q, "ip">>
      BY <1>6, <2>3
    <3>3. n >= 2
      BY <1>2, <1>6, <2>1, <2>3, <3>2, ThreeOf
    <3> QED BY <1>2, <1>4, <3>1, <3>3
  <2>4. CASE ~BeingFreed(i)
    <3>1. itab[i].ref = 1
      BY <2>2, <2>4 DEF One
    <3>2. n >= 1
      BY <1>2, <2>1, AtLeastOne
    <3> QED BY <1>2, <1>4, <3>1, <3>2
  <2> QED BY <2>3, <2>4
<1>9. ~BeingFreed(i)
  <2> SUFFICES ASSUME BeingFreed(i) PROVE FALSE
    OBVIOUS
  <2>1. itab[i].ref = 1
    BY <1>5, <1>8 DEF InTable
  <2> QED BY <1>2, <1>4, <1>7, <2>1
<1>10. fs.ino[i].type # "none"
  BY <1>2, <1>4, <1>5, <1>9 DEF InTable
<1>11. ASSUME NEW q \in Users, Failed(q, i) PROVE FALSE
  <2>1. itab[i].ref = 1
    BY <1>5, <1>11 DEF InHands
  <2>2. <<q, HeadSlot(me[q])>> \in U
    BY <1>11, FailedUsed
  <2>3. n >= 1
    BY <1>2, <2>2, AtLeastOne
  <2> QED BY <1>2, <1>4, <2>1, <2>3
<1> QED BY <1>8, <1>9, <1>10, <1>11 DEF Settled

\* And so is one that has links.
LEMMA LinkSettled ==
    ASSUME Tables, Joined, boot = 0, NEW i \in Inums, fs.ino[i].nlink > 0
    PROVE  Settled(i)
<1>1. fs.ino[i].nlink # 0
  OBVIOUS
<1>2. fs.ino[i].type # "none"
  BY <1>1 DEF Joined, Tree, FreeNone
<1>3. ~BeingMade(i)
  BY <1>1 DEF Joined, InHands, BeingMade
<1>4. ~BeingFreed(i)
  BY <1>2, <1>3 DEF Joined, InTable
<1>5. \A q \in Users : ~Failed(q, i)
  BY <1>1 DEF Joined, InHands
<1> QED BY <1>2, <1>3, <1>4, <1>5 DEF Settled

\* What a process has in hand, and its current directory.
LEMMA HandSettled ==
    ASSUME Tables, Joined, NEW p \in Users, NEW a, At(p, a)
    PROVE  /\ a \in IpPlaces /\ a # "createNew" => me[p].ip \in Inums /\ Settled(me[p].ip)
           /\ DpUsed(me[p]) => me[p].dp \in Inums /\ Settled(me[p].dp)
           /\ a # "chdirEnd" => cwd[p] \in Inums /\ Settled(cwd[p])
<1>1. /\ boot = 0 /\ me[p].at = a /\ me[p] \in MeTypes /\ Shape(me[p]) /\ cwd[p] \in Inums
  BY DEF At, Tables, FilesTypes
<1>2. ASSUME a \in IpPlaces, a # "createNew" PROVE me[p].ip \in Inums /\ Settled(me[p].ip)
  <2>1. me[p].ip \in Inums
    BY <1>1, <1>2 DEF MeTypes, Shape, IpUsed
  <2>2. InSlot(me[p], cwd[p], "ip", me[p].ip) /\ "ip" \in Slots
    BY <1>1, <1>2 DEF InSlot, IpUsed, Slots
  <2> QED BY <1>1, <1>2, <2>1, <2>2, UseSettled
<1>3. ASSUME DpUsed(me[p]) PROVE me[p].dp \in Inums /\ Settled(me[p].dp)
  <2>1. me[p].dp \in Inums
    BY <1>1, <1>3 DEF MeTypes, Shape, DpUsed
  <2>2. InSlot(me[p], cwd[p], "dp", me[p].dp) /\ "dp" \in Slots
    BY <1>3 DEF InSlot, Slots
  <2> QED BY <1>1, <2>1, <2>2, UseSettled
<1>4. ASSUME a # "chdirEnd" PROVE cwd[p] \in Inums /\ Settled(cwd[p])
  <2>1. InSlot(me[p], cwd[p], "cwd", cwd[p]) /\ "cwd" \in Slots
    BY <1>1, <1>4 DEF InSlot, Slots
  <2> QED BY <1>1, <2>1, UseSettled
<1> QED BY <1>2, <1>3, <1>4

\* What is found under a name, unless that goes up to an inode without links.
LEMMA LookSettled ==
    ASSUME Tables, Joined, boot = 0, NEW d \in Inums, Settled(d), NEW n \in Entries,
           fs.ents[d][n] # 0, ~GoesUp(d, n)
    PROVE  fs.ents[d][n] \in Inums /\ Settled(fs.ents[d][n])
<1> DEFINE i == fs.ents[d][n]
<1>1. fs \in FsTypes /\ i \in Inums
  BY FsParts DEF Tables, FilesTypes, Dirs
<1>2. Counted(fs, me, buried) /\ DotsOK(fs, Unfinished)
  BY DEF Joined, Tree
<1>3. CASE n \in Names
  <2>1. fs.ino[i].nlink > 0
    BY <1>1, <1>2, <1>3, NamedHasLink
  <2> QED BY <1>1, <2>1, LinkSettled
<1>4. CASE n = Dot
  <2>1. i = d
    BY <1>2, <1>4 DEF DotsOK
  <2> QED BY <2>1
<1>5. CASE n = DotDot
  <2>1. fs.ino[i].nlink # 0
    BY <1>1, <1>5 DEF GoesUp
  <2>2. fs.ino[i].nlink \in Int /\ fs.ino[i].nlink >= Total(fs, me, i) /\ Total(fs, me, i) \in Nat
    BY <1>1, <1>2, FsParts, DinodeParts, TotalFacts DEF Counted
  <2>3. fs.ino[i].nlink > 0
    BY <2>1, <2>2
  <2> QED BY <1>1, <2>3, LinkSettled
<1> QED BY <1>3, <1>4, <1>5 DEF Entries
-----------------------------------------------------------------------------
(* Steps                                                                   *)

SameAt(f, g, j) ==
    /\ g.ents[j] = f.ents[j] /\ g.ino[j].type = f.ino[j].type
    /\ g.ino[j].nlink = f.ino[j].nlink

\* A step of p to k changes the inodes T in the file system and R in memory, and leaves what
\* other processes have in hand alone.
Leaves(p, k, T, R) ==
    /\ \A j \in Inums : (j \notin T => SameAt(fs, k.fs, j)) /\ (j \notin R => k.itab[j] = itab[j])
    /\ \A q \in Users, j \in Inums : q # p /\ (j \in T \/ j \in R) =>
          ~(me[q].at = "createNew" /\ me[q].ip = j) /\ ~Failed(q, j)
    /\ \A j \in Inums : j \in T =>
          /\ ilk[j] \in {Nobody, p} \/ fs.ino[j].type = "none"
          /\ k.fs.ino[j].type # "none"
    /\ \A j \in Inums : j \in R => k.fs.ino[j].type # "none"
    /\ \A j \in Inums : fs.ino[j].type # "none" => k.fs.ino[j].type = fs.ino[j].type
    /\ \A j \in Inums : j \notin R => ~Frees(p, j)

\* It acquires and releases its own locks only.
LocksMove(p) ==
    \A j \in Inums : ilk'[j] = ilk[j] \/ (ilk[j] \in {Nobody, p} /\ ilk'[j] \in {Nobody, p})

\* A step does not change whether an inode is being freed, if the process has not touched it.
LEMMA FreedKept ==
    ASSUME Tables, NEW p \in Users, NEW k, NEW m, Does(p, k, m), NEW T, NEW R, Leaves(p, k, T, R),
           LocksMove(p), NoneFreed, NEW j \in Inums, j \notin R
    PROVE  BeingFreed(j)' <=> BeingFreed(j)
<1>1. BeingFreed(j)' => BeingFreed(j)
  BY DEF NoneFreed
<1>2. ASSUME BeingFreed(j) PROVE BeingFreed(j)'
  <2> DEFINE r == ilk[j]
  <2>1. r \in Users /\ r # Nobody /\ Frees(r, j) /\ r # p
    BY <1>2, Constants DEF Tables, FilesTypes, BeingFreed, Leaves
  <2>2. ilk'[j] = r
    BY <2>1 DEF LocksMove
  <2>3. me'[r] = me[r]
    BY <2>1 DEF Does, Tables, FilesTypes
  <2> QED BY <2>1, <2>2, <2>3 DEF BeingFreed, Frees
<1> QED BY <1>1, <1>2

\* What the other processes have in hand stays.
LEMMA OthersHands ==
    ASSUME Tables, Ordered, Joined, NEW p \in Users, NEW k, NEW m, Does(p, k, m),
           NEW T, NEW R, Leaves(p, k, T, R), LocksMove(p), NoneFreed,
           NEW q \in Users, q # p, q \in inTx => q \in inTx'
    PROVE  InHands(q)'
<1>1. InHands(q) /\ PlaceOK(fs, me[q]) /\ panic = "none"
  BY DEF Joined, Ordered
<1>2. me'[q] = me[q] /\ LastName(q)' = LastName(q) /\ fs' = k.fs /\ itab' = k.itab
  BY DEF Does, Tables, FilesTypes, LastName
<1>3. me[q] \in MeTypes /\ Shape(me[q]) /\ Constants!1
  BY Constants DEF Tables, FilesTypes
<1>4. me[q].at \in {"createNew", "unlinkChild"} =>
          me[q].dp \in Inums /\ ilk[me[q].dp] = q /\ fs.ino[me[q].dp].type = "dir"
  <2> SUFFICES ASSUME me[q].at \in {"createNew", "unlinkChild"}
               PROVE  me[q].dp \in Inums /\ ilk[me[q].dp] = q /\ fs.ino[me[q].dp].type = "dir"
    OBVIOUS
  <2>1. me[q].dp \in Inums /\ Locked(me[q]) = me[q].dp /\ me[q].dp # 0
    BY <1>3, Constants DEF MeTypes, Shape, DpPlaces, Locked
  <2> QED BY <1>1, <2>1 DEF Tables, LocksOK, PlaceOK, HoldsDir, Pairs
<1>5. me[q].at \in {"createNew", "unlinkChild"} => k.fs.ents[me[q].dp] = fs.ents[me[q].dp]
  <2> SUFFICES ASSUME me[q].at \in {"createNew", "unlinkChild"}
               PROVE  k.fs.ents[me[q].dp] = fs.ents[me[q].dp]
    OBVIOUS
  <2>1. me[q].dp \notin T
    BY <1>4, Constants DEF Leaves
  <2> QED BY <1>4, <2>1 DEF Leaves, SameAt
<1>6. (me[q].at \notin {"user", "writeOp"} => q \in inTx)'
  BY <1>1, <1>2 DEF InHands
<1>7. (me[q].at = "unlink" => fs.ino[me[q].ip].type = "dir")'
  <2> SUFFICES ASSUME me[q].at = "unlink" PROVE k.fs.ino[me[q].ip].type = "dir"
    BY <1>2
  <2>1. me[q].ip \in Inums /\ fs.ino[me[q].ip].type = "dir"
    BY <1>1, <1>3 DEF InHands, MeTypes, Shape, IpUsed, IpPlaces
  <2> QED BY <2>1 DEF Leaves
<1>8. (me[q].at = "createNew" =>
         /\ me[q].call.op \in {"create", "mkdir", "mknod", "mkbad"}
         /\ fs.ino[me[q].ip].nlink = 0 /\ fs.ino[me[q].ip].type = TypeOf(me[q].call.op)
         /\ fs.ents[me[q].ip] = NoEnts
         /\ itab[me[q].ip].ref = 1 + One(BeingFreed(me[q].ip))
         /\ fs.ents[me[q].dp][LastName(q)] = 0)'
  <2> SUFFICES ASSUME me[q].at = "createNew"
               PROVE  /\ me[q].call.op \in {"create", "mkdir", "mknod", "mkbad"}
                      /\ k.fs.ino[me[q].ip].nlink = 0
                      /\ k.fs.ino[me[q].ip].type = TypeOf(me[q].call.op)
                      /\ k.fs.ents[me[q].ip] = NoEnts
                      /\ k.itab[me[q].ip].ref = 1 + (One(BeingFreed(me[q].ip)))'
                      /\ k.fs.ents[me[q].dp][LastName(q)] = 0
    BY <1>2
  <2>1. me[q].ip \in Inums
    BY <1>3 DEF MeTypes, Shape, IpUsed, IpPlaces
  <2> PICK i \in Inums : i = me[q].ip
    BY <2>1
  <2>2. i \notin T /\ i \notin R
    BY DEF Leaves
  <2>3. SameAt(fs, k.fs, i) /\ k.itab[i] = itab[i]
    BY <2>2 DEF Leaves
  <2>4. BeingFreed(i)' <=> BeingFreed(i)
    BY <2>2, FreedKept
  <2>5. me'[q].ip = i
    BY <1>2
  <2>6. (BeingFreed(me[q].ip))' <=> BeingFreed(i)'
    BY <2>5 DEF BeingFreed, Frees
  <2>7. (One(BeingFreed(me[q].ip)))' = One(BeingFreed(i))
    BY <2>4, <2>6 DEF One
  <2> QED BY <1>1, <1>5, <2>3, <2>7 DEF InHands, SameAt
<1>9. (me[q].at = "unlinkChild" =>
         LastName(q) \in Names /\ fs.ents[me[q].dp][LastName(q)] = me[q].ip)'
  BY <1>1, <1>2, <1>5 DEF InHands
<1>10. ASSUME NEW i \in Inums, Failed(q, i)'
       PROVE  /\ fs'.ino[i].nlink = 0 /\ fs'.ino[i].type # "none"
              /\ itab'[i].ref = 1 /\ itab'[i].valid /\ ~BeingFreed(i)'
  <2>1. Failed(q, i)
    <3>1. /\ me[q].at = "createFail" /\ me[q].put # <<>> /\ Head(me[q].put) = i
          /\ ilk'[i] # q
      BY <1>2, <1>10 DEF Failed
    <3>2. ilk[i] # q
      BY <3>1, Constants DEF LocksMove
    <3> QED BY <3>1, <3>2 DEF Failed
  <2>2. i \notin T /\ i \notin R
    BY <2>1 DEF Leaves
  <2>3. SameAt(fs, k.fs, i) /\ k.itab[i] = itab[i]
    BY <2>2 DEF Leaves
  <2>4. ~BeingFreed(i)'
    BY <1>1, <2>1, <2>2, FreedKept DEF InHands
  <2> QED BY <1>1, <1>2, <2>1, <2>3, <2>4 DEF InHands, SameAt
<1> QED BY <1>6, <1>7, <1>8, <1>9, <1>10 DEF InHands

\* A step in the running system keeps the tables in hand.
LEMMA HandStep ==
    ASSUME Tables, Ordered, Joined, boot = 0, boot' = 0, NEW p \in Users, NEW k, NEW m,
           Does(p, k, m), k.panic = "none", NEW T, NEW R, Leaves(p, k, T, R), LocksMove(p),
           NoneFreed,
           \A j \in Inums : j \in T \/ j \in R =>
               ~BeingFreed(j) \/ (m.at = "createNew" /\ m.ip = j),
           me[p].at = "createNew" => ~BeingFreed(me[p].ip),
           \A q \in Users : q # p /\ q \in inTx => q \in inTx',
           InHands(p)',
           Tree(k.fs, buried', Unfinished'), Counted(k.fs, me', buried'),
           Tree(disk', buriedDisk', {}), Counted(disk', NoneOwed, buriedDisk')
    PROVE  Joined'
<1>1. fs' = k.fs /\ itab' = k.itab /\ panic' = k.panic /\ me' = [me EXCEPT ![p] = m]
      /\ me \in [Users -> MeTypes]
  BY DEF Does, Tables, FilesTypes
<1>2. me'[p] = m /\ \A q \in Users : q # p => me'[q] = me[q]
  BY <1>1
<1>3. (\A q \in Users : InHands(q))'
  <2> SUFFICES ASSUME NEW q \in Users PROVE InHands(q)'
    OBVIOUS
  <2>1. CASE q = p
    BY <2>1
  <2>2. CASE q # p
    BY <2>2, OthersHands
  <2> QED BY <2>1, <2>2
<1>4. (boot = 0 => InTable)'
  <2> SUFFICES ASSUME NEW i \in Inums
               PROVE  /\ k.itab[i].ref > 0 => k.fs.ino[i].type # "none" \/ BeingFreed(i)'
                      /\ BeingFreed(i)' => \/ k.fs.ino[i].type = "none" /\ k.itab[i].ref = 1
                                           \/ BeingMade(i)'
    BY <1>1 DEF InTable
  <2>1. /\ itab[i].ref > 0 => fs.ino[i].type # "none" \/ BeingFreed(i)
        /\ BeingFreed(i) => (fs.ino[i].type = "none" /\ itab[i].ref = 1) \/ BeingMade(i)
    BY DEF Joined, InTable
  <2>2. m.at = "createNew" /\ m.ip = i => BeingMade(i)'
    BY <1>2 DEF BeingMade
  <2>3. BeingFreed(i)' => BeingFreed(i)
    BY DEF NoneFreed
  <2>4. CASE i \in R
    <3>1. k.fs.ino[i].type # "none"
      BY <2>4 DEF Leaves
    <3> QED BY <2>2, <2>3, <2>4, <3>1
  <2>5. CASE i \notin R
    <3>1. k.itab[i] = itab[i] /\ (BeingFreed(i)' <=> BeingFreed(i))
      BY <2>5, FreedKept DEF Leaves
    <3>2. BeingFreed(i) /\ BeingMade(i) => BeingMade(i)'
      <4> SUFFICES ASSUME BeingFreed(i), BeingMade(i) PROVE BeingMade(i)'
        OBVIOUS
      <4>1. PICK q \in Users : me[q].at = "createNew" /\ me[q].ip = i
        BY DEF BeingMade
      <4>2. q # p
        BY <4>1
      <4> QED BY <1>2, <4>1, <4>2 DEF BeingMade
    <3>3. CASE i \in T
      <4>1. k.fs.ino[i].type # "none"
        BY <3>3 DEF Leaves
      <4> QED BY <2>2, <3>1, <3>3, <4>1
    <3>4. CASE i \notin T
      <4>1. k.fs.ino[i].type = fs.ino[i].type
        BY <3>4 DEF Leaves, SameAt
      <4> QED BY <2>1, <3>1, <3>2, <4>1
    <3> QED BY <3>3, <3>4
  <2> QED BY <2>4, <2>5
<1>5. panic' = "none" /\ (boot # 0 => \A q \in Users : fs.ino[cwd[q]].nlink > 0)'
  BY <1>1
<1>6. (Tree(fs, buried, Unfinished) /\ Counted(fs, me, buried))'
  BY <1>1
<1>7. (Tree(disk, buriedDisk, {}) /\ Counted(disk, NoneOwed, buriedDisk))'
  <2>1. (NoneOwed)' = NoneOwed
    BY DEF NoneOwed
  <2> QED OBVIOUS
<1> QED BY <1>3, <1>4, <1>5, <1>6, <1>7 DEF Joined

\* What a process has in hand, but for three places.
LEMMA PlainHands ==
    ASSUME NEW p \in Users, NEW m, me'[p] = m,
           m.at \notin {"createNew", "unlinkChild", "unlink"},
           m.at = "createFail" => m.put = <<>>,
           m.at \in {"user", "writeOp"} \/ p \in inTx'
    PROVE  InHands(p)'
<1>1. ASSUME NEW i \in Inums PROVE ~Failed(p, i)'
  BY DEF Failed
<1> QED BY <1>1 DEF InHands
-----------------------------------------------------------------------------
(* Steps that change no link                                               *)

\* When the last transaction commits nothing is unfinished and nothing owed.
LEMMA CommitClean ==
    ASSUME Tables, Joined, NEW p \in Users, inTx = {p}, me[p].at \in {"end", "writei"}
    PROVE  /\ Unfinished = {}
           /\ \A j \in Inums : Owed(NoneOwed, j) = Owed(me, j)
<1>1. \A q \in Users : me[q].at \in {"user", "writeOp", "end", "writei"}
  <2> TAKE q \in Users
  <2>1. me[q].at \notin {"user", "writeOp"} => q \in inTx
    BY DEF Joined, InHands
  <2>2. CASE q = p
    BY <2>2
  <2>3. CASE q # p
    BY <2>1, <2>3
  <2> QED BY <2>2, <2>3
<1>2. Unfinished = {}
  BY <1>1 DEF Unfinished, BeingMade, Failed
<1>3. \A q \in Users, j \in Inums : ~Owes(me[q], j)
  BY <1>1 DEF Owes
<1>4. \A q \in Users, j \in Inums : ~Owes(NoneOwed[q], j)
  BY IdleFacts DEF Owes, NoneOwed
<1> QED BY <1>2, <1>3, <1>4 DEF Owed

\* A step does not finish what others make.
LEMMA StillUnfinished ==
    ASSUME Tables, NEW p \in Users, NEW k, NEW m, Does(p, k, m), LocksMove(p),
           NEW j \in Inums, j \in Unfinished,
           ~(me[p].at = "createNew" /\ me[p].ip = j), ~Failed(p, j)
    PROVE  j \in Unfinished'
<1>1. \A q \in Users : q # p => me'[q] = me[q]
  BY DEF Does, Tables, FilesTypes
<1>2. CASE BeingMade(j)
  <2>1. BeingMade(j)'
    BY <1>1, <1>2 DEF BeingMade
  <2> QED BY <2>1 DEF Unfinished
<1>3. CASE ~BeingMade(j)
  <2>1. PICK q \in Users : Failed(q, j)
    BY <1>3 DEF Unfinished
  <2>2. q # p /\ me'[q] = me[q] /\ q # Nobody
    BY <1>1, <2>1, Constants
  <2>3. Failed(q, j)'
    BY <2>1, <2>2 DEF Failed, LocksMove
  <2> QED BY <2>3 DEF Unfinished
<1> QED BY <1>2, <1>3

\* Nothing on disk changes, or the last transaction commits.
Commits(p, k) ==
    \/ UNCHANGED <<disk, buriedDisk>>
    \/ /\ disk' = k.fs /\ buriedDisk' = buried' /\ inTx = {p}
       /\ me[p].at \in {"end", "writei"}

\* A step that changes no entry and no link count.
LEMMA CalmHand ==
    ASSUME Tables, Ordered, Joined, NEW p \in Users, NEW a, At(p, a), a # "createNew",
           NEW k, NEW m, Does(p, k, m), k.panic = "none", k.fs \in FsTypes, Same(fs, k.fs),
           NEW R, \A j \in Inums : j \in R => Settled(j),
           \A j \in Inums : j \notin R => k.itab[j] = itab[j],
           LocksMove(p), NoneFreed, boot' = boot, buried' = buried, Commits(p, k),
           \A q \in Users : q # p /\ q \in inTx => q \in inTx', InHands(p)',
           \A j \in Inums : Owes(m, j) <=> Owes(me[p], j)
    PROVE  Joined'
<1>0. /\ boot = 0 /\ me[p].at = a /\ me[p].put = <<>> /\ fs \in FsTypes
      /\ me \in [Users -> MeTypes] /\ me' = [me EXCEPT ![p] = m]
  BY DEF At, Tables, FilesTypes, Does
<1>1. Tree(fs, buried, Unfinished) /\ Counted(fs, me, buried)
      /\ Tree(disk, buriedDisk, {}) /\ Counted(disk, NoneOwed, buriedDisk)
  BY DEF Joined
<1> DEFINE T == {}
<1>2. Leaves(p, k, T, R)
  <2>1. \A j \in Inums : SameAt(fs, k.fs, j)
    BY DEF Same, SameAt
  <2>2. \A q \in Users, j \in Inums : j \in R =>
            ~(me[q].at = "createNew" /\ me[q].ip = j) /\ ~Failed(q, j)
    BY DEF Settled, BeingMade
  <2>3. \A j \in Inums : j \in R => k.fs.ino[j].type # "none"
    BY DEF Settled, Same
  <2>4. \A j \in Inums : ~Frees(p, j)
    BY <1>0 DEF Frees
  <2>5. \A j \in Inums : k.fs.ino[j].type = fs.ino[j].type
    BY DEF Same
  <2> QED BY <2>1, <2>2, <2>3, <2>4, <2>5 DEF Leaves
<1>3. \A j \in Inums : j \in Unfinished => j \in Unfinished'
  <2> SUFFICES ASSUME NEW j \in Inums, j \in Unfinished PROVE j \in Unfinished'
    OBVIOUS
  <2>1. ~(me[p].at = "createNew" /\ me[p].ip = j) /\ ~Failed(p, j)
    BY <1>0 DEF Failed
  <2> QED BY <2>1, StillUnfinished
<1>4. Unfinished \subseteq Unfinished'
  BY <1>3 DEF Unfinished
<1>5. \A j \in Inums : k.fs.ino[j].type = "none" => k.fs.ino[j].nlink = 0
  BY <1>1 DEF Tree, FreeNone, Same
<1>6. /\ \A j \in Inums : k.fs.ents[j] = fs.ents[j]
      /\ \A j \in Inums : k.fs.ino[j].type = fs.ino[j].type
  BY DEF Same
<1>7. Tree(k.fs, buried, Unfinished')
  BY <1>1, <1>4, <1>5, <1>6, TreeSame
<1>8. Counted(k.fs, me', buried)
  BY <1>0, <1>1, CountedSame
<1>9. Tree(disk', buriedDisk', {}) /\ Counted(disk', NoneOwed, buriedDisk')
  <2>1. CASE UNCHANGED <<disk, buriedDisk>>
    BY <1>1, <2>1
  <2>2. CASE ~(UNCHANGED <<disk, buriedDisk>>)
    <3>1. disk' = k.fs /\ buriedDisk' = buried /\ inTx = {p} /\ me[p].at \in {"end", "writei"}
      BY <2>2 DEF Commits
    <3>2. Unfinished = {} /\ \A j \in Inums : Owed(NoneOwed, j) = Owed(me, j)
      BY <3>1, CommitClean
    <3>3. Tree(k.fs, buried, {})
      <4>1. Tree(fs, buried, {}) /\ buried \subseteq buried /\ {} \subseteq {}
        BY <1>1, <3>2
      <4> HIDE DEF Tree
      <4> QED BY <1>5, <1>6, <4>1, TreeSame
    <3>4. Counted(k.fs, NoneOwed, buried)
      BY <1>1, <3>2, CountedOwed
    <3> QED BY <3>1, <3>3, <3>4
  <2> QED BY <2>1, <2>2
<1>10. \A j \in Inums : j \in T \/ j \in R =>
           ~BeingFreed(j) \/ (m.at = "createNew" /\ m.ip = j)
  BY DEF Settled
<1>11. Tree(k.fs, buried', Unfinished') /\ Counted(k.fs, me', buried')
  BY <1>7, <1>8
<1>12. boot' = 0 /\ (me[p].at = "createNew" => ~BeingFreed(me[p].ip))
  BY <1>0
<1> HIDE DEF T
<1> QED
  BY <1>0, <1>2, <1>9, <1>10, <1>11, <1>12, HandStep

\* What ilock() of an inode that a process has in hand does.
LEMMA LockTyped ==
    ASSUME Tables, Joined, NEW p \in Users, NEW a, At(p, a), NEW i \in Inums, FreeLock(i),
           fs.ino[i].type # "none"
    PROVE  LET k == Ilock(K, i)
           IN  /\ k \in KernelTypes /\ k.fs = fs /\ k.panic = "none" /\ Same(fs, k.fs)
               /\ \A j \in Inums : j # i => k.itab[j] = itab[j]
               /\ \A j \in Inums : k.itab[j].ref = itab[j].ref /\ itab[j].ref \in Nat
               /\ k.itab[i].valid /\ k.itab[i].copy = fs.ino[i] /\ Ip(k, i) = fs.ino[i]
<1> DEFINE k == Ilock(K, i)
<1>1. /\ K \in KernelTypes /\ K.fs = fs /\ K.itab = itab /\ K.panic = panic /\ panic = "none"
      /\ CopiesOK /\ \A j \in Inums : itab[j].ref \in Nat
  BY AtFacts
<1>2. fs.ino[i].type # "none" /\ ~BeingFreed(i) /\ ~BeingWritten(i)
  BY DEF FreeLock, BeingFreed, BeingWritten
<1>3. itab[i].valid => itab[i].copy = fs.ino[i]
  BY <1>1, <1>2 DEF CopiesOK, CopyOK
<1>4. /\ k \in KernelTypes /\ k.fs = K.fs /\ k.itab[i].ref = K.itab[i].ref
      /\ \A j \in Inums : j # i => k.itab[j] = K.itab[j]
      /\ K.itab[i].valid => k = K
      /\ ~K.itab[i].valid /\ K.fs.ino[i].type # "none"
           => /\ k.panic = K.panic /\ k.itab[i].valid
              /\ k.itab[i].copy = K.fs.ino[i]
  BY <1>1, IlockFacts
<1> SUFFICES /\ k \in KernelTypes /\ k.fs = fs /\ k.panic = "none" /\ Same(fs, k.fs)
             /\ \A j \in Inums : j # i => k.itab[j] = itab[j]
             /\ \A j \in Inums : k.itab[j].ref = itab[j].ref /\ itab[j].ref \in Nat
             /\ k.itab[i].valid /\ k.itab[i].copy = fs.ino[i] /\ Ip(k, i) = fs.ino[i]
  OBVIOUS
<1> HIDE DEF k
<1>5. \A j \in Inums : k.itab[j].ref = itab[j].ref
  BY <1>1, <1>4
<1>6. k.panic = "none" /\ k.itab[i].valid /\ k.itab[i].copy = fs.ino[i]
  BY <1>1, <1>2, <1>3, <1>4
<1> QED BY <1>1, <1>4, <1>5, <1>6 DEF Same, Ip

\* ... as any that is settled.
LEMMA LockCalm ==
    ASSUME Tables, Joined, NEW p \in Users, NEW a, At(p, a), NEW i \in Inums, FreeLock(i),
           Settled(i)
    PROVE  LET k == Ilock(K, i)
           IN  /\ k \in KernelTypes /\ k.fs = fs /\ k.panic = "none" /\ Same(fs, k.fs)
               /\ \A j \in Inums : j # i => k.itab[j] = itab[j]
               /\ \A j \in Inums : k.itab[j].ref = itab[j].ref /\ itab[j].ref \in Nat
               /\ k.itab[i].valid /\ k.itab[i].copy = fs.ino[i] /\ Ip(k, i) = fs.ino[i]
<1>1. fs.ino[i].type # "none"
  BY DEF Settled
<1> QED BY <1>1, LockTyped

\* Locks are acquired when they are free, and released by who has them.
LEMMA LocksMoved ==
    ASSUME Tables, NEW p \in Users,
           \/ UNCHANGED ilk
           \/ \E i \in Inums : FreeLock(i) /\ ilk' = Holds(p, i)
           \/ \E d : ilk[d] = p /\ ilk' = Release({d})
           \/ \E d, i \in Inums : ilk[d] = p /\ FreeLock(i)
                                  /\ ilk' = [Release({d}) EXCEPT ![i] = p]
    PROVE  LocksMove(p)
<1>1. ilk \in [Inums -> Users \union {Nobody}]
  BY DEF Tables, FilesTypes
<1> USE DEF LocksMove
<1>2. CASE UNCHANGED ilk
  BY <1>2
<1>3. ASSUME NEW i \in Inums, FreeLock(i), ilk' = Holds(p, i) PROVE LocksMove(p)
  BY <1>1, <1>3 DEF FreeLock, Holds
<1>4. ASSUME NEW d, ilk[d] = p, ilk' = Release({d}) PROVE LocksMove(p)
  BY <1>1, <1>4 DEF Release
<1>5. ASSUME NEW d \in Inums, NEW i \in Inums, ilk[d] = p, FreeLock(i),
             ilk' = [Release({d}) EXCEPT ![i] = p]
      PROVE  LocksMove(p)
  BY <1>1, <1>5 DEF Release, FreeLock
<1> QED BY <1>2, <1>3, <1>4, <1>5

\* In a transaction.
LEMMA HereTx ==
    ASSUME Joined, NEW p \in Users, NEW a, At(p, a), a \notin {"user", "writeOp"}
    PROVE  p \in inTx
BY DEF Joined, InHands, At

\* A step from a place without lock that only looks.
LEMMA LooseHand ==
    ASSUME Tables, Ordered, Joined, NEW p \in Users, NEW a \in Unlocked, At(p, a),
           NEW k \in KernelTypes, NEW m, Does(p, k, m), k.panic = "none", k.fs = fs,
           NEW R, \A j \in Inums : j \in R => Settled(j),
           \A j \in Inums : j \notin R => k.itab[j] = itab[j],
           \/ UNCHANGED ilk
           \/ m.put = <<>> /\ \E i \in Inums : FreeLock(i) /\ ilk' = Holds(p, i),
           UNCHANGED <<disk, boot, buried, buriedDisk>>, inTx \subseteq inTx', InHands(p)',
           \A j \in Inums : Owes(m, j) <=> Owes(me[p], j)
    PROVE  Joined'
<1>1. NoneFreed
  BY LooseFreesNot DEF Does
<1>2. LocksMove(p)
  BY LocksMoved
<1>3. Same(fs, k.fs) /\ k.fs \in FsTypes /\ a # "createNew"
  BY KernelParts DEF Same, Unlocked
<1>4. Commits(p, k)
  BY DEF Commits
<1> QED BY <1>1, <1>2, <1>3, <1>4, CalmHand

\* One that releases a lock.
LEMMA HeldHand ==
    ASSUME Tables, Ordered, Joined, NEW p \in Users, NEW a, At(p, a), a # "createNew",
           Locked(me[p]) # 0, ilk' = Release({Locked(me[p])}),
           NEW k \in KernelTypes, NEW m, Does(p, k, m), k.panic = "none", Same(fs, k.fs),
           NEW R, \A j \in Inums : j \in R => Settled(j),
           \A j \in Inums : j \notin R => k.itab[j] = itab[j],
           boot' = boot, buried' = buried, Commits(p, k),
           \A q \in Users : q # p /\ q \in inTx => q \in inTx', InHands(p)',
           \A j \in Inums : Owes(m, j) <=> Owes(me[p], j)
    PROVE  Joined'
<1>1. NoneFreed
  BY LockFreesNot DEF Does
<1>2. ilk[Locked(me[p])] = p
  BY DEF Tables, LocksOK
<1>3. LocksMove(p)
  BY <1>2, LocksMoved
<1>4. k.fs \in FsTypes
  BY KernelParts
<1> QED BY <1>1, <1>3, <1>4, CalmHand

\* Begin keeps the file system joined.
LEMMA BeginJoined ==
    ASSUME Tables, Ordered, Joined, NEW p \in Users, NEW c \in Calls, Begin(p, c)
    PROVE  Joined'
<1> DEFINE k == Iget(K, cwd[p])
           m == [Idle EXCEPT !.at = "walk", !.call = c, !.path = c.path, !.ip = cwd[p]]
           R == {cwd[p]}
<1>1. /\ At(p, "user") /\ Does(p, k, m) /\ UNCHANGED <<disk, boot, ilk, buried, buriedDisk>>
      /\ inTx' = inTx \union {p}
  BY DEF Begin, history
<1>2. /\ K \in KernelTypes /\ K.fs = fs /\ K.itab = itab /\ K.panic = panic /\ panic = "none"
      /\ \A i \in Inums : itab[i].ref \in Nat
      /\ me[p].at = "user" /\ me \in [Users -> MeTypes]
  BY <1>1, AtFacts DEF FilesTypes
<1>3. cwd[p] \in Inums /\ Settled(cwd[p])
  BY <1>1, HandSettled
<1>4. /\ k \in KernelTypes /\ k.fs = fs /\ k.panic = "none"
      /\ \A j \in Inums : j # cwd[p] => k.itab[j] = itab[j]
  BY <1>2, <1>3, IgetFacts
<1>5. m.at = "walk" /\ m.dp = 0
  BY DEF Idle
<1> HIDE DEF k, m
<1>6. me'[p] = m
  BY <1>1, <1>2 DEF Does
<1>7. InHands(p)'
  BY <1>1, <1>5, <1>6, PlainHands
<1>8. \A j \in Inums : Owes(m, j) <=> Owes(me[p], j)
  BY <1>2, <1>5, Constants DEF Owes
<1>9. /\ \A j \in Inums : j \in R => Settled(j)
      /\ \A j \in Inums : j \notin R => k.itab[j] = itab[j]
  BY <1>3, <1>4
<1>10. "user" \in Unlocked /\ inTx \subseteq inTx' /\ UNCHANGED <<disk, boot, buried, buriedDisk>>
  BY <1>1 DEF Unlocked
<1> HIDE DEF R
<1> QED BY <1>1, <1>4, <1>7, <1>8, <1>9, <1>10, LooseHand

\* EndOp.
LEMMA EndOpJoined ==
    ASSUME Tables, Ordered, Joined, NEW p \in Users, EndOp(p)
    PROVE  Joined'
<1>1. /\ At(p, "end") /\ me' = [me EXCEPT ![p] = Idle] /\ inTx' = inTx \ {p}
      /\ UNCHANGED <<fs, itab, ilk, panic, boot, buried>>
      /\ disk' = IF inTx = {p} THEN fs ELSE disk
      /\ buriedDisk' = IF inTx = {p} THEN buried ELSE buriedDisk
  BY DEF EndOp
<1>2. /\ K \in KernelTypes /\ K.fs = fs /\ K.itab = itab /\ K.panic = panic /\ panic = "none"
      /\ me[p].at = "end" /\ me \in [Users -> MeTypes]
  BY <1>1, AtFacts DEF FilesTypes
<1>3. Does(p, K, Idle)
  BY <1>1, <1>2 DEF Does
<1>4. me'[p] = Idle /\ Idle.at = "user" /\ Idle.put = <<>>
  BY <1>1, <1>2, IdleFacts
<1>5. InHands(p)'
  BY <1>4, PlainHands
<1>6. \A j \in Inums : Owes(Idle, j) <=> Owes(me[p], j)
  BY <1>2, <1>4 DEF Owes
<1>7. NoneFreed
  BY <1>1, LooseFreesNot DEF Unlocked
<1>8. LocksMove(p)
  BY <1>1, LocksMoved
<1>9. Commits(p, K)
  <2>1. CASE inTx = {p}
    BY <1>1, <1>2, <2>1 DEF Commits
  <2>2. CASE inTx # {p}
    BY <1>1, <2>2 DEF Commits
  <2> QED BY <2>1, <2>2
<1>10. \A q \in Users : q # p /\ q \in inTx => q \in inTx'
  BY <1>1
<1>11. K.fs \in FsTypes /\ Same(fs, K.fs)
  BY <1>2, KernelParts DEF Same
<1> DEFINE R == {}
<1>12. /\ \A j \in Inums : j \in R => Settled(j)
       /\ \A j \in Inums : j \notin R => K.itab[j] = itab[j]
  BY <1>2
<1> HIDE DEF R
<1>13. boot' = boot /\ buried' = buried /\ K.panic = "none"
  BY <1>1, <1>2
<1> QED
  BY <1>1, <1>3, <1>5, <1>6, <1>7, <1>8, <1>9, <1>10, <1>11, <1>12, <1>13, CalmHand

\* What walks find, and what they go on with, owes what the walk owed.
LEMMA WalkOwes ==
    ASSUME Tables, NEW p \in Users, At(p, "walk"), NEW j \in Inums
    PROVE  /\ Owes(Then(p, Missing(me[p]), <<me[p].ip>>), j) <=> Owes(me[p], j)
           /\ Owes(Moved(me[p], Found(me[p])), j) <=> Owes(me[p], j)
<1>1. /\ me[p].call.op \in PathOps /\ (me[p].dp # 0 => me[p].call.op = "link")
      /\ me[p].at = "walk" /\ me[p] \in MeTypes /\ me[p].ip \in Inums
  BY WalkFacts, AtFacts
<1>2. 0 \notin Inums
  BY Constants
<1>3. Owes(Then(p, Missing(me[p]), <<me[p].ip>>), j) <=> Owes(me[p], j)
  <2> DEFINE m == Then(p, Missing(me[p]), <<me[p].ip>>)
  <2>1. Missing(me[p]) \in Places /\ <<me[p].ip>> \in Seq(Inums)
    BY <1>1 DEF Missing, Places
  <2>2. /\ m.at = Missing(me[p])
        /\ m.at = "end" => m.dp = 0
        /\ m.at # "end" => m.dp = me[p].dp
    BY <1>1, <2>1, ThenFacts
  <2> HIDE DEF m
  <2>3. CASE me[p].dp = 0
    <3>1. m.at = "end"
      BY <2>2, <2>3 DEF Missing
    <3> QED BY <1>1, <1>2, <2>3, <3>1 DEF Owes, m
  <2>4. CASE me[p].dp # 0
    <3>1. m.at = "linkBad" /\ m.dp = me[p].dp
      BY <1>1, <2>2, <2>4 DEF Missing
    <3> QED BY <1>1, <3>1 DEF Owes, m
  <2> QED BY <2>3, <2>4
<1>4. Owes(Moved(me[p], Found(me[p])), j) <=> Owes(me[p], j)
  <2> DEFINE m == Moved(me[p], Found(me[p]))
  <2>1. m.at = Found(me[p]) /\ m.dp = me[p].dp
    BY <1>1 DEF Moved, MeTypes
  <2> HIDE DEF m
  <2>2. CASE me[p].dp = 0
    <3>1. m.at # "unlinkLast"
      BY <1>1, <2>1, <2>2 DEF Found, PathOps
    <3> QED BY <1>1, <1>2, <2>1, <2>2, <3>1 DEF Owes, m
  <2>3. CASE me[p].dp # 0
    <3>1. m.at = "linkNew"
      BY <1>1, <2>1, <2>3 DEF Found
    <3> QED BY <1>1, <2>1, <3>1 DEF Owes, m
  <2> QED BY <2>2, <2>3
<1> QED BY <1>3, <1>4

\* What they have in hand.
LEMMA WalkHands ==
    ASSUME Tables, Joined, NEW p \in Users, At(p, "walk"), inTx' = inTx, fs' = fs
    PROVE  /\ me'[p] = Then(p, Missing(me[p]), <<me[p].ip>>) => InHands(p)'
           /\ me'[p] = Moved(me[p], Found(me[p])) /\ (me[p].call.op = "unlink" =>
                  fs.ino[me[p].ip].type = "dir") => InHands(p)'
<1>1. /\ me[p].call.op \in PathOps
      /\ me[p].at = "walk" /\ me[p] \in MeTypes /\ me[p].ip \in Inums
  BY WalkFacts, AtFacts
<1>2. p \in inTx'
  BY HereTx
<1>3. ASSUME me'[p] = Then(p, Missing(me[p]), <<me[p].ip>>) PROVE InHands(p)'
  <2>1. Missing(me[p]) \in {"end", "linkBad"} /\ me'[p].at = Missing(me[p])
    BY <1>1, <1>3, ThenAt DEF Missing
  <2> QED BY <1>2, <2>1, PlainHands
<1>4. ASSUME me'[p] = Moved(me[p], Found(me[p])),
             me[p].call.op = "unlink" => fs.ino[me[p].ip].type = "dir"
      PROVE  InHands(p)'
  <2>1. me'[p].at = Found(me[p]) /\ me'[p].ip = me[p].ip
    BY <1>1, <1>4 DEF Moved, MeTypes
  <2>2. CASE me[p].call.op = "unlink"
    <3>1. me'[p].at = "unlink"
      BY <2>1, <2>2 DEF Found
    <3>2. ASSUME NEW i \in Inums PROVE ~Failed(p, i)'
      BY <3>1 DEF Failed
    <3> QED BY <1>2, <1>4, <2>1, <2>2, <3>1, <3>2 DEF InHands
  <2>3. CASE me[p].call.op # "unlink"
    <3>1. me'[p].at \notin {"createNew", "unlinkChild", "unlink", "createFail"}
      BY <1>1, <2>1, <2>3 DEF Found, PathOps
    <3> QED BY <1>2, <3>1, PlainHands
  <2> QED BY <2>2, <2>3
<1> QED BY <1>3, <1>4

\* WalkEnd.
LEMMA WalkEndJoined ==
    ASSUME Tables, Ordered, Joined, NEW p \in Users, WalkEnd(p)
    PROVE  Joined'
<1> DEFINE m1 == Then(p, Missing(me[p]), <<me[p].ip>>)
           m2 == Moved(me[p], Found(me[p]))
           R == {}
<1>1. /\ At(p, "walk") /\ Rest /\ UNCHANGED <<ilk, buried, buriedDisk>>
      /\ \/ Does(p, K, m1)
         \/ ~WantsParent(me[p]) /\ Does(p, K, m2)
  BY DEF WalkEnd, Moved, history
<1>2. /\ K \in KernelTypes /\ K.fs = fs /\ K.itab = itab /\ K.panic = panic /\ panic = "none"
      /\ me \in [Users -> MeTypes]
  BY <1>1, AtFacts DEF FilesTypes
<1>3. /\ \A j \in Inums : Owes(m1, j) <=> Owes(me[p], j)
      /\ \A j \in Inums : Owes(m2, j) <=> Owes(me[p], j)
  BY <1>1, WalkOwes
<1>4. fs' = fs /\ inTx' = inTx
  BY <1>1, <1>2 DEF Does, Rest
<1>5. Does(p, K, m1) => InHands(p)'
  <2> SUFFICES ASSUME Does(p, K, m1) PROVE InHands(p)'
    OBVIOUS
  <2>1. me'[p] = m1
    BY <1>2 DEF Does
  <2> QED BY <1>1, <1>4, <2>1, WalkHands
<1>6. ~WantsParent(me[p]) /\ Does(p, K, m2) => InHands(p)'
  <2> SUFFICES ASSUME ~WantsParent(me[p]), Does(p, K, m2) PROVE InHands(p)'
    OBVIOUS
  <2>1. me'[p] = m2
    BY <1>2 DEF Does
  <2>2. me[p].call.op # "unlink"
    BY DEF WantsParent
  <2> QED BY <1>1, <1>4, <2>1, <2>2, WalkHands
<1>7. /\ \A j \in Inums : j \in R => Settled(j)
      /\ \A j \in Inums : j \notin R => K.itab[j] = itab[j]
  BY <1>2
<1>8. "walk" \in Unlocked /\ UNCHANGED <<disk, boot, buried, buriedDisk>> /\ inTx \subseteq inTx'
  BY <1>1, RestSame DEF Unlocked
<1> HIDE DEF m1, m2, R
<1> QED BY <1>1, <1>2, <1>3, <1>5, <1>6, <1>7, <1>8, LooseHand

\* Walk, unless it goes up to an inode without links.
LEMMA WalkJoined ==
    ASSUME Tables, Ordered, Joined, NEW p \in Users, Walk(p), ~dangling'
    PROVE  Joined'
<1> DEFINE i == me[p].ip
           n == me[p]
           k == Ilock(K, i)
           next == Dirlookup(k, i, Head(me[p].path))
           m1 == Then(p, Missing(me[p]), <<i>>)
           m2 == Moved(me[p], Found(me[p]))
           m3 == [n EXCEPT !.ip = next, !.path = Tail(@), !.put = <<i>>]
           r == Iget(k, next)
           R1 == {i}
           R3 == {i, next}
<1>1. /\ At(p, "walk") /\ me[p].path # <<>> /\ FreeLock(i) /\ Rest
      /\ UNCHANGED <<ilk, buried, buriedDisk>> /\ ~GoesUp(i, Head(me[p].path))
      /\ \/ Does(p, k, m1)
         \/ Ip(k, i).type = "dir" /\ Does(p, k, m2)
         \/ next # 0 /\ Does(p, r, m3)
  BY DEF Walk, Moved
<1>2. /\ K \in KernelTypes /\ K.fs = fs /\ K.itab = itab /\ K.panic = panic /\ panic = "none"
      /\ me \in [Users -> MeTypes] /\ me[p] \in MeTypes /\ boot = 0 /\ me[p].at = "walk"
      /\ fs \in FsTypes
  BY <1>1, AtFacts DEF FilesTypes
<1>3. i \in Inums /\ Settled(i)
  BY <1>1, HandSettled DEF IpPlaces
<1>4. /\ k \in KernelTypes /\ k.fs = fs /\ k.panic = "none"
      /\ \A j \in Inums : j # i => k.itab[j] = itab[j]
      /\ \A j \in Inums : k.itab[j].ref = itab[j].ref /\ itab[j].ref \in Nat
      /\ Ip(k, i) = fs.ino[i]
  BY <1>1, <1>3, LockCalm
<1>5. next # 0 => next \in Inums /\ Settled(next)
  <2>1. Head(me[p].path) \in Entries
    BY <1>1, <1>2 DEF MeTypes
  <2>2. next = fs.ents[i][Head(me[p].path)]
    BY <1>4 DEF Dirlookup
  <2> QED BY <1>1, <1>2, <1>3, <2>1, <2>2, LookSettled
<1>6. m3.at = "walk" /\ m3.dp = me[p].dp
  BY <1>2 DEF MeTypes
<1>7. /\ \A j \in Inums : Owes(m1, j) <=> Owes(me[p], j)
      /\ \A j \in Inums : Owes(m2, j) <=> Owes(me[p], j)
  BY <1>1, WalkOwes
<1>8. \A j \in Inums : Owes(m3, j) <=> Owes(me[p], j)
  BY <1>2, <1>6 DEF Owes
<1>9. /\ \A j \in Inums : j \in R1 => Settled(j)
      /\ \A j \in Inums : j \notin R1 => k.itab[j] = itab[j]
  BY <1>3, <1>4
<1>10. "walk" \in Unlocked /\ UNCHANGED <<disk, boot, buried, buriedDisk>> /\ inTx \subseteq inTx'
       /\ inTx' = inTx
  BY <1>1, RestSame DEF Unlocked, Rest
<1>11. CASE Does(p, k, m1)
  <2>1. me'[p] = m1 /\ fs' = fs
    BY <1>2, <1>4, <1>11 DEF Does
  <2>2. InHands(p)'
    BY <1>1, <1>10, <2>1, WalkHands
  <2> HIDE DEF k, m1, R1
  <2> QED BY <1>1, <1>4, <1>7, <1>9, <1>10, <1>11, <2>2, LooseHand
<1>12. CASE Ip(k, i).type = "dir" /\ Does(p, k, m2)
  <2>1. me'[p] = m2 /\ fs' = fs
    BY <1>2, <1>4, <1>12 DEF Does
  <2>2. InHands(p)'
    BY <1>1, <1>4, <1>10, <1>12, <2>1, WalkHands
  <2> HIDE DEF k, m2, R1
  <2> QED BY <1>1, <1>4, <1>7, <1>9, <1>10, <1>12, <2>2, LooseHand
<1>13. CASE next # 0 /\ Does(p, r, m3)
  <2>1. /\ r \in KernelTypes /\ r.fs = fs /\ r.panic = "none"
        /\ \A j \in Inums : j # next => r.itab[j] = k.itab[j]
    BY <1>4, <1>5, <1>13, IgetFacts
  <2> HIDE DEF k, next, m3, r
  <2>2. me'[p] = m3
    BY <1>2, <1>13 DEF Does
  <2>3. p \in inTx'
    BY <1>1, <1>10, HereTx
  <2>4. InHands(p)'
    BY <1>6, <2>2, <2>3, PlainHands
  <2>5. /\ \A j \in Inums : j \in R3 => Settled(j)
        /\ \A j \in Inums : j \notin R3 => r.itab[j] = itab[j]
    BY <1>3, <1>4, <1>5, <1>13, <2>1
  <2> HIDE DEF R3
  <2> QED BY <1>1, <1>8, <1>10, <1>13, <2>1, <2>4, <2>5, LooseHand
<1> QED BY <1>1, <1>11, <1>12, <1>13

\* A step that locks an inode in hand, looks, and goes to a plain place.
LEMMA LookHand ==
    ASSUME Tables, Ordered, Joined, NEW p \in Users, NEW a \in Unlocked, At(p, a),
           a \notin {"user", "writeOp"},
           NEW i \in Inums, Settled(i), FreeLock(i), NEW m, Does(p, Ilock(K, i), m), Rest,
           \/ UNCHANGED ilk
           \/ m.put = <<>> /\ \E j \in Inums : FreeLock(j) /\ ilk' = Holds(p, j),
           UNCHANGED <<buried, buriedDisk>>,
           m.at \notin {"createNew", "unlinkChild", "unlink", "createFail"},
           \A j \in Inums : Owes(m, j) <=> Owes(me[p], j)
    PROVE  Joined'
<1> DEFINE k == Ilock(K, i)
           R == {i}
<1>1. /\ k \in KernelTypes /\ k.fs = fs /\ k.panic = "none"
      /\ \A j \in Inums : j # i => k.itab[j] = itab[j]
  BY LockCalm
<1>2. Does(p, k, m)
  OBVIOUS
<1> HIDE DEF k
<1>3. me'[p] = m
  BY <1>2 DEF Does, Tables, FilesTypes
<1>4. inTx' = inTx /\ p \in inTx'
  BY HereTx DEF Rest
<1>5. InHands(p)'
  BY <1>3, <1>4, PlainHands
<1>6. /\ \A j \in Inums : j \in R => Settled(j)
      /\ \A j \in Inums : j \notin R => k.itab[j] = itab[j]
  BY <1>1
<1>7. UNCHANGED <<disk, boot, buried, buriedDisk>> /\ inTx \subseteq inTx'
  BY RestSame
<1> HIDE DEF R
<1> QED BY <1>1, <1>2, <1>5, <1>6, <1>7, LooseHand

\* No place of the calls that look owes a link, nor the one that they go on to.
LEMMA OwesNothing ==
    ASSUME NEW m, m.at \notin {"walk", "linkNew", "linkBad", "unlinkLast"}, NEW j
    PROVE  ~Owes(m, j)
BY DEF Owes

\* CreateOld, Open and Chdir.
LEMMA LooksJoined ==
    ASSUME Tables, Ordered, Joined, NEW p \in Users, CreateOld(p) \/ Open(p) \/ Chdir(p)
    PROVE  Joined'
<1> DEFINE i == me[p].ip
           k == Ilock(K, i)
<1>1. PICK a, s :
         /\ a \in {"createOld", "read", "rdwr", "trunc", "chdir"}
         /\ At(p, a) /\ FreeLock(i) /\ Rest /\ UNCHANGED <<buried, buriedDisk>>
         /\ \/ /\ Does(p, k, Then(p, "end", s)) \/ Does(p, k, Then(p, "chdirEnd", s))
               /\ UNCHANGED ilk
            \/ Does(p, k, Then(p, "openFile", <<>>)) /\ ilk' = Holds(p, i)
  <2>1. CASE CreateOld(p)
    BY <2>1 DEF CreateOld, history
  <2>2. CASE Open(p)
    <3>1. me[p].at \in {"read", "rdwr", "trunc"} /\ At(p, me[p].at)
      BY <2>2 DEF Open
    <3> QED BY <2>2, <3>1 DEF Open, history
  <2>3. CASE Chdir(p)
    <3> DEFINE t == IF Ip(k, i).type = "dir" THEN <<cwd[p]>> ELSE <<i>>
    <3>1. /\ At(p, "chdir") /\ FreeLock(i) /\ Rest /\ UNCHANGED <<ilk, buried, buriedDisk>>
          /\ Does(p, k, Then(p, "end", t)) \/ Does(p, k, Then(p, "chdirEnd", t))
      BY <2>3 DEF Chdir, history
    <3> QED BY <3>1
  <2> QED BY <2>1, <2>2, <2>3
<1>2. /\ a \in Unlocked /\ a \in IpPlaces /\ a \notin {"user", "writeOp", "createNew"}
      /\ a \notin {"walk", "linkNew", "linkBad", "unlinkLast"}
  BY <1>1 DEF Unlocked, IpPlaces
<1>3. i \in Inums /\ Settled(i) /\ me[p] \in MeTypes /\ me[p].at = a
  BY <1>1, <1>2, HandSettled, AtFacts
<1>4. \A j \in Inums : ~Owes(me[p], j)
  BY <1>2, <1>3, OwesNothing
<1> HIDE DEF k
<1>5. ASSUME NEW b \in {"end", "chdirEnd", "openFile"}, NEW t, Does(p, k, Then(p, b, t)),
             \/ UNCHANGED ilk
             \/ t = <<>> /\ ilk' = Holds(p, i)
      PROVE  Joined'
  <2> DEFINE m == Then(p, b, t)
  <2>1. m.at = b /\ m.put = t
    BY <1>3, ThenAt
  <2>2. Does(p, Ilock(K, i), m)
    BY <1>5 DEF k
  <2> HIDE DEF m
  <2>3. \A j \in Inums : Owes(m, j) <=> Owes(me[p], j)
    BY <1>4, <2>1, OwesNothing
  <2>4. \/ UNCHANGED ilk
        \/ m.put = <<>> /\ \E j \in Inums : FreeLock(j) /\ ilk' = Holds(p, j)
    BY <1>1, <1>3, <1>5, <2>1
  <2> HIDE DEF i
  <2> QED BY <1>1, <1>2, <1>3, <2>1, <2>2, <2>3, <2>4, LookHand
<1> QED BY <1>1, <1>5

\* A step that changes neither the file system nor the inode table.
LEMMA StayJoined ==
    ASSUME Tables, Ordered, Joined, NEW p \in Users, NEW a \in Unlocked, At(p, a), NEW m,
           me' = [me EXCEPT ![p] = m], UNCHANGED <<fs, itab, panic, ilk, disk, boot>>,
           UNCHANGED <<buried, buriedDisk>>, inTx \subseteq inTx',
           m.at \notin {"createNew", "unlinkChild", "unlink", "createFail"},
           m.at \in {"user", "writeOp"} \/ p \in inTx',
           \A j \in Inums : Owes(m, j) <=> Owes(me[p], j)
    PROVE  Joined'
<1> DEFINE R == {}
<1>1. /\ K \in KernelTypes /\ K.fs = fs /\ K.itab = itab /\ K.panic = panic /\ panic = "none"
      /\ me \in [Users -> MeTypes]
  BY AtFacts DEF FilesTypes
<1>2. Does(p, K, m) /\ me'[p] = m
  BY <1>1 DEF Does
<1>3. InHands(p)'
  BY <1>2, PlainHands
<1>4. /\ \A j \in Inums : j \in R => Settled(j)
      /\ \A j \in Inums : j \notin R => K.itab[j] = itab[j]
  BY <1>1
<1>5. UNCHANGED <<disk, boot, buried, buriedDisk>>
  OBVIOUS
<1> HIDE DEF R
<1> QED BY <1>1, <1>2, <1>3, <1>4, <1>5, LooseHand

\* Close, Dup, Write and ChdirEnd.
LEMMA CloseJoined ==
    ASSUME Tables, Ordered, Joined, NEW p \in Users, NEW d \in 1 .. NOFile, Close(p, d)
    PROVE  Joined'
<1> DEFINE m == Then(p, "end", <<ftable[ofile[p][d]].ip>>)
           last == ftable[ofile[p][d]].ref = 1
<1>1. /\ At(p, "user") /\ UNCHANGED <<fs, itab, panic, ilk, disk, boot>>
      /\ UNCHANGED <<buried, buriedDisk>>
      /\ inTx' = IF last THEN inTx \union {p} ELSE inTx
      /\ me' = IF last THEN [me EXCEPT ![p] = m] ELSE me
  BY DEF Close, history
<1>2. me[p] \in MeTypes /\ me[p].at = "user" /\ me \in [Users -> MeTypes]
  BY <1>1, AtFacts DEF FilesTypes
<1>3. m.at = "end"
  BY <1>2, ThenAt
<1> HIDE DEF m
<1>4. PICK n : /\ me' = [me EXCEPT ![p] = n] /\ n.at \in {"end", "user"}
               /\ n.at = "user" \/ p \in inTx'
  <2>1. CASE ~last
    <3>1. me' = [me EXCEPT ![p] = me[p]]
      BY <1>1, <1>2, <2>1
    <3> QED BY <1>2, <3>1
  <2>2. CASE last
    BY <1>1, <1>3, <2>2
  <2> QED BY <2>1, <2>2
<1>5. \A j \in Inums : Owes(n, j) <=> Owes(me[p], j)
  BY <1>2, <1>4, OwesNothing
<1>6. inTx \subseteq inTx' /\ "user" \in Unlocked
  BY <1>1 DEF Unlocked
<1> QED BY <1>1, <1>4, <1>5, <1>6, StayJoined

\* Dup.
LEMMA DupJoined ==
    ASSUME Tables, Ordered, Joined, NEW p \in Users, NEW d \in 1 .. NOFile, Dup(p, d)
    PROVE  Joined'
<1>1. /\ At(p, "user") /\ UNCHANGED <<fs, itab, panic, ilk, disk, boot, inTx, me>>
      /\ UNCHANGED <<buried, buriedDisk>>
  BY DEF Dup, history
<1>2. me[p].at = "user" /\ me \in [Users -> MeTypes]
  BY <1>1, AtFacts DEF FilesTypes
<1>3. me' = [me EXCEPT ![p] = me[p]] /\ inTx \subseteq inTx' /\ "user" \in Unlocked
  BY <1>1, <1>2 DEF Unlocked
<1> QED BY <1>1, <1>2, <1>3, StayJoined

\* Write.
LEMMA WriteJoined ==
    ASSUME Tables, Ordered, Joined, NEW p \in Users, NEW d \in 1 .. NOFile, NEW n \in WriteSizes,
           Write(p, d, n)
    PROVE  Joined'
<1> DEFINE m == [Idle EXCEPT !.at = "writeOp", !.left = n,
                             !.ip = ftable[ofile[p][d]].ip, !.fd = d]
<1>1. /\ At(p, "user") /\ UNCHANGED <<fs, itab, panic, ilk, disk, boot, inTx>>
      /\ UNCHANGED <<buried, buriedDisk>> /\ me' = [me EXCEPT ![p] = m]
  BY DEF Write, history
<1>2. me[p].at = "user"
  BY <1>1, AtFacts
<1>3. m.at = "writeOp" /\ inTx \subseteq inTx' /\ "user" \in Unlocked
  BY <1>1 DEF Idle, Unlocked
<1> HIDE DEF m
<1>4. \A j \in Inums : Owes(m, j) <=> Owes(me[p], j)
  BY <1>2, <1>3, OwesNothing
<1> QED BY <1>1, <1>3, <1>4, StayJoined

\* ChdirEnd.
LEMMA ChdirEndJoined ==
    ASSUME Tables, Ordered, Joined, NEW p \in Users, ChdirEnd(p)
    PROVE  Joined'
<1> DEFINE m == Then(p, "end", <<>>)
<1>1. /\ At(p, "chdirEnd") /\ UNCHANGED <<fs, itab, panic, ilk>> /\ Rest
      /\ UNCHANGED <<buried, buriedDisk>> /\ me' = [me EXCEPT ![p] = m]
  BY DEF ChdirEnd, history
<1>2. me[p].at = "chdirEnd" /\ me[p] \in MeTypes
  BY <1>1, AtFacts
<1>3. m.at = "end" /\ inTx' = inTx /\ UNCHANGED <<disk, boot>> /\ "chdirEnd" \in Unlocked
  BY <1>1, <1>2, ThenAt DEF Rest, Unlocked
<1> HIDE DEF m
<1>4. \A j \in Inums : Owes(m, j) <=> Owes(me[p], j)
  BY <1>2, <1>3, OwesNothing
<1>5. p \in inTx' /\ inTx \subseteq inTx'
  BY <1>1, <1>3, HereTx
<1> QED BY <1>1, <1>3, <1>4, <1>5, StayJoined

\* Read.
LEMMA ReadJoined ==
    ASSUME Tables, Ordered, Joined, NEW p \in Users, NEW d \in 1 .. NOFile, Read(p, d)
    PROVE  Joined'
<1> DEFINE i == ftable[ofile[p][d]].ip
           k == Ilock(K, i)
           R == {i}
<1>1. /\ At(p, "user") /\ Argfd(p, d) /\ UNCHANGED <<disk, boot, ilk, inTx>> /\ FreeLock(i)
      /\ UNCHANGED <<buried, buriedDisk>> /\ Does(p, k, me[p])
  BY DEF Read, history
<1>2. me[p].at = "user" /\ i \in Inums /\ boot = 0 /\ me \in [Users -> MeTypes]
  BY <1>1, AtFacts, OpenFacts DEF FilesTypes
<1>3. Settled(i)
  <2>1. ofile[p][d] \in Opens(i)
    BY <1>1, OpenFacts
  <2>2. Cardinality(Opens(i)) >= 1
    BY <2>1, OneOpen
  <2> QED BY <1>2, <2>2, OpenSettled
<1>4. /\ k \in KernelTypes /\ k.fs = fs /\ k.panic = "none"
      /\ \A j \in Inums : j # i => k.itab[j] = itab[j]
  BY <1>1, <1>2, <1>3, LockCalm
<1> HIDE DEF k
<1>5. me'[p] = me[p]
  BY <1>1, <1>2 DEF Does
<1>6. InHands(p)'
  BY <1>2, <1>5, PlainHands
<1>7. /\ \A j \in Inums : j \in R => Settled(j)
      /\ \A j \in Inums : j \notin R => k.itab[j] = itab[j]
  BY <1>3, <1>4
<1>8. inTx \subseteq inTx' /\ UNCHANGED <<disk, boot, buried, buriedDisk>> /\ "user" \in Unlocked
  BY <1>1 DEF Unlocked
<1> HIDE DEF R
<1> QED BY <1>1, <1>4, <1>6, <1>7, <1>8, LooseHand

\* WriteOp.
LEMMA WriteOpJoined ==
    ASSUME Tables, Ordered, Joined, NEW p \in Users, WriteOp(p)
    PROVE  Joined'
<1> DEFINE i == me[p].ip
           k == Ilock(K, i)
           n == Smaller(me[p].left, WriteMax)
           m == [me[p] EXCEPT !.at = "writei", !.left = @ - n, !.now = n]
           R == {i}
<1>1. /\ At(p, "writeOp") /\ UNCHANGED <<disk, boot, buried, buriedDisk>> /\ FreeLock(i)
      /\ inTx' = inTx \union {p} /\ ilk' = Holds(p, i) /\ Does(p, k, m)
  BY DEF WriteOp, history
<1>2. /\ me[p].at = "writeOp" /\ i \in Inums /\ boot = 0 /\ me \in [Users -> MeTypes]
      /\ me[p].put = <<>> /\ me[p] \in MeTypes /\ Cardinality(Opens(i)) >= 1
  BY <1>1, AtFacts, WriterFacts DEF FilesTypes
<1>3. Settled(i)
  BY <1>2, OpenSettled
<1>4. /\ k \in KernelTypes /\ k.fs = fs /\ k.panic = "none"
      /\ \A j \in Inums : j # i => k.itab[j] = itab[j]
  BY <1>1, <1>2, <1>3, LockCalm
<1>5. m.at = "writei" /\ m.put = <<>>
  BY <1>2 DEF MeTypes
<1> HIDE DEF k, m
<1>6. me'[p] = m
  BY <1>1, <1>2 DEF Does
<1>7. InHands(p)'
  BY <1>1, <1>5, <1>6, PlainHands
<1>8. /\ \A j \in Inums : j \in R => Settled(j)
      /\ \A j \in Inums : j \notin R => k.itab[j] = itab[j]
  BY <1>3, <1>4
<1>9. inTx \subseteq inTx' /\ "writeOp" \in Unlocked
  BY <1>1 DEF Unlocked
<1>10. \A j \in Inums : Owes(m, j) <=> Owes(me[p], j)
  BY <1>2, <1>5, OwesNothing
<1>11. m.put = <<>> /\ \E j \in Inums : FreeLock(j) /\ ilk' = Holds(p, j)
  BY <1>1, <1>2, <1>5
<1> HIDE DEF R
<1> QED BY <1>1, <1>4, <1>7, <1>8, <1>9, <1>10, <1>11, LooseHand

\* A step to the end of the call that releases the lock and changes no links.
LEMMA ReleaseHand ==
    ASSUME Tables, Ordered, Joined, NEW p \in Users,
           NEW a \in {"made", "createFail", "openFile", "unlinkChild"}, At(p, a),
           NEW l, l = Locked(me[p]), l # 0, ilk' = Release({l}), Rest,
           UNCHANGED <<buried, buriedDisk>>, NEW k \in KernelTypes, NEW s,
           Does(p, k, Then(p, "end", s)), k.panic = "none", Same(fs, k.fs),
           NEW R, \A j \in Inums : j \in R => Settled(j),
           \A j \in Inums : j \notin R => k.itab[j] = itab[j]
    PROVE  Joined'
<1> DEFINE m == Then(p, "end", s)
<1>1. me[p] \in MeTypes /\ me[p].at = a /\ me \in [Users -> MeTypes]
  BY AtFacts DEF FilesTypes
<1>2. m.at = "end" /\ Does(p, k, m)
  BY <1>1, ThenAt
<1> HIDE DEF m
<1>3. me'[p] = m
  BY <1>1, <1>2 DEF Does
<1>4. p \in inTx' /\ boot' = boot /\ inTx' = inTx /\ disk' = disk
  BY HereTx DEF Rest
<1>5. InHands(p)'
  BY <1>2, <1>3, <1>4, PlainHands
<1>6. \A j \in Inums : Owes(m, j) <=> Owes(me[p], j)
  BY <1>1, <1>2, OwesNothing
<1>7. Commits(p, k) /\ a # "createNew"
  BY <1>4 DEF Commits
<1>8. /\ Locked(me[p]) # 0 /\ ilk' = Release({Locked(me[p])}) /\ buried' = buried
      /\ \A q \in Users : q # p /\ q \in inTx => q \in inTx'
  BY <1>4
<1> QED BY <1>2, <1>4, <1>5, <1>6, <1>7, <1>8, HeldHand

\* Made and CreateFail.
LEMMA ReleaseJoined ==
    ASSUME Tables, Ordered, Joined, NEW p \in Users, Made(p) \/ CreateFail(p)
    PROVE  Joined'
<1>1. PICK a \in {"made", "createFail"} :
         At(p, a) /\ Rest /\ UNCHANGED <<buried, buriedDisk>>
         /\ \/ a = "made" /\ Does(p, K, Then(p, "end", <<me[p].ip>>))
               /\ ilk' = Release({me[p].ip})
            \/ a = "createFail" /\ Does(p, K, Then(p, "end", <<me[p].dp>>))
               /\ ilk' = Release({me[p].dp})
  BY DEF Made, CreateFail, history
<1>2. /\ K \in KernelTypes /\ K.fs = fs /\ K.itab = itab /\ K.panic = "none" /\ me[p].at = a
  BY <1>1, AtFacts
<1>3. /\ a = "made" => me[p].ip \in Inums /\ Locked(me[p]) = me[p].ip
      /\ a = "createFail" => me[p].dp \in Inums /\ Locked(me[p]) = me[p].dp
  BY <1>1, <1>2, InHand DEF Locked, IpPlaces, DpPlaces
<1> DEFINE R == {}
           l == Locked(me[p])
<1>4. PICK s : Does(p, K, Then(p, "end", s))
  BY <1>1
<1>5. l # 0 /\ ilk' = Release({l}) /\ l = Locked(me[p])
  BY <1>1, <1>3, Constants
<1>6. Same(fs, K.fs)
  BY <1>2 DEF Same
<1>7. /\ \A j \in Inums : j \in R => Settled(j)
      /\ \A j \in Inums : j \notin R => K.itab[j] = itab[j]
  BY <1>2
<1>8. Rest /\ UNCHANGED <<buried, buriedDisk>>
  BY <1>1
<1> HIDE DEF R, l
<1> QED BY <1>1, <1>2, <1>4, <1>5, <1>6, <1>7, <1>8, ReleaseHand

\* OpenFile: a file that is truncated has no entries.
LEMMA OpenFileJoined ==
    ASSUME Tables, Ordered, Stored, Joined, NEW p \in Users, OpenFile(p)
    PROVE  Joined'
<1> DEFINE i == me[p].ip
           t == Itrunc(K, i)
           R == {i}
<1>1. /\ At(p, "openFile") /\ Rest /\ UNCHANGED <<buried, buriedDisk>> /\ ilk' = Release({i})
      /\ \/ Does(p, K, Then(p, "end", <<i>>)) \/ Does(p, K, Then(p, "end", <<>>))
         \/ Does(p, t, Then(p, "end", <<>>)) /\ Ip(K, i).type = "file"
  BY DEF OpenFile, history
<1>2. /\ K \in KernelTypes /\ K.fs = fs /\ K.itab = itab /\ K.panic = "none"
      /\ me[p].at = "openFile" /\ fs \in FsTypes /\ itab \in [Inums -> EntryTypes]
  BY <1>1, AtFacts DEF FilesTypes
<1>3. i \in Inums /\ Settled(i) /\ Locked(me[p]) = i /\ i # 0
  BY <1>1, <1>2, HandSettled, Constants DEF IpPlaces, Locked
<1>4. PICK k, s : /\ Does(p, k, Then(p, "end", s))
                  /\ k = K \/ (k = t /\ Ip(K, i).type = "file")
  BY <1>1
<1>5. /\ Ip(K, i) \in Dinodes /\ Ip(K, i).type = fs.ino[i].type
      /\ Ip(K, i).nlink = fs.ino[i].nlink /\ Live(K, i)
  <2>1. Live(K, i) /\ itab[i].valid
    BY <1>1, <1>2, <1>3, HeldLive DEF Live
  <2>2. ~BeingFreed(i)
    BY <1>3 DEF Settled
  <2>3. CopyOK(i)
    BY <1>3 DEF Tables, CopiesOK
  <2> QED BY <1>2, <1>3, <2>1, <2>2, <2>3, KernelParts DEF CopyOK, Ip
<1>6. /\ t \in KernelTypes /\ t.fs.ents[i] = NoEnts /\ t.fs.ino[i] = NoBlocks(Ip(K, i))
      /\ \A j \in Inums : j # i => /\ t.itab[j] = itab[j] /\ t.fs.ino[j] = fs.ino[j]
                                   /\ t.fs.ents[j] = fs.ents[j]
  <2>1. /\ t \in KernelTypes /\ t.itab[i].copy = NoBlocks(Ip(K, i))
        /\ t.fs.ino[i] = t.itab[i].copy /\ t.fs.ents[i] = NoEnts
        /\ \A j \in Inums : j # i => /\ t.itab[j] = K.itab[j] /\ t.fs.ino[j] = K.fs.ino[j]
                                     /\ t.fs.ents[j] = K.fs.ents[j]
    BY ONLY <1>2, <1>3, ItruncFacts
  <2> HIDE DEF t
  <2> QED BY ONLY <1>2, <2>1
<1>7. t.panic = "none"
  <2>1. Sane(K)
    BY SaneNow
  <2> QED BY <1>2, <1>3, <1>5, <2>1, KeepsItrunc
<1>8. t.fs.ino[i].type = fs.ino[i].type /\ t.fs.ino[i].nlink = fs.ino[i].nlink
  BY <1>5, <1>6, NoBlocksFacts
<1> HIDE DEF t
<1>9. k = t => fs.ents[i] = NoEnts \/ k = K
  <2>1. DirsOnly(fs)
    BY DEF Joined, Tree
  <2> QED BY <1>3, <1>4, <1>5, <2>1 DEF DirsOnly
<1>10. Same(fs, k.fs) /\ k \in KernelTypes /\ k.panic = "none"
  <2>1. CASE k = K
    BY <1>2, <2>1 DEF Same
  <2>2. CASE k = t /\ k # K
    BY <1>6, <1>7, <1>8, <1>9, <2>2 DEF Same
  <2> QED BY <1>4, <2>1, <2>2
<1>11. /\ \A j \in Inums : j \in R => Settled(j)
       /\ \A j \in Inums : j \notin R => k.itab[j] = itab[j]
  BY <1>2, <1>3, <1>4, <1>6
<1>12. ilk' = Release({i}) /\ Rest /\ UNCHANGED <<buried, buriedDisk>> /\ i = Locked(me[p])
  BY <1>1, <1>3
<1> HIDE DEF R, i
<1> QED BY <1>1, <1>3, <1>4, <1>10, <1>11, <1>12, ReleaseHand

\* A step of writei() that changes only blocks and the copy of the inode.
LEMMA WriteiJoined ==
    ASSUME Tables, Ordered, Joined, NEW p \in Users, At(p, "writei"), NEW k \in KernelTypes,
           SameNode(k, me[p].ip), k.fs.ents = fs.ents, k.panic = "none", NEW m,
           Does(p, k, m), m.at = "writei", m.put = <<>>, Rest, UNCHANGED ilk,
           UNCHANGED <<buried, buriedDisk>>
    PROVE  Joined'
<1> DEFINE i == me[p].ip
           R == {i}
<1>1. /\ me[p] \in MeTypes /\ me[p].at = "writei" /\ me \in [Users -> MeTypes] /\ boot = 0
      /\ i \in Inums /\ Settled(i)
  <2>1. i \in Inums /\ Cardinality(Opens(i)) >= 1
    BY WriterFacts
  <2>2. boot = 0 /\ me[p] \in MeTypes /\ me[p].at = "writei" /\ FilesTypes
    BY AtFacts
  <2> HIDE DEF i
  <2> QED BY <2>1, <2>2, OpenSettled DEF FilesTypes
<1>2. me'[p] = m
  BY <1>1 DEF Does
<1>3. NoneFreed
  BY LockFreesNot DEF Does
<1>4. LocksMove(p)
  BY LocksMoved
<1>5. inTx' = inTx /\ p \in inTx' /\ boot' = boot /\ buried' = buried
  BY HereTx DEF Rest
<1>6. InHands(p)'
  BY <1>2, <1>5, PlainHands
<1>7. \A j \in Inums : Owes(m, j) <=> Owes(me[p], j)
  BY <1>1, OwesNothing
<1>8. Commits(p, k)
  BY DEF Commits, Rest
<1>9. Same(fs, k.fs) /\ k.fs \in FsTypes
  BY KernelParts DEF Same, SameNode
<1>10. /\ \A j \in Inums : j \in R => Settled(j)
       /\ \A j \in Inums : j \notin R => k.itab[j] = itab[j]
  BY <1>1 DEF SameNode
<1>11. \A q \in Users : q # p /\ q \in inTx => q \in inTx'
  BY <1>5
<1>12. At(p, "writei") /\ Does(p, k, m) /\ k.panic = "none"
  OBVIOUS
<1> HIDE DEF R, i
<1> QED
  BY <1>3, <1>4, <1>5, <1>6, <1>7, <1>8, <1>9, <1>10, <1>11, <1>12, CalmHand

\* WriteBlock.
LEMMA WriteBlockJoined ==
    ASSUME Tables, Ordered, Joined, NEW p \in Users, WriteBlock(p)
    PROVE  Joined'
<1> DEFINE i == me[p].ip
           f == FileOf(p)
           off == ftable[f].off
           r == Bmap(K, i, off)
           k == r.k
           u == Filled(r, i, off)
           stop == Writes(me[p], "writei", 0, 0)
           m == Writes(me[p], "writei", me[p].left, me[p].now - 1)
<1>1. WriteBlockShape(p, f, r, u, stop, m)
  BY WriteBlockFacts
<1>2. /\ me[p] \in MeTypes /\ K \in KernelTypes /\ K.fs = fs /\ K.itab = itab
      /\ At(p, "writei") /\ K.panic = "none" /\ me[p].put = <<>>
      /\ UNCHANGED <<buried, buriedDisk>>
  BY AtFacts DEF WriteBlock, history
<1>3. i \in Inums /\ off \in Nat /\ f \in 1 .. NFile
  BY <1>2, WriterFacts
<1>4. me[p].left \in Int /\ me[p].now \in Int /\ me[p].now - 1 \in Int /\ 0 \in Int
  BY <1>2 DEF MeTypes
<1>5. off + me[p].now <= MaxBlock /\ me[p].now > 0 =>
            Grown(K, r.k, i) /\ r.addr \in Blocks \union {0}
  <2> DEFINE n == me[p].now
  <2>1. off \in Nat /\ n \in Int
    BY <1>3, <1>4
  <2> HIDE DEF i, off, n
  <2>2. off + n <= MaxBlock /\ n > 0 => off \in 0 .. MaxBlock - 1
    BY <2>1, FilesAssumption DEF MaxBlock
  <2> QED BY <1>2, <1>3, <2>2, BmapGrown DEF n
<1>6. stop.at = "writei" /\ stop.put = <<>> /\ m.at = "writei" /\ m.put = <<>>
  BY <1>2 DEF Writes, MeTypes
<1>7. Grown(K, k, i) /\ r.addr \in Blocks =>
         /\ u \in KernelTypes /\ u.panic = "none" /\ SameNode(u, i) /\ u.fs.ents = fs.ents
  <2> SUFFICES ASSUME Grown(K, k, i), r.addr \in Blocks
               PROVE  /\ u \in KernelTypes /\ u.panic = "none" /\ SameNode(u, i)
                      /\ u.fs.ents = fs.ents
    OBVIOUS
  <2>0. r.addr \in Blocks
    OBVIOUS
  <2> HIDE DEF r, i, off
  <2>1. r.k \in KernelTypes /\ r.k.panic = "none" /\ SameNode(r.k, i) /\ r.k.fs.ents = fs.ents
    BY <1>2 DEF Grown, SameNode
  <2>2. /\ u \in KernelTypes /\ u.panic = r.k.panic /\ u.fs.ino = r.k.fs.ino
        /\ u.itab[i].ref = r.k.itab[i].ref /\ u.itab[i].valid = r.k.itab[i].valid
        /\ u.itab[i].copy.type = r.k.itab[i].copy.type
        /\ u.itab[i].copy.nlink = r.k.itab[i].copy.nlink
        /\ \A j \in Inums : j # i => u.itab[j] = r.k.itab[j]
    BY <1>3, <2>0, <2>1, FilledFacts
  <2>3. u.fs.ents = r.k.fs.ents
    BY <2>1 DEF Filled, Change, WithFs, WithEntry, KernelTypes, FsTypes
  <2> HIDE DEF u
  <2> QED BY <2>1, <2>2, <2>3 DEF SameNode
<1> HIDE DEF r, u, stop, m
<1>8. Grown(K, k, i) =>
         k \in KernelTypes /\ k.panic = "none" /\ SameNode(k, i) /\ k.fs.ents = fs.ents
  BY <1>2 DEF Grown, SameNode
<1>9. K \in KernelTypes /\ SameNode(K, i) /\ K.fs.ents = fs.ents
  BY <1>2 DEF SameNode
<1>10. PICK x, n : /\ Does(p, x, n) /\ n \in {stop, m}
                   /\ x \in KernelTypes /\ x.panic = "none" /\ SameNode(x, i)
                   /\ x.fs.ents = fs.ents
  <2> HIDE DEF i, f, off
  <2>1. CASE Does(p, K, stop)
    BY <1>2, <1>9, <2>1
  <2>2. CASE ftable[f].off + me[p].now <= MaxBlock /\ me[p].now > 0 /\ Does(p, r.k, stop)
    <3>1. Grown(K, r.k, i)
      BY <1>5, <2>2 DEF off
    <3> QED BY <1>8, <2>2, <3>1
  <2>3. CASE /\ ftable[f].off + me[p].now <= MaxBlock /\ me[p].now > 0 /\ r.addr # 0
             /\ Does(p, u, m)
    <3>1. Grown(K, r.k, i) /\ r.addr \in Blocks
      BY <1>5, <2>3 DEF off
    <3> QED BY <1>7, <2>3, <3>1
  <2> QED BY <1>1, <2>1, <2>2, <2>3 DEF WriteBlockShape
<1>11. Rest /\ UNCHANGED ilk
  BY <1>1 DEF WriteBlockShape
<1>12. x.panic = "none" /\ n.at = "writei" /\ n.put = <<>> /\ SameNode(x, me[p].ip)
  BY <1>6, <1>10
<1> QED BY <1>2, <1>10, <1>11, <1>12, WriteiJoined

\* WriteEnd: the inode that is saved differs in blocks and size only.
LEMMA WriteEndJoined ==
    ASSUME Tables, Ordered, Joined, NEW p \in Users, WriteEnd(p)
    PROVE  Joined'
<1> DEFINE i == me[p].ip
           d == Ip(K, i)
           k == Iupdate(K, i, d)
           m == IF me[p].left > 0 THEN [me[p] EXCEPT !.at = "writeOp"] ELSE Idle
           R == {i}
<1>1. /\ At(p, "writei") /\ Does(p, k, m) /\ ilk' = Release({i}) /\ inTx' = inTx \ {p}
      /\ disk' = (IF inTx = {p} THEN k.fs ELSE disk) /\ boot' = boot /\ buried' = buried
      /\ buriedDisk' = (IF inTx = {p} THEN buried ELSE buriedDisk)
  BY DEF WriteEnd, WriteSave
<1>2. /\ me[p].at = "writei" /\ me[p] \in MeTypes /\ boot = 0 /\ K.fs = fs /\ K.itab = itab
      /\ K \in KernelTypes /\ K.panic = "none" /\ me \in [Users -> MeTypes]
  BY <1>1, AtFacts DEF FilesTypes
<1>3. i \in Inums /\ Locked(me[p]) = i /\ i # 0 /\ Cardinality(Opens(i)) >= 1
  BY <1>1, WriterFacts, Constants
<1>4. Live(K, i)
  BY <1>1, <1>3, HeldLive
<1>5. m.at \in {"writeOp", "user"}
  BY <1>2 DEF MeTypes, Idle
<1>6. Settled(i)
  <2> HIDE DEF i
  <2> QED BY <1>2, <1>3, OpenSettled
<1>7. d \in Dinodes /\ d.type = fs.ino[i].type /\ d.nlink = fs.ino[i].nlink
  <2>1. itab[i].valid /\ ~BeingFreed(i)
    BY <1>2, <1>4, <1>6 DEF Live, Settled
  <2>2. CopyOK(i)
    BY <1>3 DEF Tables, CopiesOK
  <2> QED BY <1>2, <1>3, <2>1, <2>2, KernelParts DEF CopyOK, Ip
<1> HIDE DEF m, d, i
<1>8. /\ k \in KernelTypes /\ k.panic = K.panic /\ k.fs.ino[i] = d
      /\ \A j \in Inums : j # i => k.itab[j] = itab[j] /\ k.fs.ino[j] = fs.ino[j]
      /\ k.fs.ents = fs.ents
  BY <1>2, <1>3, <1>7, IupdateFacts
<1> HIDE DEF k
<1>9. Same(fs, k.fs)
  BY <1>7, <1>8 DEF Same
<1>10. me'[p] = m
  BY <1>1, <1>2 DEF Does
<1>11. InHands(p)'
  BY <1>5, <1>10, PlainHands
<1>12. \A j \in Inums : Owes(m, j) <=> Owes(me[p], j)
  BY <1>2, <1>5, OwesNothing
<1>13. Commits(p, k)
  BY <1>1, <1>2 DEF Commits
<1>14. /\ \A j \in Inums : j \in R => Settled(j)
       /\ \A j \in Inums : j \notin R => k.itab[j] = itab[j]
  BY <1>6, <1>8
<1>15. \A q \in Users : q # p /\ q \in inTx => q \in inTx'
  BY <1>1
<1>16. /\ Locked(me[p]) # 0 /\ ilk' = Release({Locked(me[p])}) /\ k.panic = "none"
       /\ boot' = boot /\ buried' = buried /\ Does(p, k, m) /\ "writei" # "createNew"
  BY <1>1, <1>2, <1>3, <1>8
<1> HIDE DEF R
<1> QED BY <1>1, <1>8, <1>9, <1>11, <1>12, <1>13, <1>14, <1>15, <1>16, HeldHand

\* A step that locks an inode in hand, looks up another and refers to it.
LEMMA LookGetHand ==
    ASSUME Tables, Ordered, Joined, NEW p \in Users, NEW a \in Unlocked, At(p, a),
           a \notin {"user", "writeOp"},
           NEW d \in Inums, Settled(d), FreeLock(d), NEW i \in Inums, Settled(i), NEW m,
           Does(p, Iget(Ilock(K, d), i), m), Rest,
           \/ UNCHANGED ilk
           \/ m.put = <<>> /\ \E j \in Inums : FreeLock(j) /\ ilk' = Holds(p, j),
           UNCHANGED <<buried, buriedDisk>>, InHands(p)',
           \A j \in Inums : Owes(m, j) <=> Owes(me[p], j)
    PROVE  Joined'
<1> DEFINE k == Ilock(K, d)
           r == Iget(k, i)
           R == {d, i}
<1>1. /\ k \in KernelTypes /\ k.fs = fs /\ k.panic = "none"
      /\ \A j \in Inums : j # d => k.itab[j] = itab[j]
      /\ \A j \in Inums : k.itab[j].ref = itab[j].ref /\ itab[j].ref \in Nat
  BY LockCalm
<1>2. Does(p, r, m)
  OBVIOUS
<1> HIDE DEF k
<1>3. /\ r \in KernelTypes /\ r.fs = fs /\ r.panic = "none"
      /\ \A j \in Inums : j # i => r.itab[j] = k.itab[j]
  BY <1>1, IgetFacts
<1> HIDE DEF r
<1>4. /\ \A j \in Inums : j \in R => Settled(j)
      /\ \A j \in Inums : j \notin R => r.itab[j] = itab[j]
  BY <1>1, <1>3
<1>5. UNCHANGED <<disk, boot, buried, buriedDisk>> /\ inTx \subseteq inTx'
  BY RestSame
<1> HIDE DEF R
<1> QED BY <1>2, <1>3, <1>4, <1>5, LooseHand

\* Unlink.
LEMMA UnlinkJoined ==
    ASSUME Tables, Ordered, Joined, NEW p \in Users, Unlink(p)
    PROVE  Joined'
<1> DEFINE d == me[p].ip
           k == Ilock(K, d)
           n == LastName(p)
           i == Dirlookup(k, d, n)
           m1 == Then(p, "end", <<d>>)
           m2 == [me[p] EXCEPT !.at = "unlinkChild", !.dp = d, !.ip = i]
<1>1. /\ At(p, "unlink") /\ FreeLock(d) /\ Rest /\ UNCHANGED <<buried, buriedDisk>>
      /\ \/ Does(p, k, m1) /\ UNCHANGED ilk
         \/ /\ Unlinkable(n) /\ i # 0 /\ Does(p, Iget(k, i), m2) /\ ilk' = Holds(p, d)
  BY DEF Unlink, history
<1>2. /\ me[p].at = "unlink" /\ me[p] \in MeTypes /\ boot = 0 /\ me[p].put = <<>>
      /\ me \in [Users -> MeTypes]
  BY <1>1, AtFacts DEF FilesTypes
<1>3. d \in Inums /\ Settled(d) /\ n \in Entries
  BY <1>1, HandSettled, LastNameType DEF IpPlaces
<1>4. k.fs = fs
  BY <1>1, <1>3, LockCalm
<1>5. p \in inTx' /\ "unlink" \in Unlocked /\ "unlink" \notin {"user", "writeOp"}
  BY <1>1, HereTx DEF Rest, Unlocked
<1> HIDE DEF k
<1>6. i = fs.ents[d][n]
  BY <1>4 DEF Dirlookup
<1>7. CASE Does(p, k, m1) /\ UNCHANGED ilk
  <2>1. m1.at = "end"
    BY <1>2, ThenAt
  <2> HIDE DEF m1
  <2>2. \A j \in Inums : Owes(m1, j) <=> Owes(me[p], j)
    BY <1>2, <2>1, OwesNothing
  <2> QED BY <1>1, <1>3, <1>5, <1>7, <2>1, <2>2, LookHand DEF k
<1>8. CASE Unlinkable(n) /\ i # 0 /\ Does(p, Iget(k, i), m2) /\ ilk' = Holds(p, d)
  <2>1. n \in Names /\ n # DotDot
    BY <1>3, <1>8 DEF Unlinkable, Entries
  <2>2. i \in Inums /\ Settled(i)
    <3>1. ~GoesUp(d, n)
      BY <2>1 DEF GoesUp
    <3> HIDE DEF d, n, i
    <3> QED BY <1>2, <1>3, <1>6, <1>8, <3>1, LookSettled
  <2> HIDE DEF i
  <2>3. /\ m2.at = "unlinkChild" /\ m2.put = <<>> /\ m2.dp = d /\ m2.ip = i
        /\ m2.path = me[p].path
    BY <1>2 DEF MeTypes
  <2>4. fs' = fs
    <3>1. Iget(k, i).fs = k.fs
      BY DEF Iget, WithEntry
    <3> QED BY <1>4, <1>8, <3>1 DEF Does
  <2>5. me'[p] = m2
    BY <1>2, <1>8 DEF Does
  <2> HIDE DEF m2
  <2>6. InHands(p)'
    <3>1. LastName(p)' = n
      BY <2>3, <2>5 DEF LastName
    <3> HIDE DEF d, n
    <3>2. fs.ents[d][n] = i
      BY <1>6
    <3> QED BY <1>5, <2>1, <2>3, <2>4, <2>5, <3>1, <3>2 DEF InHands, Failed
  <2>7. \A j \in Inums : Owes(m2, j) <=> Owes(me[p], j)
    BY <1>2, <2>3, OwesNothing
  <2>8. m2.put = <<>> /\ \E j \in Inums : FreeLock(j) /\ ilk' = Holds(p, j)
    BY <1>1, <1>3, <1>8, <2>3
  <2> HIDE DEF d, n
  <2> QED BY <1>1, <1>3, <1>5, <1>8, <2>2, <2>6, <2>7, <2>8, LookGetHand DEF k
<1> QED BY <1>1, <1>7, <1>8
=============================================================================
