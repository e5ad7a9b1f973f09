--------------------------- MODULE Xv6FilesLinks ---------------------------
(***************************************************************************)
(* Proofs about the links of Xv6Files, for any number of processes,        *)
(* inodes, names, blocks and open files: whenever the power fails, the     *)
(* link counts on disk are those of the entries (LinksOnDisk), and no      *)
(* panic() is reached (NoPanic).                                           *)
(*                                                                         *)
(* The reason is Joined (Xv6FilesSafety, with the steps that change no     *)
(* link).  In memory and on disk the directories are a tree: a directory   *)
(* has one name, and its ".." leads back (Tree).  An inode has as many     *)
(* links as it has names and ".." of directories that have a name, and as  *)
(* many more as processes have counted and not yet entered, or removed and *)
(* not yet discounted (Counted, Owed); at the end of a transaction nobody  *)
(* owes any.  InHands says what a process knows of the inode that it       *)
(* creates or removes, and InTable that whatever is in use is allocated.   *)
(*                                                                         *)
(* Two exceptions are the code's own.  create() and link() enter names     *)
(* into a directory that was removed meanwhile: those inodes keep a link   *)
(* that no path leads to (buried).  And a process in a removed directory   *)
(* may go up to "..", whose inode may be free by then, or another one      *)
(* (dangling): from then on nothing is said (Consistent).                  *)
(***************************************************************************)
EXTENDS Xv6FilesSafety

-----------------------------------------------------------------------------
(* Steps that change links                                                 *)

\* A step that changes settled inodes whose locks are free or the process's own.
LEMMA ChangeHand ==
    ASSUME Tables, Ordered, Joined, NEW p \in Users, NEW a, At(p, a), a # "createNew",
           NEW k \in KernelTypes, NEW m, Does(p, k, m), k.panic = "none", NEW T, NEW R,
           \A j \in Inums : j \in T => Settled(j) /\ ilk[j] \in {Nobody, p},
           \A j \in Inums : j \in R => Settled(j),
           \A j \in Inums : j \notin T => SameAt(fs, k.fs, j),
           \A j \in Inums : j \notin R => k.itab[j] = itab[j],
           \A j \in Inums : k.fs.ino[j].type = fs.ino[j].type,
           LocksMove(p), NoneFreed, UNCHANGED <<disk, boot, buriedDisk>>, inTx \subseteq inTx',
           InHands(p)', Balanced(fs, k.fs, p, m), buried \subseteq buried',
           Unfinished \subseteq Unfinished' => Tree(k.fs, buried', Unfinished')
    PROVE  Joined'
<1>0. /\ boot = 0 /\ me[p].at = a /\ me[p].put = <<>> /\ fs \in FsTypes /\ k.fs \in FsTypes
      /\ me \in [Users -> MeTypes] /\ me' = [me EXCEPT ![p] = m]
  BY KernelParts DEF At, Tables, FilesTypes, Does
<1>1. Counted(fs, me, buried) /\ Tree(disk, buriedDisk, {}) /\ Counted(disk, NoneOwed, buriedDisk)
  BY DEF Joined
<1>2. Leaves(p, k, T, R)
  <2>1. \A q \in Users, j \in Inums : j \in T \/ j \in R =>
            ~(me[q].at = "createNew" /\ me[q].ip = j) /\ ~Failed(q, j)
    BY DEF Settled, BeingMade
  <2>2. \A j \in Inums : j \in T \/ j \in R => k.fs.ino[j].type # "none"
    BY DEF Settled
  <2>3. \A j \in Inums : ~Frees(p, j)
    BY <1>0 DEF Frees
  <2> QED BY <2>1, <2>2, <2>3 DEF Leaves
<1>3. \A j \in Inums : j \in Unfinished => j \in Unfinished'
  <2> SUFFICES ASSUME NEW j \in Inums, j \in Unfinished PROVE j \in Unfinished'
    OBVIOUS
  <2>1. ~(me[p].at = "createNew" /\ me[p].ip = j) /\ ~Failed(p, j)
    BY <1>0 DEF Failed
  <2> QED BY <2>1, StillUnfinished
<1>4. Unfinished \subseteq Unfinished'
  BY <1>3 DEF Unfinished
<1>5. Tree(k.fs, buried', Unfinished')
  BY <1>4
<1>6. Counted(k.fs, me', buried')
  BY <1>0, <1>1, CountedStep
<1>7. Tree(disk', buriedDisk', {}) /\ Counted(disk', NoneOwed, buriedDisk')
  BY <1>1
<1>8. \A j \in Inums : j \in T \/ j \in R =>
           ~BeingFreed(j) \/ (m.at = "createNew" /\ m.ip = j)
  BY DEF Settled
<1>9. boot' = 0 /\ (me[p].at = "createNew" => ~BeingFreed(me[p].ip))
  BY <1>0
<1>10. \A q \in Users : q # p /\ q \in inTx => q \in inTx'
  OBVIOUS
<1>11. /\ boot = 0 /\ boot' = 0 /\ Does(p, k, m) /\ k.panic = "none" /\ LocksMove(p) /\ NoneFreed
       /\ InHands(p)' /\ (me[p].at = "createNew" => ~BeingFreed(me[p].ip))
  BY <1>0, <1>9
<1> QED
  BY <1>2, <1>5, <1>6, <1>7, <1>8, <1>10, <1>11, HandStep

\* One that changes only the link count of an inode, with what the process owes it.
LEMMA TallyHand ==
    ASSUME Tables, Ordered, Joined, NEW p \in Users, NEW a, At(p, a), a # "createNew",
           NEW k \in KernelTypes, NEW m, Does(p, k, m), k.panic = "none",
           NEW i \in Inums, Settled(i), ilk[i] \in {Nobody, p}, NEW R,
           \A j \in Inums : j \in R => Settled(j),
           \A j \in Inums : j # i => k.fs.ino[j] = fs.ino[j],
           \A j \in Inums : j \notin R => k.itab[j] = itab[j],
           k.fs.ino[i].type = fs.ino[i].type, k.fs.ents = fs.ents,
           k.fs.ino[i].nlink = fs.ino[i].nlink + One(Owes(m, i)) - One(Owes(me[p], i)),
           \A j \in Inums : j # i => (Owes(m, j) <=> Owes(me[p], j)),
           LocksMove(p), NoneFreed, UNCHANGED <<disk, boot, buried, buriedDisk>>,
           inTx \subseteq inTx', InHands(p)'
    PROVE  Joined'
<1> DEFINE T == {i}
<1>1. /\ \A j \in Inums : j \in T => Settled(j) /\ ilk[j] \in {Nobody, p}
      /\ \A j \in Inums : j \notin T => SameAt(fs, k.fs, j)
  BY DEF SameAt
<1>2. \A j \in Inums : k.fs.ino[j].type = fs.ino[j].type
  OBVIOUS
<1>3. Balanced(fs, k.fs, p, m)
  <2> SUFFICES ASSUME NEW j \in Inums
               PROVE  k.fs.ino[j].nlink = fs.ino[j].nlink
                         + (Cardinality(Links(k.fs, j)) - Cardinality(Links(fs, j)))
                         + (One(Owes(m, j)) - One(Owes(me[p], j)))
    BY DEF Balanced
  <2>1. Links(k.fs, j) = Links(fs, j)
    BY LinksSame
  <2>2. /\ Cardinality(Links(fs, j)) \in Nat /\ fs.ino[j].nlink \in Int
        /\ One(Owes(m, j)) \in Nat /\ One(Owes(me[p], j)) \in Nat
    BY LinksFinite, FsParts, DinodeParts DEF Tables, FilesTypes, One
  <2>3. k.fs.ino[j].nlink = fs.ino[j].nlink + One(Owes(m, j)) - One(Owes(me[p], j))
    <3>1. CASE j = i
      BY <3>1
    <3>2. CASE j # i
      <4>1. One(Owes(m, j)) = One(Owes(me[p], j)) /\ k.fs.ino[j].nlink = fs.ino[j].nlink
        BY <3>2 DEF One
      <4> QED BY <2>2, <4>1
    <3> QED BY <3>1, <3>2
  <2> QED BY <2>1, <2>2, <2>3
<1>4. Unfinished \subseteq Unfinished' => Tree(k.fs, buried', Unfinished')
  <2>1. Tree(fs, buried, Unfinished) /\ buried \subseteq buried'
    BY DEF Joined
  <2>2. \A j \in Inums : k.fs.ino[j].type = "none" => k.fs.ino[j].nlink = 0
    BY <2>1 DEF Tree, FreeNone, Settled
  <2>3. \A j \in Inums : k.fs.ents[j] = fs.ents[j]
    OBVIOUS
  <2> QED BY <1>2, <2>1, <2>2, <2>3, TreeSame
<1>5. buried \subseteq buried' /\ UNCHANGED <<disk, boot, buriedDisk>>
  OBVIOUS
<1>6. /\ Tables /\ Ordered /\ Joined /\ At(p, a) /\ a # "createNew" /\ k \in KernelTypes
      /\ Does(p, k, m) /\ k.panic = "none" /\ LocksMove(p) /\ NoneFreed /\ inTx \subseteq inTx'
      /\ InHands(p)'
  OBVIOUS
<1>7. /\ \A j \in Inums : j \in R => Settled(j)
      /\ \A j \in Inums : j \notin R => k.itab[j] = itab[j]
  OBVIOUS
<1> HIDE DEF T
<1> QED BY ONLY p \in Users, <1>1, <1>2, <1>3, <1>4, <1>5, <1>6, <1>7, ChangeHand

\* The inode that a process has locked has the links that the file system says.
LEMMA HeldCopy ==
    ASSUME Tables, NEW p \in Users, NEW a, At(p, a), NEW i \in Inums, Locked(me[p]) = i,
           ~BeingFreed(i)
    PROVE  /\ Ip(K, i) \in Dinodes /\ Ip(K, i).type = fs.ino[i].type
           /\ Ip(K, i).nlink = fs.ino[i].nlink /\ Live(K, i) /\ fs.ino[i].type # "none"
           /\ K \in KernelTypes /\ K.fs = fs /\ K.itab = itab /\ K.panic = "none"
           /\ ilk[i] = p /\ i # 0
<1>1. K \in KernelTypes /\ K.fs = fs /\ K.itab = itab /\ K.panic = "none" /\ i # 0
  BY AtFacts, Constants
<1>2. Live(K, i) /\ itab[i].valid
  BY <1>1, HeldLive DEF Live
<1>3. CopyOK(i)
  BY DEF Tables, CopiesOK
<1>4. ilk[i] = p
  BY <1>1 DEF Tables, LocksOK
<1> QED BY <1>1, <1>2, <1>3, <1>4, KernelParts DEF CopyOK, Ip

\* LinkOld: the new link is owed during the second walk.
LEMMA OldLinked ==
    ASSUME Tables, Ordered, Joined, NEW p \in Users, At(p, "linkOld"),
           NEW i \in Inums, i = me[p].ip, Settled(i), FreeLock(i),
           NEW c \in Inums, Settled(c), Rest, UNCHANGED <<ilk, buried, buriedDisk>>,
           NEW m, m.at = "walk", m.dp = i, NEW k, k = Ilock(K, i),
           NEW d, d = WithLinks(Ip(k, i), Ip(k, i).nlink + 1),
           Does(p, Iget(Iupdate(k, i, d), c), m)
    PROVE  Joined'
<1> DEFINE u == Iupdate(k, i, d)
           r == Iget(u, c)
           R == {i, c}
<1>2. /\ me[p] \in MeTypes /\ me[p].at = "linkOld" /\ me \in [Users -> MeTypes]
      /\ fs \in FsTypes /\ "linkOld" # "writei"
  BY AtFacts DEF FilesTypes
<1>4. /\ k \in KernelTypes /\ k.fs = fs /\ k.panic = "none" /\ Ip(k, i) = fs.ino[i]
      /\ \A j \in Inums : j # i => k.itab[j] = itab[j]
      /\ \A j \in Inums : k.itab[j].ref = itab[j].ref /\ itab[j].ref \in Nat
  BY LockCalm
<1>5. "linkOld" \in Unlocked /\ "linkOld" \notin {"user", "writeOp"} /\ p \in inTx'
      /\ UNCHANGED <<disk, boot>> /\ inTx \subseteq inTx'
  BY HereTx, RestSame DEF Unlocked
<1>6. fs.ino[i] \in Dinodes /\ fs.ino[i].nlink \in Int
  BY <1>2, FsParts, DinodeParts
<1>7. d \in Dinodes /\ d.type = fs.ino[i].type /\ d.nlink = fs.ino[i].nlink + 1
  <2> DEFINE e == fs.ino[i]
             n == e.nlink + 1
             w == WithLinks(e, n)
  <2>1. e \in Dinodes /\ n \in Int
    BY <1>6
  <2>2. d = w
    BY <1>4
  <2> SUFFICES d \in Dinodes /\ d.type = e.type /\ d.nlink = n
    OBVIOUS
  <2> HIDE DEF e, n
  <2>3. w \in Dinodes /\ w.type = e.type /\ w.nlink = n
    BY <2>1, WithLinksFacts
  <2> QED BY <2>2, <2>3
<1>8. /\ u \in KernelTypes /\ u.panic = "none" /\ u.fs.ino[i] = d
      /\ \A j \in Inums : j # i => u.itab[j] = itab[j] /\ u.fs.ino[j] = fs.ino[j]
      /\ \A j \in Inums : u.itab[j].ref = itab[j].ref
      /\ u.fs.ents = fs.ents
  <2>1. /\ u \in KernelTypes /\ u.panic = k.panic /\ u.fs.ino[i] = d
        /\ u.itab[i].ref = k.itab[i].ref
        /\ \A j \in Inums : j # i => u.itab[j] = k.itab[j] /\ u.fs.ino[j] = k.fs.ino[j]
        /\ u.fs.ents = k.fs.ents
    <3>1. k \in KernelTypes /\ d \in Dinodes
      BY <1>4, <1>7
    <3> QED BY ONLY <3>1, i \in Inums, IupdateFacts
  <2> HIDE DEF u
  <2> QED BY <1>4, <2>1
<1> HIDE DEF u
<1>9. /\ r \in KernelTypes /\ r.fs = u.fs /\ r.panic = "none"
      /\ \A j \in Inums : j # c => r.itab[j] = u.itab[j]
  <2>1. u.itab[c].ref >= 0
    BY <1>4, <1>8
  <2> QED BY <1>8, <2>1, IgetFacts
<1>10. Does(p, r, m)
  BY DEF u
<1> HIDE DEF r
<1>11. me'[p] = m
  BY <1>2, <1>10 DEF Does
<1>12. InHands(p)'
  BY <1>5, <1>11, PlainHands
<1>13. /\ \A j \in Inums : Owes(m, j) <=> j = i
       /\ \A j \in Inums : ~Owes(me[p], j)
  BY <1>2 DEF Owes
<1>14. r.fs.ino[i].nlink = fs.ino[i].nlink + One(Owes(m, i)) - One(Owes(me[p], i))
  <2>1. One(Owes(m, i)) = 1 /\ One(Owes(me[p], i)) = 0
    BY <1>13 DEF One
  <2> QED BY <1>6, <1>7, <1>8, <1>9, <2>1
<1>15. \A j \in Inums : j # i => (Owes(m, j) <=> Owes(me[p], j))
  BY <1>13
<1>16. NoneFreed
  BY <1>5, <1>10, LooseFreesNot DEF Does
<1>17. LocksMove(p)
  BY LocksMoved
<1>18. /\ \A j \in Inums : j \in R => Settled(j)
       /\ \A j \in Inums : j \notin R => r.itab[j] = itab[j]
  BY <1>8, <1>9
<1>19. /\ \A j \in Inums : j # i => r.fs.ino[j] = fs.ino[j]
       /\ r.fs.ino[i].type = fs.ino[i].type /\ r.fs.ents = fs.ents
       /\ ilk[i] \in {Nobody, p} /\ UNCHANGED <<disk, boot, buried, buriedDisk>>
       /\ "linkOld" # "createNew"
  BY <1>5, <1>7, <1>8, <1>9 DEF FreeLock
<1> HIDE DEF R
<1>20. /\ Tables /\ Ordered /\ Joined /\ At(p, "linkOld") /\ Settled(i)
       /\ inTx \subseteq inTx'
  BY <1>5
<1> QED BY ONLY p \in Users, i \in Inums, <1>9, <1>10, <1>12, <1>14, <1>15, <1>16, <1>17, <1>18,
             <1>19, <1>20, TallyHand

\* LinkOld.
LEMMA LinkOldJoined ==
    ASSUME Tables, Ordered, Joined, NEW p \in Users, LinkOld(p)
    PROVE  Joined'
<1> DEFINE i == me[p].ip
           c == cwd[p]
           k == Ilock(K, i)
           d == WithLinks(Ip(k, i), Ip(k, i).nlink + 1)
           m1 == Then(p, "end", <<i>>)
           m2 == [me[p] EXCEPT !.at = "walk", !.dp = i, !.ip = c, !.path = me[p].call.new]
<1>1. /\ At(p, "linkOld") /\ FreeLock(i) /\ Rest /\ UNCHANGED <<ilk, buried, buriedDisk>>
      /\ \/ Does(p, k, m1)
         \/ Does(p, Iget(Iupdate(k, i, d), c), m2)
  BY DEF LinkOld, WithLinks, history
<1>2. me[p] \in MeTypes /\ me[p].at = "linkOld"
  BY <1>1, AtFacts
<1>3. i \in Inums /\ Settled(i) /\ c \in Inums /\ Settled(c)
  BY <1>1, HandSettled DEF IpPlaces
<1>5. "linkOld" \in Unlocked /\ "linkOld" \notin {"user", "writeOp"}
  BY DEF Unlocked
<1>6. /\ m1.at = "end" /\ m2.at = "walk" /\ m2.dp = i
  BY <1>2, ThenAt DEF MeTypes
<1>7. CASE Does(p, k, m1)
  <2> HIDE DEF m1
  <2>1. \A j \in Inums : Owes(m1, j) <=> Owes(me[p], j)
    BY <1>2, <1>6, OwesNothing
  <2>2. Does(p, Ilock(K, i), m1)
    BY <1>7
  <2> HIDE DEF k, i
  <2> QED BY <1>1, <1>3, <1>5, <1>6, <2>1, <2>2, LookHand
<1>8. CASE Does(p, Iget(Iupdate(k, i, d), c), m2)
  <2> HIDE DEF m2
  <2> QED BY <1>1, <1>3, <1>6, <1>8, OldLinked
<1> QED BY <1>1, <1>7, <1>8

\* LinkBad takes the link back that was owed.
LEMMA LinkBadJoined ==
    ASSUME Tables, Ordered, Joined, NEW p \in Users, LinkBad(p)
    PROVE  Joined'
<1> DEFINE i == me[p].dp
           k == Ilock(K, i)
           n == Ip(k, i).nlink - 1
           d == WithLinks(Ip(k, i), n)
           u == Iupdate(k, i, d)
           m == Then(p, "end", <<i>>)
           R == {i}
<1>1. /\ At(p, "linkBad") /\ FreeLock(i) /\ Rest /\ UNCHANGED <<ilk, buried, buriedDisk>>
      /\ Does(p, u, m)
  BY DEF LinkBad, LinkBack, WithLinks, history
<1>2. /\ me[p] \in MeTypes /\ me[p].at = "linkBad" /\ me \in [Users -> MeTypes]
      /\ fs \in FsTypes
  BY <1>1, AtFacts DEF FilesTypes
<1>3. i \in Inums /\ Settled(i)
  BY <1>1, <1>2, HandSettled DEF DpUsed, DpPlaces
<1>4. /\ k \in KernelTypes /\ k.fs = fs /\ k.panic = "none" /\ Ip(k, i) = fs.ino[i]
      /\ \A j \in Inums : j # i => k.itab[j] = itab[j]
  BY <1>1, <1>3, LockCalm
<1>5. "linkBad" \in Unlocked /\ "linkBad" \notin {"user", "writeOp"} /\ p \in inTx'
      /\ UNCHANGED <<disk, boot>> /\ inTx \subseteq inTx'
  BY <1>1, HereTx, RestSame DEF Unlocked
<1>6. m.at = "end"
  BY <1>2, ThenAt
<1> HIDE DEF k, m, i
<1>7. fs.ino[i] \in Dinodes /\ n \in Int /\ n = fs.ino[i].nlink - 1
      /\ fs.ino[i].nlink \in Int
  BY <1>2, <1>3, <1>4, FsParts, DinodeParts
<1> HIDE DEF n
<1>8. d \in Dinodes /\ d.type = fs.ino[i].type /\ d.nlink = n
  BY <1>4, <1>7, WithLinksFacts
<1> HIDE DEF d
<1>9. /\ u \in KernelTypes /\ u.panic = "none" /\ u.fs.ino[i] = d
      /\ \A j \in Inums : j # i => u.itab[j] = itab[j] /\ u.fs.ino[j] = fs.ino[j]
      /\ u.fs.ents = fs.ents
  BY <1>3, <1>4, <1>8, IupdateFacts
<1> HIDE DEF u
<1>10. me'[p] = m
  BY <1>1, <1>2 DEF Does
<1>11. InHands(p)'
  BY <1>5, <1>6, <1>10, PlainHands
<1>12. /\ \A j \in Inums : Owes(me[p], j) <=> j = i
       /\ \A j \in Inums : ~Owes(m, j)
  BY <1>2, <1>6 DEF Owes, i
<1>13. u.fs.ino[i].nlink = fs.ino[i].nlink + One(Owes(m, i)) - One(Owes(me[p], i))
  <2>1. One(Owes(me[p], i)) = 1 /\ One(Owes(m, i)) = 0
    BY <1>3, <1>12 DEF One
  <2> QED BY <1>7, <1>8, <1>9, <2>1
<1>14. \A j \in Inums : j # i => (Owes(m, j) <=> Owes(me[p], j))
  BY <1>12
<1>15. NoneFreed
  BY <1>1, <1>5, LooseFreesNot DEF Does
<1>16. LocksMove(p)
  BY <1>1, LocksMoved
<1>17. /\ \A j \in Inums : j \in R => Settled(j)
       /\ \A j \in Inums : j \notin R => u.itab[j] = itab[j]
  BY <1>3, <1>9
<1>18. /\ \A j \in Inums : j # i => u.fs.ino[j] = fs.ino[j]
       /\ u.fs.ino[i].type = fs.ino[i].type /\ u.fs.ents = fs.ents
       /\ ilk[i] \in {Nobody, p} /\ UNCHANGED <<disk, boot, buried, buriedDisk>>
       /\ "linkBad" # "createNew"
  BY <1>1, <1>5, <1>8, <1>9 DEF FreeLock
<1> HIDE DEF R
<1> QED BY <1>1, <1>3, <1>5, <1>9, <1>11, <1>13, <1>14, <1>15, <1>16, <1>17, <1>18, TallyHand

\* UnlinkLast takes away the link of the entry that UnlinkChild removed.
LEMMA UnlinkLastJoined ==
    ASSUME Tables, Ordered, Joined, NEW p \in Users, UnlinkLast(p)
    PROVE  Joined'
<1> DEFINE i == me[p].ip
           n == Ip(K, i).nlink - 1
           d == WithLinks(Ip(K, i), n)
           u == Iupdate(K, i, d)
           m == Then(p, "end", <<i>>)
           R == {i}
<1>1. /\ At(p, "unlinkLast") /\ Rest /\ UNCHANGED <<buried, buriedDisk>> /\ ilk' = Release({i})
      /\ Does(p, u, m)
  BY DEF UnlinkLast, WithLinks, history
<1>2. /\ me[p] \in MeTypes /\ me[p].at = "unlinkLast" /\ me \in [Users -> MeTypes]
      /\ fs \in FsTypes
  BY <1>1, AtFacts DEF FilesTypes
<1>3. i \in Inums /\ Settled(i) /\ Locked(me[p]) = i
  BY <1>1, <1>2, HandSettled DEF IpPlaces, Locked
<1>4. /\ K \in KernelTypes /\ K.fs = fs /\ K.panic = "none" /\ K.itab = itab
      /\ Ip(K, i) \in Dinodes /\ Ip(K, i).type = fs.ino[i].type
      /\ Ip(K, i).nlink = fs.ino[i].nlink /\ ilk[i] = p /\ i # 0
  <2> HIDE DEF i
  <2> QED BY <1>1, <1>3, HeldCopy DEF Settled
<1>5. p \in inTx' /\ UNCHANGED <<disk, boot>> /\ inTx \subseteq inTx'
  BY <1>1, HereTx, RestSame
<1>6. m.at = "end"
  BY <1>2, ThenAt
<1> HIDE DEF m, i
<1>7. n \in Int /\ n = fs.ino[i].nlink - 1 /\ fs.ino[i].nlink \in Int
  BY <1>3, <1>4, DinodeParts
<1> HIDE DEF n
<1>8. d \in Dinodes /\ d.type = fs.ino[i].type /\ d.nlink = n
  BY <1>4, <1>7, WithLinksFacts
<1> HIDE DEF d
<1>9. /\ u \in KernelTypes /\ u.panic = "none" /\ u.fs.ino[i] = d
      /\ \A j \in Inums : j # i => u.itab[j] = itab[j] /\ u.fs.ino[j] = fs.ino[j]
      /\ u.fs.ents = fs.ents
  BY <1>3, <1>4, <1>8, IupdateFacts
<1> HIDE DEF u
<1>10. me'[p] = m
  BY <1>1, <1>2 DEF Does
<1>11. InHands(p)'
  BY <1>5, <1>6, <1>10, PlainHands
<1>12. /\ \A j \in Inums : Owes(me[p], j) <=> j = i
       /\ \A j \in Inums : ~Owes(m, j)
  BY <1>2, <1>6 DEF Owes, i
<1>13. u.fs.ino[i].nlink = fs.ino[i].nlink + One(Owes(m, i)) - One(Owes(me[p], i))
  <2>1. One(Owes(me[p], i)) = 1 /\ One(Owes(m, i)) = 0
    BY <1>3, <1>12 DEF One
  <2> QED BY <1>7, <1>8, <1>9, <2>1
<1>14. \A j \in Inums : j # i => (Owes(m, j) <=> Owes(me[p], j))
  BY <1>12
<1>15. NoneFreed
  BY <1>1, <1>3, LockFreesNot DEF Does
<1>16. LocksMove(p)
  BY <1>1, <1>4, LocksMoved
<1>17. /\ \A j \in Inums : j \in R => Settled(j)
       /\ \A j \in Inums : j \notin R => u.itab[j] = itab[j]
  BY <1>3, <1>9
<1>18. /\ \A j \in Inums : j # i => u.fs.ino[j] = fs.ino[j]
       /\ u.fs.ino[i].type = fs.ino[i].type /\ u.fs.ents = fs.ents
       /\ ilk[i] \in {Nobody, p} /\ UNCHANGED <<disk, boot, buried, buriedDisk>>
       /\ "unlinkLast" # "createNew"
  BY <1>1, <1>4, <1>5, <1>8, <1>9
<1> HIDE DEF R
<1> QED BY <1>1, <1>3, <1>5, <1>9, <1>11, <1>13, <1>14, <1>15, <1>16, <1>17, <1>18, TallyHand
-----------------------------------------------------------------------------
(* Entering a name                                                         *)

\* The inode in memory has the type and the link count of the file system.
Agrees(k, d) == Ip(k, d).type = k.fs.ino[d].type /\ Ip(k, d).nlink = k.fs.ino[d].nlink

\* A step from k to r touches only inode d, and of its entries only n.
Enlists(k, r, d, n) ==
    /\ r \in KernelTypes /\ r.panic = k.panic
    /\ \A j \in Inums : /\ r.fs.ino[j].type = k.fs.ino[j].type
                        /\ r.fs.ino[j].nlink = k.fs.ino[j].nlink
                        /\ r.itab[j].ref = k.itab[j].ref /\ r.itab[j].valid = k.itab[j].valid
    /\ \A j \in Inums : j # d => /\ r.fs.ents[j] = k.fs.ents[j] /\ r.itab[j] = k.itab[j]
                                 /\ r.fs.ino[j] = k.fs.ino[j]
    /\ \A l \in Entries : l # n => r.fs.ents[d][l] = k.fs.ents[d][l]
    /\ Ip(r, d).type = Ip(k, d).type /\ Ip(r, d).nlink = Ip(k, d).nlink

\* dirlink() does that.
LEMMA DirlinkCalm ==
    ASSUME NEW k \in KernelTypes, NEW d \in Inums, Agrees(k, d), NEW n \in Entries,
           NEW i \in Inums \union {0}
    PROVE  LET r == Dirlink(k, d, n, i)
           IN  /\ Enlists(k, r.k, d, n) /\ Agrees(r.k, d) /\ r.ok \in BOOLEAN
               /\ r.ok => r.k.fs.ents[d][n] = i
               /\ ~r.ok => r.k.fs.ents = k.fs.ents
<1> DEFINE x == Dirlink(k, d, n, i)
           r == x.k
           ok == x.ok
<1>1. /\ r \in KernelTypes /\ ok \in BOOLEAN /\ Entered(k, r, d)
      /\ ok => r.fs.ents[d][n] = i
      /\ ~ok => r.fs.ents[d][n] = k.fs.ents[d][n]
      /\ \A l \in Entries : l # n => r.fs.ents[d][l] = k.fs.ents[d][l]
  BY DirlinkFacts
<1> SUFFICES /\ Enlists(k, r, d, n) /\ Agrees(r, d) /\ ok \in BOOLEAN
             /\ ok => r.fs.ents[d][n] = i
             /\ ~ok => r.fs.ents = k.fs.ents
  OBVIOUS
<1> HIDE DEF x
<1>2. /\ r.fs.ents \in Dirs /\ k.fs.ents \in Dirs
      /\ \A j \in Inums : r.fs.ents[j] \in [Entries -> Inums \union {0}]
      /\ \A j \in Inums : k.fs.ents[j] \in [Entries -> Inums \union {0}]
  BY <1>1, KernelParts, FsParts
<1> HIDE DEF r, ok
<1>3. \A j \in Inums : j # d => r.fs.ents[j] = k.fs.ents[j]
  <2> SUFFICES ASSUME NEW j \in Inums, j # d PROVE r.fs.ents[j] = k.fs.ents[j]
    OBVIOUS
  <2>1. \A l \in Entries : r.fs.ents[j][l] = k.fs.ents[j][l]
    BY <1>1 DEF Entered
  <2> QED BY <1>2, <2>1
<1>4. ~ok => r.fs.ents = k.fs.ents
  <2> SUFFICES ASSUME ~ok PROVE r.fs.ents = k.fs.ents
    OBVIOUS
  <2>1. \A l \in Entries : r.fs.ents[d][l] = k.fs.ents[d][l]
    BY <1>1
  <2>2. r.fs.ents[d] = k.fs.ents[d]
    BY <1>2, <2>1
  <2>3. \A j \in Inums : r.fs.ents[j] = k.fs.ents[j]
    BY <1>3, <2>2
  <2> QED BY <1>2, <2>3 DEF Dirs
<1>5. Ip(r, d).type = Ip(k, d).type /\ Ip(r, d).nlink = Ip(k, d).nlink
  BY <1>1 DEF Entered, Ip
<1>6. r.fs.ino[d].type = k.fs.ino[d].type /\ r.fs.ino[d].nlink = k.fs.ino[d].nlink
  <2>1. r = k \/ r.fs.ino[d] = Ip(r, d)
    BY <1>1 DEF Entered, Ip
  <2> QED BY <1>5, <2>1 DEF Agrees
<1>7. \A j \in Inums : /\ r.fs.ino[j].type = k.fs.ino[j].type
                       /\ r.fs.ino[j].nlink = k.fs.ino[j].nlink
                       /\ r.itab[j].ref = k.itab[j].ref /\ r.itab[j].valid = k.itab[j].valid
  BY <1>1, <1>6 DEF Entered
<1>8. \A j \in Inums : j # d => r.itab[j] = k.itab[j] /\ r.fs.ino[j] = k.fs.ino[j]
  BY <1>1 DEF Entered
<1>9. r.panic = k.panic
  BY <1>1 DEF Entered
<1>10. Agrees(r, d)
  BY <1>5, <1>6 DEF Agrees
<1> QED BY <1>1, <1>3, <1>4, <1>5, <1>7, <1>8, <1>9, <1>10 DEF Enlists

\* The name that is missing in a finished directory is not "." or "..".
LEMMA MissingName ==
    ASSUME Joined, NEW d \in Inums, Settled(d), fs.ino[d].type = "dir",
           NEW n \in Entries, fs.ents[d][n] = 0
    PROVE  n \in Names
<1>1. d \notin Unfinished
  BY DEF Settled, Unfinished
<1>2. fs.ents[d][Dot] = d /\ fs.ents[d][DotDot] # 0
  BY <1>1 DEF Joined, Tree, DotsOK
<1>3. d # 0
  BY Constants
<1> QED BY <1>2, <1>3 DEF Entries

\* LinkNew, when dirlink() has made the entry.
LEMMA NewLinked ==
    ASSUME Tables, Ordered, Joined, NEW p \in Users, At(p, "linkNew"),
           NEW d \in Inums, d = me[p].ip, Settled(d), FreeLock(d),
           NEW i \in Inums, i = me[p].dp, Settled(i),
           NEW n \in Entries, n = LastName(p), fs.ents[d][n] = 0,
           NEW k, k = Ilock(K, d), NEW r, Enlists(k, r, d, n), r.fs.ents[d][n] = i,
           NEW m, m.at = "end", Does(p, r, m), Rest, UNCHANGED <<ilk, buriedDisk>>,
           buried' = IF Removed(fs, d) THEN buried \union {i} ELSE buried
    PROVE  Joined'
<1> DEFINE R == {d}
           g == r.fs
<1>1. /\ me[p] \in MeTypes /\ me[p].at = "linkNew" /\ me \in [Users -> MeTypes]
      /\ fs \in FsTypes /\ PlaceOK(fs, me[p])
  BY AtPlace, AtFacts DEF FilesTypes
<1>2. /\ k \in KernelTypes /\ k.fs = fs /\ k.panic = "none"
      /\ \A j \in Inums : j # d => k.itab[j] = itab[j]
  BY LockCalm
<1>3. fs.ino[d].type = "dir" /\ fs.ino[i].type # "dir" /\ d # i
  BY <1>1 DEF PlaceOK, FromDir, OldInode
<1>4. n \in Names
  BY <1>3, MissingName
<1>5. /\ Tree(fs, buried, Unfinished) /\ i # Root /\ fs.ents[i] = NoEnts
  <2>1. Tree(fs, buried, Unfinished)
    BY DEF Joined
  <2> QED BY <1>3, <2>1 DEF Tree, RootTop, DirsOnly
<1>6. /\ r \in KernelTypes /\ r.panic = "none" /\ g \in FsTypes
      /\ \A j \in Inums : g.ino[j].type = fs.ino[j].type /\ g.ino[j].nlink = fs.ino[j].nlink
      /\ \A j \in Inums : j # d => g.ents[j] = fs.ents[j] /\ r.itab[j] = itab[j]
      /\ \A l \in Entries : l # n => g.ents[d][l] = fs.ents[d][l]
      /\ g.ents[d][n] = i
  BY <1>2, KernelParts DEF Enlists
<1> HIDE DEF g
<1>7. Enters(fs, g, d, n, i)
  BY <1>6 DEF Enters, Entries
<1>8. \A j \in Inums : Cardinality(Links(g, j)) = Cardinality(Links(fs, j)) + One(j = i)
  <2> SUFFICES ASSUME NEW j \in Inums
               PROVE  Cardinality(Links(g, j)) = Cardinality(Links(fs, j)) + One(j = i)
    OBVIOUS
  <2>1. \A e \in Inums : e # i => g.ents[e][DotDot] = fs.ents[e][DotDot]
    <3>1. DotDot # n /\ DotDot \in Entries
      BY <1>4, FilesAssumption DEF Entries
    <3> QED BY <1>6, <3>1
  <2>2. g.ents[i][DotDot] = 0 /\ fs.ents[i][DotDot] = 0
    BY <1>3, <1>5, <1>6 DEF NoEnts, Entries
  <2>3. Cardinality(Links(g, j)) = Cardinality(Links(fs, j)) + One(j = i) + One(0 = j)
    <3> DEFINE t == 0
    <3>1. /\ t \in {0, d} /\ d # i /\ i # Root /\ n \in Names /\ g.ents[i][DotDot] = t
          /\ fs.ents[i][DotDot] = 0 \/ Removed(fs, i)
      BY <1>3, <1>4, <1>5, <2>2
    <3> HIDE DEF t
    <3>2. Gains(fs, g, i, t)
      BY ONLY d \in Inums, i \in Inums, <1>7, <2>1, <3>1, LinksEntered
    <3> QED BY <3>2 DEF t, Gains
  <2>4. One(0 = j) = 0 /\ Cardinality(Links(fs, j)) \in Nat
    BY Constants, LinksFinite DEF One
  <2>5. One(j = i) \in Nat
    BY DEF One
  <2> QED BY <2>3, <2>4, <2>5
<1>9. /\ \A j \in Inums : ~Owes(m, j)
      /\ \A j \in Inums : Owes(me[p], j) <=> j = i
  BY <1>1 DEF Owes
<1>10. Balanced(fs, g, p, m)
  <2> SUFFICES ASSUME NEW j \in Inums
               PROVE  g.ino[j].nlink = fs.ino[j].nlink
                         + (Cardinality(Links(g, j)) - Cardinality(Links(fs, j)))
                         + (One(Owes(m, j)) - One(Owes(me[p], j)))
    BY DEF Balanced
  <2>1. One(Owes(m, j)) = 0 /\ One(Owes(me[p], j)) = One(j = i) /\ One(j = i) \in Int
    BY <1>9 DEF One
  <2>2. Cardinality(Links(fs, j)) \in Nat /\ Cardinality(Links(g, j)) \in Nat
    BY LinksFinite
  <2>3. fs.ino[j].nlink \in Int
    BY <1>1, FsParts, DinodeParts
  <2> QED BY <1>6, <1>8, <2>1, <2>2, <2>3
<1>11. ASSUME NEW V, Unfinished \subseteq V PROVE Tree(g, buried', V)
  <2>1. \A j \in Inums : g.ino[j].type = "none" => g.ino[j].nlink = 0
    BY <1>5, <1>6 DEF Tree, FreeNone
  <2>2. /\ \A e \in Inums : e # d /\ e # i => g.ents[e] = fs.ents[e]
        /\ fs.ino[i].type # "dir" => g.ents[i] = NoEnts
    BY <1>3, <1>5, <1>6
  <2>3. buried \subseteq buried' /\ (Removed(fs, d) => i \in buried')
    OBVIOUS
  <2>4. Unfinished \subseteq V \union {i}
    BY <1>11
  <2>5. \A j \in Inums : g.ino[j].type = fs.ino[j].type
    BY <1>6
  <2> QED BY <1>1, <1>3, <1>4, <1>5, <1>6, <1>7, <2>1, <2>2, <2>3, <2>4, <2>5, TreeEntered
<1>12. Unfinished \subseteq Unfinished' => Tree(g, buried', Unfinished')
  BY <1>11
<1>13. "linkNew" \in Unlocked /\ "linkNew" \notin {"user", "writeOp"} /\ p \in inTx'
       /\ UNCHANGED <<disk, boot>> /\ inTx \subseteq inTx'
  BY HereTx, RestSame DEF Unlocked
<1>14. me'[p] = m
  BY <1>1 DEF Does
<1>15. InHands(p)'
  BY <1>13, <1>14, PlainHands
<1>16. NoneFreed
  BY <1>13, LooseFreesNot DEF Does
<1>17. LocksMove(p)
  BY LocksMoved
<1>18. /\ \A j \in Inums : j \in R => Settled(j) /\ ilk[j] \in {Nobody, p}
       /\ \A j \in Inums : j \notin R => SameAt(fs, g, j)
       /\ \A j \in Inums : j \notin R => r.itab[j] = itab[j]
       /\ \A j \in Inums : g.ino[j].type = fs.ino[j].type
  BY <1>6 DEF SameAt, FreeLock
<1>19. /\ Tables /\ Ordered /\ Joined /\ At(p, "linkNew") /\ "linkNew" # "createNew"
       /\ r \in KernelTypes /\ r.panic = "none" /\ Does(p, r, m)
       /\ UNCHANGED <<disk, boot, buriedDisk>> /\ inTx \subseteq inTx' /\ buried \subseteq buried'
  BY <1>6, <1>13
<1> HIDE DEF R
<1> QED BY ONLY p \in Users, <1>10, <1>12, <1>15, <1>16, <1>17, <1>18, <1>19, ChangeHand DEF g

\* LinkNew.
LEMMA LinkNewJoined ==
    ASSUME Tables, Ordered, Joined, NEW p \in Users, LinkNew(p), ~dangling'
    PROVE  Joined'
<1> DEFINE d == me[p].ip
           i == me[p].dp
           n == LastName(p)
           k == Ilock(K, d)
           old == Dirlookup(k, d, n)
           r == Dirlink(k, d, n, i)
           m1 == Then(p, "linkBad", <<old, d>>)
           m2 == Then(p, "end", <<d, i>>)
           m3 == Then(p, "linkBad", <<d>>)
           R == {d}
<1>1. /\ At(p, "linkNew") /\ FreeLock(d) /\ Rest /\ UNCHANGED <<ilk, buriedDisk>>
      /\ ~GoesUp(d, n)
      /\ \/ old # 0 /\ Does(p, Iget(k, old), m1) /\ UNCHANGED buried
         \/ /\ old = 0 /\ r.ok /\ Does(p, r.k, m2)
            /\ buried' = IF Removed(fs, d) THEN buried \union {i} ELSE buried
         \/ old = 0 /\ ~r.ok /\ Does(p, r.k, m3) /\ UNCHANGED buried
  BY DEF LinkNew, Linked
<1>2. /\ me[p].at = "linkNew" /\ me[p] \in MeTypes /\ boot = 0 /\ me \in [Users -> MeTypes]
      /\ fs \in FsTypes
  BY <1>1, AtFacts DEF FilesTypes
<1>3. d \in Inums /\ Settled(d) /\ n \in Entries /\ i \in Inums /\ Settled(i)
  BY <1>1, <1>2, HandSettled, LastNameType DEF IpPlaces, DpUsed, DpPlaces
<1>4. /\ k \in KernelTypes /\ k.fs = fs /\ k.panic = "none" /\ Ip(k, d) = fs.ino[d]
      /\ \A j \in Inums : j # d => k.itab[j] = itab[j]
  BY <1>1, <1>3, LockCalm
<1>5. p \in inTx' /\ "linkNew" \in Unlocked /\ "linkNew" \notin {"user", "writeOp"}
      /\ UNCHANGED <<disk, boot>> /\ inTx \subseteq inTx'
  BY <1>1, HereTx, RestSame DEF Rest, Unlocked
<1>6. /\ m1.at = "linkBad" /\ m1.dp = i /\ m2.at = "end" /\ m3.at = "linkBad" /\ m3.dp = i
  BY <1>2 DEF MeTypes, Then
<1> HIDE DEF k
<1>7. old = fs.ents[d][n]
  BY <1>4 DEF Dirlookup
<1>8. CASE old # 0 /\ Does(p, Iget(k, old), m1) /\ UNCHANGED buried
  <2>1. old \in Inums /\ Settled(old)
    <3> HIDE DEF d, n, old
    <3> QED BY <1>1, <1>2, <1>3, <1>7, <1>8, LookSettled
  <2> HIDE DEF old, m1
  <2>2. me'[p] = m1
    BY <1>2, <1>8 DEF Does
  <2>3. InHands(p)'
    BY <1>5, <1>6, <2>2, PlainHands
  <2>4. \A j \in Inums : Owes(m1, j) <=> Owes(me[p], j)
    BY <1>2, <1>6 DEF Owes
  <2> HIDE DEF d, n, i
  <2>5. Does(p, Iget(Ilock(K, d), old), m1)
    BY <1>8 DEF k
  <2> QED BY <1>1, <1>3, <1>5, <1>8, <2>1, <2>3, <2>4, <2>5, LookGetHand
<1> HIDE DEF old
<1>9. Agrees(k, d)
  BY <1>4 DEF Agrees
<1>10. /\ Enlists(k, r.k, d, n) /\ r.ok \in BOOLEAN
       /\ r.ok => r.k.fs.ents[d][n] = i
       /\ ~r.ok => r.k.fs.ents = k.fs.ents
  <2> HIDE DEF d, n, i
  <2> QED BY <1>3, <1>4, <1>9, DirlinkCalm
<1> HIDE DEF r
<1>11. CASE /\ old = 0 /\ r.ok /\ Does(p, r.k, m2)
            /\ buried' = IF Removed(fs, d) THEN buried \union {i} ELSE buried
  <2> HIDE DEF m2
  <2>1. fs.ents[d][n] = 0
    BY <1>7, <1>11
  <2> QED BY <1>1, <1>3, <1>6, <1>10, <1>11, <2>1, NewLinked DEF k
<1>12. CASE old = 0 /\ ~r.ok /\ Does(p, r.k, m3) /\ UNCHANGED buried
  <2> DEFINE u == r.k
  <2> HIDE DEF m3, d, n, i
  <2>1. /\ u \in KernelTypes /\ u.panic = "none" /\ u.fs \in FsTypes
        /\ Same(fs, u.fs) /\ \A j \in Inums : j \notin R => u.itab[j] = itab[j]
    <3>1. /\ u \in KernelTypes /\ u.panic = "none" /\ u.fs.ents = fs.ents
          /\ \A j \in Inums : u.fs.ino[j].type = fs.ino[j].type
                              /\ u.fs.ino[j].nlink = fs.ino[j].nlink
          /\ \A j \in Inums : j # d => u.itab[j] = itab[j]
      BY <1>4, <1>10, <1>12 DEF Enlists
    <3> QED BY <3>1, KernelParts DEF Same
  <2>2. me'[p] = m3
    BY <1>2, <1>12 DEF Does
  <2>3. InHands(p)'
    BY <1>5, <1>6, <2>2, PlainHands
  <2>4. \A j \in Inums : Owes(m3, j) <=> Owes(me[p], j)
    BY <1>2, <1>6 DEF Owes, i
  <2>5. NoneFreed
    BY <1>1, <1>5, <1>12, LooseFreesNot DEF Does
  <2>6. LocksMove(p)
    BY <1>1, LocksMoved
  <2>7. \A j \in Inums : j \in R => Settled(j)
    BY <1>3
  <2>8. /\ Does(p, u, m3) /\ boot' = boot /\ buried' = buried /\ "linkNew" # "createNew"
        /\ \A q \in Users : q # p /\ q \in inTx => q \in inTx'
    BY <1>1, <1>5, <1>12
  <2>9. Commits(p, u)
    BY <1>1, <1>5 DEF Commits
  <2> HIDE DEF u, R
  <2> QED BY <1>1, <2>1, <2>3, <2>4, <2>5, <2>6, <2>7, <2>8, <2>9, CalmHand
<1> QED BY <1>1, <1>8, <1>11, <1>12

\* ialloc() gives a type to an inode that is not linked from anywhere.
LEMMA TreeMade ==
    ASSUME NEW f \in FsTypes, NEW g \in FsTypes, NEW x \in Inums, f.ino[x].type = "none",
           g.ents = f.ents, \A j \in Inums : g.ino[j].nlink = f.ino[j].nlink,
           \A j \in Inums : j # x => g.ino[j].type = f.ino[j].type, g.ino[x].type # "none",
           NEW M, NEW A, Counted(f, M, A), NEW B, NEW U, Tree(f, B, U),
           NEW V, U \union {x} \subseteq V
    PROVE  Tree(g, B, V)
<1>1. /\ f.ino[x].nlink = 0 /\ x # Root
      /\ \A d \in Inums, n \in Names : f.ents[d][n] # x
  <2>1. f.ino[x].nlink <= 0
    BY DEF Tree, FreeNone
  <2> QED BY <2>1, NoLinks
<1>2. \A e \in Inums : Removed(g, e) <=> Removed(f, e)
  BY DEF Removed
<1>3. FreeNone(g) /\ DirsOnly(g) /\ RootTop(g)
  <2>1. FreeNone(g)
    BY DEF Tree, FreeNone
  <2>2. DirsOnly(g)
    <3> SUFFICES ASSUME NEW j \in Inums, g.ino[j].type # "dir" PROVE g.ents[j] = NoEnts
      BY DEF DirsOnly
    <3>1. f.ino[j].type # "dir"
      OBVIOUS
    <3> QED BY <3>1 DEF Tree, DirsOnly
  <2>3. RootTop(g)
    BY <1>1, Constants DEF Tree, RootTop
  <2> QED BY <2>1, <2>2, <2>3
<1>4. DotsOK(g, V)
  BY DEF Tree, DotsOK
<1>5. OneName(g)
  BY <1>1 DEF Tree, OneName
<1>6. Burying(g, B)
  BY <1>2 DEF Tree, Burying
<1> QED BY <1>3, <1>4, <1>5, <1>6 DEF Tree

\* Create, when a new inode was allocated.
LEMMA NewMade ==
    ASSUME Tables, Ordered, Joined, NEW p \in Users, At(p, "create"),
           NEW d \in Inums, d = me[p].ip, Settled(d), FreeLock(d), Rest, ilk' = Holds(p, d),
           UNCHANGED <<buried, buriedDisk>>,
           NEW n, n = LastName(p), fs.ents[d][n] = 0,
           NEW t \in Types, t = TypeOf(me[p].call.op), t # "none",
           NEW x \in Inums, NEW r \in KernelTypes, r.panic = "none",
           fs.ino[x].type = "none", r.fs.ino[x] = Dinode(t, 0), r.fs.ents = fs.ents,
           r.itab[x].ref = itab[x].ref + 1,
           \A j \in Inums : j # x => r.fs.ino[j] = fs.ino[j],
           \A j \in Inums : j # x /\ j # d => r.itab[j] = itab[j],
           NEW m, m = Taking(me[p], "createNew", d, x), Does(p, r, m)
    PROVE  Joined'
<1> DEFINE g == r.fs
           T == {x}
           R == {d, x}
<1>1. /\ me[p] \in MeTypes /\ me[p].at = "create" /\ me \in [Users -> MeTypes]
      /\ me[p].put = <<>> /\ Shape(me[p]) /\ fs \in FsTypes /\ boot = 0 /\ g \in FsTypes
  BY AtFacts, KernelParts DEF FilesTypes
<1>2. /\ m.at = "createNew" /\ m.call = me[p].call /\ m.path = me[p].path /\ m.ip = x
      /\ m.dp = d /\ m.put = <<>>
  <2>1. "createNew" \in Places
    BY DEF Places
  <2>2. LET v == Taking(me[p], "createNew", d, x)
        IN  /\ v.at = "createNew" /\ v.call = me[p].call /\ v.path = me[p].path /\ v.ip = x
            /\ v.dp = d /\ v.put = me[p].put
    BY ONLY d \in Inums, x \in Inums, <1>1, <2>1, TakingFacts
  <2> QED BY <1>1, <2>2
<1>3. me'[p] = m /\ \A q \in Users : q # p => me'[q] = me[q]
  BY <1>1 DEF Does
<1>4. fs' = g /\ itab' = r.itab
  BY DEF Does
<1>5. x # d /\ g.ino[x].type = t /\ g.ino[x].nlink = 0
  BY DEF Settled, Dinode
<1>6. "create" \in Unlocked /\ p \in inTx' /\ UNCHANGED <<disk, boot>> /\ inTx \subseteq inTx'
      /\ "create" \notin {"user", "writeOp"}
  BY HereTx, RestSame DEF Unlocked
<1>7. LocksMove(p)
  BY LocksMoved
<1>8. NoneFreed
  BY <1>2, <1>6, LooseFreesNot DEF Does
<1>9. Tree(fs, buried, Unfinished) /\ Counted(fs, me, buried) /\ InTable
      /\ \A q \in Users : InHands(q)
  BY <1>1 DEF Joined
<1>10. ~BeingMade(x) /\ \A q \in Users : ~Failed(q, x)
  <2>1. ASSUME NEW q \in Users, me[q].at = "createNew", me[q].ip = x PROVE FALSE
    <3>1. /\ fs.ino[x].type = TypeOf(me[q].call.op)
          /\ me[q].call.op \in {"create", "mkdir", "mknod", "mkbad"}
      BY <1>9, <2>1 DEF InHands
    <3>2. TypeOf(me[q].call.op) # "none"
      BY <3>1 DEF TypeOf
    <3> QED BY <3>1, <3>2
  <2>2. \A q \in Users : ~Failed(q, x)
    BY <1>9 DEF InHands
  <2> QED BY <2>1, <2>2 DEF BeingMade
<1>11. Leaves(p, r, T, R)
  <2>1. \A j \in Inums : j \notin T => SameAt(fs, r.fs, j)
    BY DEF SameAt
  <2>2. \A j \in Inums : j \notin R => r.itab[j] = itab[j]
    OBVIOUS
  <2>3. \A q \in Users, j \in Inums : j \in T \/ j \in R =>
            ~(me[q].at = "createNew" /\ me[q].ip = j) /\ ~Failed(q, j)
    BY <1>10 DEF BeingMade, Settled
  <2>4. \A j \in Inums : j \in T => fs.ino[j].type = "none" /\ g.ino[j].type # "none"
    BY <1>5
  <2>5. \A j \in Inums : j \in R => g.ino[j].type # "none"
    BY <1>5 DEF Settled
  <2>6. \A j \in Inums : fs.ino[j].type # "none" => g.ino[j].type = fs.ino[j].type
    OBVIOUS
  <2>7. \A j \in Inums : ~Frees(p, j)
    BY <1>1 DEF Frees
  <2> QED BY <2>1, <2>2, <2>3, <2>4, <2>5, <2>6, <2>7 DEF Leaves
<1>12. fs.ino[x].nlink = 0 /\ fs.ents[x] = NoEnts
  BY <1>9 DEF Tree, FreeNone, DirsOnly
<1>13. itab'[x].ref = 1 + One(BeingFreed(x)')
  <2>1. BeingFreed(x)' <=> BeingFreed(x)
    <3>1. ilk'[x] = ilk[x]
      BY <1>1, <1>5, AtFacts DEF Holds, FilesTypes
    <3>2. ~Frees(p, x) /\ ~Frees(p, x)'
      BY <1>1, <1>2, <1>3 DEF Frees
    <3>3. \A q \in Users : q # p => (Frees(q, x)' <=> Frees(q, x))
      BY <1>3, <3>1 DEF Frees
    <3>4. ilk[x] \in Users \union {Nobody}
      BY DEF Tables, FilesTypes
    <3> QED BY <3>1, <3>2, <3>3, <3>4 DEF BeingFreed
  <2>2. itab[x].ref = One(BeingFreed(x))
    <3>1. itab[x].ref \in Nat
      BY AtFacts
    <3>2. itab[x].ref > 0 => BeingFreed(x)
      BY <1>9 DEF InTable
    <3>3. BeingFreed(x) => itab[x].ref = 1
      BY <1>9, <1>10 DEF InTable
    <3> QED BY <3>1, <3>2, <3>3 DEF One
  <2>3. One(BeingFreed(x)') = One(BeingFreed(x))
    BY <2>1 DEF One
  <2>4. One(BeingFreed(x)) \in Nat
    BY DEF One
  <2> QED BY <1>4, <2>2, <2>3, <2>4
<1>14. InHands(p)'
  <2>1. LastName(p)' = n
    BY <1>2, <1>3 DEF LastName
  <2>2. /\ me'[p].call.op \in {"create", "mkdir", "mknod", "mkbad"}
        /\ fs'.ino[me'[p].ip].nlink = 0 /\ fs'.ino[me'[p].ip].type = TypeOf(me'[p].call.op)
        /\ fs'.ents[me'[p].ip] = NoEnts
        /\ fs'.ents[me'[p].dp][LastName(p)'] = 0
    BY <1>1, <1>2, <1>3, <1>4, <1>5, <1>12, <2>1 DEF Shape
  <2>3. itab'[me'[p].ip].ref = 1 + One(BeingFreed(me[p].ip)')
    BY <1>2, <1>3, <1>13
  <2> QED BY <1>2, <1>3, <1>6, <2>2, <2>3 DEF InHands, Failed
<1>15. Unfinished \union {x} \subseteq Unfinished'
  <2>1. \A j \in Inums : j \in Unfinished => j \in Unfinished'
    <3> SUFFICES ASSUME NEW j \in Inums, j \in Unfinished PROVE j \in Unfinished'
      OBVIOUS
    <3>1. ~(me[p].at = "createNew" /\ me[p].ip = j) /\ ~Failed(p, j)
      BY <1>1 DEF Failed
    <3> QED BY <1>7, <3>1, StillUnfinished
  <2>2. x \in Unfinished'
    BY <1>2, <1>3 DEF Unfinished, BeingMade
  <2> QED BY <2>1, <2>2 DEF Unfinished
<1>16. \A j \in Inums : g.ino[j].nlink = fs.ino[j].nlink
  BY <1>5, <1>12
<1>17. Tree(g, buried', Unfinished')
  <2>1. g.ino[x].type # "none" /\ \A j \in Inums : j # x => g.ino[j].type = fs.ino[j].type
    BY <1>5
  <2>2. g.ents = fs.ents /\ fs.ino[x].type = "none" /\ buried' = buried
    OBVIOUS
  <2> HIDE DEF g
  <2>3. Tree(g, buried, Unfinished')
    BY <1>1, <1>9, <1>15, <1>16, <2>1, <2>2, TreeMade
  <2> QED BY <2>2, <2>3
<1>18. Counted(g, me', buried')
  <2>1. Balanced(fs, g, p, m)
    <3> SUFFICES ASSUME NEW j \in Inums
                 PROVE  g.ino[j].nlink = fs.ino[j].nlink
                           + (Cardinality(Links(g, j)) - Cardinality(Links(fs, j)))
                           + (One(Owes(m, j)) - One(Owes(me[p], j)))
      BY DEF Balanced
    <3>1. One(Owes(m, j)) = 0 /\ One(Owes(me[p], j)) = 0
      BY <1>1, <1>2 DEF One, Owes
    <3>2. Links(g, j) = Links(fs, j)
      BY LinksSame
    <3>3. Cardinality(Links(fs, j)) \in Nat
      BY LinksFinite
    <3>4. fs.ino[j].nlink \in Int
      BY <1>1, FsParts, DinodeParts
    <3> QED BY <1>16, <3>1, <3>2, <3>3, <3>4
  <2>2. me' = [me EXCEPT ![p] = m] /\ buried \subseteq buried'
    BY DEF Does
  <2> QED BY <1>1, <1>9, <2>1, <2>2, CountedStep
<1>19. Tree(disk', buriedDisk', {}) /\ Counted(disk', NoneOwed, buriedDisk')
  BY <1>6 DEF Joined
<1>20. \A j \in Inums : j \in T \/ j \in R =>
           ~BeingFreed(j) \/ (m.at = "createNew" /\ m.ip = j)
  BY <1>2 DEF Settled
<1>21. /\ Tables /\ Ordered /\ Joined /\ boot = 0 /\ boot' = 0 /\ Does(p, r, m)
       /\ r.panic = "none" /\ (me[p].at = "createNew" => ~BeingFreed(me[p].ip))
       /\ \A q \in Users : q # p /\ q \in inTx => q \in inTx'
  BY <1>1, <1>6
<1> HIDE DEF T, R
<1> QED BY ONLY p \in Users, <1>7, <1>8, <1>11, <1>14, <1>17, <1>18, <1>19, <1>20, <1>21, HandStep

\* Create looks the name up, and allocates an inode when it is missing.
LEMMA CreateJoined ==
    ASSUME Tables, Ordered, Joined, NEW p \in Users, Create(p), ~dangling'
    PROVE  Joined'
<1> DEFINE d == me[p].ip
           n == LastName(p)
           k == Ilock(K, d)
           old == Dirlookup(k, d, n)
           t == TypeOf(me[p].call.op)
           new == Ialloc(k, t)
           x == new.i
           r == new.k
           m1 == WithIp(Then(p, "createOld", <<d>>), old)
           m2 == Then(p, "end", <<d>>)
           m3 == Taking(me[p], "createNew", d, x)
<1>1. /\ At(p, "create") /\ FreeLock(d) /\ Rest /\ UNCHANGED <<buried, buriedDisk>>
      /\ ~GoesUp(d, n)
      /\ \/ old # 0 /\ Does(p, Iget(k, old), m1) /\ UNCHANGED ilk
         \/ Does(p, k, m2) /\ UNCHANGED ilk
         \/ old = 0 /\ x # 0 /\ Does(p, r, m3) /\ ilk' = Holds(p, d)
  BY DEF Create, WithIp, Taking
<1>2. /\ me[p].at = "create" /\ me[p] \in MeTypes /\ boot = 0 /\ me \in [Users -> MeTypes]
      /\ fs \in FsTypes /\ Shape(me[p])
  BY <1>1, AtFacts DEF FilesTypes
<1>3. d \in Inums /\ Settled(d) /\ n \in Entries
  BY <1>1, HandSettled, LastNameType DEF IpPlaces
<1>4. /\ k \in KernelTypes /\ k.fs = fs /\ k.panic = "none"
      /\ \A j \in Inums : j # d => k.itab[j] = itab[j]
      /\ \A j \in Inums : k.itab[j].ref = itab[j].ref /\ itab[j].ref \in Nat
  BY <1>1, <1>3, LockCalm
<1>5. p \in inTx' /\ "create" \in Unlocked /\ "create" \notin {"user", "writeOp"}
  BY <1>1, HereTx DEF Rest, Unlocked
<1>6. t \in Types /\ t # "none"
  BY <1>2 DEF Shape, TypeOf, Types
<1> HIDE DEF k
<1>7. old = fs.ents[d][n]
  BY <1>4 DEF Dirlookup
<1>8. CASE Does(p, k, m2) /\ UNCHANGED ilk
  <2>1. m2.at = "end"
    BY <1>2, ThenAt
  <2> HIDE DEF m2
  <2>2. \A j \in Inums : Owes(m2, j) <=> Owes(me[p], j)
    BY <1>2, <2>1, OwesNothing
  <2>3. Does(p, Ilock(K, d), m2)
    BY <1>8 DEF k
  <2> HIDE DEF d
  <2> QED BY <1>1, <1>3, <1>5, <1>8, <2>1, <2>2, <2>3, LookHand
<1>9. CASE old # 0 /\ Does(p, Iget(k, old), m1) /\ UNCHANGED ilk
  <2>1. old \in Inums /\ Settled(old)
    <3> HIDE DEF d, n, old
    <3> QED BY <1>1, <1>2, <1>3, <1>7, <1>9, LookSettled
  <2> HIDE DEF old
  <2>2. m1.at = "createOld"
    <3> DEFINE m0 == Then(p, "createOld", <<d>>)
    <3>1. m0.at = "createOld" /\ m0 \in MeTypes
      <4>1. "createOld" \in Places /\ <<d>> \in Seq(Inums)
        BY <1>3 DEF Places
      <4> HIDE DEF d
      <4> QED BY <1>2, <4>1, ThenFacts
    <3> HIDE DEF m0
    <3>2. WithIp(m0, old).at = "createOld"
      BY <3>1 DEF WithIp, MeTypes
    <3> QED BY <3>2 DEF m0
  <2> HIDE DEF m1
  <2>3. me'[p] = m1
    BY <1>2, <1>9 DEF Does
  <2>4. InHands(p)'
    BY <1>5, <2>2, <2>3, PlainHands
  <2>5. \A j \in Inums : Owes(m1, j) <=> Owes(me[p], j)
    BY <1>2, <2>2, OwesNothing
  <2>6. Does(p, Iget(Ilock(K, d), old), m1)
    BY <1>9 DEF k
  <2> HIDE DEF d, n
  <2> QED BY <1>1, <1>3, <1>5, <1>9, <2>1, <2>4, <2>5, <2>6, LookGetHand
<1> HIDE DEF old, m1, m2
<1>10. CASE old = 0 /\ x # 0 /\ Does(p, r, m3) /\ ilk' = Holds(p, d)
  <2> HIDE DEF t
  <2>1. /\ x \in Inums /\ r \in KernelTypes /\ r.panic = "none" /\ r.fs.ents = fs.ents
        /\ fs.ino[x].type = "none" /\ r.fs.ino[x] = Dinode(t, 0)
        /\ r.itab[x].ref = k.itab[x].ref + 1
        /\ \A j \in Inums : j # x => r.itab[j] = k.itab[j] /\ r.fs.ino[j] = fs.ino[j]
    <3>1. \A j \in Inums : k.itab[j].ref >= 0
      BY <1>4
    <3> QED BY <1>4, <1>6, <1>10, <3>1, IallocFacts
  <2> HIDE DEF x, r, m3
  <2>2. /\ r.itab[x].ref = itab[x].ref + 1
        /\ \A j \in Inums : j # x /\ j # d => r.itab[j] = itab[j]
    BY <1>4, <2>1
  <2>3. m3 = Taking(me[p], "createNew", d, x)
    BY DEF m3
  <2>4. t = TypeOf(me[p].call.op)
    BY DEF t
  <2>5. d = me[p].ip /\ n = LastName(p) /\ fs.ents[d][n] = 0
    BY <1>7, <1>10
  <2> HIDE DEF d, n
  <2>6. /\ Does(p, r, m3) /\ ilk' = Holds(p, d) /\ \A j \in Inums : j # x => r.fs.ino[j] = fs.ino[j]
    BY <1>10, <2>1
  <2> QED BY <1>1, <1>3, <1>6, <2>1, <2>2, <2>3, <2>4, <2>5, <2>6, NewMade
<1> QED BY <1>1, <1>8, <1>9, <1>10

\* UnlinkChild, when the entry goes.
LEMMA ChildLeft ==
    ASSUME Tables, Ordered, Joined, NEW p \in Users, At(p, "unlinkChild"),
           NEW d \in Inums, d = me[p].dp, Settled(d), ilk[d] = p, Locked(me[p]) = d,
           NEW i \in Inums, i = me[p].ip, Settled(i), FreeLock(i), i # d,
           NEW n \in Names, fs.ents[d][n] = i,
           \A l \in Names : fs.ents[i][l] = 0,
           NEW u \in KernelTypes, u.panic = "none",
           \A j \in Inums : j # d /\ j # i => u.itab[j] = itab[j],
           \A j \in Inums : u.fs.ino[j].type = fs.ino[j].type,
           \A j \in Inums : j # d => u.fs.ino[j].nlink = fs.ino[j].nlink,
           u.fs.ino[d].nlink = fs.ino[d].nlink - One(fs.ino[i].type = "dir"),
           u.fs.ents[d][n] = 0,
           \A l \in Entries : l # n => u.fs.ents[d][l] = fs.ents[d][l],
           \A j \in Inums : j # d => u.fs.ents[j] = fs.ents[j],
           NEW m, m.at = "unlinkLast", m.ip = i, m.put = <<d>>, Does(p, u, m), Rest,
           ilk' = [Release({d}) EXCEPT ![i] = p], UNCHANGED <<buried, buriedDisk>>
    PROVE  Joined'
<1> DEFINE g == u.fs
           R == {d, i}
           t == fs.ents[i][DotDot]
<1>1. /\ me[p] \in MeTypes /\ me[p].at = "unlinkChild" /\ me \in [Users -> MeTypes]
      /\ fs \in FsTypes /\ PlaceOK(fs, me[p]) /\ g \in FsTypes
  BY AtPlace, AtFacts, KernelParts DEF FilesTypes
<1>2. fs.ino[d].type = "dir"
  BY <1>1 DEF PlaceOK, HoldsDir, Pairs
<1>3. /\ Tree(fs, buried, Unfinished) /\ i # Root
  <2>1. Tree(fs, buried, Unfinished)
    BY DEF Joined
  <2> QED BY <2>1 DEF Tree, RootTop
<1>4. /\ DotDot \in Entries /\ DotDot # n /\ Dot \in Entries /\ Dot # n
      /\ \A l \in Names : l \in Entries
  BY FilesAssumption DEF Entries
<1>5. Enters(g, fs, d, n, i)
  <2> SUFFICES ASSUME NEW e \in Inums, NEW l \in Names, e # d \/ l # n
               PROVE  fs.ents[e][l] = g.ents[e][l]
    BY DEF Enters
  <2> QED BY <1>4
<1>6. \A e \in Inums : /\ g.ents[e][Dot] = fs.ents[e][Dot]
                       /\ g.ents[e][DotDot] = fs.ents[e][DotDot]
  BY <1>4
<1>7. t = IF fs.ino[i].type = "dir" THEN d ELSE 0
  <2>1. CASE fs.ino[i].type = "dir"
    BY <1>3, <2>1 DEF Tree, OneName
  <2>2. CASE fs.ino[i].type # "dir"
    BY <1>3, <1>4, <2>2 DEF Tree, DirsOnly, NoEnts
  <2> QED BY <2>1, <2>2
<1>8. g.ents[i][DotDot] = 0 \/ Removed(g, i)
  <2>1. CASE fs.ino[i].type = "dir"
    <3>1. \A e \in Inums, l \in Names : fs.ents[e][l] = i => e = d /\ l = n
      <4>1. OneName(fs)
        BY <1>3 DEF Tree
      <4> QED BY <2>1, <4>1, OnlyName
    <3>2. \A e \in Inums, l \in Names : g.ents[e][l] # i
      <4> SUFFICES ASSUME NEW e \in Inums, NEW l \in Names, g.ents[e][l] = i PROVE FALSE
        OBVIOUS
      <4>1. CASE e = d /\ l = n
        BY <4>1, Constants
      <4>2. CASE ~(e = d /\ l = n)
        BY <1>5, <3>1, <4>2 DEF Enters
      <4> QED BY <4>1, <4>2
    <3> QED BY <1>3, <3>2 DEF Removed
  <2>2. CASE fs.ino[i].type # "dir"
    BY <1>6, <1>7, <2>2
  <2> QED BY <2>1, <2>2
<1>9. Gains(g, fs, i, t)
  <2>1. \A e \in Inums : e # i => fs.ents[e][DotDot] = g.ents[e][DotDot]
    BY <1>6
  <2>2. t \in {0, d} /\ d # i /\ n \in Names /\ fs.ents[i][DotDot] = t
    BY <1>7
  <2> HIDE DEF t, g
  <2> QED BY ONLY d \in Inums, i \in Inums, <1>3, <1>5, <1>8, <2>1, <2>2, LinksEntered
<1>10. /\ \A j \in Inums : Owes(m, j) <=> j = i
       /\ \A j \in Inums : ~Owes(me[p], j)
  BY <1>1 DEF Owes
<1>11. Balanced(fs, g, p, m)
  <2> SUFFICES ASSUME NEW j \in Inums
               PROVE  g.ino[j].nlink = fs.ino[j].nlink
                         + (Cardinality(Links(g, j)) - Cardinality(Links(fs, j)))
                         + (One(Owes(m, j)) - One(Owes(me[p], j)))
    BY DEF Balanced
  <2>1. One(Owes(m, j)) = One(j = i) /\ One(Owes(me[p], j)) = 0 /\ One(j = i) \in Int
    BY <1>10 DEF One
  <2>2. Cardinality(Links(fs, j)) \in Nat /\ Cardinality(Links(g, j)) \in Nat
    BY LinksFinite
  <2>3. fs.ino[j].nlink \in Int
    BY <1>1, FsParts, DinodeParts
  <2>4. Cardinality(Links(fs, j)) = Cardinality(Links(g, j)) + One(j = i) + One(t = j)
    BY <1>9 DEF Gains
  <2>5. g.ino[j].nlink = fs.ino[j].nlink - One(t = j) /\ One(t = j) \in Int
    <3>1. CASE j = d /\ fs.ino[i].type = "dir"
      BY <1>7, <3>1 DEF One
    <3>2. CASE ~(j = d /\ fs.ino[i].type = "dir")
      <4>1. t # j
        BY <1>7, <3>2, Constants
      <4>2. g.ino[j].nlink = fs.ino[j].nlink
        BY <2>3, <3>2 DEF One
      <4> QED BY <2>3, <4>1, <4>2 DEF One
    <3> QED BY <3>1, <3>2
  <2> DEFINE a == fs.ino[j].nlink
             b == g.ino[j].nlink
             e == Cardinality(Links(g, j))
             h == Cardinality(Links(fs, j))
             y == One(j = i)
             z == One(t = j)
  <2>6. b = a - z /\ h = e + y + z /\ y \in Int /\ z \in Int /\ e \in Int /\ h \in Int /\ a \in Int
    BY ONLY <2>1, <2>2, <2>3, <2>4, <2>5
  <2> HIDE DEF a, b, e, h, y, z
  <2>7. b = a + (e - h) + (y - 0)
    BY <2>6
  <2> USE DEF a, b, e, h, y
  <2> QED BY <2>1, <2>7
<1>12. ASSUME NEW V, Unfinished \subseteq V PROVE Tree(g, buried, V)
  <2>1. \A j \in Inums : g.ino[j].type = "none" => g.ino[j].nlink = 0
    BY <1>2, <1>3 DEF Tree, FreeNone
  <2>2. \A e \in Inums : e # d => g.ents[e] = fs.ents[e]
    OBVIOUS
  <2>3. \A j \in Inums : g.ino[j].type = fs.ino[j].type
    OBVIOUS
  <2> HIDE DEF g
  <2> QED BY <1>1, <1>2, <1>3, <1>5, <1>6, <1>12, <2>1, <2>2, <2>3, TreeLeft
<1>13. Unfinished \subseteq Unfinished' => Tree(g, buried', Unfinished')
  BY <1>12
<1>14. p \in inTx' /\ UNCHANGED <<disk, boot>> /\ inTx \subseteq inTx'
  <2>1. "unlinkChild" \notin {"user", "writeOp"}
    OBVIOUS
  <2> QED BY <2>1, HereTx, RestSame
<1>15. me'[p] = m
  BY <1>1 DEF Does
<1>16. InHands(p)'
  BY <1>14, <1>15, PlainHands
<1>17. NoneFreed
  <2>1. m.put # <<>> => Head(m.put) # i
    OBVIOUS
  <2> QED BY <2>1, LockFreesNot DEF Does
<1>18. LocksMove(p)
  BY LocksMoved
<1>19. /\ \A j \in Inums : j \in R => Settled(j) /\ ilk[j] \in {Nobody, p}
       /\ \A j \in Inums : j \notin R => SameAt(fs, g, j)
       /\ \A j \in Inums : j \notin R => u.itab[j] = itab[j]
       /\ \A j \in Inums : g.ino[j].type = fs.ino[j].type
  BY DEF SameAt, FreeLock
<1>20. /\ Tables /\ Ordered /\ Joined /\ At(p, "unlinkChild") /\ "unlinkChild" # "createNew"
       /\ u \in KernelTypes /\ u.panic = "none" /\ Does(p, u, m)
       /\ UNCHANGED <<disk, boot, buriedDisk>> /\ inTx \subseteq inTx' /\ buried \subseteq buried'
  BY <1>14
<1> HIDE DEF R
<1> QED BY ONLY p \in Users, <1>11, <1>13, <1>16, <1>17, <1>18, <1>19, <1>20, ChangeHand

\* UnlinkChild.
LEMMA UnlinkChildJoined ==
    ASSUME Tables, Ordered, Joined, NEW p \in Users, UnlinkChild(p)
    PROVE  Joined'
<1> DEFINE d == me[p].dp
           i == me[p].ip
           n == LastName(p)
           k0 == Ilock(K, i)
           k == IF Ip(k0, i).nlink < 1 THEN Panic(k0, "unlink") ELSE k0
           w == SetEnt(k0, d, n, 0)
           x == WithLinks(Ip(w, d), Ip(w, d).nlink - 1)
           v == Iupdate(w, d, x)
           dir == Ip(k0, i).type = "dir"
           u == IF dir THEN v ELSE w
           s == <<i, d>>
           m1 == Then(p, "end", s)
           m2 == Then(p, "unlinkLast", <<d>>)
           R == {i}
<1>1. At(p, "unlinkChild") /\ FreeLock(i) /\ Rest /\ UNCHANGED <<buried, buriedDisk>>
  BY DEF UnlinkChild, history
<1>2. /\ me[p] \in MeTypes /\ me[p].at = "unlinkChild" /\ me \in [Users -> MeTypes]
      /\ fs \in FsTypes
  BY <1>1, AtFacts DEF FilesTypes
<1>3. i \in Inums /\ Settled(i) /\ d \in Inums /\ Settled(d) /\ Locked(me[p]) = d
  BY <1>1, <1>2, HandSettled DEF IpPlaces, DpUsed, DpPlaces, Locked
<1>4. n \in Names /\ n \in Entries /\ fs.ents[d][n] = i
  <2>1. InHands(p)
    BY DEF Joined
  <2> QED BY <1>2, <2>1 DEF InHands, Entries
<1>5. /\ k0 \in KernelTypes /\ k0.fs = fs /\ k0.panic = "none" /\ Ip(k0, i) = fs.ino[i]
      /\ \A j \in Inums : j # i => k0.itab[j] = itab[j]
  BY <1>1, <1>3, LockCalm
<1>6. /\ Ip(K, d) \in Dinodes /\ Ip(K, d).type = fs.ino[d].type
      /\ Ip(K, d).nlink = fs.ino[d].nlink /\ ilk[d] = p /\ d # 0 /\ K.itab = itab
  <2> HIDE DEF d
  <2> QED BY <1>1, <1>3, HeldCopy DEF Settled
<1>7. i # d
  <2>1. p # Nobody
    BY Constants
  <2> QED BY <1>1, <1>6, <2>1 DEF FreeLock
<1>8. k = k0
  <2>1. fs.ino[i].nlink > 0
    <3>1. Counted(fs, me, buried)
      BY DEF Joined
    <3> HIDE DEF d, i, n
    <3> QED BY <1>2, <1>3, <1>4, <3>1, NamedHasLink
  <2>2. fs.ino[i].nlink \in Int
    BY <1>2, <1>3, FsParts, DinodeParts
  <2> HIDE DEF k0
  <2> QED BY <1>5, <2>1, <2>2
<1>9. \/ dir /\ Does(p, k0, m1) /\ ilk' = Release({d})
      \/ /\ ~(dir /\ ~IsDirEmpty(k0, i)) /\ Does(p, u, m2)
         /\ ilk' = [Release({d}) EXCEPT ![i] = p]
  <2> DEFINE w1 == SetEnt(k, d, n, 0)
             x1 == WithLinks(Ip(w1, d), Ip(w1, d).nlink - 1)
             v1 == Iupdate(w1, d, x1)
             dir1 == Ip(k, i).type = "dir"
             u1 == IF dir1 THEN v1 ELSE w1
  <2>1. IF dir1 /\ ~IsDirEmpty(k, i)
        THEN Does(p, k, m1) /\ ilk' = Release({d})
        ELSE Does(p, u1, m2) /\ ilk' = [Release({d}) EXCEPT ![i] = p]
    BY DEF UnlinkChild, WithLinks
  <2>2. w1 = w /\ x1 = x /\ v1 = v /\ dir1 = dir /\ u1 = u
    BY <1>8
  <2> HIDE DEF w1, x1, v1, dir1, u1, k, k0, w, x, v, dir, u, m1, m2
  <2> QED BY <1>8, <2>1, <2>2
<1> HIDE DEF k0, k
<1>10. CASE dir /\ Does(p, k0, m1) /\ ilk' = Release({d})
  <2>1. Same(fs, k0.fs)
    BY <1>5 DEF Same
  <2>2. "unlinkChild" \in {"made", "createFail", "openFile", "unlinkChild"} /\ d # 0
    BY <1>6
  <2>3. /\ \A j \in Inums : j \in R => Settled(j)
        /\ \A j \in Inums : j \notin R => k0.itab[j] = itab[j]
    BY <1>3, <1>5
  <2>4. d = Locked(me[p]) /\ Does(p, k0, Then(p, "end", s)) /\ ilk' = Release({d})
    BY <1>3, <1>10
  <2> HIDE DEF R, d, i, s
  <2> QED BY <1>1, <1>5, <2>1, <2>2, <2>3, <2>4, ReleaseHand
<1>11. CASE /\ ~(dir /\ ~IsDirEmpty(k0, i)) /\ Does(p, u, m2)
            /\ ilk' = [Release({d}) EXCEPT ![i] = p]
  <2>1. /\ w \in KernelTypes /\ w.itab = k0.itab /\ w.panic = "none"
        /\ w.fs.ents[d][n] = 0 /\ w.fs.ino = fs.ino
        /\ \A e \in Inums, l \in Entries :
               e # d \/ l # n => w.fs.ents[e][l] = fs.ents[e][l]
    <3>1. 0 \in Inums \union {0} /\ k0 \in KernelTypes /\ d \in Inums /\ n \in Entries
      BY <1>3, <1>4, <1>5
    <3> HIDE DEF d, n
    <3>2. /\ w \in KernelTypes /\ w.itab = k0.itab /\ w.panic = k0.panic /\ w.fs.ino = k0.fs.ino
          /\ w.fs.ents[d][n] = 0
          /\ \A e \in Inums, l \in Entries :
                 e # d \/ l # n => w.fs.ents[e][l] = k0.fs.ents[e][l]
      BY ONLY <3>1, SetEntFacts
    <3> HIDE DEF w
    <3> QED BY <1>5, <3>2
  <2>2. Ip(w, d) = Ip(K, d)
    BY <1>3, <1>5, <1>6, <1>7, <2>1 DEF Ip
  <2>3. \A j \in Inums : j # d => w.fs.ents[j] = fs.ents[j]
    <3> SUFFICES ASSUME NEW j \in Inums, j # d PROVE w.fs.ents[j] = fs.ents[j]
      OBVIOUS
    <3>1. w.fs.ents[j] \in [Entries -> Inums \union {0}]
          /\ fs.ents[j] \in [Entries -> Inums \union {0}]
      BY <1>5, <2>1, KernelParts
    <3>2. \A l \in Entries : w.fs.ents[j][l] = fs.ents[j][l]
      BY <2>1
    <3> QED BY <3>1, <3>2
  <2> HIDE DEF w
  <2>4. /\ x \in Dinodes /\ x.type = fs.ino[d].type /\ x.nlink = fs.ino[d].nlink - 1
        /\ fs.ino[d].nlink \in Int
    <3> DEFINE y == Ip(K, d)
               z == y.nlink - 1
    <3>1. y \in Dinodes /\ z \in Int /\ x = WithLinks(y, z) /\ y.nlink \in Int
      BY <1>6, <2>2, DinodeParts
    <3>2. y.nlink = fs.ino[d].nlink /\ y.type = fs.ino[d].type
      BY <1>6
    <3>3. z = fs.ino[d].nlink - 1
      BY <3>2
    <3> HIDE DEF y, z, x
    <3>4. WithLinks(y, z) \in Dinodes /\ WithLinks(y, z).type = y.type
          /\ WithLinks(y, z).nlink = z
      BY <3>1, WithLinksFacts
    <3> QED BY <3>1, <3>2, <3>3, <3>4
  <2> HIDE DEF x
  <2>5. /\ v \in KernelTypes /\ v.panic = "none" /\ v.fs.ino[d] = x /\ v.fs.ents = w.fs.ents
        /\ \A j \in Inums : j # d => v.itab[j] = w.itab[j] /\ v.fs.ino[j] = fs.ino[j]
    <3> HIDE DEF d
    <3> QED BY <1>3, <2>1, <2>4, IupdateFacts
  <2> HIDE DEF v
  <2>6. dir <=> fs.ino[i].type = "dir"
    BY <1>5
  <2> HIDE DEF dir
  <2>7. /\ u \in KernelTypes /\ u.panic = "none" /\ u.fs.ents = w.fs.ents
        /\ \A j \in Inums : j # d => u.fs.ino[j] = fs.ino[j] /\ u.itab[j] = k0.itab[j]
        /\ u.fs.ino[d].type = fs.ino[d].type
        /\ u.fs.ino[d].nlink = fs.ino[d].nlink - One(fs.ino[i].type = "dir")
    <3>1. CASE dir
      <4>1. u = v /\ One(fs.ino[i].type = "dir") = 1
        BY <2>6, <3>1 DEF One
      <4> QED BY <2>1, <2>4, <2>5, <4>1
    <3>2. CASE ~dir
      <4>1. u = w /\ One(fs.ino[i].type = "dir") = 0
        BY <2>6, <3>2 DEF One
      <4>2. u.fs.ino[d].nlink = fs.ino[d].nlink - 0
        BY <2>1, <2>4, <4>1
      <4> QED BY <2>1, <4>1, <4>2
    <3> QED BY <3>1, <3>2
  <2> HIDE DEF u
  <2>8. \A l \in Names : fs.ents[i][l] = 0
    <3>1. CASE fs.ino[i].type = "dir"
      BY <1>5, <1>11, <2>6, <3>1 DEF IsDirEmpty
    <3>2. CASE fs.ino[i].type # "dir"
      <4>1. Tree(fs, buried, Unfinished)
        BY DEF Joined
      <4> QED BY <1>3, <3>2, <4>1 DEF Tree, DirsOnly, NoEnts, Entries
    <3> QED BY <3>1, <3>2
  <2>9. m2.at = "unlinkLast" /\ m2.ip = i /\ m2.put = <<d>>
    BY <1>2 DEF Then, MeTypes
  <2> HIDE DEF m2
  <2>10. /\ \A j \in Inums : j # d /\ j # i => u.itab[j] = itab[j]
         /\ \A j \in Inums : u.fs.ino[j].type = fs.ino[j].type
         /\ \A j \in Inums : j # d => u.fs.ino[j].nlink = fs.ino[j].nlink
         /\ u.fs.ents[d][n] = 0
         /\ \A l \in Entries : l # n => u.fs.ents[d][l] = fs.ents[d][l]
         /\ \A j \in Inums : j # d => u.fs.ents[j] = fs.ents[j]
    BY <1>3, <1>5, <2>1, <2>3, <2>7
  <2>11. d = me[p].dp /\ i = me[p].ip /\ Locked(me[p]) = d /\ ilk[d] = p
    BY <1>3, <1>6
  <2>12. Does(p, u, m2) /\ ilk' = [Release({d}) EXCEPT ![i] = p]
    BY <1>11
  <2> HIDE DEF d, i, n
  <2> QED BY ONLY Tables, Ordered, Joined, p \in Users, <1>1, <1>3, <1>4, <1>7, <2>7, <2>8, <2>9,
               <2>10, <2>11, <2>12, ChildLeft
<1> QED BY <1>9, <1>10, <1>11

\* The step from k to r touches only inode i, and there no name of a file.
Dotted(k, r, i) ==
    /\ r \in KernelTypes /\ r.panic = k.panic
    /\ \A j \in Inums : /\ r.fs.ino[j].type = k.fs.ino[j].type
                        /\ r.fs.ino[j].nlink = k.fs.ino[j].nlink
                        /\ r.itab[j].ref = k.itab[j].ref /\ r.itab[j].valid = k.itab[j].valid
    /\ \A j \in Inums : j # i => /\ r.fs.ents[j] = k.fs.ents[j] /\ r.itab[j] = k.itab[j]
                                 /\ r.fs.ino[j] = k.fs.ino[j]
    /\ \A l \in Names : r.fs.ents[i][l] = k.fs.ents[i][l]
    /\ r.fs.ents[i][Dot] \in {k.fs.ents[i][Dot], i}
    /\ Agrees(r, i)

\* dirlink() of "." and "..".
LEMMA DotsMade ==
    ASSUME NEW k \in KernelTypes, NEW d \in Inums, NEW i \in Inums, Agrees(k, i)
    PROVE  LET r == Dots(k, d, i)
           IN  /\ Dotted(k, r.k, i) /\ r.ok \in BOOLEAN
               /\ r.ok => r.k.fs.ents[i][Dot] = i /\ r.k.fs.ents[i][DotDot] = d
<1> DEFINE x == Dirlink(k, i, Dot, i)
           y == Dirlink(x.k, i, DotDot, d)
           r == Dots(k, d, i)
<1> SUFFICES /\ Dotted(k, r.k, i) /\ r.ok \in BOOLEAN
             /\ r.ok => r.k.fs.ents[i][Dot] = i /\ r.k.fs.ents[i][DotDot] = d
  OBVIOUS
<1>1. /\ Dot \in Entries /\ DotDot \in Entries /\ Dot # DotDot /\ Names \subseteq Entries
      /\ Dot \notin Names /\ DotDot \notin Names
  BY FilesAssumption DEF Entries, Dot, DotDot
<1>2. /\ Enlists(k, x.k, i, Dot) /\ Agrees(x.k, i) /\ x.ok \in BOOLEAN
      /\ x.ok => x.k.fs.ents[i][Dot] = i
      /\ ~x.ok => x.k.fs.ents = k.fs.ents
  BY <1>1, DirlinkCalm
<1>3. r = IF x.ok THEN y ELSE x
  BY DEF Dots, AndLink
<1> HIDE DEF x
<1>4. x.k \in KernelTypes
  BY <1>2 DEF Enlists
<1>5. /\ Enlists(x.k, y.k, i, DotDot) /\ Agrees(y.k, i) /\ y.ok \in BOOLEAN
      /\ y.ok => y.k.fs.ents[i][DotDot] = d
  BY <1>1, <1>2, <1>4, DirlinkCalm
<1> HIDE DEF y, r
<1>6. CASE ~x.ok
  BY <1>1, <1>2, <1>3, <1>6 DEF Enlists, Dotted
<1>7. CASE x.ok
  <2>1. r = y
    BY <1>3, <1>7
  <2>2. /\ \A l \in Names : x.k.fs.ents[i][l] = k.fs.ents[i][l]
        /\ \A l \in Names : y.k.fs.ents[i][l] = x.k.fs.ents[i][l]
    BY <1>1, <1>2, <1>5 DEF Enlists
  <2>3. y.k.fs.ents[i][Dot] = i
    BY <1>1, <1>2, <1>5, <1>7 DEF Enlists
  <2>4. /\ y.k \in KernelTypes /\ y.k.panic = k.panic
        /\ \A j \in Inums : /\ y.k.fs.ino[j].type = k.fs.ino[j].type
                            /\ y.k.fs.ino[j].nlink = k.fs.ino[j].nlink
                            /\ y.k.itab[j].ref = k.itab[j].ref
                            /\ y.k.itab[j].valid = k.itab[j].valid
        /\ \A j \in Inums : j # i => /\ y.k.fs.ents[j] = k.fs.ents[j]
                                     /\ y.k.itab[j] = k.itab[j]
                                     /\ y.k.fs.ino[j] = k.fs.ino[j]
    BY <1>2, <1>5 DEF Enlists
  <2>5. \A l \in Names : y.k.fs.ents[i][l] = k.fs.ents[i][l]
    BY <2>2
  <2>6. Dotted(k, y.k, i)
    BY <1>5, <2>3, <2>4, <2>5 DEF Dotted
  <2> QED BY <1>5, <2>1, <2>3, <2>6
<1> QED BY <1>2, <1>6, <1>7

\* The step from k to r touches inodes d and i, and of the entries of d only n.
Enrolls(k, r, d, i, n, dir) ==
    /\ r \in KernelTypes /\ r.panic = k.panic
    /\ \A j \in Inums : /\ r.fs.ino[j].type = k.fs.ino[j].type
                        /\ r.fs.ino[j].nlink = k.fs.ino[j].nlink
                        /\ r.itab[j].ref = k.itab[j].ref /\ r.itab[j].valid = k.itab[j].valid
    /\ \A j \in Inums : j # i /\ j # d => /\ r.fs.ents[j] = k.fs.ents[j]
                                          /\ r.itab[j] = k.itab[j]
    /\ \A l \in Entries : l # n => r.fs.ents[d][l] = k.fs.ents[d][l]
    /\ \A l \in Names : r.fs.ents[i][l] = k.fs.ents[i][l]
    /\ r.fs.ents[i][Dot] \in {k.fs.ents[i][Dot], i}
    /\ ~dir => r.fs.ents[i] = k.fs.ents[i]
    /\ Agrees(r, d) /\ Agrees(r, i)

\* The entries that create() makes.
LEMMA EntriesMade ==
    ASSUME NEW k \in KernelTypes, NEW d \in Inums, NEW i \in Inums, d # i,
           Agrees(k, d), Agrees(k, i), NEW n \in Names, NEW dir \in BOOLEAN
    PROVE  LET r == MakeEntries(k, d, i, n, dir)
           IN  /\ Enrolls(k, r.k, d, i, n, dir) /\ r.ok \in BOOLEAN
               /\ r.ok => r.k.fs.ents[d][n] = i
               /\ r.ok /\ dir => r.k.fs.ents[i][Dot] = i /\ r.k.fs.ents[i][DotDot] = d
               /\ ~r.ok => r.k.fs.ents[d] = k.fs.ents[d]
<1> DEFINE x == IF dir THEN Dots(k, d, i) ELSE [k |-> k, ok |-> TRUE]
           y == Dirlink(x.k, d, n, i)
           r == MakeEntries(k, d, i, n, dir)
<1> SUFFICES /\ Enrolls(k, r.k, d, i, n, dir) /\ r.ok \in BOOLEAN
             /\ r.ok => r.k.fs.ents[d][n] = i
             /\ r.ok /\ dir => r.k.fs.ents[i][Dot] = i /\ r.k.fs.ents[i][DotDot] = d
             /\ ~r.ok => r.k.fs.ents[d] = k.fs.ents[d]
  OBVIOUS
<1>1. Names \subseteq Entries /\ n \in Entries
  BY DEF Entries
<1>2. /\ Dotted(k, x.k, i) /\ x.ok \in BOOLEAN
      /\ x.ok /\ dir => x.k.fs.ents[i][Dot] = i /\ x.k.fs.ents[i][DotDot] = d
      /\ ~dir => x.k = k
  <2>1. CASE dir
    BY <2>1, DotsMade
  <2>2. CASE ~dir
    BY <2>2 DEF Dotted
  <2> QED BY <2>1, <2>2
<1>3. r = IF x.ok THEN y ELSE x
  BY DEF MakeEntries, AndLink
<1> HIDE DEF x
<1>4. x.k \in KernelTypes /\ Agrees(x.k, i) /\ Agrees(x.k, d)
  BY <1>2 DEF Dotted, Agrees, Ip
<1>5. /\ Enlists(x.k, y.k, d, n) /\ Agrees(y.k, d) /\ y.ok \in BOOLEAN
      /\ y.ok => y.k.fs.ents[d][n] = i
      /\ ~y.ok => y.k.fs.ents = x.k.fs.ents
  BY <1>1, <1>4, DirlinkCalm
<1> HIDE DEF y, r
<1>6. CASE ~x.ok
  BY <1>2, <1>3, <1>4, <1>6 DEF Dotted, Enrolls
<1>7. CASE x.ok
  <2>1. r = y
    BY <1>3, <1>7
  <2>2. y.k.fs.ents[i] = x.k.fs.ents[i]
    BY <1>5 DEF Enlists
  <2>3. /\ \A l \in Entries : l # n => y.k.fs.ents[d][l] = k.fs.ents[d][l]
        /\ \A l \in Names : y.k.fs.ents[i][l] = k.fs.ents[i][l]
        /\ y.k.fs.ents[i][Dot] \in {k.fs.ents[i][Dot], i}
        /\ ~dir => y.k.fs.ents[i] = k.fs.ents[i]
    BY <1>2, <1>5, <2>2 DEF Dotted, Enlists
  <2>4. /\ y.k \in KernelTypes /\ y.k.panic = k.panic
        /\ \A j \in Inums : /\ y.k.fs.ino[j].type = k.fs.ino[j].type
                            /\ y.k.fs.ino[j].nlink = k.fs.ino[j].nlink
                            /\ y.k.itab[j].ref = k.itab[j].ref
                            /\ y.k.itab[j].valid = k.itab[j].valid
    BY <1>2, <1>5 DEF Enlists, Dotted
  <2>5. \A j \in Inums : j # i /\ j # d => y.k.fs.ents[j] = k.fs.ents[j]
                                           /\ y.k.itab[j] = k.itab[j]
    BY <1>2, <1>5 DEF Enlists, Dotted
  <2>6. Agrees(y.k, i)
    BY <1>4, <1>5 DEF Enlists, Agrees, Ip
  <2>7. Enrolls(k, y.k, d, i, n, dir)
    BY <1>5, <2>3, <2>4, <2>5, <2>6 DEF Enrolls
  <2>8. y.ok /\ dir => y.k.fs.ents[i][Dot] = i /\ y.k.fs.ents[i][DotDot] = d
    BY <1>2, <1>7, <2>2
  <2>9. ~y.ok => y.k.fs.ents[d] = k.fs.ents[d]
    BY <1>2, <1>5 DEF Dotted
  <2> QED BY <1>5, <2>1, <2>7, <2>8, <2>9
<1> QED BY <1>2, <1>6, <1>7

\* Only the dots of a directory without a name are new.
LEMMA DotsCalm ==
    ASSUME NEW f \in FsTypes, NEW g \in FsTypes, NEW i \in Inums, Removed(f, i),
           \A j \in Inums : j # i => g.ents[j] = f.ents[j],
           \A l \in Names : g.ents[i][l] = f.ents[i][l],
           \A j \in Inums : g.ino[j].type = f.ino[j].type /\ g.ino[j].nlink = f.ino[j].nlink,
           g.ents[i][Dot] \in {0, i}, f.ino[i].type # "dir" => g.ents[i] = f.ents[i],
           NEW B, NEW U, Tree(f, B, U)
    PROVE  /\ \A j \in Inums : Links(g, j) = Links(f, j)
           /\ \A V : U \subseteq V /\ i \in V => Tree(g, B, V)
<1>1. \A e \in Inums, l \in Names : g.ents[e][l] = f.ents[e][l]
  OBVIOUS
<1>2. \A j \in Inums : Removed(g, j) <=> Removed(f, j)
  BY <1>1 DEF Removed
<1>3. ASSUME NEW j \in Inums PROVE Links(g, j) = Links(f, j)
  <2>1. ASSUME NEW e \in Inums, NEW l \in Names \union {DotDot}
        PROVE  <<e, l>> \in Links(g, j) <=> <<e, l>> \in Links(f, j)
    <3>1. CASE e = i /\ l = DotDot
      BY <1>2, <3>1 DEF Links
    <3>2. CASE ~(e = i /\ l = DotDot)
      <4>1. g.ents[e][l] = f.ents[e][l]
        BY <1>1, <3>2
      <4> QED BY <1>2, <4>1 DEF Links
    <3> QED BY <3>1, <3>2
  <2> QED BY <2>1 DEF Links
<1>4. ASSUME NEW V, U \subseteq V, i \in V PROVE Tree(g, B, V)
  <2>1. FreeNone(g) /\ DirsOnly(g) /\ RootTop(g)
    <3>1. FreeNone(f) /\ DirsOnly(f) /\ RootTop(f)
      BY DEF Tree
    <3>2. DirsOnly(g)
      <4> SUFFICES ASSUME NEW j \in Inums, g.ino[j].type # "dir" PROVE g.ents[j] = NoEnts
        BY DEF DirsOnly
      <4>1. f.ents[j] = NoEnts
        BY <3>1 DEF DirsOnly
      <4>2. g.ents[j] = f.ents[j]
        OBVIOUS
      <4> QED BY <4>1, <4>2
    <3>3. Root \in Inums
      BY Constants
    <3> QED BY <1>1, <3>1, <3>2, <3>3 DEF FreeNone, RootTop
  <2>2. DotsOK(g, V)
    <3> SUFFICES ASSUME NEW e \in Inums
                 PROVE  /\ g.ents[e][Dot] \in {0, e}
                        /\ g.ino[e].type = "dir" /\ e \notin V
                             => g.ents[e][Dot] = e /\ g.ents[e][DotDot] # 0
      BY DEF DotsOK
    <3>1. DotsOK(f, U)
      BY DEF Tree
    <3>2. CASE e = i
      BY <1>4, <3>2
    <3>3. CASE e # i
      <4>1. g.ents[e] = f.ents[e] /\ g.ino[e].type = f.ino[e].type /\ (e \notin V => e \notin U)
        BY <1>4, <3>3
      <4> HIDE DEF FsTypes
      <4> QED BY <3>1, <4>1 DEF DotsOK
    <3> QED BY <3>2, <3>3
  <2>3. OneName(g)
    <3> SUFFICES ASSUME NEW d \in Inums, NEW j \in Inums, NEW n \in Names,
                        g.ents[d][n] = j, g.ino[j].type = "dir"
                 PROVE  g.ents[j][DotDot] = d /\ \A l \in Names : g.ents[d][l] = j => l = n
      BY DEF OneName
    <3>1. f.ents[d][n] = j /\ f.ino[j].type = "dir" /\ OneName(f)
      BY <1>1 DEF Tree
    <3>2. f.ents[j][DotDot] = d /\ \A l \in Names : f.ents[d][l] = j => l = n
      BY <3>1 DEF OneName
    <3>3. j # i
      BY <3>1 DEF Removed
    <3> QED BY <1>1, <3>2, <3>3
  <2>4. Burying(g, B)
    <3>1. Burying(f, B)
      BY DEF Tree
    <3> QED BY <1>1, <1>2, <3>1 DEF Burying
  <2> QED BY <2>1, <2>2, <2>3, <2>4 DEF Tree
<1> QED BY <1>3, <1>4

\* The inode that create() allocated is nobody else's.
LEMMA MadeAlone ==
    ASSUME Tables, Ordered, Joined, NEW p \in Users, At(p, "createNew"),
           NEW i \in Inums, i = me[p].ip, FreeLock(i)
    PROVE  /\ ~BeingFreed(i) /\ itab[i].ref = 1
           /\ \A q \in Users : q # p => ~(me[q].at = "createNew" /\ me[q].ip = i)
           /\ \A q \in Users : ~Failed(q, i)
           /\ fs.ino[i].nlink = 0 /\ fs.ents[i] = NoEnts /\ Removed(fs, i) /\ i # Root
           /\ \A e \in Inums, l \in Names : fs.ents[e][l] # i
           /\ fs.ino[i].type = TypeOf(me[p].call.op) /\ fs.ino[i].type # "none"
<1>1. me[p].at = "createNew" /\ me[p].put = <<>> /\ boot = 0 /\ RefsOK /\ fs \in FsTypes
  BY AtFacts DEF Tables, FilesTypes
<1>2. ~BeingFreed(i)
  BY DEF FreeLock, BeingFreed
<1>3. InHands(p)
  BY DEF Joined
<1>4. /\ itab[i].ref = 1 + One(BeingFreed(i)) /\ fs.ino[i].nlink = 0 /\ fs.ents[i] = NoEnts
      /\ fs.ino[i].type = TypeOf(me[p].call.op)
      /\ me[p].call.op \in {"create", "mkdir", "mknod", "mkbad"}
  BY <1>1, <1>3 DEF InHands
<1>5. itab[i].ref = 1
  BY <1>2, <1>4 DEF One
<1>6. fs.ino[i].type # "none"
  BY <1>4 DEF TypeOf
<1>7. <<p, "ip">> \in Uses(i)
  BY <1>1, MadeUsed
<1>8. \A x \in Uses(i) : x = <<p, "ip">>
  <2> DEFINE U == Uses(i)
  <2>1. IsFiniteSet(U) /\ Cardinality(U) \in Nat
    BY UsesFinite
  <2>2. Cardinality(Opens(i)) \in Nat /\ itab[i].ref = Cardinality(U) + Cardinality(Opens(i))
    BY <1>1, OpensFinite DEF RefsOK
  <2> SUFFICES ASSUME NEW x \in U, x # <<p, "ip">> PROVE FALSE
    OBVIOUS
  <2> HIDE DEF U
  <2>3. Cardinality(U) >= 2
    <3>1. <<p, "ip">> \in U
      BY <1>7 DEF U
    <3> DEFINE y == <<p, "ip">>
    <3> HIDE DEF y
    <3>2. y \in U /\ x # y
      BY <3>1 DEF y
    <3> QED BY <2>1, <3>2, ThreeOf
  <2> QED BY <1>5, <2>1, <2>2, <2>3
<1>9. \A q \in Users : q # p => ~(me[q].at = "createNew" /\ me[q].ip = i)
  <2> SUFFICES ASSUME NEW q \in Users, q # p, me[q].at = "createNew", me[q].ip = i PROVE FALSE
    OBVIOUS
  <2>1. <<q, "ip">> \in Uses(i)
    BY MadeUsed
  <2> QED BY <1>8, <2>1
<1>10. \A q \in Users : ~Failed(q, i)
  <2> SUFFICES ASSUME NEW q \in Users, Failed(q, i) PROVE FALSE
    OBVIOUS
  <2>1. <<q, HeadSlot(me[q])>> \in Uses(i) /\ HeadSlot(me[q]) \in {"first", "last"}
    BY FailedUsed
  <2> QED BY <1>8, <2>1
<1>11. Counted(fs, me, buried) /\ fs.ino[i].nlink <= 0
  BY <1>4 DEF Joined
<1>12. i # Root /\ Removed(fs, i) /\ \A e \in Inums, l \in Names : fs.ents[e][l] # i
  BY <1>1, <1>11, NoLinks
<1> QED BY <1>2, <1>4, <1>5, <1>6, <1>9, <1>10, <1>12

\* The new inode i has the name n in d.
Born(r, d, i, n) ==
    /\ \A j \in Inums : r.fs.ino[j].type = fs.ino[j].type
    /\ \A j \in Inums : j # i /\ j # d => r.fs.ino[j].nlink = fs.ino[j].nlink
    /\ r.fs.ino[i].nlink = 1
    /\ r.fs.ino[d].nlink = fs.ino[d].nlink + One(fs.ino[i].type = "dir")
    /\ \A j \in Inums : j # i /\ j # d => r.itab[j] = itab[j] /\ r.fs.ents[j] = fs.ents[j]
    /\ \A l \in Entries : l # n => r.fs.ents[d][l] = fs.ents[d][l]
    /\ \A l \in Names : r.fs.ents[i][l] = fs.ents[i][l]
    /\ fs.ino[i].type # "dir" => r.fs.ents[i] = fs.ents[i]
    /\ r.fs.ents[d][n] = i
    /\ fs.ino[i].type = "dir" => r.fs.ents[i][Dot] = i /\ r.fs.ents[i][DotDot] = d
Buries(d, i) == buried' = IF Removed(fs, d) THEN buried \union {i} ELSE buried

\* CreateNew, when all entries are made.
LEMMA NewEntered ==
    ASSUME Tables, Ordered, Joined, NEW p \in Users, At(p, "createNew"),
           NEW d \in Inums, d = me[p].dp, Settled(d), ilk[d] = p, Locked(me[p]) = d,
           NEW i \in Inums, i = me[p].ip, FreeLock(i), i # d,
           NEW n \in Names, n = LastName(p),
           NEW r \in KernelTypes, r.panic = "none",
           Born(r, d, i, n),
           NEW m, m.at \in {"openFile", "made"}, m.put = <<d>>, Does(p, r, m), Rest,
           ilk' = [Release({d}) EXCEPT ![i] = p],
           Buries(d, i), UNCHANGED buriedDisk
    PROVE  Joined'
<1> DEFINE g == r.fs
           R == {d, i}
           t == IF fs.ino[i].type = "dir" THEN d ELSE 0
<1>1. /\ me[p] \in MeTypes /\ me[p].at = "createNew" /\ me \in [Users -> MeTypes] /\ boot = 0
      /\ me[p].put = <<>> /\ fs \in FsTypes /\ PlaceOK(fs, me[p]) /\ g \in FsTypes
  BY AtPlace, AtFacts, KernelParts DEF FilesTypes
<1>2. fs.ino[d].type = "dir"
  BY <1>1 DEF PlaceOK, HoldsDir, Pairs
<1>3. /\ ~BeingFreed(i) /\ itab[i].ref = 1
      /\ \A q \in Users : q # p => ~(me[q].at = "createNew" /\ me[q].ip = i)
      /\ \A q \in Users : ~Failed(q, i)
      /\ fs.ino[i].nlink = 0 /\ fs.ents[i] = NoEnts /\ Removed(fs, i) /\ i # Root
      /\ \A e \in Inums, l \in Names : fs.ents[e][l] # i
      /\ fs.ino[i].type # "none"
  BY MadeAlone
<1>4. Tree(fs, buried, Unfinished) /\ Counted(fs, me, buried)
  BY DEF Joined
<1>0. /\ \A j \in Inums : g.ino[j].type = fs.ino[j].type
      /\ \A j \in Inums : j # i /\ j # d => g.ino[j].nlink = fs.ino[j].nlink
      /\ g.ino[i].nlink = 1
      /\ g.ino[d].nlink = fs.ino[d].nlink + One(fs.ino[i].type = "dir")
      /\ \A j \in Inums : j # i /\ j # d => r.itab[j] = itab[j] /\ g.ents[j] = fs.ents[j]
      /\ \A l \in Entries : l # n => g.ents[d][l] = fs.ents[d][l]
      /\ \A l \in Names : g.ents[i][l] = fs.ents[i][l]
      /\ fs.ino[i].type # "dir" => g.ents[i] = fs.ents[i]
      /\ g.ents[d][n] = i
      /\ fs.ino[i].type = "dir" => g.ents[i][Dot] = i /\ g.ents[i][DotDot] = d
      /\ buried \subseteq buried' /\ (Removed(fs, d) => i \in buried')
  BY DEF Born, Buries
<1>5. /\ DotDot \in Entries /\ Dot \in Entries /\ DotDot # n /\ Dot # n
      /\ \A l \in Names : l \in Entries
  BY FilesAssumption DEF Entries
<1>6. Enters(fs, g, d, n, i)
  <2>0. fs.ents[d][n] = 0
    BY <1>1 DEF Joined, InHands
  <2> SUFFICES ASSUME NEW e \in Inums, NEW l \in Names, e # d \/ l # n
               PROVE  g.ents[e][l] = fs.ents[e][l]
    BY <1>0, <2>0 DEF Enters
  <2>1. CASE e = d
    BY <1>0, <1>5, <2>1
  <2>2. CASE e = i
    BY <1>0, <2>2
  <2>3. CASE e # d /\ e # i
    BY <1>0, <2>3
  <2> QED BY <2>1, <2>2, <2>3
<1>7. \A l \in Entries : fs.ents[i][l] = 0
  BY <1>3 DEF NoEnts
<1>8. Gains(fs, g, i, t)
  <2>1. \A e \in Inums : e # i => g.ents[e][DotDot] = fs.ents[e][DotDot]
    <3> SUFFICES ASSUME NEW e \in Inums, e # i PROVE g.ents[e][DotDot] = fs.ents[e][DotDot]
      OBVIOUS
    <3>1. CASE e = d
      BY <1>0, <1>5, <3>1
    <3>2. CASE e # d
      BY <1>0, <3>2
    <3> QED BY <3>1, <3>2
  <2>2. t \in {0, d} /\ g.ents[i][DotDot] = t /\ (fs.ents[i][DotDot] = 0 \/ Removed(fs, i))
    BY <1>0, <1>3, <1>5, <1>7
  <2> HIDE DEF t, g
  <2> QED BY ONLY d \in Inums, i \in Inums, n \in Names, i # d, <1>3, <1>6, <2>1, <2>2,
                  LinksEntered
<1>9. \A j \in Inums : ~Owes(m, j) /\ ~Owes(me[p], j)
  BY <1>1 DEF Owes
<1>10. Balanced(fs, g, p, m)
  <2> SUFFICES ASSUME NEW j \in Inums
               PROVE  g.ino[j].nlink = fs.ino[j].nlink
                         + (Cardinality(Links(g, j)) - Cardinality(Links(fs, j)))
                         + (One(Owes(m, j)) - One(Owes(me[p], j)))
    BY DEF Balanced
  <2>1. One(Owes(m, j)) = 0 /\ One(Owes(me[p], j)) = 0
    BY <1>9 DEF One
  <2>2. Cardinality(Links(fs, j)) \in Nat /\ Cardinality(Links(g, j)) \in Nat
    BY LinksFinite
  <2>3. fs.ino[j].nlink \in Int
    BY <1>1, FsParts, DinodeParts
  <2>4. Cardinality(Links(g, j)) = Cardinality(Links(fs, j)) + One(j = i) + One(t = j)
    BY <1>8 DEF Gains
  <2>5. One(j = i) \in Int /\ One(t = j) \in Int
    BY DEF One
  <2>6. g.ino[j].nlink = fs.ino[j].nlink + One(j = i) + One(t = j)
    <3>1. CASE j = i
      <4>1. t # j /\ fs.ino[j].nlink = 0 /\ g.ino[j].nlink = 1
        BY <1>0, <1>3, <3>1, Constants
      <4> QED BY <3>1, <4>1 DEF One
    <3>2. CASE j = d
      <4>1. One(t = j) = One(fs.ino[i].type = "dir") /\ One(j = i) = 0
        BY <3>2, Constants DEF One
      <4>2. /\ g.ino[j].nlink = fs.ino[j].nlink + One(fs.ino[i].type = "dir")
            /\ One(fs.ino[i].type = "dir") \in Int
        BY <1>0, <3>2 DEF One
      <4> QED BY <2>3, <4>1, <4>2
    <3>3. CASE j # i /\ j # d
      <4>1. One(t = j) = 0 /\ One(j = i) = 0
        BY <3>3, Constants DEF One
      <4>2. g.ino[j].nlink = fs.ino[j].nlink
        BY <1>0, <3>3
      <4> QED BY <2>3, <4>1, <4>2
    <3> QED BY <3>1, <3>2, <3>3
  <2> DEFINE a == fs.ino[j].nlink
             b == g.ino[j].nlink
             e == Cardinality(Links(g, j))
             h == Cardinality(Links(fs, j))
             y == One(j = i)
             z == One(t = j)
  <2>7. /\ b = a + y + z /\ e = h + y + z
        /\ y \in Int /\ z \in Int /\ e \in Int /\ h \in Int /\ a \in Int
    BY ONLY <2>2, <2>3, <2>4, <2>5, <2>6
  <2> HIDE DEF a, b, e, h, y, z
  <2>8. b = a + (e - h) + (0 - 0)
    BY <2>7
  <2> USE DEF a, b, e, h
  <2> QED BY <2>1, <2>8
<1>11. me'[p] = m /\ \A q \in Users : q # p => me'[q] = me[q]
  BY <1>1 DEF Does
<1>12. LocksMove(p)
  BY LocksMoved
<1>13. NoneFreed
  <2>1. m.put # <<>> => Head(m.put) # i
    OBVIOUS
  <2> QED BY <2>1, LockFreesNot DEF Does
<1>14. Unfinished \subseteq Unfinished' \union {i}
  <2> SUFFICES ASSUME NEW j \in Inums, j \in Unfinished, j # i PROVE j \in Unfinished'
    BY DEF Unfinished
  <2>1. ~(me[p].at = "createNew" /\ me[p].ip = j) /\ ~Failed(p, j)
    BY <1>1 DEF Failed
  <2> QED BY <1>12, <2>1, StillUnfinished
<1>15. Tree(g, buried', Unfinished')
  <2>1. \A j \in Inums : g.ino[j].type = "none" => g.ino[j].nlink = 0
    BY <1>0, <1>2, <1>3, <1>4 DEF Tree, FreeNone
  <2>2. \A e \in Inums : e # d /\ e # i => g.ents[e] = fs.ents[e]
    BY <1>0
  <2>3. /\ fs.ino[i].type # "dir" => g.ents[i] = NoEnts
        /\ fs.ino[i].type = "dir" =>
               /\ g.ents[i][Dot] = i /\ g.ents[i][DotDot] = d
               /\ \A l \in Names : g.ents[i][l] = 0
               /\ \A e \in Inums, l \in Names : fs.ents[e][l] # i
    BY <1>0, <1>3, <1>5, <1>7
  <2>4. buried \subseteq buried' /\ (Removed(fs, d) => i \in buried')
    BY <1>0
  <2>5. /\ \A j \in Inums : g.ino[j].type = fs.ino[j].type
        /\ \A l \in Entries : l # n => g.ents[d][l] = fs.ents[d][l]
    BY <1>0
  <2>6. i # d /\ i # Root
    BY <1>3
  <2>7. fs \in FsTypes /\ g \in FsTypes /\ fs.ino[d].type = "dir"
    BY <1>1, <1>2
  <2>8. Tree(fs, buried, Unfinished)
    BY <1>4
  <2> HIDE DEF g
  <2> QED BY ONLY d \in Inums, i \in Inums, n \in Names, <1>6, <1>14, <2>1, <2>2, <2>3, <2>4,
                  <2>5, <2>6, <2>7, <2>8, TreeEntered, SMTT(30)
<1>16. Counted(g, me', buried')
  <2>1. me' = [me EXCEPT ![p] = m] /\ buried \subseteq buried'
    BY <1>0 DEF Does
  <2> HIDE DEF g
  <2> QED BY <1>1, <1>4, <1>10, <2>1, CountedStep
<1>17. p \in inTx' /\ inTx \subseteq inTx' /\ boot' = 0 /\ disk' = disk
  <2>1. "createNew" \notin {"user", "writeOp"}
    OBVIOUS
  <2> QED BY <1>1, <2>1, HereTx, RestSame
<1>18. InHands(p)'
  BY <1>11, <1>17, PlainHands
<1>19. Leaves(p, r, R, R)
  <2>1. \A j \in Inums : j \notin R => SameAt(fs, g, j) /\ r.itab[j] = itab[j]
    BY <1>0 DEF SameAt
  <2>2. \A q \in Users, j \in Inums : q # p /\ j \in R =>
            ~(me[q].at = "createNew" /\ me[q].ip = j) /\ ~Failed(q, j)
    BY <1>3 DEF Settled, BeingMade
  <2>3. \A j \in Inums : j \in R => ilk[j] \in {Nobody, p} /\ g.ino[j].type # "none"
    BY <1>0, <1>2, <1>3 DEF FreeLock
  <2>4. \A j \in Inums : ~Frees(p, j)
    BY <1>1 DEF Frees
  <2>5. \A j \in Inums : fs.ino[j].type # "none" => g.ino[j].type = fs.ino[j].type
    BY <1>0
  <2> QED BY <2>5, <2>1, <2>2, <2>3, <2>4 DEF Leaves
<1>20. /\ \A j \in Inums : j \in R => ~BeingFreed(j)
       /\ me[p].at = "createNew" => ~BeingFreed(me[p].ip)
  BY <1>3 DEF Settled
<1>21. Tree(disk', buriedDisk', {}) /\ Counted(disk', NoneOwed, buriedDisk')
  BY <1>17 DEF Joined
<1>22. \A q \in Users : q # p /\ q \in inTx => q \in inTx'
  BY <1>17
<1>23. /\ Tables /\ Ordered /\ Joined /\ boot = 0 /\ boot' = 0 /\ Does(p, r, m)
       /\ r.panic = "none"
  BY <1>1, <1>17
<1> HIDE DEF R
<1> QED BY ONLY p \in Users, <1>12, <1>13, <1>15, <1>16, <1>18, <1>19, <1>20, <1>21, <1>22,
                <1>23, HandStep DEF g

\* CreateNew, when an entry does not fit.
LEMMA NewFailed ==
    ASSUME Tables, Ordered, Joined, NEW p \in Users, At(p, "createNew"),
           NEW d \in Inums, d = me[p].dp, Settled(d), ilk[d] = p, Locked(me[p]) = d,
           NEW i \in Inums, i = me[p].ip, FreeLock(i), i # d,
           NEW r \in KernelTypes, r.panic = "none",
           \A j \in Inums : /\ r.fs.ino[j].type = fs.ino[j].type
                            /\ r.fs.ino[j].nlink = fs.ino[j].nlink,
           \A j \in Inums : j # i => r.fs.ents[j] = fs.ents[j],
           \A j \in Inums : j # i /\ j # d => r.itab[j] = itab[j],
           \A l \in Names : r.fs.ents[i][l] = fs.ents[i][l],
           r.fs.ents[i][Dot] \in {0, i}, fs.ino[i].type # "dir" => r.fs.ents[i] = fs.ents[i],
           r.itab[i].ref = 1, r.itab[i].valid,
           NEW m, m.at = "createFail", m.put = <<i>>, Does(p, r, m), Rest,
           UNCHANGED <<ilk, buried, buriedDisk>>
    PROVE  Joined'
<1> DEFINE g == r.fs
           R == {d, i}
<1>1. /\ me[p] \in MeTypes /\ me[p].at = "createNew" /\ me \in [Users -> MeTypes] /\ boot = 0
      /\ me[p].put = <<>> /\ fs \in FsTypes /\ PlaceOK(fs, me[p]) /\ g \in FsTypes
  BY AtPlace, AtFacts, KernelParts DEF FilesTypes
<1>2. fs.ino[d].type = "dir"
  BY <1>1 DEF PlaceOK, HoldsDir, Pairs
<1>3. /\ ~BeingFreed(i) /\ itab[i].ref = 1
      /\ \A q \in Users : q # p => ~(me[q].at = "createNew" /\ me[q].ip = i)
      /\ \A q \in Users : ~Failed(q, i)
      /\ fs.ino[i].nlink = 0 /\ Removed(fs, i) /\ fs.ino[i].type # "none"
  BY MadeAlone
<1>4. Tree(fs, buried, Unfinished) /\ Counted(fs, me, buried)
  BY DEF Joined
<1>5. p # Nobody /\ ilk[i] # p
  BY Constants DEF FreeLock
<1>6. me'[p] = m /\ \A q \in Users : q # p => me'[q] = me[q]
  BY <1>1 DEF Does
<1>7. LocksMove(p)
  BY LocksMoved
<1>8. NoneFreed
  <2>1. m.put # <<>> => Head(m.put) # Locked(me[p])
    OBVIOUS
  <2> QED BY <2>1, LockFreesNot DEF Does
<1>9. fs' = g /\ itab' = r.itab
  BY DEF Does
<1>10. \A j \in Inums : Failed(p, j)' <=> j = i
  <2> SUFFICES ASSUME NEW j \in Inums PROVE Failed(p, j)' <=> j = i
    OBVIOUS
  <2>1. Failed(p, j)' <=> m.at = "createFail" /\ m.put # <<>> /\ Head(m.put) = j /\ ilk[j] # p
    BY <1>6 DEF Failed
  <2>2. m.put # <<>> /\ Head(m.put) = i
    OBVIOUS
  <2> QED BY <1>5, <2>1, <2>2
<1>11. Unfinished \subseteq Unfinished' /\ i \in Unfinished'
  <2>1. i \in Unfinished'
    BY <1>10 DEF Unfinished
  <2>2. ASSUME NEW j \in Inums, j \in Unfinished, j # i PROVE j \in Unfinished'
    <3>1. ~(me[p].at = "createNew" /\ me[p].ip = j) /\ ~Failed(p, j)
      BY <1>1, <2>2 DEF Failed
    <3> QED BY <1>7, <2>2, <3>1, StillUnfinished
  <2> QED BY <2>1, <2>2 DEF Unfinished
<1>12. /\ \A j \in Inums : Links(g, j) = Links(fs, j)
       /\ Tree(g, buried, Unfinished')
  <2>1. /\ \A j \in Inums : Links(g, j) = Links(fs, j)
        /\ \A V : Unfinished \subseteq V /\ i \in V => Tree(g, buried, V)
    BY ONLY i \in Inums, <1>1, <1>3, <1>4,
            \A j \in Inums : j # i => r.fs.ents[j] = fs.ents[j],
            \A l \in Names : r.fs.ents[i][l] = fs.ents[i][l],
            \A j \in Inums : /\ r.fs.ino[j].type = fs.ino[j].type
                             /\ r.fs.ino[j].nlink = fs.ino[j].nlink,
            r.fs.ents[i][Dot] \in {0, i}, fs.ino[i].type # "dir" => r.fs.ents[i] = fs.ents[i],
            DotsCalm
  <2> QED BY <1>11, <2>1
<1>13. Counted(g, me', buried')
  <2>1. Balanced(fs, g, p, m)
    <3> SUFFICES ASSUME NEW j \in Inums
                 PROVE  g.ino[j].nlink = fs.ino[j].nlink
                           + (Cardinality(Links(g, j)) - Cardinality(Links(fs, j)))
                           + (One(Owes(m, j)) - One(Owes(me[p], j)))
      BY DEF Balanced
    <3>1. One(Owes(m, j)) = 0 /\ One(Owes(me[p], j)) = 0
      BY <1>1 DEF One, Owes
    <3>2. Links(g, j) = Links(fs, j) /\ g.ino[j].nlink = fs.ino[j].nlink
      BY <1>12
    <3>3. Cardinality(Links(fs, j)) \in Nat
      BY LinksFinite
    <3>4. fs.ino[j].nlink \in Int
      BY <1>1, FsParts, DinodeParts
    <3> QED BY <3>1, <3>2, <3>3, <3>4
  <2>2. me' = [me EXCEPT ![p] = m] /\ buried \subseteq buried'
    BY DEF Does
  <2> HIDE DEF g
  <2> QED BY <1>1, <1>4, <2>1, <2>2, CountedStep
<1>14. p \in inTx' /\ inTx \subseteq inTx' /\ boot' = 0 /\ disk' = disk
  <2>1. "createNew" \notin {"user", "writeOp"}
    OBVIOUS
  <2> QED BY <1>1, <2>1, HereTx, RestSame
<1>15. InHands(p)'
  <2>1. ~BeingFreed(i)'
    BY DEF BeingFreed, FreeLock
  <2>2. \A j \in Inums : Failed(p, j)' =>
         /\ fs'.ino[j].nlink = 0 /\ fs'.ino[j].type # "none"
         /\ itab'[j].ref = 1 /\ itab'[j].valid /\ ~BeingFreed(j)'
    BY <1>3, <1>9, <1>10, <2>1
  <2> QED BY <1>6, <1>14, <2>2 DEF InHands
<1>16. Leaves(p, r, R, R)
  <2>1. \A j \in Inums : j \notin R => SameAt(fs, g, j) /\ r.itab[j] = itab[j]
    BY DEF SameAt
  <2>2. \A q \in Users, j \in Inums : q # p /\ j \in R =>
            ~(me[q].at = "createNew" /\ me[q].ip = j) /\ ~Failed(q, j)
    BY <1>3 DEF Settled, BeingMade
  <2>3. \A j \in Inums : j \in R => ilk[j] \in {Nobody, p} /\ g.ino[j].type # "none"
    BY <1>2, <1>3 DEF FreeLock
  <2>4. \A j \in Inums : ~Frees(p, j)
    BY <1>1 DEF Frees
  <2> QED BY <2>1, <2>2, <2>3, <2>4 DEF Leaves
<1>17. /\ \A j \in Inums : j \in R => ~BeingFreed(j)
       /\ me[p].at = "createNew" => ~BeingFreed(me[p].ip)
  BY <1>3 DEF Settled
<1>18. Tree(disk', buriedDisk', {}) /\ Counted(disk', NoneOwed, buriedDisk')
  BY <1>14 DEF Joined
<1>19. \A q \in Users : q # p /\ q \in inTx => q \in inTx'
  BY <1>14
<1>20. /\ Tables /\ Ordered /\ Joined /\ boot = 0 /\ boot' = 0 /\ Does(p, r, m)
       /\ r.panic = "none"
  BY <1>1, <1>14
<1>21. Tree(g, buried', Unfinished')
  BY <1>12
<1> HIDE DEF R
<1> QED BY ONLY p \in Users, <1>7, <1>8, <1>13, <1>15, <1>16, <1>17, <1>18, <1>19,
                <1>20, <1>21, HandStep DEF g

\* CreateNew
LEMMA CreateNewJoined ==
    ASSUME Tables, Ordered, Joined, NEW p \in Users, CreateNew(p)
    PROVE  Joined'
<1> DEFINE d == me[p].dp
           i == me[p].ip
           n == LastName(p)
           dir == me[p].call.op = "mkdir"
           k == Ilock(K, i)
           k1 == Iupdate(k, i, WithLinks(Ip(k, i), 1))
           e == MakeEntries(k1, d, i, n, dir)
           r == e.k
           x == WithLinks(Ip(r, d), Ip(r, d).nlink + 1)
           u == IF dir THEN Iupdate(r, d, x) ELSE r
           v == Iupdate(r, i, WithLinks(Ip(r, i), 0))
           m1 == Then(p, IF me[p].call.op = "create" THEN "openFile" ELSE "made", <<d>>)
           m2 == Then(p, "createFail", <<i>>)
<1>1. /\ At(p, "createNew") /\ FreeLock(i) /\ Rest /\ UNCHANGED buriedDisk
      /\ IF e.ok
         THEN /\ Does(p, u, m1) /\ ilk' = [Release({d}) EXCEPT ![i] = p]
              /\ buried' = IF Removed(fs, d) THEN buried \union {i} ELSE buried
         ELSE Does(p, v, m2) /\ UNCHANGED <<ilk, buried>>
  BY DEF CreateNew, CreateEnd, CreateFails, WithLinks
<1>2. /\ me[p] \in MeTypes /\ me[p].at = "createNew" /\ me \in [Users -> MeTypes]
      /\ fs \in FsTypes /\ PlaceOK(fs, me[p])
  BY <1>1, AtPlace, AtFacts DEF FilesTypes
<1>3. i \in Inums /\ d \in Inums /\ Settled(d) /\ Locked(me[p]) = d
  BY <1>1, <1>2, HandSettled, InHand DEF IpPlaces, DpUsed, DpPlaces, Locked
<1>4. /\ n \in Entries /\ fs.ents[d][n] = 0 /\ fs.ino[d].type = "dir"
  <2>1. n \in Entries
    BY <1>1, LastNameType
  <2>2. fs.ents[d][n] = 0
    BY <1>2 DEF Joined, InHands
  <2> QED BY <1>2, <2>1, <2>2 DEF PlaceOK, HoldsDir, Pairs
<1>5. n \in Names
  <2> HIDE DEF d, n
  <2> QED BY <1>3, <1>4, MissingName
<1>6. /\ Ip(K, d) \in Dinodes /\ Ip(K, d).type = fs.ino[d].type
      /\ Ip(K, d).nlink = fs.ino[d].nlink /\ ilk[d] = p /\ d # 0 /\ K.itab = itab
  <2> HIDE DEF d
  <2> QED BY <1>1, <1>3, HeldCopy DEF Settled
<1>7. i # d
  <2>1. p # Nobody
    BY Constants
  <2> QED BY <1>1, <1>6, <2>1 DEF FreeLock
<1>8. /\ itab[i].ref = 1 /\ fs.ino[i].nlink = 0 /\ fs.ents[i] = NoEnts
      /\ fs.ino[i].type = TypeOf(me[p].call.op) /\ fs.ino[i].type # "none"
      /\ me[p].call.op \in {"create", "mkdir", "mknod", "mkbad"}
  <2>1. InHands(p)
    BY DEF Joined
  <2>2. me[p].call.op \in {"create", "mkdir", "mknod", "mkbad"}
    BY <1>2, <2>1 DEF InHands
  <2>3. i = me[p].ip
    OBVIOUS
  <2> HIDE DEF i
  <2> QED BY <1>1, <1>3, <2>2, <2>3, MadeAlone
<1>9. dir \in BOOLEAN /\ (dir <=> fs.ino[i].type = "dir")
  BY <1>8 DEF TypeOf
<1>10. /\ k \in KernelTypes /\ k.fs = fs /\ k.panic = "none"
       /\ \A j \in Inums : j # i => k.itab[j] = itab[j]
       /\ k.itab[i].ref = itab[i].ref /\ k.itab[i].valid /\ Ip(k, i) = fs.ino[i]
  <2> HIDE DEF i
  <2> QED BY <1>1, <1>3, <1>8, LockTyped
<1>11. /\ fs.ino[i] \in Dinodes /\ fs.ino[d].nlink \in Int
  BY <1>2, <1>3, FsParts, DinodeParts
<1>12. /\ k1 \in KernelTypes /\ k1.panic = "none" /\ k1.fs.ents = fs.ents
       /\ k1.itab[i].ref = 1 /\ k1.itab[i].valid
       /\ \A j \in Inums : j # i => k1.itab[j] = itab[j] /\ k1.fs.ino[j] = fs.ino[j]
       /\ k1.fs.ino[i].nlink = 1 /\ k1.fs.ino[i].type = fs.ino[i].type
       /\ k1.itab[i].copy = k1.fs.ino[i]
  <2> DEFINE y == WithLinks(Ip(k, i), 1)
  <2>1. y \in Dinodes /\ y.type = fs.ino[i].type /\ y.nlink = 1
    BY <1>10, <1>11, WithLinksFacts
  <2>2. k1 = Iupdate(k, i, y)
    OBVIOUS
  <2> HIDE DEF y, k, i, k1
  <2>3. LET w == Iupdate(k, i, y)
        IN  /\ w \in KernelTypes /\ w.panic = k.panic /\ w.fs.ents = k.fs.ents
            /\ w.itab[i].ref = k.itab[i].ref /\ w.itab[i].valid = k.itab[i].valid
            /\ w.itab[i].copy = y /\ w.fs.ino[i] = y
            /\ \A j \in Inums : j # i => w.itab[j] = k.itab[j] /\ w.fs.ino[j] = k.fs.ino[j]
    <3>1. k \in KernelTypes /\ i \in Inums /\ y \in Dinodes
      BY <1>3, <1>10, <2>1
    <3> QED BY ONLY <3>1, IupdateFacts
  <2> QED BY <1>8, <1>10, <2>1, <2>2, <2>3
<1> HIDE DEF k1
<1>13. Agrees(k1, i) /\ Agrees(k1, d)
  BY <1>3, <1>6, <1>7, <1>12 DEF Agrees, Ip
<1>14. /\ Enrolls(k1, r, d, i, n, dir) /\ e.ok \in BOOLEAN
       /\ e.ok => r.fs.ents[d][n] = i
       /\ e.ok /\ dir => r.fs.ents[i][Dot] = i /\ r.fs.ents[i][DotDot] = d
       /\ ~e.ok => r.fs.ents[d] = k1.fs.ents[d]
  <2> HIDE DEF d, i, n, dir
  <2> QED BY <1>3, <1>5, <1>7, <1>9, <1>12, <1>13, EntriesMade
<1> DEFINE ok == e.ok
<1> HIDE DEF e
<1>15. /\ r \in KernelTypes /\ r.panic = "none"
       /\ \A j \in Inums : r.fs.ino[j].type = fs.ino[j].type
       /\ \A j \in Inums : j # i => r.fs.ino[j].nlink = fs.ino[j].nlink
       /\ r.fs.ino[i].nlink = 1 /\ r.itab[i].ref = 1 /\ r.itab[i].valid
       /\ \A j \in Inums : j # i /\ j # d => r.itab[j] = itab[j] /\ r.fs.ents[j] = fs.ents[j]
       /\ \A l \in Entries : l # n => r.fs.ents[d][l] = fs.ents[d][l]
       /\ \A l \in Names : r.fs.ents[i][l] = fs.ents[i][l]
       /\ r.fs.ents[i][Dot] \in {0, i}
       /\ ~dir => r.fs.ents[i] = fs.ents[i]
       /\ Agrees(r, d) /\ Agrees(r, i)
       /\ ~ok => r.fs.ents[d] = fs.ents[d]
  <2>1. fs.ents[i][Dot] = 0
    BY <1>8 DEF NoEnts, Entries
  <2> HIDE DEF d, i, n, dir, r
  <2> QED BY <1>3, <1>12, <1>14, <2>1 DEF Enrolls
<1> HIDE DEF r
<1>16. Ip(r, d) \in Dinodes /\ Ip(r, i) \in Dinodes
  BY <1>3, <1>15, KernelParts DEF Ip
<1>17. CASE ok
  <2>1. /\ u \in KernelTypes /\ u.panic = "none" /\ u.fs.ents = r.fs.ents
        /\ \A j \in Inums : j # d => u.itab[j] = r.itab[j] /\ u.fs.ino[j] = r.fs.ino[j]
        /\ u.fs.ino[d].type = fs.ino[d].type
        /\ u.fs.ino[d].nlink = fs.ino[d].nlink + One(dir)
    <3>1. CASE dir
      <4>1. x \in Dinodes /\ x.type = fs.ino[d].type /\ x.nlink = fs.ino[d].nlink + 1
        <5> DEFINE y == Ip(r, d)
                   z == y.nlink + 1
        <5>1. y \in Dinodes /\ y.nlink = fs.ino[d].nlink /\ y.type = fs.ino[d].type
          BY <1>3, <1>7, <1>15, <1>16 DEF Agrees
        <5>2. z \in Int /\ z = fs.ino[d].nlink + 1 /\ x = WithLinks(y, z)
          BY <1>11, <5>1
        <5> HIDE DEF y, z, x
        <5>3. WithLinks(y, z) \in Dinodes /\ WithLinks(y, z).type = y.type
              /\ WithLinks(y, z).nlink = z
          BY <5>1, <5>2, WithLinksFacts
        <5> QED BY <5>1, <5>2, <5>3
      <4> DEFINE w == Iupdate(r, d, x)
      <4>2. u = w /\ One(dir) = 1
        BY <3>1 DEF One
      <4> HIDE DEF x, d
      <4>3. /\ w \in KernelTypes /\ w.panic = r.panic /\ w.fs.ents = r.fs.ents
            /\ \A j \in Inums : j # d => w.itab[j] = r.itab[j] /\ w.fs.ino[j] = r.fs.ino[j]
            /\ w.fs.ino[d] = x
        BY <1>3, <1>15, <4>1, IupdateFacts
      <4> HIDE DEF u, w
      <4> QED BY <1>15, <4>1, <4>2, <4>3
    <3>2. CASE ~dir
      <4>1. u = r /\ One(dir) = 0
        BY <3>2 DEF One
      <4>2. r.fs.ino[d].nlink = fs.ino[d].nlink + 0
        BY <1>3, <1>7, <1>11, <1>15
      <4> HIDE DEF u, dir, d, i
      <4> QED BY <1>3, <1>15, <4>1, <4>2
    <3> QED BY <3>1, <3>2
  <2> HIDE DEF u
  <2>2. m1.at \in {"openFile", "made"} /\ m1.put = <<d>>
    BY <1>2 DEF Then, MeTypes
  <2> HIDE DEF m1
  <2>3. /\ \A j \in Inums : u.fs.ino[j].type = fs.ino[j].type
        /\ \A j \in Inums : j # i /\ j # d => u.fs.ino[j].nlink = fs.ino[j].nlink
        /\ u.fs.ino[i].nlink = 1 /\ u.fs.ino[d].nlink = fs.ino[d].nlink + One(dir)
        /\ \A j \in Inums : j # i /\ j # d => u.itab[j] = itab[j] /\ u.fs.ents[j] = fs.ents[j]
    BY <1>3, <1>7, <1>15, <2>1
  <2>4. /\ \A l \in Entries : l # n => u.fs.ents[d][l] = fs.ents[d][l]
        /\ \A l \in Names : u.fs.ents[i][l] = fs.ents[i][l]
        /\ ~dir => u.fs.ents[i] = fs.ents[i]
        /\ u.fs.ents[d][n] = i
        /\ dir => u.fs.ents[i][Dot] = i /\ u.fs.ents[i][DotDot] = d
    <3> HIDE DEF d, i, n, dir
    <3> QED BY <1>14, <1>15, <1>17, <2>1
  <2>5. /\ At(p, "createNew") /\ FreeLock(i) /\ Rest /\ UNCHANGED buriedDisk
        /\ Does(p, u, m1) /\ ilk' = [Release({d}) EXCEPT ![i] = p]
        /\ buried' = IF Removed(fs, d) THEN buried \union {i} ELSE buried
    BY <1>1, <1>17
  <2>6. d = me[p].dp /\ i = me[p].ip /\ n = LastName(p)
    OBVIOUS
  <2> HIDE DEF d, i, n, dir
  <2>7. One(dir) = One(fs.ino[i].type = "dir")
    BY <1>9 DEF One
  <2>8. /\ Tables /\ Ordered /\ Joined /\ At(p, "createNew") /\ d \in Inums /\ d = me[p].dp
        /\ Settled(d) /\ ilk[d] = p /\ Locked(me[p]) = d
        /\ i \in Inums /\ i = me[p].ip /\ FreeLock(i) /\ i # d
        /\ n \in Names /\ n = LastName(p) /\ u \in KernelTypes /\ u.panic = "none"
        /\ m1.at \in {"openFile", "made"} /\ m1.put = <<d>> /\ Does(p, u, m1) /\ Rest
    BY <1>3, <1>5, <1>6, <1>7, <2>1, <2>2, <2>5, <2>6
  <2>9. Born(u, d, i, n)
    BY <1>9, <2>3, <2>4, <2>7 DEF Born
  <2>10. ilk' = [Release({d}) EXCEPT ![i] = p] /\ UNCHANGED buriedDisk /\ Buries(d, i)
    BY <2>5 DEF Buries
  <2> QED BY ONLY p \in Users, <2>8, <2>9, <2>10, NewEntered
<1>18. CASE ~ok
  <2>1. /\ v \in KernelTypes /\ v.panic = "none" /\ v.fs.ents = r.fs.ents
        /\ \A j \in Inums : j # i => v.itab[j] = r.itab[j] /\ v.fs.ino[j] = r.fs.ino[j]
        /\ v.fs.ino[i].type = fs.ino[i].type /\ v.fs.ino[i].nlink = 0
        /\ v.itab[i].ref = 1 /\ v.itab[i].valid
    <3> DEFINE y == WithLinks(Ip(r, i), 0)
    <3>1. y \in Dinodes /\ y.type = fs.ino[i].type /\ y.nlink = 0
      BY <1>3, <1>15, <1>16, WithLinksFacts DEF Agrees
    <3>2. v = Iupdate(r, i, y)
      OBVIOUS
    <3> HIDE DEF y, i, v
    <3>3. LET w == Iupdate(r, i, y)
          IN  /\ w \in KernelTypes /\ w.panic = r.panic /\ w.fs.ents = r.fs.ents
              /\ w.itab[i].ref = r.itab[i].ref /\ w.itab[i].valid = r.itab[i].valid
              /\ w.fs.ino[i] = y
              /\ \A j \in Inums : j # i => w.itab[j] = r.itab[j] /\ w.fs.ino[j] = r.fs.ino[j]
      <4>1. r \in KernelTypes /\ i \in Inums /\ y \in Dinodes
        BY <1>3, <1>15, <3>1
      <4> QED BY ONLY <4>1, IupdateFacts
    <3> QED BY <1>15, <3>1, <3>2, <3>3
  <2> HIDE DEF v
  <2>2. m2.at = "createFail" /\ m2.put = <<i>>
    BY <1>2 DEF Then, MeTypes
  <2> HIDE DEF m2
  <2>3. /\ \A j \in Inums : /\ v.fs.ino[j].type = fs.ino[j].type
                            /\ v.fs.ino[j].nlink = fs.ino[j].nlink
        /\ \A j \in Inums : j # i => v.fs.ents[j] = fs.ents[j]
        /\ \A j \in Inums : j # i /\ j # d => v.itab[j] = itab[j]
    BY <1>3, <1>8, <1>15, <1>18, <2>1
  <2>4. /\ \A l \in Names : v.fs.ents[i][l] = fs.ents[i][l]
        /\ v.fs.ents[i][Dot] \in {0, i}
        /\ fs.ino[i].type # "dir" => v.fs.ents[i] = fs.ents[i]
    BY <1>9, <1>15, <2>1
  <2>5. /\ At(p, "createNew") /\ FreeLock(i) /\ Rest
        /\ Does(p, v, m2) /\ UNCHANGED <<ilk, buried, buriedDisk>>
    BY <1>1, <1>18
  <2>6. d = me[p].dp /\ i = me[p].ip
    OBVIOUS
  <2> HIDE DEF d, i, n, dir
  <2>7. /\ Tables /\ Ordered /\ Joined /\ At(p, "createNew") /\ d \in Inums /\ d = me[p].dp
        /\ Settled(d) /\ ilk[d] = p /\ Locked(me[p]) = d
        /\ i \in Inums /\ i = me[p].ip /\ FreeLock(i) /\ i # d
        /\ v \in KernelTypes /\ v.panic = "none" /\ v.itab[i].ref = 1 /\ v.itab[i].valid
        /\ m2.at = "createFail" /\ m2.put = <<i>> /\ Does(p, v, m2) /\ Rest
        /\ UNCHANGED <<ilk, buried, buriedDisk>>
    BY <1>3, <1>6, <1>7, <2>1, <2>2, <2>5, <2>6
  <2> QED BY ONLY p \in Users, <2>3, <2>4, <2>7, NewFailed
<1> QED BY <1>17, <1>18
-----------------------------------------------------------------------------
(* iput()                                                                  *)

\* What a process has in hand after iput().
LEMMA DroppedHands ==
    ASSUME Tables, Joined, NEW p \in Users, me[p].put # <<>>, UNCHANGED inTx,
           me' = [me EXCEPT ![p] = Dropped(me[p])]
    PROVE  /\ InHands(p)'
           /\ me[p].at \notin {"createNew", "unlink", "unlinkChild"}
           /\ \A j : Owes(Dropped(me[p]), j) <=> Owes(me[p], j)
<1> DEFINE m == Dropped(me[p])
<1>1. me[p] \in MeTypes /\ Shape(me[p]) /\ me \in [Users -> MeTypes] /\ InHands(p)
  BY DEF Tables, FilesTypes, Joined
<1>2. me[p].at \notin {"createNew", "unlink", "unlinkChild"}
  BY <1>1 DEF Shape
<1>3. /\ m.at = me[p].at /\ m.ip = me[p].ip /\ m.dp = me[p].dp
      /\ m.put = Tail(me[p].put)
  BY <1>1 DEF Dropped, MeTypes
<1>4. m.at = "createFail" => m.put = <<>>
  <2> DEFINE t == me[p].put
             s == Tail(t)
  <2> SUFFICES ASSUME me[p].at = "createFail" PROVE s = <<>>
    BY <1>3
  <2>1. t \in Seq(Inums) /\ t # <<>> /\ Len(t) <= 1
    BY <1>1, MeParts DEF Shape
  <2> HIDE DEF t
  <2>3. Len(t) <= 2
    BY <2>1
  <2>2. Len(t) = 1 => s = <<>>
    BY <2>1, <2>3, PutTail
  <2> HIDE DEF s
  <2>4. (\E x \in Inums : t = <<x>>) \/ \E x, y \in Inums : t = <<x, y>>
    BY <2>1, <2>3, PutShape
  <2>5. Len(t) = 1
    BY <2>1, <2>4
  <2> QED BY <2>2, <2>5
<1>5. me'[p] = m
  BY <1>1
<1>6. m.at \in {"user", "writeOp"} \/ p \in inTx'
  BY <1>1, <1>3 DEF InHands
<1>7. m.at \notin {"createNew", "unlinkChild", "unlink"}
  BY <1>2, <1>3
<1>8. \A j : Owes(m, j) <=> Owes(me[p], j)
  BY <1>3 DEF Owes
<1> HIDE DEF m
<1>9. InHands(p)'
  BY <1>4, <1>5, <1>6, <1>7, PlainHands
<1> QED BY <1>2, <1>8, <1>9 DEF m

\* Iput, when the inode is not freed.
LEMMA DropJoined ==
    ASSUME Tables, Ordered, Joined, panic = "none", boot = 0, NEW p \in Users, me[p].put # <<>>,
           NEW i, i = Head(me[p].put), ilk[i] # p, ~LastReference(itab[i]), Rest,
           UNCHANGED <<ilk, buried, buriedDisk>>,
           Does(p, WithEntry(K, i, Drop(itab[i])), Dropped(me[p]))
    PROVE  Joined'
<1> DEFINE k == WithEntry(K, i, Drop(itab[i]))
           m == Dropped(me[p])
           T == {}
           R == {i}
<1>1. /\ K \in KernelTypes /\ K.fs = fs /\ K.itab = itab /\ K.panic = panic
      /\ me \in [Users -> MeTypes] /\ fs \in FsTypes /\ CopiesOK
  BY FilesTypesParts DEF Tables, FilesTypes
<1>2. i \in Inums
  BY PutAlone
<1>3. ~Failed(p, i)
  <2> SUFFICES ASSUME Failed(p, i) PROVE FALSE
    OBVIOUS
  <2>1. fs.ino[i].nlink = 0 /\ itab[i].ref = 1 /\ itab[i].valid /\ ~BeingFreed(i)
    BY <1>2 DEF Joined, InHands
  <2>2. itab[i].copy.nlink = 0
    BY <1>1, <1>2, <2>1 DEF CopiesOK, CopyOK
  <2> QED BY <2>1, <2>2 DEF LastReference
<1>4. Settled(i)
  <2> DEFINE s == HeadSlot(me[p])
  <2>1. <<p, s>> \in Uses(i) /\ s \in {"first", "last"}
    BY <1>2, HeadUsed
  <2> HIDE DEF s
  <2>2. InSlot(me[p], cwd[p], s, i) /\ s \in Slots /\ s # "ip"
    BY <2>1 DEF Uses, Slots
  <2> QED BY <1>2, <1>3, <2>2, UseSettled
<1>5. /\ k.fs = fs /\ k.panic = "none"
      /\ \A j \in Inums : j # i => k.itab[j] = itab[j]
  BY <1>1, <1>2 DEF WithEntry
<1>6. me' = [me EXCEPT ![p] = m] /\ UNCHANGED <<disk, inTx, boot>>
  BY DEF Does, Rest
<1>7. /\ InHands(p)' /\ me[p].at \notin {"createNew", "unlink", "unlinkChild"}
      /\ \A j : Owes(m, j) <=> Owes(me[p], j)
  BY <1>6, DroppedHands
<1>8. NoneFreed
  BY <1>6, DropFreesNot
<1>9. LocksMove(p)
  BY LocksMoved
<1>10. Does(p, k, m)
  OBVIOUS
<1> HIDE DEF k, m
<1>11. \A j \in Inums : j # i => ~Failed(p, j)
  BY DEF Failed
<1>12. Unfinished \subseteq Unfinished'
  <2> SUFFICES ASSUME NEW j \in Inums, j \in Unfinished PROVE j \in Unfinished'
    BY DEF Unfinished
  <2>1. ~(me[p].at = "createNew" /\ me[p].ip = j) /\ ~Failed(p, j)
    BY <1>3, <1>7, <1>11
  <2> QED BY <1>9, <1>10, <2>1, StillUnfinished
<1>13. Tree(k.fs, buried', Unfinished')
  <2>1. Tree(fs, buried, Unfinished)
    BY DEF Joined
  <2>2. \A j \in Inums : fs.ino[j].type = "none" => fs.ino[j].nlink = 0
    BY <2>1 DEF Tree, FreeNone
  <2>3. Tree(fs, buried, Unfinished')
    BY <1>12, <2>1, <2>2, TreeSame
  <2> QED BY <1>5, <2>3
<1>14. Counted(k.fs, me', buried')
  <2>1. Counted(fs, me, buried) /\ Same(fs, fs) /\ buried \subseteq buried
    BY DEF Joined, Same
  <2>2. Counted(fs, me', buried)
    BY ONLY p \in Users, <1>1, <1>6, <1>7, <2>1, CountedSame
  <2> QED BY <1>5, <2>2
<1>15. Leaves(p, k, T, R)
  <2>1. \A j \in Inums : SameAt(fs, k.fs, j) /\ (j \notin R => k.itab[j] = itab[j])
    BY <1>5 DEF SameAt
  <2>2. \A q \in Users, j \in Inums : j \in R =>
            ~(me[q].at = "createNew" /\ me[q].ip = j) /\ ~Failed(q, j)
    BY <1>4 DEF Settled, BeingMade
  <2>3. \A j \in Inums : j \in R => k.fs.ino[j].type # "none"
    BY <1>4, <1>5 DEF Settled
  <2>4. \A j \in Inums : j \notin R => ~Frees(p, j)
    BY DEF Frees
  <2> QED BY <1>5, <2>1, <2>2, <2>3, <2>4 DEF Leaves
<1>16. \A j \in Inums : j \in T \/ j \in R => ~BeingFreed(j)
  BY <1>4 DEF Settled
<1>17. Tree(disk', buriedDisk', {}) /\ Counted(disk', NoneOwed, buriedDisk')
  BY <1>6 DEF Joined
<1>18. /\ Tables /\ Ordered /\ Joined /\ boot = 0 /\ boot' = 0 /\ Does(p, k, m)
       /\ k.panic = "none" /\ \A q \in Users : q # p /\ q \in inTx => q \in inTx'
  BY <1>5, <1>6, <1>10
<1> HIDE DEF R, T
<1> QED BY ONLY p \in Users, <1>7, <1>8, <1>9, <1>13, <1>14, <1>15, <1>16, <1>17, <1>18,
                HandStep

\* The kernel after itrunc() and iupdate() of an inode that becomes a free one.
MadeFree(k, g, i) ==
    /\ k.panic = "none" /\ k.fs \in FsTypes /\ Wipes(g, k.fs, i)
    /\ k.itab[i].ref = 1
    /\ \A j \in Inums : j # i => k.itab[j] = itab[j] /\ SameAt(g, k.fs, j)

\* iput() that frees an inode makes a free one of it.
LEMMA FreedWipes ==
    ASSUME Tables, Joined, Stored, boot = 0, NEW p \in Users, me[p].put # <<>>,
           ilk[Head(me[p].put)] # p, LastReference(itab[Head(me[p].put)])
    PROVE  LET i == Head(me[p].put)
               t == Itrunc(K, i)
           IN  /\ MadeFree(Iupdate(t, i, Typed(Ip(t, i), "none")), fs, i)
               /\ fs.ino[i].nlink = 0
<1> DEFINE i == Head(me[p].put)
           t == Itrunc(K, i)
           d == Typed(Ip(t, i), "none")
           k == Iupdate(t, i, d)
<1>1. /\ Sane(K) /\ K \in KernelTypes /\ K.fs = fs /\ K.itab = itab /\ K.panic = panic
      /\ ilk[i] # p /\ LastReference(itab[i]) /\ panic = "none"
      /\ ilk \in [Inums -> Users \union {Nobody}] /\ CopiesOK
  BY SaneNow, FilesTypesParts DEF Tables, Joined, FilesTypes
<1>2. i \in Inums /\ itab[i].ref = 1 /\ itab[i].valid /\ ilk[i] = Nobody
      /\ itab[i].copy.nlink = 0
  BY <1>1, PutAlone DEF LastReference
<1>3. ~BeingFreed(i) /\ CopyOK(i)
  BY <1>1, <1>2 DEF BeingFreed, CopiesOK
<1>4. fs.ino[i].nlink = 0
  BY <1>2, <1>3 DEF CopyOK
<1> HIDE DEF i
<1>5. Live(K, i)
  BY <1>1, <1>2, <1>3 DEF CopyOK, Live
<1>6. /\ t \in KernelTypes /\ t.fs.ents[i] = NoEnts /\ t.itab[i].ref = 1
      /\ t.itab[i].copy = NoBlocks(Ip(K, i))
      /\ \A j \in Inums : j # i => /\ t.itab[j] = itab[j] /\ t.fs.ino[j] = fs.ino[j]
                                   /\ t.fs.ents[j] = fs.ents[j]
  BY <1>1, <1>2, ItruncFacts
<1>7. Ip(K, i) \in Dinodes /\ Ip(K, i).nlink = 0
  BY <1>1, <1>2, KernelParts DEF Ip
<1>8. d \in Dinodes /\ d.type = "none" /\ d.addrs = NoAddrs /\ d.nlink = 0
  <2> DEFINE z == Ip(t, i)
             y == Ip(K, i)
  <2>1. z = NoBlocks(y)
    BY <1>6 DEF Ip
  <2>2. y \in Dinodes /\ y.nlink = 0
    BY <1>7
  <2> HIDE DEF z, y
  <2>3. z \in Dinodes /\ z.addrs = NoAddrs /\ z.nlink = 0
    BY <2>1, <2>2, NoBlocksFacts
  <2>4. Typed(z, "none") \in Dinodes /\ Typed(z, "none").type = "none"
        /\ Typed(z, "none").addrs = NoAddrs /\ Typed(z, "none").nlink = 0
    BY <2>3, TypedFacts DEF Types
  <2> QED BY <2>4 DEF z
<1> HIDE DEF d
<1>9. k.panic = "none"
  BY <1>1, <1>2, <1>5, <1>8, FreedNow
<1> HIDE DEF t
<1>10. /\ k \in KernelTypes /\ k.itab[i].ref = 1 /\ k.fs.ino[i] = d /\ k.fs.ents = t.fs.ents
       /\ \A j \in Inums : j # i => k.itab[j] = t.itab[j] /\ k.fs.ino[j] = t.fs.ino[j]
  BY <1>2, <1>6, <1>8, IupdateFacts
<1> HIDE DEF k
<1>11. k.fs \in FsTypes
  BY <1>10, KernelParts
<1>12. MadeFree(k, fs, i)
  BY <1>6, <1>8, <1>9, <1>10, <1>11 DEF MadeFree, Wipes, SameAt
<1> QED BY <1>4, <1>12 DEF i, t, d, k

\* Iput that frees the inode.
LEMMA FreeJoined ==
    ASSUME Tables, Joined, boot = 0, boot' = 0, NEW p \in Users, NEW i \in Inums, me[p].put # <<>>,
           Head(me[p].put) = i, ilk[i] = Nobody, itab[i].ref = 1, fs.ino[i].nlink = 0,
           NEW k, MadeFree(k, fs, i), Does(p, k, me[p]), ilk' = Holds(p, i),
           UNCHANGED <<disk, inTx, buried, buriedDisk>>
    PROVE  Joined'
<1>1. /\ me \in [Users -> MeTypes] /\ ilk \in [Inums -> Users \union {Nobody}] /\ p # Nobody
      /\ fs \in FsTypes
  BY Constants, FilesTypesParts DEF Tables, FilesTypes
<1>2. me' = me /\ fs' = k.fs /\ itab' = k.itab /\ panic' = "none"
  BY <1>1 DEF Does, MadeFree
<1>3. ilk'[i] = p /\ \A j \in Inums : j # i => ilk'[j] = ilk[j]
  BY <1>1 DEF Holds
<1>4. \A j \in Inums : j # i =>
          /\ BeingFreed(j)' <=> BeingFreed(j)
          /\ \A q \in Users : Failed(q, j)' <=> Failed(q, j)
  BY <1>2, <1>3 DEF BeingFreed, Frees, Failed
<1>5. \A j \in Inums : BeingMade(j)' <=> BeingMade(j)
  BY <1>2 DEF BeingMade
<1>6. ASSUME NEW q \in Users
      PROVE  ~(IpUsed(me[q]) /\ me[q].ip = i) /\ ~(DpUsed(me[q]) /\ me[q].dp = i)
  BY FreedAlone
<1>7. ASSUME NEW q \in Users PROVE ~Failed(q, i)'
  <2> SUFFICES ASSUME Failed(q, i)' PROVE FALSE
    OBVIOUS
  <2>1. q # p
    BY <1>3 DEF Failed
  <2>2. me[q].put # <<>> /\ Head(me[q].put) = i
    BY <1>2 DEF Failed
  <2> DEFINE U == Uses(i)
             x == <<p, HeadSlot(me[p])>>
             y == <<q, HeadSlot(me[q])>>
  <2>3. x \in U /\ y \in U
    BY <2>2, HeadUsed
  <2>4. x # y
    BY <2>1
  <2>5. IsFiniteSet(U) /\ Cardinality(U) \in Nat
    BY UsesFinite
  <2>6. Cardinality(Opens(i)) \in Nat /\ itab[i].ref = Cardinality(U) + Cardinality(Opens(i))
    BY OpensFinite DEF Tables, RefsOK
  <2> HIDE DEF x, y, U
  <2>7. Cardinality(U) >= 2
    BY <2>3, <2>4, <2>5, ThreeOf
  <2> QED BY <2>5, <2>6, <2>7
<1>8. Unfinished \subseteq Unfinished' \union {i}
  BY <1>4, <1>5 DEF Unfinished
<1>9. Tree(fs, buried, Unfinished) /\ Counted(fs, me, buried)
  BY DEF Joined
<1>10. Wipes(fs, k.fs, i) /\ k.fs \in FsTypes /\ fs.ino[i].nlink <= 0
  BY DEF MadeFree
<1>11. Tree(k.fs, buried, Unfinished')
  <2> DEFINE B == buried
             U == Unfinished
             V == Unfinished'
             M == me
  <2>1. Tree(fs, B, U) /\ Counted(fs, M, B) /\ U \subseteq V \union {i} /\ B \subseteq B \union {i}
    BY <1>8, <1>9
  <2> HIDE DEF B, U, V, M
  <2>2. Tree(k.fs, B, V)
    BY <1>1, <1>10, <2>1, TreeWiped
  <2> QED BY <2>2 DEF B, V
<1>12. Counted(k.fs, me, buried)
  <2>1. \A j : Owed(me, j) = Owed(me, j)
    OBVIOUS
  <2> QED BY <1>1, <1>9, <1>10, <2>1, CountedWiped
<1>13. \A j \in Inums : j # i => SameAt(fs, k.fs, j) /\ k.itab[j] = itab[j]
  BY DEF MadeFree
<1>14. ASSUME NEW q \in Users PROVE InHands(q)'
  <2>1. InHands(q) /\ me[q] \in MeTypes /\ Shape(me[q])
    BY <1>1 DEF Joined, Tables, FilesTypes
  <2>2. me[q].at \notin {"user", "writeOp"} => q \in inTx'
    BY <2>1 DEF InHands
  <2>3. ~(me[q].at \in IpPlaces /\ me[q].ip = i) /\ ~(DpUsed(me[q]) /\ me[q].dp = i)
    BY <1>6 DEF IpUsed
  <2>0. me[q].ip \in Inums \union {0} /\ me[q].dp \in Inums \union {0}
    BY <2>1, MeParts
  <2>4. me[q].at \in {"unlink", "createNew", "unlinkChild"} => me[q].ip \in Inums /\ me[q].ip # i
    BY <2>0, <2>1, <2>3 DEF Shape, IpPlaces, IpUsed
  <2>5. me[q].at \in {"createNew", "unlinkChild"} => me[q].dp \in Inums /\ me[q].dp # i
    BY <2>0, <2>1, <2>3 DEF Shape, DpUsed, DpPlaces
  <2>6. me[q].at = "unlink" => k.fs.ino[me[q].ip].type = "dir"
    BY <1>13, <2>1, <2>4 DEF InHands, SameAt
  <2>7. me[q].at = "unlinkChild" =>
            LastName(q) \in Names /\ k.fs.ents[me[q].dp][LastName(q)] = me[q].ip
    BY <1>13, <2>1, <2>5 DEF InHands, SameAt
  <2>8. me[q].at = "createNew" =>
         /\ me[q].call.op \in {"create", "mkdir", "mknod", "mkbad"}
         /\ k.fs.ino[me[q].ip].nlink = 0 /\ k.fs.ino[me[q].ip].type = TypeOf(me[q].call.op)
         /\ k.fs.ents[me[q].ip] = NoEnts
         /\ k.itab[me[q].ip].ref = 1 + (One(BeingFreed(me[q].ip)))'
         /\ k.fs.ents[me[q].dp][LastName(q)] = 0
    <3> SUFFICES ASSUME me[q].at = "createNew"
                 PROVE  /\ me[q].call.op \in {"create", "mkdir", "mknod", "mkbad"}
                        /\ k.fs.ino[me[q].ip].nlink = 0
                        /\ k.fs.ino[me[q].ip].type = TypeOf(me[q].call.op)
                        /\ k.fs.ents[me[q].ip] = NoEnts
                        /\ k.itab[me[q].ip].ref = 1 + (One(BeingFreed(me[q].ip)))'
                        /\ k.fs.ents[me[q].dp][LastName(q)] = 0
      OBVIOUS
    <3>1. (One(BeingFreed(me[q].ip)))' = One(BeingFreed(me[q].ip))
      <4> DEFINE j == me[q].ip
      <4>1. j \in Inums /\ j # i /\ j' = j
        BY <1>2, <2>4
      <4>2. BeingFreed(j)' <=> BeingFreed(j)
        BY <1>2, <1>3, <4>1 DEF BeingFreed, Frees
      <4> QED BY <4>2 DEF One
    <3>2. /\ SameAt(fs, k.fs, me[q].ip) /\ SameAt(fs, k.fs, me[q].dp)
          /\ k.itab[me[q].ip] = itab[me[q].ip]
      BY <1>13, <2>4, <2>5
    <3> QED BY <2>1, <3>1, <3>2 DEF InHands, SameAt
  <2>9. ASSUME NEW j \in Inums, Failed(q, j)'
        PROVE  /\ k.fs.ino[j].nlink = 0 /\ k.fs.ino[j].type # "none"
               /\ k.itab[j].ref = 1 /\ k.itab[j].valid /\ ~BeingFreed(j)'
    <3>1. j # i /\ Failed(q, j)
      BY <1>4, <1>7, <2>9
    <3> QED BY <1>4, <1>13, <2>1, <3>1 DEF InHands, SameAt
  <2>10. LastName(q)' = LastName(q)
    BY <1>2 DEF LastName
  <2> QED BY <1>2, <2>2, <2>6, <2>7, <2>8, <2>9, <2>10 DEF InHands
<1>15. InTable'
  <2> SUFFICES ASSUME NEW j \in Inums
               PROVE  /\ k.itab[j].ref > 0 => k.fs.ino[j].type # "none" \/ BeingFreed(j)'
                      /\ BeingFreed(j)' =>
                            (k.fs.ino[j].type = "none" /\ k.itab[j].ref = 1) \/ BeingMade(j)'
    BY <1>2 DEF InTable
  <2>1. CASE j = i
    <3>1. BeingFreed(i)'
      BY <1>1, <1>2, <1>3 DEF BeingFreed, Frees
    <3> QED BY <1>10, <2>1, <3>1 DEF Wipes, MadeFree
  <2>2. CASE j # i
    <3>1. /\ itab[j].ref > 0 => fs.ino[j].type # "none" \/ BeingFreed(j)
          /\ BeingFreed(j) => (fs.ino[j].type = "none" /\ itab[j].ref = 1) \/ BeingMade(j)
      BY DEF Joined, InTable
    <3> QED BY <1>4, <1>5, <1>13, <2>2, <3>1 DEF SameAt
  <2> QED BY <2>1, <2>2
<1>16. Tree(disk', buriedDisk', {}) /\ Counted(disk', NoneOwed, buriedDisk')
  BY DEF Joined
<1> QED BY <1>2, <1>11, <1>12, <1>14, <1>15, <1>16 DEF Joined

\* The end of iput() of an inode that was freed.
LEMMA IputEndJoined == ASSUME Tables, Joined, NEW p \in Users, IputEnd(p) PROVE Joined'
<1>0. Head(me[p].put) \in Inums /\ boot = 0 /\ me[p].put # <<>>
  <2>1. boot = 0 /\ me[p].put # <<>>
    BY DEF IputEnd
  <2> QED BY <2>1, PutAlone
<1> PICK i \in Inums : i = Head(me[p].put)
  BY <1>0
<1> DEFINE k == WithEntry(K, i, Forget(itab[i]))
           m == Dropped(me[p])
<1>1. /\ boot = 0 /\ boot' = 0 /\ me[p].put # <<>> /\ ilk[i] = p /\ Does(p, k, m)
      /\ me' = [me EXCEPT ![p] = m] /\ ilk' = Release({i}) /\ buried' = buried \ {i}
      /\ UNCHANGED <<disk, inTx, buriedDisk>> /\ panic = "none"
  BY DEF IputEnd, Rest, Does
<1>2. /\ K \in KernelTypes /\ K.fs = fs /\ K.itab = itab /\ K.panic = panic
      /\ me \in [Users -> MeTypes] /\ fs \in FsTypes /\ p # Nobody
      /\ ilk \in [Inums -> Users \union {Nobody}]
  BY FilesTypesParts, Constants DEF Tables, FilesTypes
<1>3. i \in Inums
  OBVIOUS
<1>4. /\ InHands(p)' /\ me[p].at \notin {"createNew", "unlink", "unlinkChild"}
      /\ \A j : Owes(m, j) <=> Owes(me[p], j)
  BY <1>1, DroppedHands
<1>5. NoneFreed
  BY <1>1, DropFreesNot
<1>6. /\ k.fs = fs /\ k.panic = "none" /\ k.itab[i].ref = itab[i].ref - 1
      /\ \A j \in Inums : j # i => k.itab[j] = itab[j]
  <2>1. itab[i] \in EntryTypes
    BY <1>2, <1>3, KernelParts
  <2>2. Forget(itab[i]) \in EntryTypes /\ Forget(itab[i]).ref = itab[i].ref - 1
    BY <2>1, ForgetFacts
  <2> DEFINE e == Forget(itab[i])
  <2>3. e \in EntryTypes /\ e.ref = itab[i].ref - 1
    BY <2>2
  <2> HIDE DEF e
  <2>4. WithEntry(K, i, e).fs = K.fs /\ WithEntry(K, i, e).panic = K.panic
        /\ WithEntry(K, i, e).itab[i] = e
        /\ \A j \in Inums : j # i => WithEntry(K, i, e).itab[j] = K.itab[j]
    BY <1>2, <1>3, <2>3, WithEntryFacts
  <2> QED BY <1>1, <1>2, <2>3, <2>4 DEF e
<1>7. BeingFreed(i)
  BY <1>1, <1>2 DEF BeingFreed, Frees
<1>8. ilk'[i] = Nobody /\ \A j \in Inums : j # i => ilk'[j] = ilk[j]
  BY <1>1, <1>3 DEF Release
<1>9. ~BeingFreed(i)'
  BY <1>8 DEF BeingFreed
<1> HIDE DEF k, m
<1>10. fs' = fs /\ itab' = k.itab /\ panic' = "none" /\ \A q \in Users : q # p => me'[q] = me[q]
  BY <1>1, <1>2, <1>6 DEF Does
<1>11. ASSUME NEW j \in Inums, j # i PROVE BeingFreed(j)' <=> BeingFreed(j)
  <2> SUFFICES ASSUME BeingFreed(j) PROVE BeingFreed(j)'
    BY <1>5 DEF NoneFreed
  <2>1. ilk[j] # p
    BY <1>11 DEF BeingFreed, Frees
  <2>2. ilk[j] \in Users /\ ilk'[j] = ilk[j]
    BY <1>2, <1>8, <1>11 DEF BeingFreed
  <2> QED BY <1>10, <2>1, <2>2 DEF BeingFreed, Frees
<1>12. /\ fs.ino[i].nlink = 0 /\ itab[i].ref \in Nat
       /\ \A q \in Users : me[q].at = "createNew" /\ me[q].ip = i => itab[i].ref = 2
       /\ itab[i].ref = 1 \/ BeingMade(i)
  <2>1. (fs.ino[i].type = "none" /\ itab[i].ref = 1) \/ BeingMade(i)
    BY <1>1, <1>3, <1>7 DEF Joined, InTable
  <2>2. fs.ino[i].type = "none" => fs.ino[i].nlink = 0
    BY <1>3 DEF Joined, Tree, FreeNone
  <2>3. \A q \in Users : me[q].at = "createNew" /\ me[q].ip = i =>
            fs.ino[i].nlink = 0 /\ itab[i].ref = 2
    BY <1>7 DEF Joined, InHands, One
  <2>4. itab[i].ref \in Nat
    BY <1>1, PutAlone
  <2> QED BY <2>1, <2>2, <2>3, <2>4 DEF BeingMade
<1>13. LocksMove(p)
  BY <1>1, <1>2, <1>8 DEF LocksMove
<1>14. Unfinished \subseteq Unfinished'
  <2> SUFFICES ASSUME NEW j \in Inums, j \in Unfinished PROVE j \in Unfinished'
    BY DEF Unfinished
  <2>1. ~(me[p].at = "createNew" /\ me[p].ip = j) /\ ~Failed(p, j)
    BY <1>1, <1>4 DEF Failed
  <2> QED BY <1>1, <1>13, <2>1, StillUnfinished
<1>15. \A j \in Inums : j \in buried /\ j \notin buried' => fs.ino[j].nlink = 0
  BY <1>1, <1>12
<1>16. Tree(fs, buried, Unfinished) /\ Counted(fs, me, buried)
  BY DEF Joined
<1>17. Tree(fs', buried', Unfinished')
  <2> DEFINE U == Unfinished
             V == Unfinished'
             C == buried'
  <2>1. U \subseteq V /\ Tree(fs, buried, U)
    BY <1>14, <1>16
  <2> HIDE DEF U, V, C
  <2>2. Tree(fs, C, U)
    BY <1>2, <1>15, <1>16, <2>1, TreeShrunk DEF C
  <2>3. \A j \in Inums : fs.ino[j].type = "none" => fs.ino[j].nlink = 0
    BY <1>16 DEF Tree, FreeNone
  <2>4. Tree(fs, C, V)
    BY <2>1, <2>2, <2>3, TreeSame
  <2> QED BY <1>10, <2>4 DEF C, V
<1>18. Counted(fs', me', buried')
  <2>1. Counted(fs, me, buried')
    BY <1>2, <1>15, <1>16, CountedShrunk
  <2>2. Same(fs, fs) /\ buried' \subseteq buried' /\ \A j \in Inums : Owes(m, j) <=> Owes(me[p], j)
    BY <1>4 DEF Same
  <2> DEFINE C == buried'
  <2>3. Counted(fs, me, C) /\ C \subseteq C
    BY <2>1
  <2> HIDE DEF C
  <2>4. Counted(fs, me', C)
    BY ONLY p \in Users, <1>1, <1>2, <2>2, <2>3, CountedSame
  <2> QED BY <1>10, <2>4 DEF C
<1>19. ASSUME NEW q \in Users, q # p PROVE InHands(q)'
  <2>1. InHands(q) /\ me'[q] = me[q] /\ inTx' = inTx /\ LastName(q)' = LastName(q)
    BY <1>1, <1>10, <1>19 DEF Joined, LastName
  <2>2. (me[q].at = "createNew" =>
         /\ me[q].call.op \in {"create", "mkdir", "mknod", "mkbad"}
         /\ fs.ino[me[q].ip].nlink = 0 /\ fs.ino[me[q].ip].type = TypeOf(me[q].call.op)
         /\ fs.ents[me[q].ip] = NoEnts
         /\ itab[me[q].ip].ref = 1 + One(BeingFreed(me[q].ip))
         /\ fs.ents[me[q].dp][LastName(q)] = 0)'
    <3> SUFFICES ASSUME me[q].at = "createNew"
                 PROVE  k.itab[me[q].ip].ref = 1 + (One(BeingFreed(me[q].ip)))'
      BY <1>10, <2>1 DEF InHands
    <3>1. me[q].ip \in Inums
      BY <1>2 DEF Tables, FilesTypes, MeTypes, Shape, IpUsed, IpPlaces
    <3> PICK j \in Inums : j = me[q].ip
      BY <3>1
    <3>2. (BeingFreed(me[q].ip))' <=> BeingFreed(j)'
      BY <2>1 DEF BeingFreed, Frees
    <3>3. CASE j = i
      <4>1. itab[i].ref = 2
        BY <1>12, <3>3
      <4>2. k.itab[i].ref = 1
        BY <1>6, <4>1
      <4> QED BY <1>9, <3>2, <3>3, <4>2 DEF One
    <3>4. CASE j # i
      <4>1. itab[j].ref = 1 + One(BeingFreed(j)) /\ k.itab[j] = itab[j]
        BY <1>6, <2>1, <3>4 DEF InHands
      <4>2. (One(BeingFreed(me[q].ip)))' = One(BeingFreed(j))
        BY <1>11, <3>2, <3>4 DEF One
      <4> QED BY <4>1, <4>2
    <3> QED BY <3>3, <3>4
  <2>3. ASSUME NEW j \in Inums, Failed(q, j)'
        PROVE  /\ fs'.ino[j].nlink = 0 /\ fs'.ino[j].type # "none"
               /\ itab'[j].ref = 1 /\ itab'[j].valid /\ ~BeingFreed(j)'
    <3>1. Failed(q, j) \/ j = i
      BY <1>8, <2>1, <2>3 DEF Failed
    <3>2. Failed(q, j)
      <4>1. j = i => ilk[j] # q
        BY <1>1, <1>19
      <4> QED BY <2>1, <2>3, <3>1, <4>1 DEF Failed
    <3>3. j # i
      BY <1>7, <2>1, <3>2 DEF InHands
    <3> QED BY <1>6, <1>10, <1>11, <2>1, <3>2, <3>3 DEF InHands
  <2>4. (me[q].at = "unlink" => fs.ino[me[q].ip].type = "dir")'
        /\ (me[q].at \notin {"user", "writeOp"} => q \in inTx)'
        /\ (me[q].at = "unlinkChild" =>
              LastName(q) \in Names /\ fs.ents[me[q].dp][LastName(q)] = me[q].ip)'
    BY <1>10, <2>1 DEF InHands
  <2> QED BY <2>2, <2>3, <2>4 DEF InHands
<1>20. InTable'
  <2> SUFFICES ASSUME NEW j \in Inums
               PROVE  /\ k.itab[j].ref > 0 => fs.ino[j].type # "none" \/ BeingFreed(j)'
                      /\ BeingFreed(j)' =>
                            (fs.ino[j].type = "none" /\ k.itab[j].ref = 1) \/ BeingMade(j)'
    BY <1>10 DEF InTable
  <2>1. CASE j = i
    <3>1. k.itab[i].ref > 0 => BeingMade(i)
      <4>1. itab[i].ref = 1 => k.itab[i].ref = 0
        BY <1>6
      <4>2. itab[i].ref = 1 => ~(k.itab[i].ref > 0)
        BY <4>1
      <4> QED BY <1>12, <4>2
    <3>2. BeingMade(i) => fs.ino[i].type # "none"
      <4> SUFFICES ASSUME NEW q \in Users, me[q].at = "createNew", me[q].ip = i
                   PROVE  fs.ino[i].type # "none"
        BY DEF BeingMade
      <4>1. /\ me[q].call.op \in {"create", "mkdir", "mknod", "mkbad"}
            /\ fs.ino[i].type = TypeOf(me[q].call.op)
        BY DEF Joined, InHands
      <4> QED BY <4>1 DEF TypeOf
    <3> QED BY <1>9, <2>1, <3>1, <3>2
  <2>2. CASE j # i
    <3>1. /\ itab[j].ref > 0 => fs.ino[j].type # "none" \/ BeingFreed(j)
          /\ BeingFreed(j) => (fs.ino[j].type = "none" /\ itab[j].ref = 1) \/ BeingMade(j)
      BY <1>1 DEF Joined, InTable
    <3>2. BeingMade(j) => BeingMade(j)'
      BY <1>4, <1>10 DEF BeingMade
    <3> QED BY <1>6, <1>11, <2>2, <3>1, <3>2
  <2> QED BY <2>1, <2>2
<1>21. Tree(disk', buriedDisk', {}) /\ Counted(disk', NoneOwed, buriedDisk')
  BY <1>1 DEF Joined
<1>22. \A q \in Users : InHands(q)'
  BY <1>4, <1>19
<1> QED BY <1>1, <1>10, <1>17, <1>18, <1>20, <1>21, <1>22 DEF Joined

\* Iput.
LEMMA IputJoined ==
    ASSUME Tables, Ordered, Stored, Joined, NEW p \in Users, Iput(p) PROVE Joined'
<1> DEFINE i == Head(me[p].put)
           t == Itrunc(K, i)
           k == Iupdate(t, i, Typed(Ip(t, i), "none"))
<1>1. /\ panic = "none" /\ boot = 0 /\ boot' = 0 /\ me[p].put # <<>> /\ ilk[i] # p
      /\ UNCHANGED <<disk, inTx, buried, buriedDisk>> /\ Rest
      /\ \/ LastReference(itab[i]) /\ Does(p, k, me[p]) /\ ilk' = Holds(p, i)
         \/ /\ ~LastReference(itab[i]) /\ UNCHANGED ilk
            /\ Does(p, WithEntry(K, i, Drop(itab[i])), Dropped(me[p]))
  BY DEF Iput, Rest, Typed, history
<1>2. CASE LastReference(itab[i]) /\ Does(p, k, me[p]) /\ ilk' = Holds(p, i)
  <2>1. MadeFree(k, fs, i) /\ fs.ino[i].nlink = 0
    BY <1>1, <1>2, FreedWipes
  <2>2. i \in Inums /\ itab[i].ref = 1 /\ ilk[i] = Nobody
    BY <1>1, <1>2, PutAlone DEF LastReference
  <2> HIDE DEF k
  <2>3. Does(p, k, me[p])
    BY <1>2
  <2> QED BY <1>1, <1>2, <2>1, <2>2, <2>3, FreeJoined
<1>3. CASE /\ ~LastReference(itab[i]) /\ UNCHANGED ilk
           /\ Does(p, WithEntry(K, i, Drop(itab[i])), Dropped(me[p]))
  BY <1>1, <1>3, DropJoined
<1> QED BY <1>1, <1>2, <1>3
-----------------------------------------------------------------------------
(* The power failure, the boot, the first state                            *)

\* While every process is idle nothing is owed and nothing unfinished.
Quiescent == me = [p \in Users |-> Idle]

\* Nobody is making anything then.
LEMMA IdleHands ==
    ASSUME Quiescent
    PROVE  /\ Unfinished = {} /\ \A p \in Users : InHands(p)
           /\ \A j : Owed(me, j) = Owed(NoneOwed, j)
<1>1. \A p \in Users : me[p].at = "user" /\ me[p].put = <<>>
  BY DEF Quiescent, Idle
<1>2. \A i, p : p \in Users => ~Failed(p, i)
  BY <1>1 DEF Failed
<1>3. \A i : ~BeingMade(i)
  BY <1>1 DEF BeingMade
<1>4. Unfinished = {}
  BY <1>2, <1>3 DEF Unfinished
<1>5. \A p \in Users : InHands(p)
  BY <1>1, <1>2 DEF InHands
<1>6. me = NoneOwed
  BY DEF Quiescent, NoneOwed
<1> QED BY <1>4, <1>5, <1>6

\* What holds between a power failure and the first process.
Calm ==
    /\ Quiescent /\ panic = "none"
    /\ Tree(fs, buried, {}) /\ Counted(fs, NoneOwed, buried)
    /\ Tree(disk, buriedDisk, {}) /\ Counted(disk, NoneOwed, buriedDisk)
    /\ boot = 0 => InTable
    /\ boot # 0 => \A p \in Users : fs.ino[cwd[p]].nlink > 0

\* It is sound.
LEMMA CalmJoined == Calm => Joined
<1> SUFFICES ASSUME Calm PROVE Joined
  OBVIOUS
<1>1. /\ Unfinished = {} /\ \A p \in Users : InHands(p)
      /\ \A j : Owed(me, j) = Owed(NoneOwed, j)
  BY IdleHands DEF Calm
<1>2. Counted(fs, NoneOwed, buried) /\ Same(fs, fs)
  BY DEF Calm, Same
<1>3. Counted(fs, me, buried)
  BY <1>1, <1>2, CountedOwed
<1> QED BY <1>1, <1>3 DEF Calm, Joined

\* Crash.
LEMMA CrashJoined == ASSUME Tables, Joined, Crash PROVE Joined'
<1>1. /\ fs' = disk /\ buried' = buriedDisk /\ disk' = disk /\ buriedDisk' = buriedDisk
      /\ me' = [p \in Users |-> Idle] /\ cwd' = [p \in Users |-> Root] /\ panic' = "none"
      /\ boot' = Root /\ Root # 0 /\ disk \in FsTypes
  BY DEF Crash, Root, Tables, FilesTypes
<1>2. Tree(disk, buriedDisk, {}) /\ Counted(disk, NoneOwed, buriedDisk)
  BY DEF Joined
<1>3. disk.ino[Root].nlink > 0
  BY <1>1, <1>2, RootHasLink
<1>4. Calm'
  BY <1>1, <1>2, <1>3 DEF Calm, Quiescent
<1> QED BY <1>4, CalmJoined, PTL

\* The first process starts.
LEMMA BootedJoined == ASSUME Tables, Joined, Booted PROVE Joined'
<1>1. /\ boot # 0 /\ boot' = 0
      /\ itab' = [i \in Inums |-> Entry(Cardinality({p \in Users : cwd[p] = i}), FALSE, FreeInode)]
      /\ UNCHANGED <<fs, disk, ilk, me, panic, buried, buriedDisk>>
  BY Constants DEF Booted, history
<1>2. me = [p \in Users |-> Idle] /\ ilk = [i \in Inums |-> Nobody]
  BY <1>1 DEF Tables, BootOK
<1>3. /\ panic = "none" /\ Tree(fs, buried, {}) /\ Counted(fs, NoneOwed, buried)
      /\ Tree(disk, buriedDisk, {}) /\ Counted(disk, NoneOwed, buriedDisk)
      /\ \A p \in Users : fs.ino[cwd[p]].nlink > 0
  <2>1. Unfinished = {} /\ \A j : Owed(me, j) = Owed(NoneOwed, j)
    BY <1>2, IdleHands DEF Quiescent
  <2>2. Tree(fs, buried, Unfinished) /\ Counted(fs, me, buried) /\ Same(fs, fs)
    BY DEF Joined, Same
  <2>3. Counted(fs, NoneOwed, buried)
    BY <2>1, <2>2, CountedOwed
  <2> QED BY <1>1, <2>1, <2>2, <2>3 DEF Joined
<1>4. \A i \in Inums : ~BeingFreed(i)'
  BY <1>1, <1>2 DEF BeingFreed
<1>5. ASSUME NEW i \in Inums, itab'[i].ref > 0 PROVE fs.ino[i].type # "none"
  <2> DEFINE S == {p \in Users : cwd[p] = i}
  <2>1. itab'[i].ref = Cardinality(S)
    BY <1>1 DEF Entry
  <2>2. S # {}
    <3> SUFFICES ASSUME S = {} PROVE FALSE
      OBVIOUS
    <3>1. Cardinality(S) = 0
      BY FS_EmptySet
    <3> QED BY <1>5, <2>1, <3>1
  <2>3. PICK p \in Users : cwd[p] = i
    BY <2>2
  <2>4. fs.ino[i].nlink > 0
    BY <1>3, <2>3
  <2>5. fs.ino[i].type = "none" => fs.ino[i].nlink = 0
    BY <1>3 DEF Tree, FreeNone
  <2> QED BY <2>4, <2>5
<1>6. InTable'
  BY <1>1, <1>4, <1>5 DEF InTable
<1>7. Calm'
  BY <1>1, <1>2, <1>3, <1>6 DEF Calm, Quiescent
<1> QED BY <1>7, CalmJoined, PTL

\* ireclaim() of an orphan leaves nothing of its contents.
LEMMA ReclaimWipes ==
    ASSUME NEW f \in FsTypes, BlocksFit(Bare(f)), NEW i \in Inums, Orphan(f.ino[i])
    PROVE  LET k == Iupdate(Itrunc(Ilock(Iget(Bare(f), i), i), i), i, FreeInode)
           IN  k.fs \in FsTypes /\ k.panic = "none" /\ Wipes(f, k.fs, i)
<1> DEFINE b == Bare(f)
           g == Iget(b, i)
           l == Ilock(g, i)
           t == Itrunc(l, i)
           k == Iupdate(t, i, FreeInode)
<1>1. /\ k.fs \in FsTypes /\ k.panic = "none" /\ k.fs.ino[i] = FreeInode
      /\ \A j \in Inums : j # i => k.fs.ino[j] = f.ino[j]
  BY ReclaimFacts
<1>2. b \in KernelTypes /\ b.fs = f /\ ~b.itab[i].valid /\ b.itab[i].ref = 0
  BY BareIs, UnusedFacts
<1> SUFFICES k.fs \in FsTypes /\ k.panic = "none" /\ Wipes(f, k.fs, i)
  OBVIOUS
<1> HIDE DEF b
<1>3. g \in KernelTypes /\ g.fs = f /\ ~g.itab[i].valid
  BY <1>2, IgetFacts
<1> HIDE DEF g
<1>4. l \in KernelTypes /\ l.fs = f
  <2>1. f.ino[i].type # "none"
    BY DEF Orphan
  <2> QED BY <1>3, <2>1, IlockFacts
<1> HIDE DEF l
<1>5. /\ t \in KernelTypes /\ t.fs.ents[i] = NoEnts
      /\ \A j \in Inums : j # i => t.fs.ents[j] = f.ents[j]
  BY <1>4, ItruncFacts
<1> HIDE DEF t
<1>6. k.fs.ents = t.fs.ents
  BY <1>5, Constants, IupdateFacts
<1>7. FreeInode.type = "none" /\ FreeInode.nlink = 0
  BY DEF FreeInode, Dinode
<1> HIDE DEF k
<1> QED BY <1>1, <1>5, <1>6, <1>7 DEF Wipes

\* Ireclaim.
LEMMA IreclaimJoined == ASSUME Tables, Stored, Joined, Ireclaim PROVE Joined'
<1> DEFINE k == Iupdate(Itrunc(Ilock(Iget(K, boot), boot), boot), boot, FreeInode)
           g == k.fs
<1>1. /\ boot \in Inums /\ boot # 0 /\ panic = "none" /\ boot' = boot + 1 /\ boot' # 0
      /\ UNCHANGED <<itab, ilk, me, cwd>>
      /\ \/ /\ Orphan(fs.ino[boot]) /\ fs' = g /\ panic' = k.panic /\ disk' = g
            /\ buried' = buried \ {boot} /\ buriedDisk' = buried \ {boot}
         \/ ~Orphan(fs.ino[boot]) /\ UNCHANGED <<fs, panic, disk, buried, buriedDisk>>
  BY DEF Ireclaim, Inums
<1>2. K = Bare(fs) /\ fs \in FsTypes /\ Quiescent /\ cwd \in [Users -> Inums]
  BY <1>1, BootState DEF Quiescent, Tables, FilesTypes
<1>3. BlocksFit(Bare(fs))
  BY <1>2 DEF Stored
<1>4. /\ Tree(fs, buried, {}) /\ Counted(fs, NoneOwed, buried)
      /\ Tree(disk, buriedDisk, {}) /\ Counted(disk, NoneOwed, buriedDisk)
      /\ \A p \in Users : fs.ino[cwd[p]].nlink > 0
  <2>1. Unfinished = {} /\ \A j : Owed(me, j) = Owed(NoneOwed, j)
    BY <1>2, IdleHands
  <2>2. Tree(fs, buried, Unfinished) /\ Counted(fs, me, buried) /\ Same(fs, fs)
    BY DEF Joined, Same
  <2>3. Counted(fs, NoneOwed, buried)
    BY <2>1, <2>2, CountedOwed
  <2> QED BY <1>1, <2>1, <2>2, <2>3 DEF Joined
<1>5. CASE ~Orphan(fs.ino[boot]) /\ UNCHANGED <<fs, panic, disk, buried, buriedDisk>>
  <2>1. Calm'
    BY <1>1, <1>2, <1>4, <1>5 DEF Calm, Quiescent
  <2> QED BY <2>1, CalmJoined, PTL
<1>6. CASE /\ Orphan(fs.ino[boot]) /\ fs' = g /\ panic' = k.panic /\ disk' = g
           /\ buried' = buried \ {boot} /\ buriedDisk' = buried \ {boot}
  <2> PICK i \in Inums : i = boot
    BY <1>1
  <2>1. g \in FsTypes /\ k.panic = "none" /\ Wipes(fs, g, i)
    BY <1>2, <1>3, <1>6, ReclaimWipes
  <2>2. /\ fs' = g /\ disk' = g /\ panic' = "none"
        /\ buried' = buried \ {i} /\ buriedDisk' = buried \ {i}
    BY <1>6, <2>1
  <2>3. fs.ino[i].nlink = 0 /\ fs.ino[i].nlink <= 0
    BY <1>6 DEF Orphan
  <2> HIDE DEF k, g
  <2> DEFINE C == buried \ {i}
             B == buried
             M == NoneOwed
             U == {}
  <2>4. /\ B \subseteq C \union {i} /\ U \subseteq U \union {i}
        /\ Tree(fs, B, U) /\ Counted(fs, M, B) /\ \A j : Owed(M, j) = Owed(M, j)
    BY <1>4
  <2>5. \A j \in Inums : j \in B /\ j \notin C => g.ino[j].nlink = 0
    BY <2>1 DEF Wipes
  <2> HIDE DEF C, B, M, U
  <2>6. Tree(g, C, U)
    BY <1>2, <2>1, <2>3, <2>4, TreeWiped
  <2>7. Counted(g, M, B)
    BY <1>2, <2>1, <2>3, <2>4, CountedWiped
  <2>8. Counted(g, M, C)
    BY <2>1, <2>5, <2>7, CountedShrunk
  <2>9. \A p \in Users : g.ino[cwd[p]].nlink > 0
    <3> SUFFICES ASSUME NEW p \in Users PROVE g.ino[cwd[p]].nlink > 0
      OBVIOUS
    <3>1. fs.ino[cwd[p]].nlink > 0 /\ cwd[p] \in Inums
      BY <1>2, <1>4
    <3>2. cwd[p] # i
      BY <2>3, <3>1
    <3> QED BY <2>1, <3>1, <3>2 DEF Wipes
  <2>10. Calm'
    BY <1>1, <1>2, <2>2, <2>6, <2>8, <2>9 DEF Calm, Quiescent, C, M, U
  <2> QED BY <2>10, CalmJoined, PTL
<1> QED BY <1>1, <1>5, <1>6

\* The directories of the image: a in the root, b in a.
ImageTree(f, t) ==
    /\ f.ino[1].type = "dir" /\ f.ino[2].type = "dir" /\ f.ino[3].type = t
    /\ f.ino[1].nlink = 2 /\ f.ino[2].nlink = 1 + One(t = "dir") /\ f.ino[3].nlink = 1
    /\ \A i \in Inums \ {1, 2, 3} : f.ino[i].type = "none" /\ f.ino[i].nlink = 0
    /\ f.ents[1][Dot] = 1 /\ f.ents[1][DotDot] = 1 /\ f.ents[1]["a"] = 2
    /\ \A n \in Names : n # "a" => f.ents[1][n] = 0
    /\ f.ents[2][Dot] = 2 /\ f.ents[2][DotDot] = 1 /\ f.ents[2]["b"] = 3
    /\ \A n \in Names : n # "b" => f.ents[2][n] = 0
    /\ \A n \in Names : f.ents[3][n] = 0
    /\ t = "dir" => f.ents[3][Dot] = 3 /\ f.ents[3][DotDot] = 2
    /\ t # "dir" => f.ents[3] = NoEnts
    /\ \A i \in Inums \ {1, 2, 3} : f.ents[i] = NoEnts

\* These they are.
LEMMA ImageShape == ASSUME NEW t \in {"file", "dir"} PROVE ImageTree(Image(t), t)
<1> DEFINE f == Image(t)
<1>1. /\ {1, 2, 3} \subseteq Inums /\ Dot \notin Names /\ DotDot \notin Names /\ Dot # DotDot
      /\ Entries = Names \union {Dot, DotDot} /\ {"a", "b"} \subseteq Names
      /\ \A n \in Entries : NoEnts[n] = 0
  BY FilesAssumption DEF Inums, Entries, NoEnts, Dot, DotDot
<1>2. /\ f.ino[1].type = "dir" /\ f.ino[2].type = "dir" /\ f.ino[3].type = t
      /\ f.ino[1].nlink = 2 /\ f.ino[3].nlink = 1
  BY <1>1 DEF Image
<1>3. f.ino[2].nlink = 1 + One(t = "dir")
  BY <1>1 DEF Image, One
<1>4. \A i \in Inums \ {1, 2, 3} : f.ino[i].type = "none" /\ f.ino[i].nlink = 0
  BY DEF Image, FreeInode, Dinode
<1>5. /\ f.ents[1] = [NoEnts EXCEPT ![Dot] = 1, ![DotDot] = 1, !["a"] = 2]
      /\ f.ents[2] = [NoEnts EXCEPT ![Dot] = 2, ![DotDot] = 1, !["b"] = 3]
      /\ f.ents[3] = IF t = "dir" THEN [NoEnts EXCEPT ![Dot] = 3, ![DotDot] = 2] ELSE NoEnts
      /\ \A i \in Inums \ {1, 2, 3} : f.ents[i] = NoEnts
  BY <1>1 DEF Image
<1> HIDE DEF f
<1>6. NoEnts \in [Entries -> Inums \union {0}]
  BY Constants
<1>7. /\ f.ents[1][Dot] = 1 /\ f.ents[1][DotDot] = 1 /\ f.ents[1]["a"] = 2
      /\ \A n \in Names : n # "a" => f.ents[1][n] = 0
  BY <1>1, <1>5, <1>6
<1>8. /\ f.ents[2][Dot] = 2 /\ f.ents[2][DotDot] = 1 /\ f.ents[2]["b"] = 3
      /\ \A n \in Names : n # "b" => f.ents[2][n] = 0
  BY <1>1, <1>5, <1>6
<1>9. /\ \A n \in Names : f.ents[3][n] = 0
      /\ t = "dir" => f.ents[3][Dot] = 3 /\ f.ents[3][DotDot] = 2
      /\ t # "dir" => f.ents[3] = NoEnts
  BY <1>1, <1>5, <1>6
<1> QED BY <1>2, <1>3, <1>4, <1>5, <1>7, <1>8, <1>9 DEF ImageTree, f

\* They are a tree, whose links are counted.
LEMMA ImageJoined ==
    ASSUME NEW t \in {"file", "dir"}, NEW f, ImageTree(f, t)
    PROVE  Tree(f, {}, {}) /\ Counted(f, NoneOwed, {})
<1>1. /\ {1, 2, 3} \subseteq Inums /\ Dot \notin Names /\ DotDot \notin Names /\ Dot # DotDot
      /\ Entries = Names \union {Dot, DotDot} /\ {"a", "b"} \subseteq Names /\ "a" # "b"
      /\ \A n \in Entries : NoEnts[n] = 0
      /\ 0 \notin Inums /\ Root = 1
  BY FilesAssumption DEF Inums, Entries, NoEnts, Dot, DotDot, Root
<1>2. /\ \A d, i \in Inums, n \in Names : f.ents[d][n] = i =>
            (d = 1 /\ n = "a" /\ i = 2) \/ (d = 2 /\ n = "b" /\ i = 3)
      /\ \A d, i \in Inums : f.ents[d][DotDot] = i =>
            (d = 1 /\ i = 1) \/ (d = 2 /\ i = 1) \/ (d = 3 /\ i = 2 /\ t = "dir")
  <2>1. ASSUME NEW d \in Inums, NEW i \in Inums, NEW n \in Names, f.ents[d][n] = i
        PROVE  (d = 1 /\ n = "a" /\ i = 2) \/ (d = 2 /\ n = "b" /\ i = 3)
    <3>1. CASE d \in {1, 2, 3}
      BY <1>1, <2>1, <3>1 DEF ImageTree
    <3>2. CASE d \notin {1, 2, 3}
      BY <1>1, <2>1, <3>2 DEF ImageTree
    <3> QED BY <3>1, <3>2
  <2>2. ASSUME NEW d \in Inums, NEW i \in Inums, f.ents[d][DotDot] = i
        PROVE  (d = 1 /\ i = 1) \/ (d = 2 /\ i = 1) \/ (d = 3 /\ i = 2 /\ t = "dir")
    <3>1. CASE d \in {1, 2, 3}
      BY <1>1, <2>2, <3>1 DEF ImageTree
    <3>2. CASE d \notin {1, 2, 3}
      BY <1>1, <2>2, <3>2 DEF ImageTree
    <3> QED BY <3>1, <3>2
  <2> QED BY <2>1, <2>2
<1>3. ~Removed(f, 1) /\ ~Removed(f, 2) /\ ~Removed(f, 3)
  BY <1>1 DEF Removed, ImageTree
<1>4. FreeNone(f)
  BY <1>1 DEF FreeNone, ImageTree
<1>5. DirsOnly(f)
  BY <1>1 DEF DirsOnly, ImageTree
<1>6. RootTop(f)
  BY <1>1, <1>2 DEF RootTop, ImageTree
<1>7. DotsOK(f, {})
  <2> SUFFICES ASSUME NEW d \in Inums
               PROVE  /\ f.ents[d][Dot] \in {0, d}
                      /\ f.ino[d].type = "dir" => f.ents[d][Dot] = d /\ f.ents[d][DotDot] # 0
    BY DEF DotsOK
  <2>1. CASE d \in {1, 2, 3}
    BY <1>1, <2>1 DEF ImageTree
  <2>2. CASE d \notin {1, 2, 3}
    BY <1>1, <2>2 DEF ImageTree
  <2> QED BY <2>1, <2>2
<1>8. OneName(f)
  <2> SUFFICES ASSUME NEW d \in Inums, NEW i \in Inums, NEW n \in Names, f.ents[d][n] = i,
                      f.ino[i].type = "dir"
               PROVE  f.ents[i][DotDot] = d /\ \A l \in Names : f.ents[d][l] = i => l = n
    BY DEF OneName
  <2>1. (d = 1 /\ n = "a" /\ i = 2) \/ (d = 2 /\ n = "b" /\ i = 3)
    BY <1>2
  <2>2. f.ents[i][DotDot] = d
    BY <2>1 DEF ImageTree
  <2>3. \A l \in Names : f.ents[d][l] = i => l = n
    BY <1>2, <2>1
  <2> QED BY <2>2, <2>3
<1>9. Burying(f, {})
  BY <1>2, <1>3 DEF Burying
<1>10. Tree(f, {}, {})
  BY <1>4, <1>5, <1>6, <1>7, <1>8, <1>9 DEF Tree
<1>11. \A i : Cardinality(Owed(NoneOwed, i)) = 0
  <2>1. \A i : Owed(NoneOwed, i) = {}
    BY DEF Owed, Owes, NoneOwed, Idle
  <2> QED BY <2>1, FS_EmptySet
<1>12. \A x, y : Cardinality({x}) = 1 /\ (x # y => Cardinality({x, y}) = 2)
  <2> TAKE x, y
  <2>1. Cardinality({x}) = 1 /\ IsFiniteSet({x})
    BY FS_Singleton
  <2>2. x # y => Cardinality({x} \union {y}) = Cardinality({x}) + 1
    BY <2>1, FS_AddElement
  <2>3. {x, y} = {x} \union {y}
    OBVIOUS
  <2> QED BY <2>1, <2>2, <2>3
<1>13. /\ Links(f, 1) = {<<2, DotDot>>} /\ Links(f, 3) = {<<2, "b">>}
       /\ t = "dir" => Links(f, 2) = {<<1, "a">>, <<3, DotDot>>}
       /\ t # "dir" => Links(f, 2) = {<<1, "a">>}
       /\ \A i \in Inums \ {1, 2, 3} : Links(f, i) = {}
  <2>1. ASSUME NEW d \in Inums, NEW n \in Names \union {DotDot}, NEW i \in Inums
        PROVE  <<d, n>> \in Links(f, i) <=>
                   \/ i = 1 /\ d = 2 /\ n = DotDot
                   \/ i = 2 /\ d = 1 /\ n = "a"
                   \/ i = 2 /\ d = 3 /\ n = DotDot /\ t = "dir"
                   \/ i = 3 /\ d = 2 /\ n = "b"
    <3>1. <<d, n>> \in Links(f, i) <=>
              f.ents[d][n] = i /\ (n = DotDot => d # Root /\ ~Removed(f, d))
      BY DEF Links
    <3>2. CASE n = DotDot
      <4>1. f.ents[d][DotDot] = i /\ d # 1 <=>
                (d = 2 /\ i = 1) \/ (d = 3 /\ i = 2 /\ t = "dir")
        BY <1>1, <1>2 DEF ImageTree
      <4> QED BY <1>1, <1>3, <3>1, <3>2, <4>1
    <3>3. CASE n # DotDot
      <4>1. f.ents[d][n] = i <=> (d = 1 /\ n = "a" /\ i = 2) \/ (d = 2 /\ n = "b" /\ i = 3)
        BY <1>2, <3>3 DEF ImageTree
      <4> QED BY <3>1, <3>3, <4>1
    <3> QED BY <3>2, <3>3
  <2>2. \A i : \A x \in Links(f, i) :
            \E d \in Inums, n \in Names \union {DotDot} : x = <<d, n>>
    BY DEF Links
  <2>3. Links(f, 1) = {<<2, DotDot>>} /\ Links(f, 3) = {<<2, "b">>}
    BY <1>1, <2>1, <2>2
  <2>4. t = "dir" => Links(f, 2) = {<<1, "a">>, <<3, DotDot>>}
    BY <1>1, <2>1, <2>2
  <2>5. t # "dir" => Links(f, 2) = {<<1, "a">>}
    BY <1>1, <2>1, <2>2
  <2>6. \A i \in Inums \ {1, 2, 3} : Links(f, i) = {}
    BY <2>1, <2>2
  <2> QED BY <2>3, <2>4, <2>5, <2>6
<1>14. /\ Cardinality(Links(f, 1)) = 1 /\ Cardinality(Links(f, 3)) = 1
       /\ Cardinality(Links(f, 2)) = 1 + One(t = "dir")
       /\ \A i \in Inums \ {1, 2, 3} : Cardinality(Links(f, i)) = 0
  <2>1. Cardinality(Links(f, 1)) = 1 /\ Cardinality(Links(f, 3)) = 1
    BY <1>12, <1>13
  <2>2. <<1, "a">> # <<3, DotDot>>
    OBVIOUS
  <2>3. t = "dir" => Cardinality(Links(f, 2)) = 2
    <3> DEFINE x == <<1, "a">>
               y == <<3, DotDot>>
    <3>1. x # y /\ (t = "dir" => Links(f, 2) = {x, y})
      BY <1>13, <2>2
    <3> HIDE DEF x, y
    <3>2. Cardinality({x, y}) = 2
      BY <1>12, <3>1
    <3> QED BY <3>1, <3>2
  <2>4. t # "dir" => Cardinality(Links(f, 2)) = 1
    BY <1>12, <1>13
  <2>5. Cardinality(Links(f, 2)) = 1 + One(t = "dir")
    BY <2>3, <2>4 DEF One
  <2>6. \A i \in Inums \ {1, 2, 3} : Cardinality(Links(f, i)) = 0
    BY <1>13, FS_EmptySet
  <2> QED BY <2>1, <2>5, <2>6
<1>15. \A i \in Inums : f.ino[i].nlink = Total(f, NoneOwed, i) /\ f.ino[i].nlink \in Int
  <2> SUFFICES ASSUME NEW i \in Inums
               PROVE  f.ino[i].nlink = Total(f, NoneOwed, i) /\ f.ino[i].nlink \in Int
    OBVIOUS
  <2>1. Total(f, NoneOwed, i) = One(i = Root) + Cardinality(Links(f, i)) + 0
    BY <1>11 DEF Total
  <2>2. One(t = "dir") \in {0, 1}
    BY DEF One
  <2>3. CASE i = 1
    BY <1>1, <1>14, <2>1, <2>3 DEF ImageTree, One
  <2>4. CASE i = 2
    <3>1. One(i = Root) = 0
      BY <1>1, <2>4 DEF One
    <3> QED BY <1>14, <2>1, <2>2, <2>4, <3>1 DEF ImageTree
  <2>5. CASE i = 3
    BY <1>1, <1>14, <2>1, <2>5 DEF ImageTree, One
  <2>6. CASE i \notin {1, 2, 3}
    <3>1. One(i = Root) = 0
      BY <1>1, <2>6 DEF One
    <3> QED BY <1>14, <2>1, <2>6, <3>1 DEF ImageTree
  <2> QED BY <2>3, <2>4, <2>5, <2>6
<1>16. Counted(f, NoneOwed, {})
  BY <1>15 DEF Counted
<1> QED BY <1>10, <1>16

\* The first state is sound.
LEMMA InitJoined == Init => Consistent
<1> SUFFICES ASSUME Init PROVE Consistent
  OBVIOUS
<1>1. /\ disk = fs /\ panic = "none" /\ me = [p \in Users |-> Idle] /\ buried = {}
      /\ buriedDisk = {} /\ boot # 0
      /\ cwd \in [Users -> IF fs.ino[3].type = "dir" THEN {Root, 3} ELSE {Root}]
  BY Constants DEF Init
<1>2. PICK t \in {"file", "dir"} : fs = Image(t)
  BY DEF Init
<1>3. ImageTree(fs, t)
  BY <1>2, ImageShape
<1>4. Tree(fs, {}, {}) /\ Counted(fs, NoneOwed, {})
  BY <1>3, ImageJoined
<1>5. \A p \in Users : fs.ino[cwd[p]].nlink > 0
  <2>1. \A p \in Users : cwd[p] \in {1, 3}
    BY <1>1 DEF Root
  <2> QED BY <1>3, <2>1 DEF ImageTree
<1>6. Calm
  BY <1>1, <1>4, <1>5 DEF Calm, Quiescent
<1> QED BY <1>6, CalmJoined DEF Consistent
-----------------------------------------------------------------------------
(* The theorems                                                            *)

\* What was seen to be dangling stays so.
LEMMA DanglingStays == ASSUME [Next]_vars, dangling PROVE dangling'
<1>1. ASSUME NEW p \in Users, NEW c \in Calls, Begin(p, c) PROVE dangling'
  BY <1>1 DEF Begin, history
<1>2. ASSUME NEW p \in Users, WalkEnd(p) \/ Walk(p) \/ Iput(p) \/ IputEnd(p) \/ EndOp(p)
      PROVE  dangling'
  BY <1>2 DEF WalkEnd, Walk, Iput, IputEnd, EndOp, history
<1>3. ASSUME NEW p \in Users,
             LinkOld(p) \/ LinkNew(p) \/ LinkBad(p) \/ Unlink(p) \/ UnlinkChild(p) \/ UnlinkLast(p)
      PROVE  dangling'
  BY <1>3 DEF LinkOld, LinkNew, LinkBad, Unlink, UnlinkChild, UnlinkLast, history
<1>4. ASSUME NEW p \in Users,
             Create(p) \/ CreateOld(p) \/ CreateNew(p) \/ CreateFail(p) \/ Made(p)
      PROVE  dangling'
  BY <1>4 DEF Create, CreateOld, CreateNew, CreateFail, Made, history
<1>5. ASSUME NEW p \in Users, Open(p) \/ OpenFile(p) \/ Chdir(p) \/ ChdirEnd(p) PROVE dangling'
  BY <1>5 DEF Open, OpenFile, Chdir, ChdirEnd, history
<1>6. ASSUME NEW p \in Users, NEW d \in 1 .. NOFile, Close(p, d) \/ Dup(p, d) \/ Read(p, d)
      PROVE  dangling'
  BY <1>6 DEF Close, Dup, Read, history
<1>7. ASSUME NEW p \in Users, NEW d \in 1 .. NOFile, NEW n \in WriteSizes, Write(p, d, n)
      PROVE  dangling'
  BY <1>7 DEF Write, history
<1>8. ASSUME NEW p \in Users, WriteOp(p) \/ WriteBlock(p) \/ WriteEnd(p) PROVE dangling'
  BY <1>8 DEF WriteOp, WriteBlock, WriteEnd, history
<1>9. CASE Crash \/ Ireclaim \/ Booted
  BY <1>9 DEF Crash, Ireclaim, Booted, history
<1>10. CASE UNCHANGED vars
  BY <1>10 DEF vars, history
<1> QED BY <1>1, <1>2, <1>3, <1>4, <1>5, <1>6, <1>7, <1>8, <1>9, <1>10 DEF Next

\* Every step keeps the directories a tree and the links counted, unless it sees a dangling "..".
LEMMA JoinedKept ==
    ASSUME Tables, Ordered, Stored, Joined, [Next]_vars, ~dangling' PROVE Joined'
<1>1. ASSUME NEW p \in Users, NEW c \in Calls, Begin(p, c) PROVE Joined'
  BY <1>1, BeginJoined
<1>2. ASSUME NEW p \in Users, WalkEnd(p) \/ Walk(p) \/ Iput(p) \/ IputEnd(p) \/ EndOp(p)
      PROVE  Joined'
  BY <1>2, WalkEndJoined, WalkJoined, IputJoined, IputEndJoined, EndOpJoined
<1>3. ASSUME NEW p \in Users,
             LinkOld(p) \/ LinkNew(p) \/ LinkBad(p) \/ Unlink(p) \/ UnlinkChild(p) \/ UnlinkLast(p)
      PROVE  Joined'
  BY <1>3, LinkOldJoined, LinkNewJoined, LinkBadJoined, UnlinkJoined, UnlinkChildJoined,
     UnlinkLastJoined
<1>4. ASSUME NEW p \in Users,
             Create(p) \/ CreateOld(p) \/ CreateNew(p) \/ CreateFail(p) \/ Made(p)
      PROVE  Joined'
  BY <1>4, CreateJoined, LooksJoined, CreateNewJoined, ReleaseJoined
<1>5. ASSUME NEW p \in Users, Open(p) \/ OpenFile(p) \/ Chdir(p) \/ ChdirEnd(p) PROVE Joined'
  BY <1>5, LooksJoined, OpenFileJoined, ChdirEndJoined
<1>6. ASSUME NEW p \in Users, NEW d \in 1 .. NOFile, Close(p, d) \/ Dup(p, d) \/ Read(p, d)
      PROVE  Joined'
  BY <1>6, CloseJoined, DupJoined, ReadJoined
<1>7. ASSUME NEW p \in Users, NEW d \in 1 .. NOFile, NEW n \in WriteSizes, Write(p, d, n)
      PROVE  Joined'
  BY <1>7, WriteJoined
<1>8. ASSUME NEW p \in Users, WriteOp(p) \/ WriteBlock(p) \/ WriteEnd(p) PROVE Joined'
  BY <1>8, WriteOpJoined, WriteBlockJoined, WriteEndJoined
<1>9. CASE Crash \/ Ireclaim \/ Booted
  BY <1>9, CrashJoined, IreclaimJoined, BootedJoined
<1>10. CASE UNCHANGED vars
  <2>1. UNCHANGED <<fs, disk, inTx, itab, ilk, me, cwd, boot, panic, buried, buriedDisk>>
    BY <1>10 DEF vars, history
  <2>2. \A p : \A i : (Failed(p, i)' <=> Failed(p, i))
    BY <2>1 DEF Failed
  <2>3. \A i : /\ BeingFreed(i)' <=> BeingFreed(i)
               /\ BeingMade(i)' <=> BeingMade(i)
    BY <2>1 DEF BeingFreed, Frees, BeingMade
  <2>4. Unfinished' = Unfinished
    BY <2>2, <2>3 DEF Unfinished
  <2>5. InTable' <=> InTable
    BY <2>1, <2>3 DEF InTable
  <2>6. ASSUME NEW p \in Users PROVE InHands(p)'
    <3>1. InHands(p)
      BY DEF Joined
    <3>2. LastName(p)' = LastName(p)
      BY <2>1 DEF LastName
    <3>3. (One(BeingFreed(me[p].ip)))' = One(BeingFreed(me[p].ip))
      BY <2>1 DEF One, BeingFreed, Frees
    <3> QED BY <2>1, <2>2, <2>3, <3>1, <3>2, <3>3 DEF InHands
  <2> QED BY <2>1, <2>4, <2>5, <2>6 DEF Joined
<1> QED BY <1>1, <1>2, <1>3, <1>4, <1>5, <1>6, <1>7, <1>8, <1>9, <1>10 DEF Next

\* The inductive invariant.
LEMMA ConsistentAlways == Spec => []Consistent
<1>1. Init => Tables /\ Ordered /\ Stored /\ Consistent
  BY InitTables, InitOrder, InitStored, InitJoined
<1>2. Tables /\ Ordered /\ Stored /\ Consistent /\ [Next]_vars => Consistent'
  BY JoinedKept, DanglingStays DEF Consistent
<1>3. Tables /\ Ordered /\ Stored /\ Consistent /\ [Next]_vars
          => (Tables /\ Ordered /\ Stored /\ Consistent)'
  BY <1>2, TablesKept, OrderKept, StoredKept
<1> QED BY <1>1, <1>3, PTL DEF Spec

\* The entries that the property counts are the links.
LEMMA EntriesAreLinks ==
    ASSUME NEW f, NEW i \in Inums
    PROVE  EntriesOf(f, i) = One(i = Root) + Cardinality(Links(f, i))
<1> DEFINE A == {e \in Inums \X Names : f.ents[e[1]][e[2]] = i}
           B == {d \in Inums \ {Root} : f.ents[d][DotDot] = i /\ ~Removed(f, d)}
           C == {x \in Links(f, i) : x[2] = DotDot}
           h == [d \in B |-> <<d, DotDot>>]
<1>1. DotDot \notin Names
  BY FilesAssumption
<1>2. C = {x \in Inums \X {DotDot} : x[1] \in B}
  BY DEF Links
<1>3. h \in Bijection(B, C)
  <2>1. \A d \in B : <<d, DotDot>> \in C
    BY <1>2
  <2>2. \A x \in C : x[1] \in B /\ x = <<x[1], DotDot>>
    BY <1>2
  <2> HIDE DEF B, C
  <2>3. h \in [B -> C]
    BY <2>1
  <2>4. h \in Injection(B, C)
    BY <2>3 DEF Injection, IsInjective
  <2>5. \A x \in C : \E d \in B : h[d] = x
    BY <2>2
  <2> QED BY <2>3, <2>4, <2>5 DEF Bijection, Surjection
<1>4. ExistsBijection(B, C)
  BY <1>3 DEF ExistsBijection
<1>5. IsFiniteSet(Inums) /\ IsFiniteSet(B)
  <2>1. IsFiniteSet(Inums)
    BY Constants, FS_Interval DEF Inums
  <2>2. B \subseteq Inums
    OBVIOUS
  <2> QED BY <2>1, <2>2, FS_Subset
<1>6. Links(f, i) = A \union C /\ A \intersect C = {}
  <2>1. A \subseteq Links(f, i)
    BY <1>1 DEF Links
  <2>2. \A x \in Links(f, i) : x \in A \/ x \in C
    BY DEF Links
  <2>3. \A x \in A : x[2] # DotDot
    BY <1>1
  <2> QED BY <2>1, <2>2, <2>3
<1>7. IsFiniteSet(A) /\ IsFiniteSet(C) /\ IsFiniteSet(Links(f, i))
  BY <1>6, LinksFinite, FS_Subset
<1>8. EntriesOf(f, i) = One(i = Root) + Cardinality(A) + Cardinality(B)
  BY DEF EntriesOf, One
<1> DEFINE L == Links(f, i)
<1>9. L = A \union C /\ A \intersect C = {}
  BY <1>6
<1> HIDE DEF A, B, C, L
<1>10. Cardinality(C) = Cardinality(B)
  BY <1>4, <1>5, FS_Bijection
<1>11. Cardinality(L) = Cardinality(A) + Cardinality(C) - Cardinality({})
  BY <1>7, <1>9, FS_Union
<1>12. Cardinality({}) = 0 /\ Cardinality(A) \in Nat /\ Cardinality(C) \in Nat
  BY <1>7, FS_EmptySet, FS_CardinalityType
<1>13. One(i = Root) \in Nat
  BY DEF One
<1>14. Cardinality(L) = Cardinality(A) + Cardinality(B)
  BY <1>10, <1>11, <1>12
<1>15. EntriesOf(f, i) = One(i = Root) + Cardinality(L)
  <2> DEFINE a == Cardinality(A)
             b == Cardinality(B)
             o == One(i = Root)
  <2>1. a \in Nat /\ b \in Nat /\ o \in Nat
    BY <1>10, <1>12, <1>13
  <2> HIDE DEF a, b, o
  <2>2. (o + a) + b = o + (a + b)
    BY <2>1
  <2> QED BY <1>8, <1>14, <2>2 DEF a, b, o
<1> QED BY <1>15 DEF L

\* On the disk every name is a link.
LEMMA DiskLinks == ASSUME Tables, Consistent PROVE LinksOnDisk
<1> SUFFICES ASSUME Joined PROVE LinksOnDisk
  BY DEF Consistent, LinksOnDisk
<1>1. /\ disk \in FsTypes /\ Tree(disk, buriedDisk, {}) /\ Counted(disk, NoneOwed, buriedDisk)
  BY DEF Joined, Tables, FilesTypes
<1>2. ASSUME NEW i \in Inums, i \notin buriedDisk PROVE disk.ino[i].nlink = EntriesOf(disk, i)
  <2>1. disk.ino[i].nlink = Total(disk, NoneOwed, i)
    BY <1>1, <1>2 DEF Counted
  <2>2. Cardinality(Owed(NoneOwed, i)) = 0
    <3>1. Owed(NoneOwed, i) = {}
      BY DEF Owed, Owes, NoneOwed, Idle
    <3> QED BY <3>1, FS_EmptySet
  <2>3. Cardinality(Links(disk, i)) \in Nat /\ One(i = Root) \in Nat
    BY LinksFinite DEF One
  <2>4. Total(disk, NoneOwed, i) = One(i = Root) + Cardinality(Links(disk, i))
    BY <2>2, <2>3 DEF Total
  <2> QED BY <2>1, <2>4, EntriesAreLinks
<1>3. ASSUME NEW i \in Inums, NEW n \in Names, disk.ents[i][n] # 0
      PROVE  disk.ino[i].type = "dir" /\ disk.ino[disk.ents[i][n]].type # "none"
  <2>1. disk.ino[i].type = "dir"
    <3> SUFFICES ASSUME disk.ino[i].type # "dir" PROVE FALSE
      OBVIOUS
    <3>1. disk.ents[i] = NoEnts
      BY <1>1 DEF Tree, DirsOnly
    <3> QED BY <1>3, <3>1 DEF NoEnts, Entries
  <2>2. disk.ents[i][n] \in Inums
    BY <1>1, <1>3, FsParts DEF Dirs, Entries
  <2> DEFINE j == disk.ents[i][n]
  <2>3. j \in Inums /\ disk.ents[i][n] = j
    BY <2>2
  <2> HIDE DEF j
  <2>4. disk.ino[j].nlink > 0
    BY <1>1, <2>3, NamedHasLink
  <2>5. disk.ino[j].type # "none"
    BY <1>1, <2>3, <2>4 DEF Tree, FreeNone
  <2> QED BY <2>1, <2>3, <2>5
<1> QED BY <1>2, <1>3 DEF LinksOnDisk

\* Nothing panics, and nothing has fewer than no links.
LEMMA JoinedCalm == ASSUME Tables, Consistent PROVE NoPanic
<1> SUFFICES ASSUME Joined PROVE NoPanic
  BY DEF Consistent, NoPanic
<1>1. panic = "none" /\ fs \in FsTypes /\ Counted(fs, me, buried)
  BY DEF Joined, Tables, FilesTypes
<1>2. ASSUME NEW i \in Inums PROVE fs.ino[i].nlink >= 0
  <2>1. fs.ino[i].nlink >= Total(fs, me, i) /\ fs.ino[i].nlink \in Int
    BY <1>1, FsParts, DinodeParts DEF Counted
  <2>2. Total(fs, me, i) \in Nat
    BY TotalFacts
  <2> QED BY <2>1, <2>2
<1> QED BY <1>1, <1>2 DEF NoPanic

\* Whenever the power fails, the link counts on disk are those of the entries, and the entries
\* name allocated inodes (link, unlink, create, iput, ireclaim): the inodes entered into a
\* removed directory are excepted, and the states after a process went up from a directory
\* whose parent is gone.
THEOREM LinksAreSound == Spec => []LinksOnDisk
<1>1. Tables /\ Consistent => LinksOnDisk
  BY DiskLinks
<1> QED BY <1>1, StoredAlways, ConsistentAlways, PTL

\* No panic() is reached: nothing locks an inode that is free (ilock), frees a block twice
\* (bfree) or removes an entry of an inode without links (unlink), and no count of links goes
\* below zero, before a process goes up from a directory whose parent is gone.
THEOREM NothingPanics == Spec => []NoPanic
<1>1. Tables /\ Consistent => NoPanic
  BY JoinedCalm
<1> QED BY <1>1, StoredAlways, ConsistentAlways, PTL
=============================================================================
