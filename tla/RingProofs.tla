----------------------------- MODULE RingProofs -----------------------------
(***************************************************************************)
(* The rings of the repository, whose indices wrap around: the pipe and    *)
(* the console of xv6 and the command history of the shell.  Proved for    *)
(* any size of the ring, any range of the indices that the size divides,   *)
(* and any number of processes:                                            *)
(*                                                                         *)
(*  - every byte of a pipe is read once and in order (PipeIsFifo), nobody  *)
(*    sleeps in it without a reason (SleepsForAReason), and pi is freed    *)
(*    once, when nobody can use it any more (PipeLives);                   *)
(*  - the console keeps what is typed, in order, whatever is erased        *)
(*    (ConsoleInput), and its writers are woken (SerialOutput);            *)
(*  - the history holds the newest commands in order, in memory            *)
(*    (HistorySound) and in its file (Persistent), over restarts and kills.*)
(*                                                                         *)
(* And the ring of free memory, which has no indices but addresses:        *)
(*                                                                         *)
(*  - malloc() and free() give no memory away twice, lose none, and join   *)
(*    what is adjacent (HeapSound), for any heap and any requests.         *)
(***************************************************************************)
EXTENDS Xv6Pipe, Xv6Console, ShellLog, Xv6Malloc, FiniteSetTheorems, WellFoundedInduction, TLAPS
-----------------------------------------------------------------------------
(* Counters that wrap around                                               *)

\* Division with remainder.
LEMMA Division ==
    ASSUME NEW a \in Int, NEW m \in Nat \ {0}
    PROVE  /\ a \div m \in Int
           /\ a % m \in 0 .. m - 1
           /\ a = m * (a \div m) + (a % m)
OBVIOUS

\* The remainder is unique.
LEMMA Remainder ==
    ASSUME NEW a \in Int, NEW m \in Nat \ {0},
           NEW d \in Int, NEW r \in 0 .. m - 1, a = m * d + r
    PROVE  a % m = r
OBVIOUS

\* A counter within its range is its own remainder.
LEMMA InRange ==
    ASSUME NEW m \in Nat \ {0}, NEW a \in 0 .. m - 1
    PROVE  a % m = a
OBVIOUS

\* Whole turns do not count.
LEMMA WholeTurns ==
    ASSUME NEW a \in Int, NEW m \in Nat \ {0}, NEW k \in Int
    PROVE  (a + m * k) % m = a % m
<1> DEFINE d == a \div m
<1> DEFINE r == a % m
<1>1. d \in Int /\ r \in 0 .. m - 1 /\ a = m * d + r
  BY Division
<1> HIDE DEF d, r
<1>2. a + m * k = m * (d + k) + r /\ d + k \in Int
  BY <1>1
<1>3. a % m = r
  BY <1>1, Remainder
<1>4. (a + m * k) % m = r
  BY <1>1, <1>2, Remainder
<1> QED
  BY <1>3, <1>4

\* A counter that has wrapped around is moved on as one that has not.
LEMMA WrapThenAdd ==
    ASSUME NEW a \in Int, NEW b \in Int, NEW m \in Nat \ {0}
    PROVE  /\ ((a % m) + b) % m = (a + b) % m
           /\ (b - (a % m)) % m = (b - a) % m
<1> DEFINE d == a \div m
<1> DEFINE r == a % m
<1>1. d \in Int /\ r \in 0 .. m - 1 /\ a = m * d + r
  BY Division
<1> HIDE DEF d, r
<1>2. a + b = (r + b) + m * d /\ b - a = (b - r) + m * (-d)
  BY <1>1
<1>3. r + b \in Int /\ b - r \in Int /\ -d \in Int
  BY <1>1
<1>4. ((r + b) + m * d) % m = (r + b) % m
  BY <1>1, <1>3, WholeTurns, Zenon
<1>5. ((b - r) + m * (-d)) % m = (b - r) % m
  BY <1>3, WholeTurns, Zenon
<1>6. (a + b) % m = (r + b) % m /\ (b - a) % m = (b - r) % m
  BY <1>2, <1>4, <1>5, Zenon
<1> QED
  BY <1>6 DEF r

\* Less than a turn apart is apart.
LEMMA Apart ==
    ASSUME NEW a \in Int, NEW m \in Nat \ {0}, NEW k \in 1 .. m - 1
    PROVE  (a + k) % m # a % m
<1> DEFINE d == a \div m
<1> DEFINE r == a % m
<1>1. d \in Int /\ r \in 0 .. m - 1 /\ a = m * d + r
  BY Division
<1> HIDE DEF d, r
<1>2. a % m = r
  BY <1>1, Remainder
<1>3. CASE r + k < m
  <2>1. a + k = m * d + (r + k) /\ r + k \in 0 .. m - 1
    BY <1>1, <1>3
  <2>2. (a + k) % m = r + k
    BY <1>1, <2>1, Remainder
  <2> QED
    BY <1>1, <1>2, <2>2
<1>4. CASE r + k >= m
  <2> DEFINE s == r + k - m
  <2>1. a + k = m * (d + 1) + s /\ s \in 0 .. m - 1 /\ d + 1 \in Int /\ s # r
    BY <1>1, <1>4
  <2> HIDE DEF s
  <2>2. (a + k) % m = s
    <3>1. a + k \in Int
      OBVIOUS
    <3> QED
      BY <2>1, <3>1, Remainder, Zenon
  <2> QED
    BY <1>2, <2>1, <2>2
<1> QED
  BY <1>1, <1>3, <1>4

\* The place in a buffer does not jump when a counter wraps around: the size s of the
\* buffer divides the range m of the counter.
LEMMA SlotOfWrapped ==
    ASSUME NEW a \in Int, NEW m \in Nat \ {0}, NEW s \in Nat \ {0}, m % s = 0
    PROVE  (a % m) % s = a % s
<1> DEFINE q == m \div s
<1>2. q \in Int /\ m = s * q
  BY Division
<1> HIDE DEF q
<1> DEFINE d == a \div m
<1> DEFINE r == a % m
<1>3. d \in Int /\ r \in Int /\ a = m * d + r
  BY Division
<1> HIDE DEF d, r
<1>4. m * d = s * (q * d) /\ q * d \in Int
  BY <1>2, <1>3
<1>5. (r + s * (q * d)) % s = r % s
  BY <1>3, <1>4, WholeTurns, Zenon
<1>6. a % s = r % s
  <2>1. m * d + r = r + m * d
    BY <1>3
  <2> QED
    BY <1>3, <1>4, <1>5, <2>1, Zenon
<1> QED
  BY <1>6 DEF r

\* A non-empty set of numbers has a least one.
LEMMA Least ==
    ASSUME NEW S \in SUBSET Nat, S # {}
    PROVE  \E k \in S : \A m \in S : k <= m
<1> DEFINE Less == {ss \in Nat \X Nat : ss[1] < ss[2]}
<1>1. IsWellFoundedOn(Less, Nat)
  BY NatLessThanWellFounded, Zenon DEF OpToRel
<1>2. PICK k \in S : \A m \in S : <<m, k>> \notin Less
  <2> HIDE DEF Less
  <2> QED
    BY <1>1, WFMin
<1>3. \A m \in S : ~ (m < k)
  BY <1>2
<1> QED
  BY <1>3
-----------------------------------------------------------------------------
(* The pipe: its invariant                                                 *)

\* Where a process is when it holds pi->lock, when it is in pipewrite(), in
\* piperead(), and when it has dropped the last reference to end e.
Holding    == {"writing", "writeSleep", "reading", "readSleep",
               "closingRead", "closingWrite"}
Dozing     == {"writeDozes", "readDozes"}
Writer     == {"write", "writing", "writeSleep", "writeDozes"}
Reader     == {"read", "reading", "readSleep", "readDozes"}
Closing(e) == IF e = "read" THEN {"closeRead", "closingRead"}
              ELSE {"closeWrite", "closingWrite"}
Places     == Writer \union Reader
              \union {"user", "unused", "gone", "closeRead", "closingRead",
                      "closeWrite", "closingWrite"}

\* The types that TypeOK leaves out.
Typed ==
    /\ at \in [Procs -> Places]
    /\ sent \in 0 .. Modulus - 1 /\ got \in 0 .. Modulus - 1
    /\ ordered \in BOOLEAN /\ untold \in BOOLEAN

\* Who holds the locks.
Locks ==
    \A p \in Procs :
        /\ lock = p <=> at[p] \in Holding
        /\ p \in plock <=> at[p] \in Dozing

\* Who has the files: an end is open while a process has a file for it, or
\* one, and only one, is about to close it.
FileOwners ==
    /\ \A e \in Ends : e \in open <=>
         \E p \in Procs : e \in files[p] \/ at[p] \in Closing(e)
    /\ \A p \in Procs, e \in Ends : at[p] \in Closing(e) =>
         \A q \in Procs : e \notin files[q] /\ (q # p => at[q] \notin Closing(e))
    /\ \A p \in Procs :
         /\ at[p] \in Writer => "write" \in files[p]
         /\ at[p] \in Reader => "read" \in files[p]
         /\ at[p] \in {"unused", "gone"} => files[p] = {}
    /\ freed = IF open = {} THEN 1 ELSE 0

\* The buffer is never overrun, and holds the bytes sent and not yet got.
Window == Buffered <= PipeSize /\ PipeIsFifo

\* Why processes sleep, or go to sleep, at every moment.  A writer that has
\* written bytes has not yet woken the readers.
Sleepers ==
    \A q \in Procs :
        /\ at[q] = "readSleep" => nread = nwrite /\ "write" \in open
        /\ chan[q] = "nread" \/ at[q] = "readDozes" =>
             /\ "write" \in open
             /\ \/ nread = nwrite \/ untold
                \/ \E p \in Procs : at[p] = "writing" /\ done[p] > 0
        /\ chan[q] = "nwrite" \/ at[q] \in {"writeSleep", "writeDozes"} =>
             Buffered = PipeSize /\ "read" \in open

\* The inductive invariant.
PipeInv ==
    /\ TypeOK
    /\ Typed
    /\ Locks
    /\ FileOwners
    /\ Window
    /\ Sleepers
-----------------------------------------------------------------------------
(* Its counters                                                            *)

\* The slot of a byte in pi->data.
LEMMA SlotOfByte ==
    ASSUME NEW a \in Int
    PROVE  (a % Modulus) % PipeSize = a % PipeSize
BY Xv6PipeAssumption, SlotOfWrapped

\* pi->nwrite - pi->nread, for counters n and w that may have wrapped around.
LEMMA Distance ==
    ASSUME NEW n \in 0 .. Modulus - 1, NEW w \in 0 .. Modulus - 1
    PROVE  LET d == (w - n) % Modulus
           IN  /\ d \in 0 .. Modulus - 1
               /\ w = Advance(n, d)
               /\ d = 0 <=> n = w
               /\ d = PipeSize <=> w = Advance(n, PipeSize)
               /\ d + 1 < Modulus => (Advance(w, 1) - n) % Modulus = d + 1
               /\ \A k \in 0 .. d : (w - Advance(n, k)) % Modulus = d - k
<1> DEFINE d == (w - n) % Modulus
<1>1. Modulus \in Nat \ {0} /\ PipeSize \in Nat \ {0} /\ PipeSize < Modulus
  BY Xv6PipeAssumption
<1>2. d \in 0 .. Modulus - 1 /\ d \in Int /\ n \in Int /\ w \in Int
  BY <1>1, Division
<1>ints. w - n \in Int /\ -n \in Int /\ 1 \in Int /\ w + 1 \in Int /\ n + PipeSize \in Int
  BY <1>1, <1>2
<1>3. w = Advance(n, d)
  <2>1. (d + n) % Modulus = (w - n + n) % Modulus
    BY <1>1, <1>2, <1>ints, WrapThenAdd, Zenon
  <2>2. (w - n + n) = w /\ d + n = n + d
    BY <1>2
  <2> QED
    BY <1>1, <2>1, <2>2, InRange DEF Advance
<1>4. n = w => d = 0
  <2>1. 0 % Modulus = 0
    BY <1>1, InRange
  <2> QED
    BY <1>2, <2>1
<1>5. d = 0 => n = w
  <2>1. n + 0 = n /\ n % Modulus = n
    BY <1>1, <1>2, InRange
  <2> QED
    BY <1>3, <2>1 DEF Advance
<1>6. w = Advance(n, PipeSize) => d = PipeSize
  <2>1. (((n + PipeSize) % Modulus) + (-n)) % Modulus = (n + PipeSize + (-n)) % Modulus
    BY <1>1, <1>ints, WrapThenAdd, Zenon
  <2>2. n + PipeSize + (-n) = PipeSize
    BY <1>1, <1>2
  <2>3. PipeSize % Modulus = PipeSize
    BY <1>1, InRange
  <2>4. Advance(n, PipeSize) + (-n) = Advance(n, PipeSize) - n
    BY <1>1, <1>2, Division DEF Advance
  <2> QED
    BY <2>1, <2>2, <2>3, <2>4 DEF Advance
<1>7. ASSUME d + 1 < Modulus PROVE (Advance(w, 1) - n) % Modulus = d + 1
  <2>1. (((w + 1) % Modulus) + (-n)) % Modulus = (w + 1 + (-n)) % Modulus
    BY <1>1, <1>ints, WrapThenAdd, Zenon
  <2>2. (d + 1) % Modulus = (w - n + 1) % Modulus
    BY <1>1, <1>ints, WrapThenAdd, Zenon
  <2>3. w + 1 + (-n) = w - n + 1
    BY <1>2
  <2>4. (d + 1) % Modulus = d + 1
    BY <1>1, <1>2, <1>7, InRange
  <2>5. Advance(w, 1) + (-n) = Advance(w, 1) - n
    BY <1>1, <1>2, Division DEF Advance
  <2> QED
    BY <2>1, <2>2, <2>3, <2>4, <2>5 DEF Advance
<1>8. ASSUME NEW k \in 0 .. d PROVE (w - Advance(n, k)) % Modulus = d - k
  <2>ints. n + k \in Int /\ -k \in Int
    BY <1>2
  <2>1. (w - ((n + k) % Modulus)) % Modulus = (w - (n + k)) % Modulus
    BY <1>1, <1>2, <2>ints, WrapThenAdd, Zenon
  <2>2. (d + (-k)) % Modulus = (w - n + (-k)) % Modulus
    BY <1>1, <1>ints, <2>ints, WrapThenAdd, Zenon
  <2>3. w - (n + k) = w - n + (-k) /\ d + (-k) = d - k
    BY <1>2
  <2>4. d - k \in 0 .. Modulus - 1
    BY <1>1, <1>2
  <2>5. (d - k) % Modulus = d - k
    BY <1>1, <2>4, InRange
  <2> QED
    BY <2>1, <2>2, <2>3, <2>5 DEF Advance
<1> QED
  BY <1>2, <1>3, <1>4, <1>5, <1>6, <1>7, <1>8
-----------------------------------------------------------------------------
(* Types                                                                   *)

\* The types of the variables, for one process.
EachTyped ==
    /\ \A p \in Procs :
         /\ at[p] \in Places /\ chan[p] \in {"nread", "nwrite", None}
         /\ files[p] \subseteq Ends
         /\ todo[p] \in Nat /\ done[p] \in Nat
    /\ nread \in 0 .. Modulus - 1 /\ nwrite \in 0 .. Modulus - 1
    /\ open \subseteq Ends
    /\ Buffered \in 0 .. Modulus - 1

\* They follow from TypeOK and Typed.
LEMMA EachTypedNow == TypeOK /\ Typed => EachTyped
<1>1. Modulus \in Nat \ {0}
  BY Xv6PipeAssumption
<1>2. nread \in 0 .. Modulus - 1 /\ nwrite \in 0 .. Modulus - 1 => Buffered \in 0 .. Modulus - 1
  BY Distance DEF Buffered
<1> QED
  BY <1>2 DEF TypeOK, Typed, EachTyped

\* The range of a counter that has moved on.
LEMMA Advances ==
    ASSUME NEW n \in Nat, NEW k \in Nat
    PROVE  Advance(n, k) \in 0 .. Modulus - 1 /\ (n + k) % Modulus \in 0 .. Modulus - 1
BY Xv6PipeAssumption, Division DEF Advance

\* Nothing but at, chan, lock, plock, untold and the loop variables changes.
LEMMA TypesKept ==
    ASSUME PipeInv,
           UNCHANGED <<data, nread, nwrite, open, freed, sent, got, ordered, files, killed>>,
           lock' \in Procs \union {None}, plock' \subseteq Procs,
           at' \in [Procs -> Places], chan' \in [Procs -> {"nread", "nwrite", None}],
           untold' \in BOOLEAN, todo' \in [Procs -> Nat], done' \in [Procs -> Nat]
    PROVE  TypeOK' /\ Typed'
<1>1. TypeOK'
  BY DEF PipeInv, TypeOK
<1>2. Typed'
  BY DEF PipeInv, Typed
<1> QED
  BY <1>1, <1>2

\* Every step keeps the types.
LEMMA TypeStep ==
    ASSUME PipeInv, [Next]_vars
    PROVE  TypeOK' /\ Typed'
<1> USE DEF pipeVars, history
<1>1. /\ at \in [Procs -> Places] /\ chan \in [Procs -> {"nread", "nwrite", None}]
      /\ todo \in [Procs -> Nat] /\ done \in [Procs -> Nat]
      /\ lock \in Procs \union {None} /\ plock \subseteq Procs
      /\ untold \in BOOLEAN
  BY DEF PipeInv, TypeOK, Typed
<1>2. {"write", "writing", "writeSleep", "writeDozes", "read", "reading", "readSleep",
       "readDozes", "user", "unused", "gone", "closeRead", "closingRead", "closeWrite",
       "closingWrite"} = Places
  BY DEF Places, Writer, Reader
<1>3. Modulus \in Nat \ {0}
  BY Xv6PipeAssumption
<1>4. CASE UNCHANGED vars
  BY <1>1, <1>4, TypesKept DEF vars
<1>5. ASSUME NEW p \in Procs, NEW n \in Sizes, Write(p, n) \/ Read(p, n) PROVE TypeOK' /\ Typed'
  <2>1. n \in Nat
    BY Xv6PipeAssumption
  <2>2. at' \in [Procs -> Places]
    BY <1>1, <1>2, <1>5 DEF Write, Read, Goes
  <2>3. todo' \in [Procs -> Nat] /\ done' \in [Procs -> Nat]
    BY <1>1, <1>5, <2>1 DEF Write, Read
  <2>4. /\ UNCHANGED <<data, nread, nwrite, open, freed, sent, got, ordered, files, killed>>
        /\ lock' = lock /\ plock' = plock /\ chan' = chan /\ untold' = untold
    BY <1>5 DEF Write, Read
  <2> QED
    BY <1>1, <2>2, <2>3, <2>4, TypesKept
<1>6. ASSUME NEW p \in Procs,
             \/ Acquire(p, "write", "writing") \/ Acquire(p, "read", "reading")
             \/ Acquire(p, "closeRead", "closingRead")
             \/ Acquire(p, "closeWrite", "closingWrite")
      PROVE  TypeOK' /\ Typed'
  <2>1. at' \in [Procs -> Places]
    BY <1>1, <1>2, <1>6 DEF Acquire, Goes
  <2>2. /\ UNCHANGED <<data, nread, nwrite, open, freed, sent, got, ordered, files, killed>>
        /\ lock' = p /\ plock' = plock /\ chan' = chan /\ untold' = untold
        /\ todo' = todo /\ done' = done
    BY <1>6 DEF Acquire
  <2> QED
    BY <1>1, <2>1, <2>2, TypesKept
<1>7. ASSUME NEW p \in Procs, ReadEmpty(p) \/ WriteSleep(p) \/ ReadSleep(p)
      PROVE  TypeOK' /\ Typed'
  <2>1. at' \in [Procs -> Places]
    BY <1>1, <1>2, <1>7 DEF ReadEmpty, WriteSleep, ReadSleep, Goes
  <2>2. /\ UNCHANGED <<data, nread, nwrite, open, freed, sent, got, ordered, files, killed>>
        /\ lock' \in {lock, None} /\ plock' \subseteq plock \union {p}
        /\ chan' = chan /\ untold' = untold /\ todo' = todo /\ done' = done
    BY <1>7 DEF ReadEmpty, WriteSleep, ReadSleep, FallAsleep
  <2> QED
    BY <1>1, <2>1, <2>2, TypesKept
<1>8. ASSUME NEW p \in Procs,
             \/ Sleep(p, "writeDozes", "nwrite", "write")
             \/ Sleep(p, "readDozes", "nread", "read")
      PROVE  TypeOK' /\ Typed'
  <2>1. at' \in [Procs -> Places]
    BY <1>1, <1>2, <1>8 DEF Sleep, Goes
  <2>2. chan' \in [Procs -> {"nread", "nwrite", None}]
    BY <1>1, <1>8 DEF Sleep
  <2>3. /\ UNCHANGED <<data, nread, nwrite, open, freed, sent, got, ordered, files, killed>>
        /\ lock' = lock /\ plock' = plock \ {p} /\ untold' = untold
        /\ todo' = todo /\ done' = done
    BY <1>8 DEF Sleep
  <2> QED
    BY <1>1, <2>1, <2>2, <2>3, TypesKept
<1>9. ASSUME NEW p \in Procs, WriteFails(p) \/ WriteDone(p) \/ ReadFails(p) \/ WriteFull(p)
      PROVE  TypeOK' /\ Typed'
  <2>1. at' \in [Procs -> Places]
    BY <1>1, <1>2, <1>9 DEF WriteFails, WriteDone, ReadFails, WriteFull, Return, Goes
  <2>2. chan' \in [Procs -> {"nread", "nwrite", None}]
    BY <1>1, <1>9 DEF WriteFails, WriteDone, ReadFails, WriteFull, Wakeup
  <2>3. todo' \in [Procs -> Nat] /\ done' \in [Procs -> Nat]
    BY <1>1, <1>9 DEF WriteFails, WriteDone, ReadFails, WriteFull, Return
  <2>4. untold' \in BOOLEAN
    BY <1>1, <1>9 DEF WriteFails, WriteDone, ReadFails, WriteFull, Wakeup
  <2>5. /\ UNCHANGED <<data, nread, nwrite, open, freed, sent, got, ordered, files, killed>>
        /\ lock' \in {lock, None} /\ plock' = plock
    BY <1>9 DEF WriteFails, WriteDone, ReadFails, WriteFull, Return
  <2> QED
    BY <1>1, <2>1, <2>2, <2>3, <2>4, <2>5, TypesKept
<1>10. ASSUME NEW p \in Procs, WriteByte(p) PROVE TypeOK' /\ Typed'
  <2>1. sent \in Nat /\ nwrite \in Nat /\ done \in [Procs -> Nat]
    BY <1>1, <1>3 DEF PipeInv, TypeOK, Typed
  <2>2. nwrite' \in 0 .. Modulus - 1 /\ sent' \in 0 .. Modulus - 1
    BY <1>10, <2>1, Advances DEF WriteByte
  <2>3. data' \in [0 .. PipeSize - 1 -> Nat]
    BY <1>10, <2>1 DEF WriteByte, PipeInv, TypeOK
  <2>4. done' \in [Procs -> Nat]
    BY <1>10, <2>1 DEF WriteByte
  <2>5. UNCHANGED <<nread, open, freed, lock, plock, at, chan, killed, files, todo, got,
                    ordered, untold>>
    BY <1>10 DEF WriteByte
  <2> QED
    BY <2>2, <2>3, <2>4, <2>5 DEF PipeInv, TypeOK, Typed
<1>11. ASSUME NEW p \in Procs, ReadBytes(p) PROVE TypeOK' /\ Typed'
  <2>1. at' \in [Procs -> Places] /\ lock' = None
    BY <1>1, <1>2, <1>11 DEF ReadBytes, Return, Goes
  <2>2. chan' \in [Procs -> {"nread", "nwrite", None}]
    BY <1>1, <1>11 DEF ReadBytes, Wakeup
  <2>3. todo' \in [Procs -> Nat] /\ done' \in [Procs -> Nat]
    BY <1>1, <1>11 DEF ReadBytes, Return
  <2>4. untold' \in BOOLEAN
    BY <1>1, <1>11 DEF ReadBytes, Wakeup
  <2>5. PICK k \in 0 .. Min(todo[p], Buffered) :
          /\ nread' = Advance(nread, k)
          /\ got' = (got + k) % Modulus
          /\ ordered' = (ordered /\ \A i \in 0 .. k - 1 : Byte(i) = (got + i) % Modulus)
    BY <1>11 DEF ReadBytes
  <2>6. nread \in Nat /\ got \in Nat /\ k \in Nat
    BY <1>3 DEF PipeInv, TypeOK, Typed
  <2>7. nread' \in 0 .. Modulus - 1 /\ got' \in 0 .. Modulus - 1
    BY <2>5, <2>6, Advances
  <2>8. ordered' \in BOOLEAN
    BY <2>5
  <2>9. UNCHANGED <<data, nwrite, open, freed, sent, plock, killed, files>>
    BY <1>11 DEF ReadBytes, Return
  <2>10. TypeOK'
    BY <2>1, <2>2, <2>3, <2>7, <2>9 DEF PipeInv, TypeOK
  <2>11. Typed'
    BY <2>1, <2>4, <2>7, <2>8, <2>9 DEF PipeInv, Typed
  <2> QED
    BY <2>10, <2>11
<1>12. ASSUME NEW p \in Procs, NEW e \in Ends, Close(p, e) PROVE TypeOK' /\ Typed'
  <2>1. at' \in [Procs -> Places]
    BY <1>1, <1>2, <1>12 DEF Close, Goes
  <2>2. files' \in [Procs -> SUBSET Ends]
    BY <1>12 DEF Close, PipeInv, TypeOK
  <2>3. UNCHANGED <<pipeVars, lock, plock, chan, killed, todo, done, history>>
    BY <1>12 DEF Close
  <2> QED
    BY <2>1, <2>2, <2>3 DEF PipeInv, TypeOK, Typed
<1>13. ASSUME NEW p \in Procs, NEW e \in Ends, PipeClose(p, e) PROVE TypeOK' /\ Typed'
  <2>1. at' \in [Procs -> Places] /\ lock' = None
    BY <1>1, <1>2, <1>13 DEF PipeClose, Return, Goes
  <2>2. chan' \in [Procs -> {"nread", "nwrite", None}]
    BY <1>1, <1>13 DEF PipeClose, Wakeup
  <2>3. todo' \in [Procs -> Nat] /\ done' \in [Procs -> Nat]
    BY <1>1, <1>13 DEF PipeClose, Return
  <2>4. untold' \in BOOLEAN
    BY <1>1, <1>13 DEF PipeClose, Wakeup
  <2>5. open' \subseteq Ends
    BY <1>13 DEF PipeClose, PipeInv, TypeOK
  <2>6. freed' \in {0, 1}
    <3>1. freed' = IF Frees(e) THEN freed + 1 ELSE freed
      BY <1>13 DEF PipeClose
    <3>2. Frees(e) => freed = 0
      BY DEF Frees, PipeInv, FileOwners
    <3> QED
      BY <3>1, <3>2 DEF PipeInv, TypeOK
  <2>7. UNCHANGED <<data, nread, nwrite, sent, got, ordered, plock, killed, files>>
    BY <1>13 DEF PipeClose, Return
  <2>8. TypeOK'
    BY <2>1, <2>2, <2>3, <2>5, <2>6, <2>7 DEF PipeInv, TypeOK
  <2>9. Typed'
    BY <2>1, <2>4, <2>7 DEF PipeInv, Typed
  <2> QED
    BY <2>8, <2>9
<1>14. ASSUME NEW p \in Procs, NEW q \in Procs, Fork(p, q) PROVE TypeOK' /\ Typed'
  <2>1. at' \in [Procs -> Places]
    BY <1>1, <1>2, <1>14 DEF Fork, Goes
  <2>2. files' \in [Procs -> SUBSET Ends]
    BY <1>14 DEF Fork, PipeInv, TypeOK
  <2>3. UNCHANGED <<pipeVars, lock, plock, chan, killed, todo, done, history>>
    BY <1>14 DEF Fork
  <2> QED
    BY <2>1, <2>2, <2>3 DEF PipeInv, TypeOK, Typed
<1>15. ASSUME NEW p \in Procs, Kill(p) \/ Exit(p) PROVE TypeOK' /\ Typed'
  <2>1. at' \in [Procs -> Places]
    BY <1>1, <1>2, <1>15 DEF Kill, Exit, Goes
  <2>2. killed' \in [Procs -> BOOLEAN]
    BY <1>15 DEF Kill, Exit, PipeInv, TypeOK
  <2>3. chan' \in [Procs -> {"nread", "nwrite", None}]
    BY <1>1, <1>15 DEF Kill, Exit
  <2>4. UNCHANGED <<pipeVars, lock, plock, files, todo, done, history>>
    BY <1>15 DEF Kill, Exit
  <2> QED
    BY <2>1, <2>2, <2>3, <2>4 DEF PipeInv, TypeOK, Typed
<1> QED
  BY <1>4, <1>5, <1>6, <1>7, <1>8, <1>9, <1>10, <1>11, <1>12, <1>13, <1>14, <1>15
  DEF Next, WriteLock, ReadLock, CloseLock, WriteAsleep, ReadAsleep
-----------------------------------------------------------------------------
(* Who holds the locks                                                     *)

\* A step of process p that moves nobody else.
LEMMA LocksMoved ==
    ASSUME PipeInv, NEW p \in Procs,
           \A q \in Procs \ {p} : at'[q] = at[q] /\ (q \in plock' <=> q \in plock),
           p \in plock' <=> at'[p] \in Dozing,
           \/ lock' = lock /\ (at'[p] \in Holding <=> at[p] \in Holding)
           \/ lock = None /\ lock' = p /\ at'[p] \in Holding
           \/ at[p] \in Holding /\ lock' = None /\ at'[p] \notin Holding
    PROVE  Locks'
<1> SUFFICES ASSUME NEW q \in Procs
             PROVE  (lock' = q <=> at'[q] \in Holding) /\ (q \in plock' <=> at'[q] \in Dozing)
  BY DEF Locks
<1>1. /\ lock = q <=> at[q] \in Holding
      /\ q \in plock <=> at[q] \in Dozing
      /\ lock = p <=> at[p] \in Holding
  BY DEF PipeInv, Locks
<1>2. p # None /\ q # None
  BY Xv6PipeAssumption
<1>3. CASE q = p
  BY <1>1, <1>2, <1>3
<1>4. CASE q # p
  BY <1>1, <1>2, <1>4
<1> QED
  BY <1>3, <1>4

\* pi->lock is held by the process that is inside a function of pipe.c, and
\* p->lock by those on their way to sleep.
LEMMA LocksStep ==
    ASSUME PipeInv, [Next]_vars
    PROVE  Locks'
<1>1. at \in [Procs -> Places]
  BY DEF PipeInv, Typed
<1>2. \A p \in Procs : p \in plock <=> at[p] \in Dozing
  BY DEF PipeInv, Locks
<1> USE DEF Holding, Dozing
<1>3. CASE UNCHANGED vars
  BY <1>3 DEF vars, PipeInv, Locks
<1>4. ASSUME NEW p \in Procs, NEW n \in Sizes, Write(p, n) \/ Read(p, n) PROVE Locks'
  <2>1. /\ at[p] = "user" /\ at'[p] \in {"write", "read"} /\ lock' = lock /\ plock' = plock
        /\ \A q \in Procs \ {p} : at'[q] = at[q]
    BY <1>1, <1>4 DEF Write, Read, Goes
  <2> QED
    BY <1>2, <2>1, LocksMoved
<1>5. ASSUME NEW p \in Procs,
             \/ Acquire(p, "write", "writing") \/ Acquire(p, "read", "reading")
             \/ Acquire(p, "closeRead", "closingRead")
             \/ Acquire(p, "closeWrite", "closingWrite")
      PROVE  Locks'
  <2>1. /\ at[p] \in {"write", "read", "closeRead", "closeWrite"}
        /\ at'[p] \in {"writing", "reading", "closingRead", "closingWrite"}
        /\ lock = None /\ lock' = p /\ plock' = plock
        /\ \A q \in Procs \ {p} : at'[q] = at[q]
    BY <1>1, <1>5 DEF Acquire, Goes
  <2> QED
    BY <1>2, <2>1, LocksMoved
<1>6. ASSUME NEW p \in Procs, ReadEmpty(p) \/ WriteFull(p) PROVE Locks'
  <2>1. /\ at[p] \in {"reading", "writing"} /\ at'[p] \in {"readSleep", "writeSleep"}
        /\ lock' = lock /\ plock' = plock
        /\ \A q \in Procs \ {p} : at'[q] = at[q]
    BY <1>1, <1>6 DEF ReadEmpty, WriteFull, Goes
  <2> QED
    BY <1>2, <2>1, LocksMoved
<1>7. ASSUME NEW p \in Procs, WriteSleep(p) \/ ReadSleep(p) PROVE Locks'
  <2>1. /\ at[p] \in {"readSleep", "writeSleep"} /\ at'[p] \in {"readDozes", "writeDozes"}
        /\ lock' = None /\ plock' = plock \union {p}
        /\ \A q \in Procs \ {p} : at'[q] = at[q]
    BY <1>1, <1>7 DEF WriteSleep, ReadSleep, FallAsleep, Goes
  <2> QED
    BY <2>1, LocksMoved
<1>8. ASSUME NEW p \in Procs,
             \/ Sleep(p, "writeDozes", "nwrite", "write")
             \/ Sleep(p, "readDozes", "nread", "read")
      PROVE  Locks'
  <2>1. /\ at[p] \in {"readDozes", "writeDozes"} /\ at'[p] \in {"read", "write"}
        /\ lock' = lock /\ plock' = plock \ {p}
        /\ \A q \in Procs \ {p} : at'[q] = at[q]
    BY <1>1, <1>8 DEF Sleep, Goes
  <2> QED
    BY <2>1, LocksMoved
<1>9. ASSUME NEW p \in Procs,
             \/ WriteFails(p) \/ WriteDone(p) \/ ReadFails(p) \/ ReadBytes(p)
             \/ \E e \in Ends : PipeClose(p, e)
      PROVE  Locks'
  <2>1. at[p] \in {"writing", "reading", "closingRead", "closingWrite"} /\ Return(p)
    BY <1>9 DEF WriteFails, WriteDone, ReadFails, ReadBytes, PipeClose
  <2>2. /\ at'[p] = "user" /\ lock' = None /\ plock' = plock
        /\ \A q \in Procs \ {p} : at'[q] = at[q]
    BY <1>1, <2>1 DEF Return, Goes
  <2> QED
    BY <1>2, <2>1, <2>2, LocksMoved
<1>10. ASSUME NEW p \in Procs, WriteByte(p) \/ Kill(p) PROVE Locks'
  BY <1>10 DEF WriteByte, Kill, PipeInv, Locks
<1>11. ASSUME NEW p \in Procs, Exit(p) \/ \E e \in Ends : Close(p, e) PROVE Locks'
  <2>1. /\ at[p] = "user" /\ at'[p] \in {"user", "gone", "closeRead", "closeWrite"}
        /\ lock' = lock /\ plock' = plock
        /\ \A q \in Procs \ {p} : at'[q] = at[q]
    BY <1>1, <1>11 DEF Exit, Close, Goes
  <2> QED
    BY <1>2, <2>1, LocksMoved
<1>12. ASSUME NEW p \in Procs, NEW q \in Procs, Fork(p, q) PROVE Locks'
  <2>1. /\ at[q] = "unused" /\ at'[q] = "user"
        /\ lock' = lock /\ plock' = plock
        /\ \A r \in Procs \ {q} : at'[r] = at[r]
    BY <1>1, <1>12 DEF Fork, Goes
  <2> QED
    BY <1>2, <2>1, LocksMoved
<1> QED
  BY <1>3, <1>4, <1>5, <1>6, <1>7, <1>8, <1>9, <1>10, <1>11, <1>12
  DEF Next, WriteLock, ReadLock, CloseLock, WriteAsleep, ReadAsleep
-----------------------------------------------------------------------------
(* Who has the files                                                       *)

\* A step of process p within its system call: no file and no end changes.
LEMMA OwnersMoved ==
    ASSUME PipeInv, NEW p \in Procs,
           files' = files, open' = open, freed' = freed,
           \A q \in Procs \ {p} : at'[q] = at[q],
           \A e \in Ends : at'[p] \in Closing(e) <=> at[p] \in Closing(e),
           at'[p] \in Writer => "write" \in files[p],
           at'[p] \in Reader => "read" \in files[p],
           at'[p] \in {"unused", "gone"} => files[p] = {}
    PROVE  FileOwners'
<1>1. \A q \in Procs, e \in Ends : at'[q] \in Closing(e) <=> at[q] \in Closing(e)
  OBVIOUS
<1>2. \A e \in Ends : e \in open' <=>
         \E q \in Procs : e \in files'[q] \/ at'[q] \in Closing(e)
  BY <1>1 DEF PipeInv, FileOwners
<1>3. \A q \in Procs, e \in Ends : at'[q] \in Closing(e) =>
         \A r \in Procs : e \notin files'[r] /\ (r # q => at'[r] \notin Closing(e))
  BY <1>1 DEF PipeInv, FileOwners
<1>4. \A q \in Procs :
         /\ at'[q] \in Writer => "write" \in files'[q]
         /\ at'[q] \in Reader => "read" \in files'[q]
         /\ at'[q] \in {"unused", "gone"} => files'[q] = {}
  BY DEF PipeInv, FileOwners
<1>5. freed' = IF open' = {} THEN 1 ELSE 0
  BY DEF PipeInv, FileOwners
<1> QED
  BY <1>2, <1>3, <1>4, <1>5 DEF FileOwners

\* fileclose(): the last file of an end is closed by one process only.
LEMMA CloseOwners ==
    ASSUME PipeInv, EachTyped, NEW p \in Procs, NEW e \in Ends, Close(p, e)
    PROVE  FileOwners'
<1>1. /\ at[p] = "user" /\ e \in files[p]
      /\ files'[p] = files[p] \ {e}
      /\ open' = open /\ freed' = freed
      /\ \A q \in Procs \ {p} : files'[q] = files[q] /\ at'[q] = at[q]
  BY DEF Close, Goes, pipeVars, PipeInv, TypeOK, Typed
<1> DEFINE S == {q \in Procs : e \in files[q]}
<1>2. IsFiniteSet(S) /\ p \in S /\ Ref(e) = Cardinality(S)
  BY <1>1, Xv6PipeAssumption, FS_Subset DEF Ref
<1>3. /\ IsFiniteSet(S \ {p}) /\ Cardinality(S \ {p}) = Ref(e) - 1
      /\ Ref(e) \in Nat
  <2> HIDE DEF S
  <2>1. Cardinality(S) \in Nat
    BY <1>2, FS_CardinalityType
  <2>2. IsFiniteSet(S \ {p}) /\ Cardinality(S \ {p}) = Cardinality(S) - 1
    BY <1>2, FS_RemoveElement
  <2> QED
    BY <1>2, <2>1, <2>2
<1>4. e \in open
  BY <1>1 DEF PipeInv, FileOwners
<1>5. \A q \in Procs : at[q] \notin Closing(e)
  BY <1>1 DEF PipeInv, FileOwners
<1>6. freed' = IF open' = {} THEN 1 ELSE 0
  BY <1>1 DEF PipeInv, FileOwners
<1>7. CASE Ref(e) > 1
  <2>1. at' = at
    BY <1>7 DEF Close
  <2>2. PICK r \in Procs : r # p /\ e \in files[r]
    <3>1. S \ {p} # {}
      BY <1>3, <1>7, FS_EmptySet
    <3> QED
      BY <3>1
  <2>3. \A f \in Ends : f \in open' <=>
           \E q \in Procs : f \in files'[q] \/ at'[q] \in Closing(f)
    <3> SUFFICES ASSUME NEW f \in Ends
                 PROVE  f \in open <=> \E q \in Procs : f \in files'[q] \/ at[q] \in Closing(f)
      BY <1>1, <2>1
    <3>1. CASE f = e
      BY <1>1, <1>4, <2>2, <3>1
    <3>2. CASE f # e
      <4>1. \A q \in Procs : f \in files'[q] <=> f \in files[q]
        BY <1>1, <3>2
      <4> QED
        BY <4>1 DEF PipeInv, FileOwners
    <3> QED
      BY <3>1, <3>2
  <2>4. \A q \in Procs, f \in Ends : at'[q] \in Closing(f) =>
           \A s \in Procs : f \notin files'[s] /\ (s # q => at'[s] \notin Closing(f))
    BY <1>1, <2>1 DEF PipeInv, FileOwners
  <2>5. \A q \in Procs :
         /\ at'[q] \in Writer => "write" \in files'[q]
         /\ at'[q] \in Reader => "read" \in files'[q]
         /\ at'[q] \in {"unused", "gone"} => files'[q] = {}
    BY <1>1, <2>1 DEF PipeInv, FileOwners, Writer, Reader
  <2> QED
    BY <1>6, <2>3, <2>4, <2>5 DEF FileOwners
<1>8. CASE ~ (Ref(e) > 1)
  <2>1. at'[p] = IF e = "read" THEN "closeRead" ELSE "closeWrite"
    BY <1>8 DEF Close, Goes, PipeInv, Typed
  <2>2. at'[p] \in Closing(e) /\ \A f \in Ends \ {e} : at'[p] \notin Closing(f)
    BY <2>1 DEF Closing, Ends
  <2>3. \A q \in Procs : e \notin files'[q]
    <3>1. S \ {p} = {}
      <4>1. Cardinality(S \ {p}) \in Nat
        BY <1>3, FS_CardinalityType
      <4>2. Cardinality(S \ {p}) = 0
        BY <1>3, <1>8, <4>1
      <4> QED
        BY <1>3, <4>2, FS_EmptySet
    <3> QED
      BY <1>1, <3>1
  <2>4. ASSUME NEW f \in Ends
        PROVE  f \in open' <=> \E q \in Procs : f \in files'[q] \/ at'[q] \in Closing(f)
    <3>1. CASE f = e
      BY <1>1, <1>4, <2>2, <3>1
    <3>2. CASE f # e
      <4>1. \A q \in Procs : /\ f \in files'[q] <=> f \in files[q]
                             /\ at'[q] \in Closing(f) <=> at[q] \in Closing(f)
        BY <1>1, <2>2, <3>2 DEF Closing
      <4> QED
        BY <1>1, <4>1 DEF PipeInv, FileOwners
    <3> QED
      BY <3>1, <3>2
  <2>5. ASSUME NEW q \in Procs, NEW f \in Ends, at'[q] \in Closing(f)
        PROVE  \A s \in Procs : f \notin files'[s] /\ (s # q => at'[s] \notin Closing(f))
    <3>1. CASE f = e
      BY <1>1, <1>5, <2>3, <2>5, <3>1
    <3>2. CASE f # e
      <4>1. \A s \in Procs : /\ f \in files'[s] <=> f \in files[s]
                             /\ at'[s] \in Closing(f) <=> at[s] \in Closing(f)
        BY <1>1, <2>2, <3>2 DEF Closing
      <4> QED
        BY <2>5, <4>1 DEF PipeInv, FileOwners
    <3> QED
      BY <3>1, <3>2
  <2>6. \A q \in Procs :
         /\ at'[q] \in Writer => "write" \in files'[q]
         /\ at'[q] \in Reader => "read" \in files'[q]
         /\ at'[q] \in {"unused", "gone"} => files'[q] = {}
    BY <1>1, <2>1 DEF PipeInv, FileOwners, Writer, Reader
  <2> QED
    BY <1>6, <2>4, <2>5, <2>6 DEF FileOwners
<1> QED
  BY <1>7, <1>8

\* pipeclose(): the end is closed, and pi freed with the second one.
LEMMA PipeCloseOwners ==
    ASSUME PipeInv, EachTyped, NEW p \in Procs, NEW e \in Ends, PipeClose(p, e)
    PROVE  FileOwners'
<1>1. /\ at[p] \in Closing(e) /\ at'[p] = "user"
      /\ open' = open \ {e} /\ files' = files
      /\ freed' = IF Frees(e) THEN freed + 1 ELSE freed
      /\ \A q \in Procs \ {p} : at'[q] = at[q]
  BY DEF PipeClose, Return, Goes, Closing, PipeInv, Typed
<1>2. /\ \A f \in Ends : at'[p] \notin Closing(f)
      /\ \A f \in Ends \ {e} : at[p] \notin Closing(f)
      /\ at'[p] \notin Writer \union Reader
  BY <1>1 DEF Closing, Ends, Writer, Reader
<1>3. \A q \in Procs : e \notin files[q] /\ at'[q] \notin Closing(e)
  BY <1>1, <1>2 DEF PipeInv, FileOwners
<1>4. \A q \in Procs, f \in Ends \ {e} : at'[q] \in Closing(f) <=> at[q] \in Closing(f)
  BY <1>1, <1>2
<1>5. ASSUME NEW f \in Ends
      PROVE  f \in open' <=> \E q \in Procs : f \in files'[q] \/ at'[q] \in Closing(f)
  <2>1. CASE f = e
    BY <1>1, <1>3, <2>1
  <2>2. CASE f # e
    BY <1>1, <1>4, <2>2 DEF PipeInv, FileOwners
  <2> QED
    BY <2>1, <2>2
<1>6. ASSUME NEW q \in Procs, NEW f \in Ends, at'[q] \in Closing(f)
      PROVE  \A s \in Procs : f \notin files'[s] /\ (s # q => at'[s] \notin Closing(f))
  <2>1. f # e
    BY <1>3, <1>6
  <2> QED
    BY <1>1, <1>4, <1>6, <2>1 DEF PipeInv, FileOwners
<1>7. \A q \in Procs :
         /\ at'[q] \in Writer => "write" \in files'[q]
         /\ at'[q] \in Reader => "read" \in files'[q]
         /\ at'[q] \in {"unused", "gone"} => files'[q] = {}
  BY <1>1, <1>2 DEF PipeInv, FileOwners
<1>8. freed' = IF open' = {} THEN 1 ELSE 0
  <2>1. e \in open
    BY <1>1 DEF PipeInv, FileOwners
  <2>2. open' = {} <=> Frees(e)
    BY <1>1, <2>1 DEF Frees
  <2>3. freed = 0
    BY <2>1 DEF PipeInv, FileOwners
  <2> QED
    BY <1>1, <2>2, <2>3
<1> QED
  BY <1>5, <1>6, <1>7, <1>8 DEF FileOwners

\* kfork() duplicates the files of a process that has not closed them.
LEMMA ForkOwners ==
    ASSUME PipeInv, EachTyped, NEW p \in Procs, NEW q \in Procs, Fork(p, q)
    PROVE  FileOwners'
<1>1. /\ at[q] = "unused" /\ at'[q] = "user"
      /\ open' = open /\ freed' = freed /\ files'[q] = files[p]
      /\ \A r \in Procs \ {q} : at'[r] = at[r] /\ files'[r] = files[r]
  BY DEF Fork, Goes, pipeVars, PipeInv, TypeOK, Typed
<1>2. files[q] = {}
  BY <1>1 DEF PipeInv, FileOwners
<1>3. \A r \in Procs, f \in Ends : at'[r] \in Closing(f) <=> at[r] \in Closing(f)
  BY <1>1 DEF Closing
<1>4. ASSUME NEW f \in Ends
      PROVE  (\E r \in Procs : f \in files'[r]) <=> \E r \in Procs : f \in files[r]
  <2>1. \A r \in Procs : f \in files'[r] => f \in files[r] \/ f \in files[p]
    BY <1>1
  <2>2. \A r \in Procs : f \in files[r] => f \in files'[r]
    BY <1>1, <1>2
  <2> QED
    BY <2>1, <2>2
<1>5. \A f \in Ends : f \in open' <=>
         \E r \in Procs : f \in files'[r] \/ at'[r] \in Closing(f)
  BY <1>1, <1>3, <1>4 DEF PipeInv, FileOwners
<1>6. \A r \in Procs, f \in Ends : at'[r] \in Closing(f) =>
         \A s \in Procs : f \notin files'[s] /\ (s # r => at'[s] \notin Closing(f))
  BY <1>3, <1>4 DEF PipeInv, FileOwners
<1>7. \A r \in Procs :
         /\ at'[r] \in Writer => "write" \in files'[r]
         /\ at'[r] \in Reader => "read" \in files'[r]
         /\ at'[r] \in {"unused", "gone"} => files'[r] = {}
  BY <1>1 DEF PipeInv, FileOwners, Writer, Reader
<1>8. freed' = IF open' = {} THEN 1 ELSE 0
  BY <1>1 DEF PipeInv, FileOwners
<1> QED
  BY <1>5, <1>6, <1>7, <1>8 DEF FileOwners

\* Every step keeps the files, the open ends and the functions of pipe.c that
\* processes are in together.
LEMMA OwnersStep ==
    ASSUME PipeInv, [Next]_vars
    PROVE  FileOwners'
<1>1. at \in [Procs -> Places] /\ EachTyped
  BY EachTypedNow DEF PipeInv, Typed
<1>2. \A p \in Procs :
         /\ at[p] \in Writer => "write" \in files[p]
         /\ at[p] \in Reader => "read" \in files[p]
  BY DEF PipeInv, FileOwners
<1> USE DEF pipeVars, Writer, Reader, Closing, Ends
<1>3. CASE UNCHANGED vars
  BY <1>3 DEF vars, PipeInv, FileOwners
<1>4. ASSUME NEW p \in Procs, NEW n \in Sizes, Write(p, n) \/ Read(p, n) PROVE FileOwners'
  <2>1. /\ at[p] = "user" /\ files' = files /\ open' = open /\ freed' = freed
        /\ \/ at'[p] = "write" /\ "write" \in files[p]
           \/ at'[p] = "read" /\ "read" \in files[p]
        /\ \A q \in Procs \ {p} : at'[q] = at[q]
    BY <1>1, <1>4 DEF Write, Read, Goes
  <2> QED
    BY <2>1, OwnersMoved
<1>5. ASSUME NEW p \in Procs,
             \/ Acquire(p, "write", "writing") \/ Acquire(p, "read", "reading")
             \/ Acquire(p, "closeRead", "closingRead")
             \/ Acquire(p, "closeWrite", "closingWrite")
      PROVE  FileOwners'
  <2>1. /\ files' = files /\ open' = open /\ freed' = freed
        /\ \/ at[p] = "write" /\ at'[p] = "writing"
           \/ at[p] = "read" /\ at'[p] = "reading"
           \/ at[p] = "closeRead" /\ at'[p] = "closingRead"
           \/ at[p] = "closeWrite" /\ at'[p] = "closingWrite"
        /\ \A q \in Procs \ {p} : at'[q] = at[q]
    BY <1>1, <1>5 DEF Acquire, Goes
  <2> QED
    BY <1>2, <2>1, OwnersMoved
<1>6. ASSUME NEW p \in Procs,
             \/ ReadEmpty(p) \/ WriteFull(p) \/ WriteSleep(p) \/ ReadSleep(p)
             \/ Sleep(p, "writeDozes", "nwrite", "write")
             \/ Sleep(p, "readDozes", "nread", "read")
      PROVE  FileOwners'
  <2>1. /\ files' = files /\ open' = open /\ freed' = freed
        /\ \/ at[p] \in Writer /\ at'[p] \in Writer
           \/ at[p] \in Reader /\ at'[p] \in Reader
        /\ \A q \in Procs \ {p} : at'[q] = at[q]
    BY <1>1, <1>6 DEF ReadEmpty, WriteFull, WriteSleep, ReadSleep, Sleep, Goes
  <2> QED
    BY <1>2, <2>1, OwnersMoved
<1>7. ASSUME NEW p \in Procs,
             WriteFails(p) \/ WriteDone(p) \/ ReadFails(p) \/ ReadBytes(p)
      PROVE  FileOwners'
  <2>1. at[p] \in {"writing", "reading"} /\ Return(p) /\ open' = open /\ freed' = freed
    BY <1>7 DEF WriteFails, WriteDone, ReadFails, ReadBytes
  <2>2. at'[p] = "user" /\ files' = files /\ \A q \in Procs \ {p} : at'[q] = at[q]
    BY <1>1, <2>1 DEF Return, Goes
  <2> QED
    BY <2>1, <2>2, OwnersMoved
<1>8. ASSUME NEW p \in Procs, WriteByte(p) \/ Kill(p) PROVE FileOwners'
  BY <1>8 DEF WriteByte, Kill, PipeInv, FileOwners
<1>9. ASSUME NEW p \in Procs, Exit(p) PROVE FileOwners'
  <2>1. /\ at[p] = "user" /\ at'[p] = "gone" /\ files[p] = {}
        /\ files' = files /\ open' = open /\ freed' = freed
        /\ \A q \in Procs \ {p} : at'[q] = at[q]
    BY <1>1, <1>9 DEF Exit, Goes
  <2> QED
    BY <2>1, OwnersMoved
<1> QED
  BY <1>1, <1>3, <1>4, <1>5, <1>6, <1>7, <1>8, <1>9, CloseOwners, PipeCloseOwners,
     ForkOwners
  DEF Next, WriteLock, ReadLock, CloseLock, WriteAsleep, ReadAsleep
-----------------------------------------------------------------------------
(* The bytes                                                               *)

\* A step that touches neither the buffer nor its counters.
LEMMA WindowKept ==
    ASSUME PipeInv, UNCHANGED <<data, nread, nwrite, sent, got, ordered>>
    PROVE  Window'
<1>1. Buffered' = Buffered
  BY DEF Buffered
<1> QED
  BY <1>1 DEF PipeInv, Window, PipeIsFifo, Byte

\* pipewrite() puts the byte behind the others and overwrites none of them.
LEMMA WriteByteWindow ==
    ASSUME PipeInv, EachTyped, NEW p \in Procs, WriteByte(p)
    PROVE  Window'
<1> DEFINE B == Buffered
<1>1. /\ nwrite # Advance(nread, PipeSize) /\ nread' = nread /\ got' = got
      /\ ordered' = ordered
      /\ nwrite' = Advance(nwrite, 1) /\ sent' = (sent + 1) % Modulus
      /\ data' = [data EXCEPT ![nwrite % PipeSize] = sent]
  BY DEF WriteByte
<1>2. /\ Modulus \in Nat \ {0} /\ PipeSize \in Nat \ {0} /\ PipeSize < Modulus
      /\ nread \in 0 .. Modulus - 1 /\ nwrite \in 0 .. Modulus - 1
      /\ got \in 0 .. Modulus - 1 /\ sent \in 0 .. Modulus - 1
      /\ data \in [0 .. PipeSize - 1 -> Nat]
  BY Xv6PipeAssumption DEF PipeInv, TypeOK, Typed
<1>3. /\ B \in 0 .. Modulus - 1 /\ nwrite = Advance(nread, B) /\ B # PipeSize
      /\ B + 1 < Modulus => (Advance(nwrite, 1) - nread) % Modulus = B + 1
  BY <1>1, <1>2, Distance DEF Buffered
<1>4. B <= PipeSize /\ ordered /\ sent = (got + B) % Modulus
  BY DEF PipeInv, Window, PipeIsFifo
<1>5. B < PipeSize /\ B + 1 < Modulus
  BY <1>2, <1>3, <1>4
<1>6. Buffered' = B + 1
  BY <1>1, <1>3, <1>5 DEF Buffered
<1>7. sent' = (got + (B + 1)) % Modulus
  <2>1. (((got + B) % Modulus) + 1) % Modulus = (got + B + 1) % Modulus
    <3>1. got + B \in Int /\ 1 \in Int
      BY <1>2, <1>3
    <3> QED
      BY <1>2, <3>1, WrapThenAdd, Zenon
  <2>2. got + B + 1 = got + (B + 1)
    BY <1>2, <1>3
  <2> QED
    BY <1>1, <1>4, <2>1, <2>2, Zenon
<1>8. ASSUME NEW i \in 0 .. B
      PROVE  Byte(i)' = (got + i) % Modulus
  <2> DEFINE slot == Advance(nread, i) % PipeSize
  <2> DEFINE last == nwrite % PipeSize
  <2>1. slot = (nread + i) % PipeSize /\ last = (nread + B) % PipeSize
    <3>1. nread + i \in Int /\ nread + B \in Int
      BY <1>2, <1>3
    <3> QED
      BY <1>3, <3>1, SlotOfByte DEF Advance
  <2>2. slot \in 0 .. PipeSize - 1 /\ last \in 0 .. PipeSize - 1
    <3>1. nread + i \in Int /\ nread + B \in Int
      BY <1>2, <1>3
    <3> QED
      BY <1>2, <2>1, <3>1, Division
  <2>3. Byte(i)' = data'[slot]
    BY <1>1 DEF Byte, Advance
  <2> HIDE DEF slot, last
  <2>4. CASE i = B
    <3>1. slot = last
      BY <2>1, <2>4
    <3>2. data'[slot] = sent
      BY <1>1, <1>2, <2>2, <3>1 DEF last
    <3> QED
      BY <1>4, <2>3, <2>4, <3>2
  <2>5. CASE i # B
    <3>1. i \in 0 .. B - 1 /\ B - i \in 1 .. PipeSize - 1 /\ nread + i \in Int
      BY <1>2, <1>3, <1>5, <2>5
    <3>2. ((nread + i) + (B - i)) % PipeSize # (nread + i) % PipeSize
      BY <1>2, <3>1, Apart, Zenon
    <3>3. (nread + i) + (B - i) = nread + B
      BY <1>2, <1>3
    <3>4. slot # last
      BY <2>1, <3>2, <3>3
    <3>5. data'[slot] = data[slot]
      BY <1>1, <1>2, <2>2, <3>4 DEF last
    <3>6. data[slot] = (got + i) % Modulus
      BY <3>1 DEF PipeInv, Window, PipeIsFifo, Byte, slot
    <3> QED
      BY <2>3, <3>5, <3>6
  <2> QED
    BY <2>4, <2>5
<1>9. \A i \in 0 .. Buffered' - 1 : Byte(i)' = (got' + i) % Modulus
  <2>1. 0 .. Buffered' - 1 = 0 .. B
    BY <1>3, <1>6
  <2> QED
    BY <1>1, <1>8, <2>1
<1>10. ordered' /\ Buffered' <= PipeSize
  BY <1>1, <1>2, <1>3, <1>4, <1>5, <1>6
<1>11. sent' = (got' + Buffered') % Modulus
  BY <1>1, <1>6, <1>7
<1> QED
  BY <1>9, <1>10, <1>11 DEF Window, PipeIsFifo

\* piperead() takes the first bytes, and the others stay in their order.
LEMMA ReadBytesWindow ==
    ASSUME PipeInv, EachTyped, NEW p \in Procs, ReadBytes(p)
    PROVE  Window'
<1> DEFINE B == Buffered
<1>1. PICK k \in 0 .. Min(todo[p], Buffered) :
         /\ nread' = Advance(nread, k)
         /\ got' = (got + k) % Modulus
         /\ ordered' = (ordered /\ \A i \in 0 .. k - 1 : Byte(i) = (got + i) % Modulus)
  BY DEF ReadBytes
<1>2. /\ Modulus \in Nat \ {0} /\ PipeSize \in Nat \ {0} /\ PipeSize < Modulus
      /\ nread \in 0 .. Modulus - 1 /\ nwrite \in 0 .. Modulus - 1
      /\ got \in 0 .. Modulus - 1 /\ sent \in 0 .. Modulus - 1
      /\ todo[p] \in Nat
  BY Xv6PipeAssumption DEF PipeInv, TypeOK, Typed
<1>3. data' = data /\ nwrite' = nwrite /\ sent' = sent
  BY DEF ReadBytes
<1>4. B \in 0 .. Modulus - 1
  BY <1>2, Distance DEF Buffered
<1>5. k \in 0 .. B
  BY <1>2, <1>4 DEF Min
<1>6. Buffered' = B - k
  <2>1. (nwrite - Advance(nread, k)) % Modulus = B - k
    BY <1>2, <1>5, Distance DEF Buffered
  <2> QED
    BY <1>1, <1>3, <2>1 DEF Buffered
<1>7. /\ B <= PipeSize /\ ordered /\ sent = (got + B) % Modulus
      /\ \A i \in 0 .. B - 1 : Byte(i) = (got + i) % Modulus
  BY DEF PipeInv, Window, PipeIsFifo
<1>8. ordered'
  <2>1. \A i \in 0 .. k - 1 : i \in 0 .. B - 1
    BY <1>4, <1>5
  <2> QED
    BY <1>1, <1>7, <2>1
<1>9. sent' = (got' + Buffered') % Modulus
  <2>1. (((got + k) % Modulus) + (B - k)) % Modulus = ((got + k) + (B - k)) % Modulus
    <3>1. got + k \in Int /\ B - k \in Int
      BY <1>2, <1>4, <1>5
    <3> QED
      BY <1>2, <3>1, WrapThenAdd, Zenon
  <2>2. (got + k) + (B - k) = got + B
    BY <1>2, <1>4, <1>5
  <2> QED
    BY <1>1, <1>3, <1>6, <1>7, <2>1, <2>2
<1>10. ASSUME NEW i \in 0 .. B - k - 1
       PROVE  Byte(i)' = (got' + i) % Modulus
  <2>1. /\ k + i \in 0 .. B - 1 /\ i \in Int /\ nread + k \in Int /\ got + k \in Int
        /\ nread + k + i = nread + (k + i) /\ got + k + i = got + (k + i)
    BY <1>2, <1>4, <1>5
  <2>2. (((nread + k) % Modulus) + i) % Modulus = (nread + k + i) % Modulus
    BY <1>2, <2>1, WrapThenAdd, Zenon
  <2>3. (((got + k) % Modulus) + i) % Modulus = (got + k + i) % Modulus
    BY <1>2, <2>1, WrapThenAdd, Zenon
  <2>4. Advance(nread', i) = Advance(nread, k + i)
    BY <1>1, <2>1, <2>2, Zenon DEF Advance
  <2>5. Byte(i)' = Byte(k + i)
    <3>1. Byte(i)' = data'[Advance(nread', i) % PipeSize]
      BY DEF Byte, Advance
    <3> QED
      BY <1>3, <2>4, <3>1 DEF Byte
  <2>6. Byte(k + i) = (got + (k + i)) % Modulus
    BY <1>7, <2>1
  <2> QED
    BY <1>1, <2>1, <2>3, <2>5, <2>6, Zenon
<1>11. B - k <= PipeSize
  BY <1>2, <1>4, <1>5, <1>7
<1> QED
  BY <1>6, <1>8, <1>9, <1>10, <1>11 DEF Window, PipeIsFifo

\* Every step keeps the bytes in order.
LEMMA WindowStep ==
    ASSUME PipeInv, [Next]_vars
    PROVE  Window'
<1>1. EachTyped
  BY EachTypedNow DEF PipeInv
<1> USE DEF pipeVars, history
<1>2. CASE UNCHANGED vars
  BY <1>2, WindowKept DEF vars
<1>3. ASSUME NEW p \in Procs,
             \/ \E n \in Sizes : Write(p, n) \/ Read(p, n)
             \/ WriteFails(p) \/ WriteFull(p) \/ WriteSleep(p) \/ WriteDone(p)
             \/ ReadFails(p) \/ ReadEmpty(p) \/ ReadSleep(p)
             \/ \E e \in Ends : Close(p, e) \/ PipeClose(p, e)
             \/ \E q \in Procs : Fork(p, q)
             \/ Kill(p) \/ Exit(p)
      PROVE  Window'
  <2>1. UNCHANGED <<data, nread, nwrite, sent, got, ordered>>
    BY <1>3 DEF Write, Read, WriteFails, WriteFull, WriteSleep, WriteDone, ReadFails,
       ReadEmpty, ReadSleep, Close, PipeClose, Fork, Kill, Exit
  <2> QED
    BY <2>1, WindowKept
<1>4. ASSUME NEW p \in Procs,
             WriteLock(p) \/ ReadLock(p) \/ CloseLock(p) \/ WriteAsleep(p) \/ ReadAsleep(p)
      PROVE  Window'
  <2>1. UNCHANGED <<data, nread, nwrite, sent, got, ordered>>
    BY <1>4 DEF WriteLock, ReadLock, CloseLock, WriteAsleep, ReadAsleep, Acquire, Sleep
  <2> QED
    BY <2>1, WindowKept
<1> QED
  BY <1>1, <1>2, <1>3, <1>4, WriteByteWindow, ReadBytesWindow DEF Next
-----------------------------------------------------------------------------
(* Who sleeps, and why                                                     *)

\* A step of process p that does not make it go to sleep, and that does not
\* hide bytes from the readers.
LEMMA SleepersKept ==
    ASSUME PipeInv, NEW p \in Procs,
           nread' = nread, nwrite' = nwrite, open' = open,
           \A q \in Procs \ {p} : at'[q] = at[q] /\ done'[q] = done[q],
           \A q \in Procs : chan'[q] \in {chan[q], None},
           at'[p] \in {"readSleep", "readDozes", "writeSleep", "writeDozes"} => at'[p] = at[p],
           untold => untold',
           at[p] = "writing" /\ done[p] > 0 =>
             untold' \/ (at'[p] = "writing" /\ done'[p] > 0)
    PROVE  Sleepers'
<1>1. Buffered' = Buffered
  BY DEF Buffered
<1>2. (\E r \in Procs : at[r] = "writing" /\ done[r] > 0) =>
         untold' \/ \E r \in Procs : at'[r] = "writing" /\ done'[r] > 0
  OBVIOUS
<1> SUFFICES ASSUME NEW q \in Procs
             PROVE  /\ at'[q] = "readSleep" => nread = nwrite /\ "write" \in open
                    /\ chan'[q] = "nread" \/ at'[q] = "readDozes" =>
                         /\ "write" \in open
                         /\ \/ nread = nwrite \/ untold'
                            \/ \E r \in Procs : at'[r] = "writing" /\ done'[r] > 0
                    /\ chan'[q] = "nwrite" \/ at'[q] \in {"writeSleep", "writeDozes"} =>
                         Buffered = PipeSize /\ "read" \in open
  BY <1>1 DEF Sleepers
<1>3. chan'[q] # None => chan'[q] = chan[q]
  OBVIOUS
<1>4. None # "nread" /\ None # "nwrite"
  BY Xv6PipeAssumption
<1>5. at'[q] \in {"readSleep", "readDozes", "writeSleep", "writeDozes"} => at'[q] = at[q]
  OBVIOUS
<1> QED
  BY <1>2, <1>3, <1>4, <1>5 DEF PipeInv, Sleepers

\* While p is inside a function of pipe.c nobody else is, and while it wakes
\* others nobody is on its way to sleep.
LEMMA Alone ==
    ASSUME PipeInv, NEW p \in Procs, at[p] \in Holding, NEW q \in Procs
    PROVE  /\ q # p => at[q] \notin Holding
           /\ plock = {} => at[q] \notin Dozing
BY DEF PipeInv, Locks

\* pipewrite() puts a byte: nobody sleeps for space, and the readers that
\* sleep will be woken by this writer.
LEMMA WriteByteSleepers ==
    ASSUME PipeInv, EachTyped, NEW p \in Procs, WriteByte(p)
    PROVE  Sleepers'
<1>1. /\ at[p] = "writing" /\ at' = at /\ chan' = chan /\ open' = open
      /\ nwrite # Advance(nread, PipeSize)
      /\ done'[p] = done[p] + 1
  BY DEF WriteByte, PipeInv, TypeOK
<1>2. done'[p] > 0
  BY <1>1 DEF EachTyped
<1>3. Buffered # PipeSize
  BY <1>1, Distance DEF Buffered, EachTyped
<1>4. \A q \in Procs : at[q] # "readSleep"
  BY <1>1, Alone DEF Holding
<1>5. \A q \in Procs : chan[q] # "nwrite" /\ at[q] \notin {"writeSleep", "writeDozes"}
  BY <1>3 DEF PipeInv, Sleepers
<1>6. \A q \in Procs : chan[q] = "nread" \/ at[q] = "readDozes" => "write" \in open
  BY DEF PipeInv, Sleepers
<1> QED
  BY <1>1, <1>2, <1>4, <1>5, <1>6 DEF Sleepers

\* A writer wakes the readers, because the pipe is full or all is written.
LEMMA WriterWakes ==
    ASSUME PipeInv, EachTyped, NEW p \in Procs, WriteFull(p) \/ WriteDone(p)
    PROVE  Sleepers'
<1>1. /\ at[p] = "writing" /\ plock = {}
      /\ nread' = nread /\ nwrite' = nwrite /\ open' = open
      /\ \A q \in Procs : chan'[q] = IF chan[q] = "nread" THEN None ELSE chan[q]
      /\ \A q \in Procs \ {p} : at'[q] = at[q]
      /\ \/ at'[p] = "user"
         \/ at'[p] = "writeSleep" /\ "read" \in open /\ nwrite = Advance(nread, PipeSize)
  BY DEF WriteFull, WriteDone, Wakeup, Return, Goes, pipeVars, PipeInv, Typed
<1>2. Buffered' = Buffered /\ (nwrite = Advance(nread, PipeSize) => Buffered = PipeSize)
  BY <1>1, Distance DEF Buffered, EachTyped
<1>3. \A q \in Procs : chan'[q] # "nread" /\ at'[q] \notin {"readSleep", "readDozes"}
  <2> TAKE q \in Procs
  <2>1. chan'[q] # "nread"
    BY <1>1, Xv6PipeAssumption
  <2>2. at'[q] \notin {"readSleep", "readDozes"}
    BY <1>1, Alone DEF Holding, Dozing
  <2> QED
    BY <2>1, <2>2
<1>4. ASSUME NEW q \in Procs, chan'[q] = "nwrite" \/ at'[q] \in {"writeSleep", "writeDozes"}
      PROVE  Buffered' = PipeSize /\ "read" \in open'
  <2>1. CASE chan'[q] = "nwrite"
    <3>1. chan[q] = "nwrite"
      BY <1>1, <2>1, Xv6PipeAssumption
    <3> QED
      BY <1>1, <1>2, <3>1 DEF PipeInv, Sleepers
  <2>2. CASE q = p /\ at'[q] \in {"writeSleep", "writeDozes"}
    BY <1>1, <1>2, <2>2
  <2>3. CASE q # p /\ at'[q] \in {"writeSleep", "writeDozes"}
    BY <1>1, <1>2, <2>3 DEF PipeInv, Sleepers
  <2> QED
    BY <1>4, <2>1, <2>2, <2>3
<1> QED
  BY <1>3, <1>4 DEF Sleepers

\* A process goes to sleep: its reason is the one it had when it looked.
LEMMA GoesToSleep ==
    ASSUME PipeInv, EachTyped, NEW p \in Procs,
           \/ ReadEmpty(p) \/ WriteSleep(p) \/ ReadSleep(p)
           \/ Sleep(p, "writeDozes", "nwrite", "write")
           \/ Sleep(p, "readDozes", "nread", "read")
    PROVE  Sleepers'
<1>1. /\ nread' = nread /\ nwrite' = nwrite /\ open' = open /\ untold' = untold
      /\ done' = done
      /\ \A q \in Procs \ {p} : at'[q] = at[q] /\ chan'[q] = chan[q]
  BY DEF ReadEmpty, WriteSleep, ReadSleep, Sleep, Goes, pipeVars, history, PipeInv, TypeOK,
     Typed
<1>2. \/ /\ at[p] = "reading" /\ at'[p] = "readSleep" /\ chan'[p] = chan[p]
         /\ nread = nwrite /\ "write" \in open
      \/ at[p] = "writeSleep" /\ at'[p] = "writeDozes" /\ chan'[p] = chan[p]
      \/ at[p] = "readSleep" /\ at'[p] = "readDozes" /\ chan'[p] = chan[p]
      \/ at[p] = "writeDozes" /\ at'[p] = "write" /\ chan'[p] = "nwrite"
      \/ at[p] = "readDozes" /\ at'[p] = "read" /\ chan'[p] = "nread"
  BY DEF ReadEmpty, WriteSleep, ReadSleep, Sleep, Goes, PipeInv, TypeOK, Typed
<1>3. Buffered' = Buffered
  BY <1>1 DEF Buffered
<1>4. (\E r \in Procs : at[r] = "writing" /\ done[r] > 0) =>
         \E r \in Procs : at'[r] = "writing" /\ done'[r] > 0
  BY <1>1, <1>2
<1> SUFFICES ASSUME NEW q \in Procs
             PROVE  /\ at'[q] = "readSleep" => nread = nwrite /\ "write" \in open
                    /\ chan'[q] = "nread" \/ at'[q] = "readDozes" =>
                         /\ "write" \in open
                         /\ \/ nread = nwrite \/ untold
                            \/ \E r \in Procs : at'[r] = "writing" /\ done'[r] > 0
                    /\ chan'[q] = "nwrite" \/ at'[q] \in {"writeSleep", "writeDozes"} =>
                         Buffered = PipeSize /\ "read" \in open
  BY <1>1, <1>3 DEF Sleepers
<1>5. CASE q = p
  BY <1>2, <1>4, <1>5 DEF PipeInv, Sleepers
<1>6. CASE q # p
  BY <1>1, <1>4, <1>6 DEF PipeInv, Sleepers
<1> QED
  BY <1>5, <1>6

\* piperead() wakes the writers.  Readers that still sleep find no byte more.
LEMMA ReaderWakes ==
    ASSUME PipeInv, EachTyped, NEW p \in Procs, ReadBytes(p)
    PROVE  Sleepers'
<1>1. /\ at[p] = "reading" /\ at'[p] = "user" /\ plock = {}
      /\ nwrite' = nwrite /\ open' = open
      /\ \A q \in Procs : chan'[q] = IF chan[q] = "nwrite" THEN None ELSE chan[q]
      /\ \A q \in Procs \ {p} : at'[q] = at[q]
  BY DEF ReadBytes, Wakeup, Return, Goes, PipeInv, Typed
<1>2. untold' <=> untold
  BY DEF ReadBytes, Wakeup
<1>3. PICK k \in 0 .. Min(todo[p], Buffered) : nread' = Advance(nread, k)
  BY DEF ReadBytes
<1>4. nread = nwrite => nread' = nwrite
  <2> SUFFICES ASSUME nread = nwrite PROVE nread' = nread
    OBVIOUS
  <2>1. Buffered = 0
    BY Distance DEF Buffered, EachTyped
  <2>2. k = 0
    BY <2>1 DEF Min, EachTyped
  <2>3. nread + 0 = nread /\ nread % Modulus = nread
    BY Xv6PipeAssumption, InRange DEF EachTyped
  <2> QED
    BY <1>3, <2>2, <2>3 DEF Advance
<1>5. \A q \in Procs : at[q] # "writing"
  BY <1>1, Alone DEF Holding
<1>6. \A q \in Procs : at'[q] \notin {"readSleep", "readDozes", "writeSleep", "writeDozes"}
  BY <1>1, Alone DEF Holding, Dozing
<1>7. \A q \in Procs : chan'[q] # "nwrite"
  BY <1>1, Xv6PipeAssumption
<1>8. ASSUME NEW q \in Procs, chan'[q] = "nread"
      PROVE  "write" \in open /\ (nread' = nwrite \/ untold')
  <2>1. chan[q] = "nread"
    BY <1>1, <1>8, Xv6PipeAssumption
  <2> QED
    BY <1>2, <1>4, <1>5, <2>1 DEF PipeInv, Sleepers
<1> QED
  BY <1>1, <1>6, <1>7, <1>8 DEF Sleepers

\* pipeclose() wakes those who wait for the end that it closes.
LEMMA CloserWakes ==
    ASSUME PipeInv, EachTyped, NEW p \in Procs, NEW e \in Ends, PipeClose(p, e)
    PROVE  Sleepers'
<1> DEFINE c == WokenByClose(e)
<1>1. /\ at[p] \in {"closingRead", "closingWrite"} /\ at'[p] = "user" /\ plock = {}
      /\ nread' = nread /\ nwrite' = nwrite /\ open' = open \ {e}
      /\ \A q \in Procs : chan'[q] = IF chan[q] = c THEN None ELSE chan[q]
      /\ \A q \in Procs \ {p} : at'[q] = at[q]
  BY DEF PipeClose, Wakeup, Return, Goes, PipeInv, Typed
<1>2. c # "nread" => (untold' <=> untold)
  BY DEF PipeClose, Wakeup
<1>3. \/ e = "read" /\ c = "nwrite"
      \/ e = "write" /\ c = "nread"
  BY DEF WokenByClose, Ends
<1>4. \A q \in Procs : at[q] # "writing"
  BY <1>1, Alone DEF Holding
<1>5. \A q \in Procs : at'[q] \notin {"readSleep", "readDozes", "writeSleep", "writeDozes"}
  BY <1>1, Alone DEF Holding, Dozing
<1>6. \A q \in Procs : chan'[q] # c /\ (chan'[q] \in {"nread", "nwrite"} => chan[q] = chan'[q])
  BY <1>1, <1>3, Xv6PipeAssumption
<1>7. Buffered' = Buffered
  BY <1>1 DEF Buffered
<1>8. ASSUME NEW q \in Procs, chan'[q] = "nread"
      PROVE  "write" \in open' /\ (nread' = nwrite' \/ untold')
  <2>1. chan[q] = "nread" /\ e = "read" /\ c # "nread"
    BY <1>3, <1>6, <1>8
  <2> QED
    BY <1>1, <1>2, <1>4, <2>1 DEF PipeInv, Sleepers
<1>9. ASSUME NEW q \in Procs, chan'[q] = "nwrite"
      PROVE  Buffered' = PipeSize /\ "read" \in open'
  <2>1. chan[q] = "nwrite" /\ e = "write"
    BY <1>3, <1>6, <1>9
  <2> QED
    BY <1>1, <1>7, <2>1 DEF PipeInv, Sleepers
<1> QED
  BY <1>5, <1>8, <1>9 DEF Sleepers

\* Every step keeps the reasons of those who sleep.
LEMMA SleepersStep ==
    ASSUME PipeInv, [Next]_vars
    PROVE  Sleepers'
<1>1. /\ at \in [Procs -> Places] /\ done \in [Procs -> Nat]
      /\ chan \in [Procs -> {"nread", "nwrite", None}] /\ EachTyped
  BY EachTypedNow DEF PipeInv, TypeOK, Typed
<1> USE DEF pipeVars, history
<1>2. CASE UNCHANGED vars
  BY <1>2 DEF vars, PipeInv, Sleepers, Buffered
<1>3. ASSUME NEW p \in Procs, NEW n \in Sizes, Write(p, n) \/ Read(p, n) PROVE Sleepers'
  <2>1. /\ nread' = nread /\ nwrite' = nwrite /\ open' = open /\ chan' = chan
        /\ untold' = untold /\ at[p] = "user" /\ at'[p] \in {"write", "read"}
        /\ \A q \in Procs \ {p} : at'[q] = at[q] /\ done'[q] = done[q]
    BY <1>1, <1>3 DEF Write, Read, Goes
  <2> QED
    BY <2>1, SleepersKept
<1>4. ASSUME NEW p \in Procs,
             \/ Acquire(p, "write", "writing") \/ Acquire(p, "read", "reading")
             \/ Acquire(p, "closeRead", "closingRead")
             \/ Acquire(p, "closeWrite", "closingWrite")
      PROVE  Sleepers'
  <2>1. /\ nread' = nread /\ nwrite' = nwrite /\ open' = open /\ chan' = chan
        /\ untold' = untold /\ done' = done
        /\ at[p] \in {"write", "read", "closeRead", "closeWrite"}
        /\ at'[p] \in {"writing", "reading", "closingRead", "closingWrite"}
        /\ \A q \in Procs \ {p} : at'[q] = at[q]
    BY <1>1, <1>4 DEF Acquire, Goes
  <2> QED
    BY <2>1, SleepersKept
<1>5. ASSUME NEW p \in Procs, WriteFails(p) \/ ReadFails(p) PROVE Sleepers'
  <2>1. /\ nread' = nread /\ nwrite' = nwrite /\ open' = open /\ chan' = chan
        /\ at'[p] = "user" /\ at[p] \in {"writing", "reading"}
        /\ \A q \in Procs \ {p} : at'[q] = at[q] /\ done'[q] = done[q]
    BY <1>1, <1>5 DEF WriteFails, ReadFails, Return, Goes
  <2>2. /\ untold => untold'
        /\ at[p] = "writing" /\ done[p] > 0 => untold'
    <3>1. CASE WriteFails(p)
      BY <3>1, Zenon DEF WriteFails
    <3>2. CASE ReadFails(p)
      BY <3>2 DEF ReadFails
    <3> QED
      BY <1>5, <3>1, <3>2
  <2> QED
    BY <2>1, <2>2, SleepersKept
<1>6. ASSUME NEW p \in Procs, Kill(p) PROVE Sleepers'
  <2>1. /\ nread' = nread /\ nwrite' = nwrite /\ open' = open
        /\ at' = at /\ done' = done /\ untold' = untold
        /\ \A q \in Procs : chan'[q] \in {chan[q], None}
    BY <1>1, <1>6 DEF Kill
  <2> QED
    BY <2>1, SleepersKept
<1>7. ASSUME NEW p \in Procs, Exit(p) \/ \E e \in Ends : Close(p, e) PROVE Sleepers'
  <2>1. /\ nread' = nread /\ nwrite' = nwrite /\ open' = open /\ chan' = chan
        /\ untold' = untold /\ done' = done
        /\ at[p] = "user" /\ at'[p] \in {"user", "gone", "closeRead", "closeWrite"}
        /\ \A q \in Procs \ {p} : at'[q] = at[q]
    BY <1>1, <1>7 DEF Exit, Close, Goes
  <2> QED
    BY <2>1, SleepersKept
<1>8. ASSUME NEW p \in Procs, NEW q \in Procs, Fork(p, q) PROVE Sleepers'
  <2>1. /\ nread' = nread /\ nwrite' = nwrite /\ open' = open /\ chan' = chan
        /\ untold' = untold /\ done' = done
        /\ at[q] = "unused" /\ at'[q] = "user"
        /\ \A r \in Procs \ {q} : at'[r] = at[r]
    BY <1>1, <1>8 DEF Fork, Goes
  <2> QED
    BY <2>1, SleepersKept
<1> QED
  BY <1>1, <1>2, <1>3, <1>4, <1>5, <1>6, <1>7, <1>8, WriteByteSleepers, WriterWakes,
     GoesToSleep, ReaderWakes, CloserWakes
  DEF Next, WriteLock, ReadLock, CloseLock, WriteAsleep, ReadAsleep
-----------------------------------------------------------------------------
(* The theorems                                                            *)

\* The pipe that pipealloc() makes.
LEMMA InvariantInit == Init => PipeInv
<1> SUFFICES ASSUME Init PROVE PipeInv
  OBVIOUS
<1>1. TypeOK
  <2>1. Modulus \in Nat \ {0} /\ First \in Procs
    BY Xv6PipeAssumption
  <2> QED
    BY <2>1 DEF Init, TypeOK, Ends
<1>2. Typed
  <2>1. at \in [Procs -> Places]
    BY DEF Init, Places
  <2>2. sent \in 0 .. Modulus - 1 /\ got \in 0 .. Modulus - 1
    BY Xv6PipeAssumption DEF Init
  <2> QED
    BY <2>1, <2>2 DEF Init, Typed
<1>3. Locks
  BY Xv6PipeAssumption DEF Init, Locks, Holding, Dozing
<1>4. FileOwners
  <2>1. \A p \in Procs, e \in Ends : at[p] \notin Closing(e)
    BY DEF Init, Closing
  <2>2. \A e \in Ends : e \in files[First]
    BY Xv6PipeAssumption DEF Init
  <2>3. \A p \in Procs : /\ at[p] \notin Writer \union Reader
                         /\ at[p] \in {"unused", "gone"} => files[p] = {}
    BY DEF Init, Writer, Reader
  <2>4. open # {} /\ freed = 0 /\ open = Ends
    BY DEF Init, Ends
  <2> QED
    BY <2>1, <2>2, <2>3, <2>4, Xv6PipeAssumption DEF FileOwners
<1>5. Buffered = 0
  BY <1>1, Distance DEF Buffered, Init, TypeOK
<1>6. Window
  <2>1. 0 % Modulus = 0
    BY Xv6PipeAssumption, InRange
  <2> QED
    BY <1>5, <2>1, Xv6PipeAssumption DEF Init, Window, PipeIsFifo
<1>7. Sleepers
  BY Xv6PipeAssumption DEF Init, Sleepers
<1> QED
  BY <1>1, <1>2, <1>3, <1>4, <1>6, <1>7 DEF PipeInv

\* The invariant of the pipe: the locks, the files, the bytes and the
\* sleepers of pipe.c.
THEOREM PipeInvariant == Spec => []PipeInv
<1>1. PipeInv /\ [Next]_vars => PipeInv'
  BY TypeStep, LocksStep, OwnersStep, WindowStep, SleepersStep DEF PipeInv
<1> QED
  BY <1>1, InvariantInit, PTL DEF Spec

\* piperead() returns the bytes in the order in which pipewrite() took them,
\* each one once, also when nread and nwrite wrap around.
THEOREM BytesInOrder == Spec => []PipeIsFifo
<1>1. PipeInv => PipeIsFifo
  BY DEF PipeInv, Window
<1> QED
  BY <1>1, PipeInvariant, PTL

\* No wakeup of pipe.c is lost, but for the bytes of a writer that was killed.
THEOREM NoWakeupIsLost == Spec => []SleepsForAReason
<1>1. ASSUME PipeInv PROVE SleepsForAReason
  <2> SUFFICES ASSUME lock = None, NEW p \in Procs
               PROVE  /\ chan[p] = "nread" => (nread = nwrite \/ untold) /\ "write" \in open
                      /\ chan[p] = "nwrite" => Buffered = PipeSize /\ "read" \in open
    BY DEF SleepsForAReason
  <2>1. \A q \in Procs : at[q] # "writing"
    BY <1>1, Xv6PipeAssumption DEF PipeInv, Locks, Holding
  <2> QED
    BY <1>1, <2>1 DEF PipeInv, Sleepers
<1> QED
  BY <1>1, PipeInvariant, PTL

\* pipeclose() frees pi once, when nobody has a file of the pipe or is inside
\* one of its functions.
THEOREM FreedOnce == Spec => []PipeLives
<1>1. ASSUME PipeInv PROVE PipeLives
  <2>1. EachTyped
    BY <1>1, EachTypedNow DEF PipeInv
  <2>2. freed = 1 => open = {}
    BY <1>1 DEF PipeInv, FileOwners
  <2>3. ASSUME open = {}, NEW p \in Procs
        PROVE  files[p] = {} /\ at[p] \in {"user", "unused", "gone"}
    <3>1. \A e \in Ends : e \notin files[p] /\ at[p] \notin Closing(e)
      BY <1>1, <2>3 DEF PipeInv, FileOwners
    <3>2. files[p] = {}
      BY <2>1, <3>1 DEF EachTyped
    <3>3. at[p] \notin Writer \union Reader
      BY <1>1, <3>2 DEF PipeInv, FileOwners
    <3>4. at[p] \notin {"closeRead", "closingRead", "closeWrite", "closingWrite"}
      BY <3>1 DEF Closing, Ends
    <3> QED
      BY <2>1, <3>2, <3>3, <3>4 DEF EachTyped, Places
  <2>4. freed <= 1 /\ (freed = 0 => open # {})
    BY <1>1 DEF PipeInv, FileOwners
  <2> QED
    BY <1>1, <2>2, <2>3, <2>4 DEF PipeLives, NoUseAfterFree, PipeInv
<1> QED
  BY <1>1, PipeInvariant, PTL
-----------------------------------------------------------------------------
(* The console: its invariant                                              *)

\* What the port, its interrupt and the writers have to do with each other: uartwrite()
\* finds at most the byte of an echo in the port, and the echo finds none.
SerialInv ==
    /\ txBusy \in BOOLEAN /\ txIrq \in BOOLEAN
    /\ thr \in 0 .. 2 /\ (~ txBusy => thr <= 1)
    /\ txBusy => thr > 0 \/ txIrq \/ uartAt = "acked"
    /\ txAsleep # {} => txBusy

\* The place in the ring of the k-th character behind index i.
Slot(i, k) == (i + k - 1) % InputBuf

\* The ring from cons.r on: first the characters that were entered, then those that can
\* be edited.  The latter never fill it, since the last one enters all of them.
InputInv ==
    /\ ring \in [0 .. InputBuf - 1 -> Chars]
    /\ lines \in Seq(Chars) /\ editing \in Seq(Chars)
    /\ want \in Nat /\ copied \in Nat
    /\ rIdx \in 0 .. IndexMod - 1
    /\ wIdx = Step(rIdx, Len(lines))
    /\ eIdx = Step(rIdx, Len(lines) + Len(editing))
    /\ Len(lines) + Len(editing) <= InputBuf /\ Len(editing) < InputBuf
    /\ \A k \in 1 .. Len(lines) : lines[k] = ring[Slot(rIdx, k)]
    /\ \A k \in 1 .. Len(editing) : editing[k] = ring[Slot(rIdx, Len(lines) + k)]
    /\ asleep => lines = <<>>
    /\ result.eof => result.bytes = 0

ConsoleInv == SerialInv /\ InputInv
-----------------------------------------------------------------------------
(* Its indices                                                             *)

\* The sizes of the ring and of its indices.
LEMMA ConsoleSizes ==
    /\ InputBuf \in Nat \ {0} /\ IndexMod \in Nat \ {0}
    /\ IndexMod % InputBuf = 0 /\ InputBuf < IndexMod
  BY ConsoleAssumption

\* Two steps of an index are one, and an index knows how far it went.
LEMMA Steps ==
    ASSUME NEW i \in Int, NEW a \in Int, NEW b \in Int
    PROVE  /\ Step(i, a) \in 0 .. IndexMod - 1
           /\ Step(Step(i, a), b) = Step(i, a + b)
           /\ b \in 0 .. IndexMod - 1 => Between(Step(i, a), Step(i, a + b)) = b
<1>0. IndexMod \in Nat \ {0}
  BY ConsoleSizes
<1>1. Step(i, a) \in 0 .. IndexMod - 1
  BY <1>0, Division DEF Step
<1>ints. i + a \in Int /\ i + (a + b) \in Int /\ Step(i, a) \in Int /\ - Step(i, a) \in Int
  BY <1>1
<1>2. Step(Step(i, a), b) = Step(i, a + b)
  <2>1. (((i + a) % IndexMod) + b) % IndexMod = ((i + a) + b) % IndexMod
    BY <1>0, <1>ints, WrapThenAdd, Zenon
  <2>2. (i + a) + b = i + (a + b)
    OBVIOUS
  <2> QED
    BY <2>1, <2>2 DEF Step
<1>3. ASSUME b \in 0 .. IndexMod - 1
      PROVE  Between(Step(i, a), Step(i, a + b)) = b
  <2> DEFINE x == Step(i, a)
  <2>1. (((i + (a + b)) % IndexMod) + (- x)) % IndexMod = ((i + (a + b)) + (- x)) % IndexMod
    BY <1>0, <1>ints, WrapThenAdd, Zenon
  <2>2. ((i + (a + b)) - ((i + a) % IndexMod)) % IndexMod
            = ((i + (a + b)) - (i + a)) % IndexMod
    BY <1>0, <1>ints, WrapThenAdd, Zenon
  <2>3. (i + (a + b)) - (i + a) = b /\ (i + (a + b)) + (- x) = (i + (a + b)) - x
    BY <1>ints
  <2>4. Step(i, a + b) \in Int
    BY <1>0, <1>ints, Division DEF Step
  <2>5. Step(i, a + b) - x = Step(i, a + b) + (- x)
    BY <1>ints, <2>4
  <2>6. b % IndexMod = b
    BY <1>0, <1>3, InRange
  <2> QED
    BY <2>1, <2>2, <2>3, <2>5, <2>6 DEF Step, Between
<1> QED
  BY <1>1, <1>2, <1>3

\* The slots behind an index that moves.
LEMMA Slots ==
    ASSUME NEW i \in Int, NEW a \in Int, NEW k \in Int
    PROVE  /\ Slot(i, k) \in 0 .. InputBuf - 1
           /\ Slot(Step(i, a), k) = Slot(i, a + k)
           /\ Step(i, a) % InputBuf = Slot(i, a + 1)
<1>0. InputBuf \in Nat \ {0} /\ IndexMod \in Nat \ {0} /\ IndexMod % InputBuf = 0
  BY ConsoleSizes
<1>1. /\ i + a \in Int /\ k - 1 \in Int /\ i + k - 1 \in Int /\ Step(i, a) \in Int
      /\ i + (a + 1) - 1 = i + a /\ i + (a + k) - 1 = (i + a) + (k - 1)
      /\ Step(i, a) + k - 1 = Step(i, a) + (k - 1)
  BY Steps
<1>ints. i + a \in Int /\ k - 1 \in Int /\ Step(i, a) \in Int
  BY <1>1
<1>2. Slot(i, k) \in 0 .. InputBuf - 1
  BY <1>0, <1>1, Division DEF Slot
<1>3. Step(i, a) % InputBuf = (i + a) % InputBuf
  BY <1>0, <1>1, SlotOfWrapped DEF Step
<1>4. PICK x \in Int : x = Step(i, a)
  BY <1>1
<1>5. PICK y \in Int : y = i + a
  BY <1>1
<1>6. PICK z \in Int : z = k - 1
  BY <1>1
<1>7. ((x % InputBuf) + z) % InputBuf = (x + z) % InputBuf
  BY <1>0, WrapThenAdd, Zenon
<1>8. ((y % InputBuf) + z) % InputBuf = (y + z) % InputBuf
  BY <1>0, WrapThenAdd, Zenon
<1>9. (x + z) % InputBuf = (y + z) % InputBuf
  BY <1>3, <1>4, <1>5, <1>7, <1>8, Zenon
<1>10. Slot(Step(i, a), k) = Slot(i, a + k)
  BY <1>1, <1>4, <1>5, <1>6, <1>9 DEF Slot
<1> QED
  BY <1>1, <1>2, <1>3, <1>10 DEF Slot

\* Characters that the ring has room for do not share a slot.
LEMMA SlotsApart ==
    ASSUME NEW i \in Int, NEW j \in Nat, NEW k \in Nat, 1 <= j, j < k, k <= InputBuf
    PROVE  Slot(i, j) # Slot(i, k)
<1>1. InputBuf \in Nat \ {0} /\ i + j - 1 \in Int /\ k - j \in 1 .. InputBuf - 1
  BY ConsoleSizes
<1>2. ((i + j - 1) + (k - j)) % InputBuf # (i + j - 1) % InputBuf
  BY <1>1, Apart
<1>3. (i + j - 1) + (k - j) = i + k - 1
  OBVIOUS
<1> QED
  BY <1>2, <1>3 DEF Slot

\* The indices of the ring count what it holds.
LEMMA Indices ==
    ASSUME InputInv
    PROVE  /\ Len(lines) \in Nat /\ Len(editing) \in Nat
           /\ rIdx \in 0 .. IndexMod - 1 /\ wIdx \in 0 .. IndexMod - 1
           /\ eIdx \in 0 .. IndexMod - 1
           /\ Between(rIdx, wIdx) = Len(lines)
           /\ Between(wIdx, eIdx) = Len(editing)
           /\ Between(rIdx, eIdx) = Len(lines) + Len(editing)
           /\ rIdx = wIdx <=> lines = <<>>
           /\ HasRoom <=> Len(lines) + Len(editing) < InputBuf
<1> DEFINE l == Len(lines)
<1> DEFINE e == Len(editing)
<1>1. l \in Nat /\ e \in Nat /\ l + e <= InputBuf /\ (lines = <<>> <=> l = 0)
  BY DEF InputInv
<1>2. /\ rIdx \in 0 .. IndexMod - 1 /\ wIdx = Step(rIdx, l) /\ eIdx = Step(rIdx, l + e)
  BY DEF InputInv
<1> HIDE DEF l, e
<1>3. /\ InputBuf \in Nat /\ IndexMod \in Nat /\ InputBuf < IndexMod
      /\ rIdx \in Int /\ l \in 0 .. IndexMod - 1 /\ e \in 0 .. IndexMod - 1
      /\ l + e \in 0 .. IndexMod - 1 /\ 0 + l = l /\ 0 + (l + e) = l + e /\ 0 \in Int
      /\ l \in Int /\ e \in Int /\ l + e \in Int
  BY <1>1, <1>2, ConsoleSizes
<1>4. Step(rIdx, 0) = rIdx
  BY <1>2, <1>3, InRange, ConsoleSizes DEF Step
<1>5. wIdx \in 0 .. IndexMod - 1 /\ eIdx \in 0 .. IndexMod - 1
  BY <1>2, <1>3, Steps
<1>6. Between(rIdx, wIdx) = l
  BY <1>2, <1>3, <1>4, Steps
<1>7. Between(rIdx, eIdx) = l + e
  BY <1>2, <1>3, <1>4, Steps
<1>8. Between(wIdx, eIdx) = e
  BY <1>2, <1>3, Steps
<1>9. rIdx = wIdx <=> l = 0
  <2>1. l = 0 => rIdx = wIdx
    BY <1>2, <1>4
  <2>2. rIdx = wIdx => l = 0
    <3>1. (rIdx - rIdx) % IndexMod = 0
      BY <1>3, InRange, ConsoleSizes
    <3> QED
      BY <1>6, <3>1 DEF Between
  <2> QED
    BY <2>1, <2>2
<1> QED
  BY <1>1, <1>2, <1>5, <1>6, <1>7, <1>8, <1>9 DEF HasRoom, l, e
\* ^U stops at the latest at the line that was entered.
LEMMA EraseCountInRange == ASSUME InputInv PROVE EraseCount \in 0 .. Len(editing)
<1> DEFINE stops == {k \in 0 .. Between(wIdx, eIdx) :
                        Step(eIdx, -k) = wIdx
                        \/ ring[Step(eIdx, -k - 1) % InputBuf] = "newline"}
<1>1. Between(wIdx, eIdx) = Len(editing) /\ Len(editing) \in Nat /\ Len(lines) \in Nat
      /\ rIdx \in Int /\ eIdx = Step(rIdx, Len(lines) + Len(editing))
      /\ wIdx = Step(rIdx, Len(lines))
  BY Indices DEF InputInv
<1>2. Step(eIdx, - Len(editing)) = wIdx
  <2>1. /\ Len(lines) + Len(editing) \in Int /\ - Len(editing) \in Int
        /\ (Len(lines) + Len(editing)) + (- Len(editing)) = Len(lines)
    BY <1>1
  <2> QED
    BY <1>1, <2>1, Steps
<1>3. Len(editing) \in stops /\ stops \in SUBSET Nat /\ stops \subseteq 0 .. Len(editing)
  BY <1>1, <1>2
<1>4. \E k \in stops : \A m \in stops : k <= m
  <2> HIDE DEF stops
  <2> QED
    BY <1>3, Least
<1>5. EraseCount = CHOOSE k \in stops : \A m \in stops : k <= m
  BY DEF EraseCount
<1> HIDE DEF stops
<1> QED
  BY <1>3, <1>4, <1>5

-----------------------------------------------------------------------------
(* The serial port                                                         *)

\* uartwrite(), uartintr() and the echo.
LEMMA SerialStep ==
    ASSUME SerialInv, InputInv, [ConsoleNext]_consoleVars
    PROVE  SerialInv'
<1> USE DEF SerialInv
<1>1. CASE UNCHANGED outputVars
  BY <1>1 DEF outputVars
<1>2. CASE Transmit
  BY <1>2 DEF Transmit
<1>3. ASSUME NEW p \in Writers, NEW n \in WriteLengths, WriteStart(p, n) PROVE SerialInv'
  BY <1>3 DEF WriteStart
<1>4. ASSUME NEW p \in Writers, Uartwrite(p) PROVE SerialInv'
  <2>1. CASE txBusy
    BY <1>4, <2>1 DEF Uartwrite
  <2>2. CASE ~ txBusy
    BY <1>4, <2>2 DEF Uartwrite
  <2> QED
    BY <2>1, <2>2
<1>5. CASE UartintrStart
  <2>1. UNCHANGED <<txBusy, thr, txAsleep>> /\ uartAt' = "acked" /\ txIrq' = FALSE
    BY <1>5 DEF UartintrStart, UartStep
  <2> QED
    BY <2>1
<1>6. CASE UartintrTx
  BY <1>6 DEF UartintrTx, UartStep, TxCheck, TxIdle
<1>7. CASE UartintrEnd
  BY <1>7 DEF UartintrEnd
<1>8. ASSUME NEW b \in BOOLEAN, Echo(b) PROVE SerialInv'
  <2>1. CASE b
    BY <1>8, <2>1 DEF Echo, TxIdle
  <2>2. CASE ~ b
    BY <1>8, <2>2 DEF Echo
  <2> QED
    BY <2>1, <2>2
<1>9. ASSUME NEW key \in Keys, Consoleintr(key) PROVE SerialInv'
  <2>1. ASSUME NEW n \in Nat, Erase(n) PROVE SerialInv'
    <3>1. Echo(n > 0) /\ (n > 0) \in BOOLEAN
      BY <2>1 DEF Erase
    <3> QED
      BY <1>8, <3>1, Zenon
  <2>2. ASSUME NEW c \in Chars, Store(c) PROVE SerialInv'
    BY <1>8, <2>2 DEF Store
  <2>3. EraseCount \in Nat
    BY EraseCountInRange, Indices
  <2> QED
    BY <1>9, <2>1, <2>2, <2>3 DEF Consoleintr
<1>10. CASE ReadWait \/ ReadChar \/ \E n \in ReadSizes : ReadStart(n)
  BY <1>1, <1>10 DEF ReadWait, ReadChar, ReadStart
<1> QED
  BY <1>1, <1>2, <1>3, <1>4, <1>5, <1>6, <1>7, <1>9, <1>10 DEF ConsoleNext, consoleVars
-----------------------------------------------------------------------------
(* Input                                                                   *)

\* Erasing takes back what was typed last.
LEMMA EraseInput ==
    ASSUME InputInv, NEW n \in 0 .. Len(editing), Erase(n)
    PROVE  InputInv'
<1>1. /\ UNCHANGED <<ring, rIdx, wIdx, want, copied, asleep, result, lines>>
      /\ eIdx' = Step(eIdx, -n) /\ editing' = SubSeq(editing, 1, Len(editing) - n)
  BY DEF Erase
<1>2. /\ Len(lines) \in Nat /\ Len(editing) \in Nat /\ rIdx \in Int
      /\ eIdx = Step(rIdx, Len(lines) + Len(editing)) /\ editing \in Seq(Chars)
  BY Indices DEF InputInv
<1>3. /\ editing' \in Seq(Chars) /\ Len(editing') = Len(editing) - n
      /\ \A k \in 1 .. Len(editing') : editing'[k] = editing[k]
  BY <1>1, <1>2
<1>4. eIdx' = Step(rIdx, Len(lines) + Len(editing'))
  <2>1. /\ Len(lines) + Len(editing) \in Int /\ -n \in Int
        /\ (Len(lines) + Len(editing)) + (-n) = Len(lines) + Len(editing')
    BY <1>2, <1>3
  <2> QED
    BY <1>1, <1>2, <2>1, Steps
<1>5. ASSUME NEW k \in 1 .. Len(editing')
      PROVE  editing'[k] = ring[Slot(rIdx, Len(lines) + k)]
  <2>1. k \in 1 .. Len(editing) /\ editing'[k] = editing[k]
    BY <1>2, <1>3
  <2> QED
    BY <2>1 DEF InputInv
<1>6. Len(lines) + Len(editing') <= InputBuf /\ Len(editing') < InputBuf
  BY <1>2, <1>3, ConsoleSizes DEF InputInv
<1>8. \A k \in 1 .. Len(lines') : lines'[k] = ring'[Slot(rIdx', k)]
  BY <1>1 DEF InputInv
<1>9. \A k \in 1 .. Len(editing') : editing'[k] = ring'[Slot(rIdx', Len(lines') + k)]
  BY <1>1, <1>5
<1> QED
  BY <1>1, <1>2, <1>3, <1>4, <1>6, <1>8, <1>9 DEF InputInv

\* A character goes behind the others, which stay.
LEMMA StoreInput ==
    ASSUME InputInv, NEW c \in Chars, Store(c)
    PROVE  InputInv'
<1> DEFINE l == Len(lines)
<1> DEFINE e == Len(editing)
<1>1. /\ l \in Nat /\ e \in Nat /\ rIdx \in Int /\ rIdx \in 0 .. IndexMod - 1
      /\ l + e < InputBuf /\ Between(rIdx, eIdx) = l + e
      /\ wIdx = Step(rIdx, l) /\ eIdx = Step(rIdx, l + e) /\ InputBuf \in Nat
      /\ lines \in Seq(Chars) /\ editing \in Seq(Chars)
      /\ ring \in [0 .. InputBuf - 1 -> Chars]
  BY Indices, ConsoleSizes DEF Store, InputInv
<1>2. /\ UNCHANGED <<rIdx, want, copied, result>>
      /\ ring' = [ring EXCEPT ![eIdx % InputBuf] = c] /\ eIdx' = Step(eIdx, 1)
      /\ Entered(c) => /\ wIdx' = Step(eIdx, 1) /\ asleep' = FALSE
                       /\ lines' = lines \o Append(editing, c) /\ editing' = <<>>
      /\ ~ Entered(c) => /\ UNCHANGED <<wIdx, asleep, lines>>
                         /\ editing' = Append(editing, c)
  BY DEF Store
<1>3. /\ eIdx % InputBuf = Slot(rIdx, l + e + 1)
      /\ Slot(rIdx, l + e + 1) \in 0 .. InputBuf - 1
      /\ Step(eIdx, 1) = Step(rIdx, l + e + 1)
  <2>1. l + e \in Int /\ l + e + 1 \in Int /\ (l + e) + 1 = l + e + 1 /\ 1 \in Int
    BY <1>1
  <2> QED
    BY <1>1, <2>1, Slots, Steps
<1>4. /\ ring' \in [0 .. InputBuf - 1 -> Chars] /\ ring'[Slot(rIdx, l + e + 1)] = c
      /\ \A k \in 1 .. l + e : ring'[Slot(rIdx, k)] = ring[Slot(rIdx, k)]
  <2>1. ASSUME NEW k \in 1 .. l + e
        PROVE  Slot(rIdx, k) # Slot(rIdx, l + e + 1) /\ Slot(rIdx, k) \in 0 .. InputBuf - 1
    <3>1. k \in Nat /\ l + e + 1 \in Nat /\ 1 <= k /\ k < l + e + 1 /\ l + e + 1 <= InputBuf
          /\ k \in Int
      BY <1>1
    <3> QED
      BY <1>1, <3>1, SlotsApart, Slots
  <2> QED
    BY <1>1, <1>2, <1>3, <2>1
<1>5. /\ \A k \in 1 .. l : lines[k] = ring[Slot(rIdx, k)]
      /\ \A k \in 1 .. e : editing[k] = ring[Slot(rIdx, l + k)]
  BY DEF InputInv
<1>6. \A k \in 1 .. l : lines[k] = ring'[Slot(rIdx, k)]
  BY <1>1, <1>4, <1>5
<1>7. ASSUME NEW k \in 1 .. e + 1
      PROVE  Append(editing, c)[k] = ring'[Slot(rIdx, l + k)]
  <2>1. CASE k = e + 1
    <3>1. l + k = l + e + 1 /\ Append(editing, c)[k] = c
      BY <1>1, <2>1
    <3> QED
      BY <1>4, <3>1
  <2>2. CASE k \in 1 .. e
    <3>1. l + k \in 1 .. l + e /\ Append(editing, c)[k] = editing[k]
      BY <1>1, <2>2
    <3> QED
      BY <1>4, <1>5, <2>2, <3>1
  <2> QED
    BY <1>1, <2>1, <2>2
<1>8. Append(editing, c) \in Seq(Chars) /\ Len(Append(editing, c)) = e + 1
  BY <1>1
<1>9. CASE Entered(c)
  <2> DEFINE all == Append(editing, c)
  <2> HIDE DEF all
  <2>1. /\ lines' = lines \o all /\ editing' = <<>> /\ wIdx' = Step(eIdx, 1)
        /\ asleep' = FALSE /\ all \in Seq(Chars) /\ Len(all) = e + 1
        /\ \A k \in 1 .. e + 1 : all[k] = ring'[Slot(rIdx, l + k)]
    BY <1>2, <1>7, <1>8, <1>9 DEF all
  <2>2. /\ lines' \in Seq(Chars) /\ Len(lines') = l + e + 1 /\ Len(editing') = 0
        /\ editing' \in Seq(Chars)
    <3>1. lines \o all \in Seq(Chars) /\ Len(lines \o all) = l + (e + 1)
      BY <1>1, <2>1
    <3>2. <<>> \in Seq(Chars) /\ Len(<<>>) = 0
      OBVIOUS
    <3>3. l + (e + 1) = l + e + 1
      BY <1>1
    <3> QED
      BY <2>1, <3>1, <3>2, <3>3
  <2>3. ASSUME NEW k \in 1 .. Len(lines') PROVE lines'[k] = ring'[Slot(rIdx, k)]
    <3>1. CASE k <= l
      <4>1. lines'[k] = lines[k] /\ k \in 1 .. l
        BY <1>1, <2>1, <2>2, <3>1
      <4> QED
        BY <1>6, <4>1
    <3>2. CASE k > l
      <4>1. lines'[k] = all[k - l] /\ k - l \in 1 .. e + 1 /\ l + (k - l) = k
        BY <1>1, <2>1, <2>2, <3>2
      <4>2. all[k - l] = ring'[Slot(rIdx, l + (k - l))]
        BY <2>1, <4>1
      <4> QED
        BY <4>1, <4>2
    <3> QED
      BY <1>1, <2>2, <3>1, <3>2
  <2>4. /\ l + e + 1 <= InputBuf /\ 0 < InputBuf /\ Len(lines') + Len(editing') = l + e + 1
    BY <1>1, <2>2
  <2>5. \A k \in 1 .. Len(editing') : FALSE
    BY <2>2
  <2>6. wIdx' = Step(rIdx, Len(lines')) /\ eIdx' = Step(rIdx, Len(lines') + Len(editing'))
    BY <1>2, <1>3, <2>1, <2>2, <2>4
  <2>7. want \in Nat /\ copied \in Nat /\ (result.eof => result.bytes = 0)
    BY DEF InputInv
  <2> HIDE DEF l, e
  <2> QED
    BY <1>1, <1>2, <1>4, <2>1, <2>2, <2>3, <2>4, <2>5, <2>6, <2>7 DEF InputInv
<1>10. CASE ~ Entered(c)
  <2>1. /\ UNCHANGED <<wIdx, asleep, lines>> /\ editing' = Append(editing, c)
        /\ l + e + 1 # InputBuf
    BY <1>1, <1>2, <1>10 DEF Entered
  <2>2. editing' \in Seq(Chars) /\ Len(editing') = e + 1 /\ Len(lines') = l
    BY <1>8, <2>1
  <2>3. \A k \in 1 .. Len(editing') : editing'[k] = ring'[Slot(rIdx, l + k)]
    BY <1>7, <2>1, <2>2
  <2>4. l + e + 1 <= InputBuf /\ e + 1 < InputBuf /\ l + (e + 1) = l + e + 1
    BY <1>1, <2>1
  <2>5. /\ want \in Nat /\ copied \in Nat /\ (result.eof => result.bytes = 0)
        /\ asleep => lines = <<>>
    BY DEF InputInv
  <2>6. wIdx' = Step(rIdx, Len(lines')) /\ eIdx' = Step(rIdx, Len(lines') + Len(editing'))
    BY <1>1, <1>2, <1>3, <2>1, <2>2, <2>4
  <2>7. \A k \in 1 .. Len(lines') : lines'[k] = ring'[Slot(rIdx, k)]
    BY <1>6, <2>1
  <2> HIDE DEF l, e
  <2> QED
    BY <1>1, <1>2, <1>4, <2>1, <2>2, <2>3, <2>4, <2>5, <2>6, <2>7 DEF InputInv
<1> QED
  BY <1>9, <1>10

\* The character that was entered first is taken out, or stays for the next read.
LEMMA ReadCharInput == ASSUME InputInv, ReadChar PROVE InputInv'
<1> DEFINE l == Len(lines)
<1> DEFINE e == Len(editing)
<1>1. /\ l \in Nat /\ e \in Nat /\ rIdx \in Int /\ rIdx \in 0 .. IndexMod - 1
      /\ l + e <= InputBuf /\ wIdx = Step(rIdx, l) /\ eIdx = Step(rIdx, l + e)
      /\ lines \in Seq(Chars) /\ editing \in Seq(Chars) /\ copied \in Nat /\ want \in Nat
      /\ lines # <<>> /\ l > 0
  BY Indices, ConsoleSizes DEF ReadChar, InputInv
<1>2. ~ asleep /\ UNCHANGED <<ring, wIdx, eIdx, asleep, editing>>
  BY DEF ReadChar
<1>3. PICK out \in BOOLEAN, keeps \in BOOLEAN, c \in Chars :
        /\ c = ring[rIdx % InputBuf]
        /\ keeps = (c = "eof" /\ KeepsEof)
        /\ rIdx' = IF keeps THEN rIdx ELSE Step(rIdx, 1)
        /\ lines' = IF keeps THEN lines ELSE Tail(lines)
        /\ copied' = IF c = "eof" \/ ~out THEN copied ELSE copied + 1
        /\ IF c \in {"eof", "newline"} \/ ~out \/ copied' = want
           THEN Returns(c = "eof" /\ ~keeps)
           ELSE UNCHANGED <<want, result>>
  <2>1. rIdx % InputBuf \in 0 .. InputBuf - 1
    BY <1>1, ConsoleSizes, Division
  <2>2. ring[rIdx % InputBuf] \in Chars
    BY <2>1 DEF InputInv
  <2>3. (ring[rIdx % InputBuf] = "eof" /\ KeepsEof) \in BOOLEAN
    OBVIOUS
  <2> QED
    BY <2>2, <2>3 DEF ReadChar
<1>4. copied' \in Nat /\ want' \in Nat
  BY <1>1, <1>3 DEF Returns
<1>5. result'.eof => result'.bytes = 0
  <2>1. CASE result' = result
    BY <2>1 DEF InputInv
  <2>2. CASE result' = [bytes |-> copied', eof |-> (c = "eof" /\ ~keeps)]
    <3>1. result'.eof => c = "eof" /\ ~ keeps
      BY <2>2
    <3>2. c = "eof" /\ ~ keeps => copied = 0
      <4>1. c = "eof" /\ ~ keeps => ~ KeepsEof
        BY <1>3, Zenon
      <4> QED
        BY <1>1, <4>1 DEF KeepsEof
    <3>3. c = "eof" => copied' = copied
      BY <1>3
    <3>4. result'.bytes = copied'
      BY <2>2
    <3> QED
      BY <3>1, <3>2, <3>3, <3>4
  <2> QED
    BY <1>3, <2>1, <2>2 DEF Returns
<1>6. CASE keeps
  BY <1>1, <1>2, <1>3, <1>4, <1>5, <1>6 DEF InputInv
<1>7. CASE ~ keeps
  <2>1. rIdx' = Step(rIdx, 1) /\ lines' = Tail(lines)
    BY <1>3, <1>7
  <2>2. /\ lines' \in Seq(Chars) /\ Len(lines') = l - 1
        /\ \A k \in 1 .. l - 1 : lines'[k] = lines[k + 1]
    BY <1>1, <2>1
  <2>3. /\ l - 1 \in Int /\ 1 + (l - 1) = l /\ (l - 1) + e \in Int /\ 1 + ((l - 1) + e) = l + e
        /\ 1 \in Int /\ (l - 1) + e <= InputBuf
    BY <1>1, ConsoleSizes
  <2>4. /\ rIdx' \in 0 .. IndexMod - 1
        /\ wIdx' = Step(rIdx', Len(lines')) /\ eIdx' = Step(rIdx', Len(lines') + Len(editing'))
    BY <1>1, <1>2, <2>1, <2>2, <2>3, Steps
  <2>5. ASSUME NEW k \in 1 .. Len(lines') PROVE lines'[k] = ring'[Slot(rIdx', k)]
    <3>1. /\ k \in Int /\ 1 \in Int /\ k + 1 \in 1 .. Len(lines) /\ 1 + k = k + 1
          /\ lines'[k] = lines[k + 1]
      BY <1>1, <2>2
    <3>2. Slot(rIdx', k) = Slot(rIdx, k + 1)
      BY <1>1, <2>1, <3>1, Slots
    <3>3. lines[k + 1] = ring[Slot(rIdx, k + 1)]
      BY <3>1 DEF InputInv
    <3> QED
      BY <1>2, <3>1, <3>2, <3>3
  <2>6. ASSUME NEW k \in 1 .. Len(editing')
        PROVE  editing'[k] = ring'[Slot(rIdx', Len(lines') + k)]
    <3>1. /\ (l - 1) + k \in Int /\ 1 \in Int /\ 1 + ((l - 1) + k) = l + k
          /\ k \in 1 .. Len(editing) /\ Len(lines') + k = (l - 1) + k
      BY <1>1, <1>2, <2>2
    <3>2. Slot(rIdx', (l - 1) + k) = Slot(rIdx, l + k)
      BY <1>1, <2>1, <3>1, Slots
    <3>3. editing[k] = ring[Slot(rIdx, l + k)]
      BY <3>1 DEF InputInv
    <3> QED
      BY <1>2, <3>1, <3>2, <3>3
  <2>7. /\ ring' \in [0 .. InputBuf - 1 -> Chars] /\ editing' \in Seq(Chars) /\ ~ asleep'
        /\ Len(lines') + Len(editing') <= InputBuf /\ Len(editing') < InputBuf
    BY <1>2, <2>2, <2>3 DEF InputInv
  <2> QED
    BY <1>4, <1>5, <2>2, <2>4, <2>5, <2>6, <2>7 DEF InputInv
<1> QED
  BY <1>6, <1>7

\* What the reader and consoleintr() do with the ring.
LEMMA InputStep ==
    ASSUME InputInv, [ConsoleNext]_consoleVars
    PROVE  InputInv'
<1>1. CASE UNCHANGED inputVars
  <2>1. UNCHANGED <<ring, rIdx, wIdx, eIdx, want, copied, asleep, result, lines, editing>>
    BY <1>1 DEF inputVars
  <2>2. /\ \A k \in 1 .. Len(lines') : lines'[k] = ring'[Slot(rIdx', k)]
        /\ \A k \in 1 .. Len(editing') : editing'[k] = ring'[Slot(rIdx', Len(lines') + k)]
    BY <2>1 DEF InputInv
  <2> QED
    BY <2>1, <2>2 DEF InputInv
<1>2. CASE Transmit \/ UartintrStart \/ UartintrTx \/ UartintrEnd
  BY <1>1, <1>2 DEF Transmit, UartintrStart, UartintrTx, UartintrEnd
<1>3. ASSUME NEW p \in Writers, Uartwrite(p) \/ \E n \in WriteLengths : WriteStart(p, n)
      PROVE  InputInv'
  BY <1>1, <1>3 DEF Uartwrite, WriteStart
<1>4. ASSUME NEW key \in Keys, Consoleintr(key) PROVE InputInv'
  <2>1. EraseCount \in 0 .. Len(editing)
    BY EraseCountInRange
  <2>2. eIdx # wIdx => 1 \in 0 .. Len(editing)
    <3>1. Len(editing) \in Nat /\ Len(lines) \in Nat
      BY Indices
    <3>2. Len(editing) = 0 => Len(lines) + Len(editing) = Len(lines)
      BY <3>1
    <3>3. Len(editing) = 0 => eIdx = wIdx
      BY <3>2 DEF InputInv
    <3> QED
      BY <3>1, <3>3
  <2> QED
    BY <1>4, <2>1, <2>2, EraseInput, StoreInput DEF Consoleintr
<1>5. ASSUME UNCHANGED <<ring, rIdx, wIdx, eIdx, result, lines, editing>>,
             want' \in Nat, copied' \in Nat, asleep' => lines = <<>>
      PROVE  InputInv'
  <2>1. /\ \A k \in 1 .. Len(lines') : lines'[k] = ring'[Slot(rIdx', k)]
        /\ \A k \in 1 .. Len(editing') : editing'[k] = ring'[Slot(rIdx', Len(lines') + k)]
    BY <1>5 DEF InputInv
  <2> QED
    BY <1>5, <2>1 DEF InputInv
<1>6. ASSUME NEW n \in ReadSizes, ReadStart(n) PROVE InputInv'
  <2>1. n \in Nat
    BY ConsoleAssumption
  <2> QED
    BY <1>5, <1>6, <2>1 DEF ReadStart, InputInv
<1>7. CASE ReadWait
  <2>1. lines = <<>> /\ want \in Nat /\ copied \in Nat
    BY <1>7, Indices DEF ReadWait, InputInv
  <2> QED
    BY <1>5, <1>7, <2>1 DEF ReadWait
<1>8. CASE UNCHANGED consoleVars
  BY <1>1, <1>8 DEF consoleVars
<1> QED
  BY <1>2, <1>3, <1>4, <1>6, <1>7, <1>8, ReadCharInput DEF ConsoleNext
-----------------------------------------------------------------------------
(* The theorems about the console                                          *)

\* An empty ring and an idle port.
LEMMA ConsoleInitInv == ConsoleInit => ConsoleInv
<1> SUFFICES ASSUME ConsoleInit PROVE ConsoleInv
  OBVIOUS
<1>1. SerialInv
  <2>1. txBusy = FALSE /\ thr = 0 /\ txIrq = FALSE /\ txAsleep = {}
    BY DEF ConsoleInit
  <2>2. thr \in 0 .. 2 /\ thr <= 1
    BY <2>1
  <2> QED
    BY <2>1, <2>2, Zenon DEF SerialInv
<1>2. /\ lines = <<>> /\ editing = <<>> /\ Len(lines) = 0 /\ Len(editing) = 0
      /\ <<>> \in Seq(Chars) /\ ~ asleep /\ result.eof = FALSE /\ want = 0 /\ copied = 0
  BY DEF ConsoleInit
<1>3. ring \in [0 .. InputBuf - 1 -> Chars]
  BY DEF ConsoleInit, Chars
<1>4. /\ rIdx = 0 /\ wIdx = 0 /\ eIdx = 0 /\ 0 \in 0 .. IndexMod - 1 /\ Step(0, 0) = 0
      /\ 0 + 0 = 0 /\ 0 + 0 <= InputBuf /\ 0 < InputBuf
  BY ConsoleSizes, InRange DEF ConsoleInit, Step
<1>5. \A k \in 1 .. 0 : FALSE
  OBVIOUS
<1>6. InputInv
  BY <1>2, <1>3, <1>4, <1>5 DEF InputInv
<1> QED
  BY <1>1, <1>6 DEF ConsoleInv

\* The ring of the console and the serial port, always.
THEOREM ConsoleInvariant == ConsoleSpec => []ConsoleInv
<1>1. ConsoleInv /\ [ConsoleNext]_consoleVars => ConsoleInv'
  BY SerialStep, InputStep DEF ConsoleInv
<1> QED
  BY <1>1, ConsoleInitInv, PTL DEF ConsoleSpec

\* consoleintr() and consoleread(): the ring holds what was entered and not read and what
\* can be edited, in order, while its indices wrap around; a reader sleeps only when
\* nothing was entered and more can be; a ^D is read as 0 bytes.
THEOREM InputIsKept == ConsoleSpec => []ConsoleInput
<1> SUFFICES ASSUME InputInv PROVE ConsoleInput
  BY ConsoleInvariant, PTL DEF ConsoleInv
<1>1. /\ Between(rIdx, wIdx) = Len(lines) /\ Between(wIdx, eIdx) = Len(editing)
      /\ Len(lines) \in Nat /\ Len(editing) \in Nat /\ rIdx \in Int
      /\ wIdx = Step(rIdx, Len(lines)) /\ lines \in Seq(Chars) /\ editing \in Seq(Chars)
  BY Indices DEF InputInv
<1>2. ASSUME NEW k \in 1 .. Len(lines) PROVE lines[k] = ring[Step(rIdx, k - 1) % InputBuf]
  <2>1. k - 1 \in Int /\ (k - 1) + 1 = k
    OBVIOUS
  <2>2. Step(rIdx, k - 1) % InputBuf = Slot(rIdx, k)
    BY <1>1, <2>1, Slots
  <2> QED
    BY <2>2 DEF InputInv
<1>3. ASSUME NEW k \in 1 .. Len(editing)
      PROVE  editing[k] = ring[Step(wIdx, k - 1) % InputBuf]
  <2>1. /\ k - 1 \in Int /\ Len(lines) + (k - 1) \in Int /\ Len(lines) \in Int
        /\ (Len(lines) + (k - 1)) + 1 = Len(lines) + k
    BY <1>1
  <2>2. Step(wIdx, k - 1) = Step(rIdx, Len(lines) + (k - 1))
    BY <1>1, <2>1, Steps
  <2>3. Step(wIdx, k - 1) % InputBuf = Slot(rIdx, Len(lines) + k)
    BY <1>1, <2>1, <2>2, Slots
  <2> QED
    BY <2>3 DEF InputInv
<1>4. RingHoldsInput
  <2>1. Held(rIdx, wIdx) = lines
    BY <1>1, <1>2 DEF Held
  <2>2. Held(wIdx, eIdx) = editing
    BY <1>1, <1>3 DEF Held
  <2> QED
    BY <2>1, <2>2 DEF RingHoldsInput
<1>5. ReaderSleepsForInput
  <2>1. ASSUME asleep PROVE rIdx = wIdx /\ HasRoom
    <3>1. lines = <<>> /\ Len(lines) = 0 /\ Len(editing) < InputBuf
      BY <2>1 DEF InputInv
    <3> QED
      BY <1>1, <3>1, Indices
  <2> QED
    BY <2>1 DEF ReaderSleepsForInput
<1>6. EofReadsZero
  BY DEF InputInv, EofReadsZero
<1> QED
  BY <1>4, <1>5, <1>6 DEF ConsoleInput

\* uartwrite() and uartintr(): a writer that sleeps will be woken, and what output and echo
\* send without asking each other fits in the FIFO of the port.
THEOREM OutputGoesOn == ConsoleSpec => []SerialOutput
<1>1. SerialInv => SerialOutput
  BY ConsoleAssumption DEF SerialInv, SerialOutput, TxSleeperWakes, NoOverrun
<1> QED
  BY <1>1, ConsoleInvariant, PTL DEF ConsoleInv
-----------------------------------------------------------------------------
(* The history of the shell: its invariant                                 *)

\* A ring of commands, as log_add_command() needs it.
GoodRing(r) ==
    /\ r \in [entries : [Index -> Cmds \union {NoCmd}], count : 0 .. MaxEntries,
              start : Index]
    /\ r.start # 0 => r.count = MaxEntries
    /\ Contents(r) \in Seq(Cmds)

NotRepeated(s) == \A i \in 1 .. Len(s) - 1 : s[i] # s[i + 1]

\* What will be saved is what the ring holds.
HistoryInv ==
    /\ HistoryTypes
    /\ GoodRing(Ring) /\ NotRepeated(Contents(Ring))
    /\ RingShape
    /\ NotRepeated(kept)
    /\ pc # "opened" => file = kept
    /\ pc = "opened" => file = <<>>
    /\ pc # "off" => Contents(Ring) = recent
    /\ pc \notin {"off", "idle"} => log_loaded
-----------------------------------------------------------------------------
(* Its ring                                                                *)

\* Slots by number.
LEMMA Entries ==
    ASSUME NEW r, GoodRing(r)
    PROVE  /\ MaxEntries \in Nat \ {0} /\ Index = 0 .. MaxEntries - 1
           /\ r.count \in 0 .. MaxEntries /\ r.start \in Index
           /\ r.entries \in [Index -> Cmds \union {NoCmd}]
           /\ Contents(r) \in Seq(Cmds) /\ Len(Contents(r)) = r.count
           /\ \A i \in 1 .. r.count :
                /\ (r.start + i - 1) % MaxEntries \in Index
                /\ Contents(r)[i] = r.entries[(r.start + i - 1) % MaxEntries]
<1>1. MaxEntries \in Nat \ {0} /\ Index = 0 .. MaxEntries - 1
  BY ShellLogAssumption DEF Index
<1>2. /\ r.count \in 0 .. MaxEntries /\ r.start \in Index /\ Contents(r) \in Seq(Cmds)
      /\ r.entries \in [Index -> Cmds \union {NoCmd}]
  BY DEF GoodRing
<1>3. /\ DOMAIN Contents(r) = 1 .. r.count
      /\ \A i \in 1 .. r.count :
            Contents(r)[i] = r.entries[(r.start + i - 1) % MaxEntries]
  BY DEF Contents
<1>4. Len(Contents(r)) = r.count
  <2>1. DOMAIN Contents(r) = 1 .. Len(Contents(r)) /\ Len(Contents(r)) \in Nat
    BY <1>2
  <2> QED
    BY <1>2, <1>3, <2>1
<1>5. ASSUME NEW i \in 1 .. r.count PROVE (r.start + i - 1) % MaxEntries \in Index
  <2>1. r.start + i - 1 \in Int
    BY <1>1, <1>2
  <2> QED
    BY <1>1, <2>1, Division
<1> QED
  BY <1>1, <1>2, <1>3, <1>4, <1>5

\* A ring with recent contents.
LEMMA ContentsAre ==
    ASSUME NEW r, r.count \in Nat, NEW s \in Seq(Cmds), Len(s) = r.count,
           \A i \in 1 .. r.count : r.entries[(r.start + i - 1) % MaxEntries] = s[i]
    PROVE  Contents(r) = s
<1>1. s = [i \in 1 .. r.count |-> s[i]]
  OBVIOUS
<1> QED
  BY <1>1 DEF Contents

\* A command is added behind the others, of which the oldest goes when the ring is full.
LEMMA InsertLemma ==
    ASSUME NEW r, GoodRing(r), NEW c \in Cmds
    PROVE  /\ GoodRing(Insert(r, c)) /\ Insert(r, c).count > 0
           /\ Contents(Insert(r, c)) = Newest(Append(Contents(r), c))
           /\ Contents(Insert(r, c))[Insert(r, c).count] = c
<1> DEFINE s == Contents(r)
<1> DEFINE t == Insert(r, c)
<1>1. /\ MaxEntries \in Nat \ {0} /\ Index = 0 .. MaxEntries - 1
      /\ r.count \in 0 .. MaxEntries /\ r.start \in Index
      /\ r.entries \in [Index -> Cmds \union {NoCmd}]
      /\ s \in Seq(Cmds) /\ Len(s) = r.count
      /\ \A i \in 1 .. r.count : s[i] = r.entries[(r.start + i - 1) % MaxEntries]
  BY Entries
<1>2. /\ r = [entries |-> r.entries, count |-> r.count, start |-> r.start]
      /\ r.start # 0 => r.count = MaxEntries
  BY DEF GoodRing
<1>3. CASE r.count < MaxEntries
  <2>1. r.start = 0 /\ r.count \in Index
    BY <1>1, <1>2, <1>3
  <2>2. /\ t.entries = [r.entries EXCEPT ![r.count] = c] /\ t.count = r.count + 1
        /\ t.start = 0
        /\ t = [entries |-> t.entries, count |-> t.count, start |-> t.start]
    BY <1>2, <1>3, <2>1 DEF Insert
  <2> HIDE DEF t
  <2>3. /\ t.entries \in [Index -> Cmds \union {NoCmd}] /\ t.entries[r.count] = c
        /\ \A i \in Index \ {r.count} : t.entries[i] = r.entries[i]
    BY <1>1, <2>1, <2>2
  <2>4. /\ Append(s, c) \in Seq(Cmds) /\ Len(Append(s, c)) = r.count + 1
        /\ Append(s, c)[r.count + 1] = c
        /\ \A i \in 1 .. r.count : Append(s, c)[i] = s[i]
    BY <1>1
  <2>5. ASSUME NEW i \in 1 .. t.count
        PROVE  t.entries[(t.start + i - 1) % MaxEntries] = Append(s, c)[i]
    <3>1. i - 1 \in 0 .. MaxEntries - 1 /\ t.start + i - 1 = i - 1 /\ i - 1 \in Index
      BY <1>1, <1>3, <2>2
    <3>2. (t.start + i - 1) % MaxEntries = i - 1
      BY <1>1, <3>1, InRange
    <3>3. CASE i = r.count + 1
      <4>1. i - 1 = r.count
        BY <1>1, <3>3
      <4> QED
        BY <2>3, <2>4, <3>2, <3>3, <4>1
    <3>4. CASE i \in 1 .. r.count
      <4>1. r.start + i - 1 = i - 1 /\ i - 1 # r.count
        BY <1>1, <2>1, <3>4
      <4>2. t.entries[i - 1] = r.entries[i - 1] /\ s[i] = r.entries[i - 1]
        BY <1>1, <2>3, <3>1, <3>4, <4>1, InRange
      <4> QED
        BY <2>4, <3>2, <3>4, <4>2
    <3> QED
      BY <1>1, <2>2, <3>3, <3>4
  <2>6. t.count \in 0 .. MaxEntries /\ t.count \in Nat /\ t.count > 0
    BY <1>1, <1>3, <2>2
  <2>7. Contents(t) = Append(s, c)
    BY <2>2, <2>4, <2>5, <2>6, ContentsAre
  <2>8. Newest(Append(s, c)) = Append(s, c)
    BY <1>1, <1>3, <2>4 DEF Newest
  <2>9. GoodRing(t)
    <3>1. t.start \in Index /\ t.start = 0
      BY <1>1, <2>2
    <3>2. t \in [entries : [Index -> Cmds \union {NoCmd}], count : 0 .. MaxEntries,
                 start : Index]
      BY <2>2, <2>3, <2>6, <3>1
    <3> QED
      BY <2>4, <2>7, <3>1, <3>2 DEF GoodRing
  <2> QED
    BY <2>2, <2>4, <2>6, <2>7, <2>8, <2>9 DEF t
<1>4. CASE r.count = MaxEntries
  <2>1. /\ t.entries = [r.entries EXCEPT ![r.start] = c] /\ t.count = MaxEntries
        /\ t.start = (r.start + 1) % MaxEntries
        /\ t = [entries |-> t.entries, count |-> t.count, start |-> t.start]
    <3>1. ~ (r.count < MaxEntries)
      BY <1>1, <1>4
    <3>2. t = [r EXCEPT !.entries[r.start] = c, !.start = (@ + 1) % MaxEntries]
      BY <3>1 DEF Insert
    <3> HIDE DEF t
    <3>3. t = [entries |-> [r.entries EXCEPT ![r.start] = c], count |-> r.count,
               start |-> (r.start + 1) % MaxEntries]
      BY <1>2, <3>2
    <3> QED
      BY <1>4, <3>3
  <2> HIDE DEF t
  <2>2. /\ t.entries \in [Index -> Cmds \union {NoCmd}] /\ t.entries[r.start] = c
        /\ \A i \in Index \ {r.start} : t.entries[i] = r.entries[i]
    BY <1>1, <2>1
  <2> DEFINE u == Tail(Append(s, c))
  <2>3. /\ u \in Seq(Cmds) /\ Len(u) = MaxEntries /\ u[MaxEntries] = c
        /\ \A i \in 1 .. MaxEntries - 1 : u[i] = s[i + 1]
    <3>1. /\ Append(s, c) \in Seq(Cmds) /\ Len(Append(s, c)) = MaxEntries + 1
          /\ Append(s, c)[MaxEntries + 1] = c
          /\ \A i \in 1 .. MaxEntries : Append(s, c)[i] = s[i]
      BY <1>1, <1>4
    <3>2. Append(s, c) # <<>>
      BY <1>1, <3>1
    <3>3. /\ u \in Seq(Cmds) /\ Len(u) = MaxEntries
          /\ \A i \in 1 .. MaxEntries : u[i] = Append(s, c)[i + 1]
      <4> DEFINE q == Append(s, c)
      <4> HIDE DEF s, q
      <4>1. q \in Seq(Cmds) /\ q # <<>> /\ Len(q) = MaxEntries + 1
        BY <3>1, <3>2 DEF q
      <4>2. Tail(q) \in Seq(Cmds) /\ Len(Tail(q)) = Len(q) - 1
        BY <4>1
      <4>3. \A i \in 1 .. Len(q) - 1 : Tail(q)[i] = q[i + 1]
        BY <4>1
      <4>4. Len(q) - 1 = MaxEntries
        BY <1>1, <4>1
      <4> QED
        BY <4>2, <4>3, <4>4 DEF q
    <3> QED
      BY <1>1, <3>1, <3>3
  <2> HIDE DEF u
  <2>4. ASSUME NEW i \in 1 .. t.count
        PROVE  t.entries[(t.start + i - 1) % MaxEntries] = u[i]
    <3>1. (t.start + i - 1) % MaxEntries = (r.start + i) % MaxEntries
      <4>1. r.start + 1 \in Int /\ i - 1 \in Int /\ r.start \in Int
        BY <1>1
      <4>2. PICK x \in Int : x = r.start + 1
        BY <4>1
      <4>3. PICK z \in Int : z = i - 1
        BY <4>1
      <4>4. ((x % MaxEntries) + z) % MaxEntries = (x + z) % MaxEntries
        BY <1>1, WrapThenAdd, Zenon
      <4>5. x + z = r.start + i /\ t.start = x % MaxEntries /\ x % MaxEntries \in Int
        <5>1. x % MaxEntries \in 0 .. MaxEntries - 1
          BY <1>1, Division, Zenon
        <5>2. t.start = x % MaxEntries
          BY <2>1, <4>2, Zenon
        <5>3. x + z = r.start + i
          BY <4>1, <4>2, <4>3
        <5> QED
          BY <1>1, <5>1, <5>2, <5>3
      <4>6. t.start + i - 1 = (x % MaxEntries) + z
        BY <4>1, <4>3, <4>5
      <4> QED
        BY <4>4, <4>5, <4>6
    <3>2. CASE i = MaxEntries
      <4>1. r.start + MaxEntries = r.start + MaxEntries * 1 /\ r.start \in Int
        BY <1>1
      <4>2. (r.start + MaxEntries * 1) % MaxEntries = r.start % MaxEntries
        <5>1. 1 \in Int
          OBVIOUS
        <5> QED
          BY <1>1, <4>1, <5>1, WholeTurns, Zenon
      <4>3. r.start % MaxEntries = r.start
        BY <1>1, InRange
      <4> QED
        BY <2>2, <2>3, <3>1, <3>2, <4>1, <4>2, <4>3
    <3>3. CASE i \in 1 .. MaxEntries - 1
      <4>0. i \in 1 .. MaxEntries - 1 /\ r.start \in Int /\ r.count = MaxEntries
            /\ MaxEntries \in Nat
        BY <1>1, <1>4, <3>3
      <4>1. r.start \in Int /\ i + 1 \in 1 .. r.count /\ r.start + (i + 1) - 1 = r.start + i
        <5> HIDE DEF s, t
        <5> QED
          BY <4>0
      <4>2. (r.start + i) % MaxEntries # r.start
        <5>1. (r.start + i) % MaxEntries # r.start % MaxEntries
          BY <1>1, <3>3, <4>1, Apart
        <5> QED
          BY <1>1, <5>1, InRange
      <4>3. (r.start + i) % MaxEntries \in Index
        <5>1. r.start + i \in Int
          BY <4>0
        <5> QED
          BY <1>1, <5>1, Division, Zenon
      <4>4. s[i + 1] = r.entries[(r.start + i) % MaxEntries]
        BY <1>1, <4>1
      <4> QED
        BY <2>2, <2>3, <3>1, <3>3, <4>2, <4>3, <4>4
    <3> QED
      BY <1>1, <2>1, <3>2, <3>3
  <2>5. t.count \in 0 .. MaxEntries /\ t.count \in Nat /\ t.count > 0
    BY <1>1, <2>1
  <2>6. Contents(t) = u
    BY <2>1, <2>3, <2>4, <2>5, ContentsAre
  <2>7. Newest(Append(s, c)) = u
    <3>1. ~ (Len(Append(s, c)) <= MaxEntries)
      BY <1>1, <1>4
    <3> QED
      BY <3>1 DEF Newest, u
  <2>8. GoodRing(t)
    <3>1. t.start \in Index
      <4>1. r.start + 1 \in Int
        BY <1>1
      <4>2. (r.start + 1) % MaxEntries \in Index
        BY <1>1, <4>1, Division, Zenon
      <4> QED
        BY <2>1, <4>2
    <3>2. t \in [entries : [Index -> Cmds \union {NoCmd}], count : 0 .. MaxEntries,
                 start : Index]
      BY <2>1, <2>2, <2>5, <3>1
    <3> QED
      BY <2>1, <2>3, <2>6, <3>2 DEF GoodRing
  <2> QED
    BY <2>1, <2>3, <2>5, <2>6, <2>7, <2>8 DEF t
<1> QED
  BY <1>1, <1>3, <1>4

\* A ring that is read from a file of the lines f into the slots e.
LoadedRing(f, e) ==
    [entries |-> [i \in Index |-> IF i < Len(f) THEN f[i + 1] ELSE e[i]],
     count |-> Len(f), start |-> 0]

\* What is read is what was written.
LEMMA LoadLemma ==
    ASSUME NEW f \in Seq(Cmds), Len(f) <= MaxEntries,
           NEW e \in [Index -> Cmds \union {NoCmd}]
    PROVE  GoodRing(LoadedRing(f, e)) /\ Contents(LoadedRing(f, e)) = f
<1> DEFINE r == LoadedRing(f, e)
<1>1. MaxEntries \in Nat \ {0} /\ Index = 0 .. MaxEntries - 1 /\ Len(f) \in 0 .. MaxEntries
  BY ShellLogAssumption DEF Index
<1>2. /\ r.entries = [i \in Index |-> IF i < Len(f) THEN f[i + 1] ELSE e[i]]
      /\ r.count = Len(f) /\ r.start = 0
      /\ r = [entries |-> r.entries, count |-> r.count, start |-> r.start]
  BY DEF LoadedRing
<1> HIDE DEF r
<1>3. ASSUME NEW i \in Index
      PROVE  /\ i < Len(f) => r.entries[i] = f[i + 1]
             /\ r.entries[i] \in Cmds \union {NoCmd}
  <2>1. CASE i < Len(f)
    <3>1. i + 1 \in 1 .. Len(f)
      BY <1>1, <2>1
    <3>2. f[i + 1] \in Cmds
      BY <3>1
    <3> QED
      BY <1>2, <2>1, <3>2
  <2>2. CASE ~ (i < Len(f))
    BY <1>2, <2>2
  <2> QED
    BY <2>1, <2>2
<1>4. r.entries \in [Index -> Cmds \union {NoCmd}]
  BY <1>2, <1>3
<1>5. ASSUME NEW i \in 1 .. r.count
      PROVE  r.entries[(r.start + i - 1) % MaxEntries] = f[i]
  <2>1. i - 1 \in 0 .. MaxEntries - 1 /\ r.start + i - 1 = i - 1 /\ i - 1 < Len(f)
        /\ (i - 1) + 1 = i
    BY <1>1, <1>2
  <2>2. (i - 1) % MaxEntries = i - 1
    BY <1>1, <2>1, InRange
  <2> QED
    BY <1>1, <1>3, <2>1, <2>2
<1>6. Contents(r) = f
  <2>1. r.count \in Nat /\ Len(f) = r.count
    BY <1>1, <1>2
  <2> QED
    BY <1>5, <2>1, ContentsAre
<1>7. r.start \in Index /\ r.count \in 0 .. MaxEntries
  BY <1>1, <1>2
<1>8. r \in [entries : [Index -> Cmds \union {NoCmd}], count : 0 .. MaxEntries, start : Index]
  BY <1>2, <1>4, <1>7
<1> QED
  BY <1>2, <1>6, <1>8 DEF GoodRing, r

\* An emptied ring.
LEMMA PurgeLemma ==
    ASSUME NEW r, GoodRing(r)
    PROVE  /\ GoodRing([entries |-> r.entries, count |-> 0, start |-> 0])
           /\ Contents([entries |-> r.entries, count |-> 0, start |-> 0]) = <<>>
<1> DEFINE t == [entries |-> r.entries, count |-> 0, start |-> 0]
<1>1. MaxEntries \in Nat \ {0} /\ Index = 0 .. MaxEntries - 1
      /\ r.entries \in [Index -> Cmds \union {NoCmd}]
  BY Entries
<1>2. t.entries = r.entries /\ t.count = 0 /\ t.start = 0
      /\ t = [entries |-> t.entries, count |-> t.count, start |-> t.start]
  OBVIOUS
<1> HIDE DEF t
<1>3. <<>> \in Seq(Cmds) /\ Len(<<>>) = t.count /\ t.count \in Nat
  BY <1>2
<1>4. \A i \in 1 .. t.count : t.entries[(t.start + i - 1) % MaxEntries] = <<>>[i]
  BY <1>2
<1>5. Contents(t) = <<>>
  BY <1>3, <1>4, ContentsAre
<1>6. t.start \in Index /\ t.count \in 0 .. MaxEntries
  BY <1>1, <1>2
<1>7. t \in [entries : [Index -> Cmds \union {NoCmd}], count : 0 .. MaxEntries, start : Index]
  BY <1>1, <1>2, <1>6
<1> QED
  BY <1>2, <1>3, <1>5, <1>7 DEF GoodRing, t

\* A command that is not the last one can be added without a repetition.
LEMMA AppendLemma ==
    ASSUME NEW s \in Seq(Cmds), NEW c \in Cmds, NotRepeated(s),
           Len(s) > 0 => s[Len(s)] # c
    PROVE  NotRepeated(Newest(Append(s, c)))
<1> DEFINE q == Append(s, c)
<1>1. q \in Seq(Cmds) /\ Len(q) = Len(s) + 1 /\ Len(s) \in Nat /\ q # <<>>
      /\ q[Len(s) + 1] = c /\ \A i \in 1 .. Len(s) : q[i] = s[i]
  <2>1. q \in Seq(Cmds) /\ Len(q) = Len(s) + 1 /\ Len(s) \in Nat
    OBVIOUS
  <2>2. q[Len(s) + 1] = c
    OBVIOUS
  <2>3. \A i \in 1 .. Len(s) : q[i] = s[i]
    OBVIOUS
  <2>4. q # <<>>
    <3> HIDE DEF q
    <3> QED
      BY <2>1
  <2> HIDE DEF q
  <2> QED
    BY <2>1, <2>2, <2>3, <2>4
<1> HIDE DEF q
<1>2. ASSUME NEW i \in 1 .. Len(q) - 1 PROVE q[i] # q[i + 1]
  <2>1. i \in 1 .. Len(s)
    BY <1>1
  <2>2. CASE i = Len(s)
    BY <1>1, <2>1, <2>2
  <2>3. CASE i # Len(s)
    <3>1. i \in 1 .. Len(s) - 1 /\ i + 1 \in 1 .. Len(s)
      BY <1>1, <2>1, <2>3
    <3> QED
      BY <1>1, <3>1 DEF NotRepeated
  <2> QED
    BY <2>2, <2>3
<1>3. NotRepeated(Tail(q))
  <2>1. Tail(q) \in Seq(Cmds) /\ Len(Tail(q)) = Len(q) - 1
        /\ \A i \in 1 .. Len(q) - 1 : Tail(q)[i] = q[i + 1]
    BY <1>1
  <2>2. ASSUME NEW i \in 1 .. Len(Tail(q)) - 1 PROVE Tail(q)[i] # Tail(q)[i + 1]
    <3>1. /\ i \in 1 .. Len(q) - 1 /\ i + 1 \in 1 .. Len(q) - 1
      BY <1>1, <2>1
    <3>2. Tail(q)[i] = q[i + 1] /\ Tail(q)[i + 1] = q[(i + 1) + 1]
      BY <2>1, <3>1
    <3> QED
      BY <1>2, <3>1, <3>2
  <2> QED
    BY <2>2 DEF NotRepeated
<1>4. NotRepeated(q)
  BY <1>2 DEF NotRepeated
<1>5. Newest(q) = q \/ Newest(q) = Tail(q)
  BY DEF Newest
<1> QED
  BY <1>3, <1>4, <1>5 DEF q
-----------------------------------------------------------------------------
(* Its steps                                                               *)

\* What Ring is, before and after load_log().
LEMMA RingIs ==
    /\ log_loaded => Ring = [entries |-> log_entries, count |-> log_count,
                             start |-> log_start]
    /\ ~ log_loaded /\ Len(file) <= MaxEntries => Ring = LoadedRing(file, log_entries)
<1>1. log_loaded => Ring = [entries |-> log_entries, count |-> log_count,
                            start |-> log_start]
  BY DEF Ring
<1>2. ASSUME ~ log_loaded, Len(file) <= MaxEntries
      PROVE  Ring = LoadedRing(file, log_entries)
  <2> DEFINE n == IF Len(file) < MaxEntries THEN Len(file) ELSE MaxEntries
  <2>1. n = Len(file)
    BY <1>2, ShellLogAssumption
  <2>2. Ring = [entries |-> [i \in Index |-> IF i < n THEN file[i + 1] ELSE log_entries[i]],
                count |-> n, start |-> 0]
    BY <1>2, Zenon DEF Ring
  <2> HIDE DEF n
  <2> QED
    BY <2>1, <2>2 DEF LoadedRing
<1> QED
  BY <1>1, <1>2

\* SetRing(r) makes r the ring.
LEMMA SetRingLemma ==
    ASSUME NEW r, GoodRing(r), SetRing(r)
    PROVE  /\ Ring' = r /\ log_loaded' = TRUE
           /\ log_entries' \in [Index -> Cmds \union {NoCmd}]
           /\ log_count' \in 0 .. MaxEntries /\ log_start' \in Index
           /\ RingShape' /\ log_count' = r.count
<1>1. /\ log_entries' = r.entries /\ log_count' = r.count /\ log_start' = r.start
      /\ log_loaded' = TRUE
  BY DEF SetRing
<1>2. /\ r = [entries |-> r.entries, count |-> r.count, start |-> r.start]
      /\ r.entries \in [Index -> Cmds \union {NoCmd}]
      /\ r.count \in 0 .. MaxEntries /\ r.start \in Index
      /\ r.start # 0 => r.count = MaxEntries
  BY DEF GoodRing
<1>3. Ring' = [entries |-> log_entries', count |-> log_count', start |-> log_start']
  BY <1>1 DEF Ring
<1> QED
  BY <1>1, <1>2, <1>3 DEF RingShape

\* The invariant holds after a step to the ring r and the saved commands k.
LEMMA AfterStep ==
    ASSUME HistoryTypes', RingShape',
           NEW r, Ring' = r, GoodRing(r), NotRepeated(Contents(r)),
           NEW k, kept' = k, NotRepeated(k),
           NEW p, pc' = p,
           p # "opened" => file' = k,
           p = "opened" => file' = <<>>,
           p # "off" => Contents(r) = recent',
           p \notin {"off", "idle"} => log_loaded'
    PROVE  HistoryInv'
<1>1. GoodRing(Ring)' /\ NotRepeated(Contents(Ring))' /\ NotRepeated(kept)'
  OBVIOUS
<1>2. (pc # "opened" => file = kept)'
  OBVIOUS
<1>3. (pc = "opened" => file = <<>>)'
  OBVIOUS
<1>4. (pc # "off" => Contents(Ring) = recent)'
  OBVIOUS
<1>5. (pc \notin {"off", "idle"} => log_loaded)'
  OBVIOUS
<1> QED
  BY <1>1, <1>2, <1>3, <1>4, <1>5 DEF HistoryInv

\* What the proof of a step starts from.
LEMMA BeforeStep ==
    ASSUME HistoryInv
    PROVE  /\ HistoryTypes /\ GoodRing(Ring) /\ NotRepeated(Contents(Ring)) /\ NotRepeated(kept)
           /\ RingShape
           /\ pc # "opened" => file = kept
           /\ pc = "opened" => file = <<>>
           /\ pc # "off" => Contents(Ring) = recent
           /\ pc \notin {"off", "idle"} => log_loaded
           /\ Contents(Ring) \in Seq(Cmds) /\ Len(Contents(Ring)) = Ring.count
           /\ Ring.count \in 0 .. MaxEntries
           /\ log_loaded => Ring.count = log_count
<1>1. GoodRing(Ring)
  BY DEF HistoryInv
<1>2. log_loaded => Ring.count = log_count
  BY RingIs
<1> QED
  BY <1>1, <1>2, Entries DEF HistoryInv

\* A step that leaves the ring, the file and its lines alone leaves Ring alone.
LEMMA RingStays ==
    ASSUME UNCHANGED memVars, log_loaded \/ file' = file
    PROVE  /\ Ring' = Ring /\ RingShape' = RingShape
           /\ log_loaded' = log_loaded /\ log_count' = log_count
<1>1. log_entries' = log_entries /\ log_count' = log_count /\ log_start' = log_start
      /\ log_loaded' = log_loaded
  BY DEF memVars
<1>2. CASE log_loaded
  BY <1>1, <1>2 DEF Ring, RingShape
<1>3. CASE file' = file
  BY <1>1, <1>3 DEF Ring, RingShape, Index
<1> QED
  BY <1>1, <1>2, <1>3

\* A new session: the ring will be what the file holds.
LEMMA StartKeeps == HistoryInv /\ Start => HistoryInv'
<1> SUFFICES ASSUME HistoryInv, Start PROVE HistoryInv'
  OBVIOUS
<1>1. pc' = "idle" /\ log_loaded' = FALSE /\ file' = file /\ kept' = kept /\ recent' = kept
      /\ log_count' = 0 /\ log_start' = 0 /\ log_entries' = [i \in Index |-> NoCmd]
      /\ pc = "off"
  BY DEF Start
<1>2. HistoryTypes /\ NotRepeated(kept) /\ file = kept
  BY <1>1, BeforeStep
<1>3. file \in Seq(Cmds) /\ Len(file) <= MaxEntries
      /\ log_entries' \in [Index -> Cmds \union {NoCmd}]
      /\ recent' \in Seq(Cmds) /\ Len(recent') <= MaxEntries
  BY <1>1, <1>2 DEF HistoryTypes
<1>4. HistoryTypes'
  <2>1. 0 \in 0 .. MaxEntries /\ 0 \in Index
    BY ShellLogAssumption DEF Index
  <2>2. kept' \in Seq(Cmds) /\ Len(kept') <= MaxEntries
    BY <1>1, <1>2 DEF HistoryTypes
  <2> QED
    BY <1>1, <1>3, <2>1, <2>2 DEF HistoryTypes
<1>5. Ring' = LoadedRing(file, log_entries')
  <2>1. (~ log_loaded /\ Len(file) <= MaxEntries => Ring = LoadedRing(file, log_entries))'
    BY RingIs, PTL
  <2> QED
    BY <1>1, <1>3, <2>1
<1>6. GoodRing(Ring') /\ Contents(Ring') = file
  BY <1>3, <1>5, LoadLemma
<1>7. RingShape'
  BY <1>1 DEF RingShape
<1> QED
  BY <1>1, <1>2, <1>4, <1>6, <1>7, AfterStep

\* A step that loads the file or leaves the ring as it is.
LEMMA LoadKeeps ==
    ASSUME HistoryInv, pc = "idle", SetRing(Ring), UNCHANGED <<pc, file, recent, kept>>
    PROVE  HistoryInv'
<1>1. /\ HistoryTypes /\ GoodRing(Ring) /\ NotRepeated(Contents(Ring)) /\ NotRepeated(kept)
      /\ file = kept /\ Contents(Ring) = recent
  BY BeforeStep
<1>2. /\ Ring' = Ring /\ log_loaded' = TRUE /\ RingShape'
      /\ log_entries' \in [Index -> Cmds \union {NoCmd}]
      /\ log_count' \in 0 .. MaxEntries /\ log_start' \in Index
  BY <1>1, SetRingLemma
<1>3. pc' = "idle" /\ file' = file /\ kept' = kept /\ recent' = recent
  OBVIOUS
<1>4. HistoryTypes'
  BY <1>1, <1>2, <1>3 DEF HistoryTypes
<1> QED
  BY <1>1, <1>2, <1>3, <1>4, AfterStep

\* log_add_command(): the new command is behind those of the file.
LEMMA AddKeeps ==
    ASSUME HistoryInv, NEW c \in Cmds, AddCommand(c)
    PROVE  HistoryInv'
<1>1. pc = "idle" /\ file' = file /\ kept' = kept
  BY DEF AddCommand
<1>2. CASE IsRepeated(Ring, c)
  <2>1. SetRing(Ring) /\ pc' = pc /\ recent' = recent
    BY <1>2, Zenon DEF AddCommand
  <2> QED
    BY <1>1, <2>1, LoadKeeps
<1>3. CASE ~ IsRepeated(Ring, c)
  <2>1. SetRing(Insert(Ring, c)) /\ pc' = "save" /\ recent' = Newest(Append(recent, c))
    BY <1>3, Zenon DEF AddCommand
  <2>2. /\ HistoryTypes /\ GoodRing(Ring) /\ NotRepeated(Contents(Ring)) /\ NotRepeated(kept)
        /\ file = kept /\ Contents(Ring) = recent
        /\ Contents(Ring) \in Seq(Cmds) /\ Len(Contents(Ring)) = Ring.count
    BY <1>1, BeforeStep
  <2> DEFINE r == Insert(Ring, c)
  <2>3. /\ GoodRing(r) /\ r.count > 0 /\ Contents(r) = Newest(Append(recent, c))
        /\ Contents(r)[r.count] = c
    BY <2>2, InsertLemma
  <2>4. /\ Ring' = r /\ log_loaded' = TRUE /\ RingShape' /\ log_count' = r.count
        /\ log_entries' \in [Index -> Cmds \union {NoCmd}]
        /\ log_count' \in 0 .. MaxEntries /\ log_start' \in Index
    BY <2>1, <2>3, SetRingLemma
  <2> HIDE DEF r
  <2>5. HistoryTypes'
    <3>1. recent' \in Seq(Cmds) /\ Len(recent') <= MaxEntries
      BY <2>1, <2>3, Entries, ShellLogAssumption DEF GoodRing
    <3> QED
      BY <1>1, <2>1, <2>2, <2>4, <3>1 DEF HistoryTypes
  <2>6. NotRepeated(Contents(r))
    <3>1. ASSUME Len(recent) > 0 PROVE recent[Len(recent)] # c
      <4>1. Ring.count > 0 /\ Len(recent) = Ring.count /\ Ring.count \in 1 .. Ring.count
        BY <2>2, <3>1, Entries
      <4>2. Contents(Ring)[Ring.count]
              = Ring.entries[(Ring.start + Ring.count - 1) % MaxEntries]
        BY <2>2, <4>1, Entries
      <4> QED
        BY <1>3, <2>2, <4>1, <4>2 DEF IsRepeated
    <3> QED
      BY <2>2, <2>3, <3>1, AppendLemma
  <2> QED
    BY <1>1, <2>1, <2>2, <2>3, <2>4, <2>5, <2>6, AfterStep
<1> QED
  BY <1>2, <1>3

\* log purge
LEMMA PurgeKeeps == HistoryInv /\ Purge => HistoryInv'
<1> SUFFICES ASSUME HistoryInv, Purge PROVE HistoryInv'
  OBVIOUS
<1> DEFINE r == [entries |-> Ring.entries, count |-> 0, start |-> 0]
<1>1. pc = "idle" /\ pc' = "save" /\ file' = file /\ kept' = kept /\ recent' = <<>>
      /\ SetRing(r)
  BY DEF Purge
<1>2. /\ HistoryTypes /\ GoodRing(Ring) /\ NotRepeated(kept) /\ file = kept
  BY <1>1, BeforeStep
<1>3. GoodRing(r) /\ Contents(r) = <<>>
  BY <1>2, PurgeLemma
<1>4. <<>> \in Seq(Cmds) /\ Len(<<>>) <= MaxEntries
  BY ShellLogAssumption
<1>5. /\ Ring' = r /\ log_loaded' = TRUE /\ RingShape' /\ log_count' = r.count
      /\ log_entries' \in [Index -> Cmds \union {NoCmd}]
      /\ log_count' \in 0 .. MaxEntries /\ log_start' \in Index
  BY <1>1, <1>3, SetRingLemma
<1> HIDE DEF r
<1>6. HistoryTypes'
  BY <1>1, <1>2, <1>4, <1>5 DEF HistoryTypes
<1>7. NotRepeated(Contents(r))
  BY <1>3 DEF NotRepeated
<1> QED
  BY <1>1, <1>2, <1>3, <1>4, <1>5, <1>6, <1>7, AfterStep

\* save_log(): the file is empty until its lines are written.
LEMMA SaveOpenKeeps == HistoryInv /\ (SaveOpen \/ SaveFails) => HistoryInv'
<1> SUFFICES ASSUME HistoryInv, SaveOpen \/ SaveFails PROVE HistoryInv'
  OBVIOUS
<1>1. /\ pc = "save" /\ kept' = kept /\ recent' = recent /\ UNCHANGED memVars
      /\ \/ pc' = "opened" /\ file' = <<>>
         \/ pc' = "idle" /\ file' = file
  BY DEF SaveOpen, SaveFails
<1>2. /\ HistoryTypes /\ GoodRing(Ring) /\ NotRepeated(Contents(Ring)) /\ NotRepeated(kept)
      /\ RingShape /\ log_loaded /\ file = kept /\ Contents(Ring) = recent
  BY <1>1, BeforeStep
<1>3. Ring' = Ring /\ RingShape' /\ log_loaded'
  BY <1>1, <1>2, RingStays
<1>4. HistoryTypes'
  <2>1. <<>> \in Seq(Cmds) /\ Len(<<>>) <= MaxEntries
    BY ShellLogAssumption
  <2> QED
    BY <1>1, <1>2, <2>1 DEF HistoryTypes, memVars
<1> QED
  BY <1>1, <1>2, <1>3, <1>4, AfterStep

\* save_log(): the lines are the newest commands.
LEMMA SaveCloseKeeps == HistoryInv /\ SaveClose => HistoryInv'
<1> SUFFICES ASSUME HistoryInv, SaveClose PROVE HistoryInv'
  OBVIOUS
<1>1. /\ pc = "opened" /\ file' = Contents(Ring) /\ pc' = "idle"
      /\ UNCHANGED memVars /\ recent' = recent /\ kept' = recent
  BY DEF SaveClose, Written
<1>2. /\ HistoryTypes /\ GoodRing(Ring) /\ NotRepeated(Contents(Ring))
      /\ RingShape /\ log_loaded /\ Contents(Ring) = recent
  BY <1>1, BeforeStep
<1>3. Ring' = Ring /\ RingShape' /\ log_loaded'
  BY <1>1, <1>2, RingStays
<1>4. HistoryTypes'
  BY <1>1, <1>2 DEF HistoryTypes, memVars
<1> QED
  BY <1>1, <1>2, <1>3, <1>4, AfterStep

\* The shell ends, in order or not: the file holds what the next session will show.
LEMMA EndKeeps == HistoryInv /\ (ExitShell \/ Killed) => HistoryInv'
<1> SUFFICES ASSUME HistoryInv, ExitShell \/ Killed PROVE HistoryInv'
  OBVIOUS
<1>1. /\ pc # "off" /\ pc' = "off" /\ file' = file /\ recent' = recent
      /\ UNCHANGED memVars
      /\ kept' = IF pc = "opened" THEN <<>> ELSE kept
  BY DEF ExitShell, Killed
<1>2. /\ HistoryTypes /\ GoodRing(Ring) /\ NotRepeated(Contents(Ring)) /\ RingShape
      /\ NotRepeated(kept)
      /\ pc # "opened" => file = kept
      /\ pc = "opened" => file = <<>>
  BY BeforeStep
<1>4. kept' = file /\ NotRepeated(kept')
  <2>1. NotRepeated(<<>>)
    BY DEF NotRepeated
  <2> QED
    BY <1>1, <1>2, <2>1
<1>5. Ring' = Ring /\ RingShape'
  BY <1>1, <1>2, RingStays
<1>6. HistoryTypes'
  BY <1>1, <1>2, <1>4 DEF HistoryTypes, memVars
<1> QED
  BY <1>1, <1>2, <1>4, <1>5, <1>6, AfterStep
-----------------------------------------------------------------------------
(* Its theorems                                                            *)

\* HistoryInv is an invariant of the shell's history: after every add, purge, save, restart
\* and kill, file and ring hold the newest commands, or are about to.
THEOREM HistoryInvariant == HistorySpec => []HistoryInv
<1>1. HistoryInit => HistoryInv
  <2> SUFFICES ASSUME HistoryInit PROVE HistoryInv
    OBVIOUS
  <2>1. pc = "off" /\ log_count = 0 /\ log_start = 0 /\ log_loaded = FALSE
        /\ file = <<>> /\ recent = <<>> /\ kept = <<>> /\ log_entries = [i \in Index |-> NoCmd]
    BY DEF HistoryInit
  <2>2. <<>> \in Seq(Cmds) /\ Len(<<>>) <= MaxEntries
    BY ShellLogAssumption
  <2>3. HistoryTypes
    <3>1. log_entries \in [Index -> Cmds \union {NoCmd}]
      BY <2>1
    <3>2. 0 \in 0 .. MaxEntries /\ 0 \in Index
      BY ShellLogAssumption DEF Index
    <3> QED
      BY <2>1, <2>2, <3>1, <3>2 DEF HistoryTypes
  <2>4. Ring = LoadedRing(file, log_entries)
    BY <2>1, <2>2, RingIs
  <2>5. GoodRing(Ring) /\ Contents(Ring) = <<>>
    <3>1. log_entries \in [Index -> Cmds \union {NoCmd}]
      BY <2>1
    <3> QED
      BY <2>1, <2>2, <2>4, <3>1, LoadLemma
  <2>6. RingShape
    BY <2>1 DEF RingShape
  <2>7. NotRepeated(<<>>)
    BY DEF NotRepeated
  <2> QED
    BY <2>1, <2>3, <2>5, <2>6, <2>7 DEF HistoryInv
<1>2. HistoryInv /\ [HistoryNext]_historyVars => HistoryInv'
  <2> SUFFICES ASSUME HistoryInv, [HistoryNext]_historyVars PROVE HistoryInv'
    OBVIOUS
  <2>1. CASE LogCommand
    BY <2>1, LoadKeeps DEF LogCommand
  <2>2. CASE \E c \in Cmds : AddCommand(c)
    BY <2>2, AddKeeps
  <2>3. CASE Start \/ Purge \/ SaveOpen \/ SaveFails \/ SaveClose \/ ExitShell \/ Killed
    BY <2>3, StartKeeps, PurgeKeeps, SaveOpenKeeps, SaveCloseKeeps, EndKeeps
  <2>4. CASE UNCHANGED historyVars
    BY <2>4 DEF historyVars, memVars, HistoryInv, HistoryTypes, RingShape, Ring, Index
  <2> QED
    BY <2>1, <2>2, <2>3, <2>4 DEF HistoryNext
<1> QED
  BY <1>1, <1>2, PTL DEF HistorySpec

\* While nothing is being saved, the file holds the newest commands in order, as they were at
\* the last save, for any length of the history.
THEOREM CommandsPersist == HistorySpec => []Persistent
<1>1. HistoryInv => Persistent
  BY DEF HistoryInv, Persistent
<1> QED
  BY <1>1, HistoryInvariant, PTL

\* The ring buffer keeps its shape, holds no repetition, and shows a session its newest
\* commands in order, saved or not, for any length of the history.
THEOREM HistoryIsSound == HistorySpec => []HistorySound
<1>1. HistoryInv => HistorySound
  <2> SUFFICES ASSUME HistoryInv PROVE HistorySound
    OBVIOUS
  <2>1. HistoryTypes /\ RingShape /\ NotRepeated(Contents(Ring))
        /\ Len(Contents(Ring)) = Ring.count
    BY BeforeStep
  <2>2. NoRepeats
    BY <2>1 DEF NoRepeats, NotRepeated
  <2>3. ShowsNewest
    BY DEF HistoryInv, ShowsNewest
  <2> QED
    BY <2>1, <2>2, <2>3 DEF HistorySound
<1> QED
  BY <1>1, HistoryInvariant, PTL
-----------------------------------------------------------------------------
(* malloc(): the invariant of the heap                                     *)

\* Block x follows block a in the ring through addresses D: it is the next higher one, or base.
Follows(D, a, x) ==
    \/ x = Base /\ \A b \in D : b <= a
    \/ x \in D /\ x > a /\ \A b \in D : b > a => x <= b

\* A ring of free blocks in the order of their addresses, with the empty block base.
GoodFree(f) ==
    /\ IsFiniteSet(DOMAIN f) /\ DOMAIN f \subseteq Nat
    /\ f = [a \in DOMAIN f |-> [ptr |-> f[a].ptr, size |-> f[a].size]]
    /\ \A a \in DOMAIN f : f[a].size \in Nat /\ (f[a].size = 0 <=> a = Base)
    /\ Base \in DOMAIN f
    /\ \A a \in DOMAIN f : Follows(DOMAIN f, a, f[a].ptr)

\* No free block ends where another begins.
Merged(f) == \A a \in DOMAIN f : a # Base => a + f[a].size \notin DOMAIN f

\* The free blocks f, the blocks g of the program and the units fo that it got itself.
Pieces(f, g, fo) ==
    [a \in DOMAIN g \union (DOMAIN f \ {Base}) \union fo |->
        IF a \in DOMAIN g THEN g[a] ELSE IF a \in fo THEN 1 ELSE f[a].size]

\* Pieces h, address -> size, are the memory from HeapStart to top without gaps.
Tiles(h, top) ==
    /\ \A a \in DOMAIN h : a \in Nat /\ h[a] \in Nat \ {0} /\ HeapStart <= a /\ a + h[a] <= top
    /\ \A a, b \in DOMAIN h : a < b => a + h[a] <= b
    /\ \A u \in HeapStart .. top - 1 : \E a \in DOMAIN h : a <= u /\ u < a + h[a]

Separate(f, g, fo) ==
    DOMAIN g \intersect DOMAIN f = {} /\ fo \intersect (DOMAIN g \union DOMAIN f) = {}

\* Free blocks f, entered at p, the program's blocks g and its own units fo, up to top.
GoodHeap(f, p, g, fo, top) ==
    /\ GoodFree(f) /\ Merged(f)
    /\ p \in DOMAIN f
    /\ Separate(f, g, fo)
    /\ Tiles(Pieces(f, g, fo), top)
    /\ top \in Nat /\ HeapStart <= top

HeapInv == GoodHeap(blocks, freep, given, foreign, brk)
-----------------------------------------------------------------------------
(* The pieces of the heap                                                  *)

\* Two adjacent pieces become one.
LEMMA TilesJoin ==
    ASSUME NEW h, NEW k, NEW top \in Nat, Tiles(h, top),
           NEW a \in DOMAIN h, a + h[a] \in DOMAIN h,
           DOMAIN k = DOMAIN h \ {a + h[a]},
           k[a] = h[a] + h[a + h[a]],
           \A b \in DOMAIN k : b # a => k[b] = h[b]
    PROVE  Tiles(k, top)
<1> DEFINE c == a + h[a]
<1>0. HeapStart \in Nat
  BY Xv6MallocAssumption
<1>1. /\ a \in Nat /\ h[a] \in Nat \ {0} /\ c \in Nat /\ h[c] \in Nat \ {0} /\ a < c
      /\ a \in DOMAIN k /\ HeapStart <= a /\ c + h[c] <= top
  BY DEF Tiles
<1> HIDE DEF c
<1>2. DOMAIN k = DOMAIN h \ {c} /\ k[a] = h[a] + h[c] /\ c = a + h[a] /\ c \in DOMAIN h
  BY DEF c
<1>3. \A b \in DOMAIN k : b \in Nat /\ k[b] \in Nat \ {0} /\ HeapStart <= b /\ b + k[b] <= top
  BY <1>0, <1>1, <1>2 DEF Tiles
<1>4. ASSUME NEW b \in DOMAIN k, NEW d \in DOMAIN k, b < d
      PROVE  b + k[b] <= d
  <2>1. b \in Nat /\ d \in Nat /\ b + h[b] <= d /\ h[b] \in Nat
    BY <1>2, <1>3, <1>4 DEF Tiles
  <2>2. CASE b = a
    <3>1. c < d
      BY <1>1, <1>2, <1>4, <2>1, <2>2
    <3>2. c + h[c] <= d
      BY <1>2, <1>4, <3>1 DEF Tiles
    <3> QED
      BY <1>1, <1>2, <2>1, <2>2, <3>2
  <2>3. CASE b # a
    BY <2>1, <2>3
  <2> QED
    BY <2>2, <2>3
<1>5. ASSUME NEW u \in HeapStart .. top - 1
      PROVE  \E b \in DOMAIN k : b <= u /\ u < b + k[b]
  <2>1. PICK b \in DOMAIN h : b <= u /\ u < b + h[b]
    BY <1>5 DEF Tiles
  <2>2. CASE b \in {a, c}
    <3>1. a <= u /\ u < a + k[a]
      BY <1>0, <1>1, <1>2, <1>5, <2>1, <2>2
    <3> QED
      BY <1>1, <3>1
  <2>3. CASE b \notin {a, c}
    BY <1>2, <2>1, <2>3
  <2> QED
    BY <2>2, <2>3
<1> QED
  BY <1>3, <1>4, <1>5 DEF Tiles

\* A piece is cut in two.
LEMMA TilesCut ==
    ASSUME NEW h, NEW k, NEW top \in Nat, Tiles(h, top),
           NEW a \in DOMAIN h, NEW m \in Nat \ {0}, m < h[a],
           DOMAIN k = DOMAIN h \union {a + m},
           k[a] = m, k[a + m] = h[a] - m,
           \A b \in DOMAIN h : b # a => k[b] = h[b]
    PROVE  Tiles(k, top) /\ a + m \notin DOMAIN h
<1> DEFINE c == a + m
<1>0. HeapStart \in Nat
  BY Xv6MallocAssumption
<1>1. /\ a \in Nat /\ h[a] \in Nat \ {0} /\ c \in Nat /\ a < c /\ c < a + h[a]
      /\ HeapStart <= a /\ a + h[a] <= top /\ HeapStart <= c
  BY <1>0 DEF Tiles
<1>2. c \notin DOMAIN h
  BY <1>1 DEF Tiles
<1> HIDE DEF c
<1>3. DOMAIN k = DOMAIN h \union {c} /\ k[a] = m /\ k[c] = h[a] - m /\ c = a + m
  BY DEF c
<1>4. k[c] \in Nat \ {0} /\ k[a] \in Nat \ {0} /\ c + k[c] = a + h[a] /\ a + k[a] = c
  BY <1>1, <1>3
<1>5. \A b \in DOMAIN k : b \in Nat /\ k[b] \in Nat \ {0} /\ HeapStart <= b /\ b + k[b] <= top
  BY <1>0, <1>1, <1>3, <1>4 DEF Tiles
<1>6. ASSUME NEW b \in DOMAIN k, NEW d \in DOMAIN k, b < d
      PROVE  b + k[b] <= d
  <2>1. b \in Nat /\ d \in Nat
    BY <1>5
  <2>2. CASE b = a
    <3>1. d = c \/ a + h[a] <= d
      BY <1>3, <1>6, <2>2 DEF Tiles
    <3> QED
      BY <1>1, <1>4, <2>1, <2>2, <3>1
  <2>3. CASE b = c
    <3>1. d \in DOMAIN h /\ a < d
      BY <1>1, <1>3, <1>6, <2>1, <2>3
    <3>2. a + h[a] <= d
      BY <3>1 DEF Tiles
    <3> QED
      BY <1>4, <2>3, <3>2
  <2>4. CASE b \notin {a, c}
    <3>1. b \in DOMAIN h /\ k[b] = h[b] /\ h[b] \in Nat
      BY <1>3, <2>4 DEF Tiles
    <3>2. CASE d # c
      BY <1>3, <1>6, <3>1, <3>2 DEF Tiles
    <3>3. CASE d = c
      <4>1. b < a
        <5>1. CASE a < b
          <6>1. a + h[a] <= b
            BY <3>1, <5>1 DEF Tiles
          <6> QED
            BY <1>1, <1>6, <2>1, <3>3, <6>1
        <5> QED
          BY <1>1, <2>1, <2>4, <5>1
      <4>2. b + h[b] <= a
        BY <3>1, <4>1 DEF Tiles
      <4> QED
        BY <1>1, <2>1, <3>1, <3>3, <4>2
    <3> QED
      BY <3>2, <3>3
  <2> QED
    BY <2>2, <2>3, <2>4
<1>7. ASSUME NEW u \in HeapStart .. top - 1
      PROVE  \E b \in DOMAIN k : b <= u /\ u < b + k[b]
  <2>1. PICK b \in DOMAIN h : b <= u /\ u < b + h[b]
    BY <1>7 DEF Tiles
  <2>2. CASE b = a
    <3>1. CASE u < c
      BY <1>3, <1>4, <2>1, <2>2, <3>1
    <3>2. CASE c <= u
      BY <1>3, <1>4, <2>1, <2>2, <3>2
    <3> QED
      BY <1>0, <1>1, <1>7, <3>1, <3>2
  <2>3. CASE b # a
    BY <1>3, <2>1, <2>3
  <2> QED
    BY <2>2, <2>3
<1> QED
  BY <1>2, <1>5, <1>6, <1>7 DEF Tiles, c

\* sbrk() adds a piece at the end.
LEMMA TilesGrow ==
    ASSUME NEW h, NEW k, NEW top \in Nat, HeapStart <= top, Tiles(h, top), NEW n \in Nat \ {0},
           DOMAIN k = DOMAIN h \union {top},
           k[top] = n, \A b \in DOMAIN h : k[b] = h[b]
    PROVE  Tiles(k, top + n) /\ top \notin DOMAIN h
<1>0. HeapStart \in Nat
  BY Xv6MallocAssumption
<1>1. top \notin DOMAIN h
  BY DEF Tiles
<1>2. \A b \in DOMAIN k : b \in Nat /\ k[b] \in Nat \ {0} /\ HeapStart <= b /\ b + k[b] <= top + n
  BY <1>0 DEF Tiles
<1>3. ASSUME NEW b \in DOMAIN k, NEW d \in DOMAIN k, b < d
      PROVE  b + k[b] <= d
  <2>1. b \in DOMAIN h
    BY <1>2, <1>3 DEF Tiles
  <2> QED
    BY <1>3, <2>1 DEF Tiles
<1>4. ASSUME NEW u \in HeapStart .. top + n - 1
      PROVE  \E b \in DOMAIN k : b <= u /\ u < b + k[b]
  <2>1. CASE u < top
    <3>1. u \in HeapStart .. top - 1
      BY <1>0, <1>4, <2>1
    <3> QED
      BY <3>1 DEF Tiles
  <2>2. CASE top <= u
    BY <1>0, <1>4, <2>2
  <2> QED
    BY <1>0, <1>4, <2>1, <2>2
<1> QED
  BY <1>1, <1>2, <1>3, <1>4 DEF Tiles
-----------------------------------------------------------------------------
(* The ring of free blocks                                                 *)

\* What FirstFrom() finds is in the set it looks for.
LEMMA FoundIsIn ==
    ASSUME NEW f, IsFiniteSet(DOMAIN f), NEW p, NEW S, FirstFrom(f, p, S) # -1
    PROVE  FirstFrom(f, p, S) \in S
<1> DEFINE found == {k \in 0 .. Cardinality(DOMAIN f) - 1 : Behind(f, p, k) \in S}
<1>1. Cardinality(DOMAIN f) \in Nat
  BY FS_CardinalityType
<1>2. found \in SUBSET Nat /\ found # {}
  BY <1>1 DEF FirstFrom
<1>3. \E k \in found : \A j \in found : k <= j
  <2> HIDE DEF found
  <2> QED
    BY <1>2, Least
<1>4. FirstFrom(f, p, S) = Behind(f, p, CHOOSE k \in found : \A j \in found : k <= j)
  BY <1>2 DEF FirstFrom
<1>5. (CHOOSE k \in found : \A j \in found : k <= j) \in found
  <2> HIDE DEF found
  <2> QED
    BY <1>3
<1> QED
  BY <1>4, <1>5

\* Where a block belongs, there is no other block between its neighbours.
LEMMA BelongsBetween ==
    ASSUME NEW f, GoodFree(f), NEW p \in DOMAIN f, NEW bp \in Nat \ {0}, Belongs(f, p, bp)
    PROVE  /\ p < bp /\ \A b \in DOMAIN f : b <= p \/ (f[p].ptr <= b /\ bp < b)
           /\ f[p].ptr = Base \/ (f[p].ptr \in DOMAIN f /\ bp < f[p].ptr)
           /\ bp \notin DOMAIN f
<1>1. p \in Nat /\ Follows(DOMAIN f, p, f[p].ptr) /\ DOMAIN f \subseteq Nat
  BY DEF GoodFree
<1>2. CASE f[p].ptr = Base /\ \A b \in DOMAIN f : b <= p
  BY <1>1, <1>2 DEF Belongs, Base
<1>3. CASE f[p].ptr \in DOMAIN f /\ f[p].ptr > p /\ \A b \in DOMAIN f : b > p => f[p].ptr <= b
  BY <1>1, <1>3 DEF Belongs
<1> QED
  BY <1>1, <1>2, <1>3 DEF Follows

\* Every block but base has exactly one before it, which is lower.
LEMMA PrevFacts ==
    ASSUME NEW f, GoodFree(f), NEW p \in DOMAIN f, p # Base
    PROVE  /\ Prev(f, p) \in DOMAIN f /\ f[Prev(f, p)].ptr = p /\ Prev(f, p) < p
           /\ \A a \in DOMAIN f : f[a].ptr = p => a = Prev(f, p)
<1> DEFINE Far == {p - q : q \in {r \in DOMAIN f : r < p}}
<1>1. DOMAIN f \subseteq Nat /\ p \in Nat /\ Base \in DOMAIN f /\ Base = 0
  BY DEF GoodFree, Base
<1>2. Far \in SUBSET Nat /\ Far # {}
  <2>1. \A r \in DOMAIN f : r < p => p - r \in Nat
    BY <1>1
  <2>2. p - Base \in Far
    BY <1>1
  <2> QED
    BY <2>1, <2>2
<1>3. PICK k \in Far : \A m \in Far : k <= m
  <2> HIDE DEF Far
  <2> QED
    BY <1>2, Least
<1>4. PICK q \in DOMAIN f : q < p /\ k = p - q
  BY <1>3
<1>5. \A r \in DOMAIN f : r < p => r <= q
  <2> SUFFICES ASSUME NEW r \in DOMAIN f, r < p
               PROVE  r <= q
    OBVIOUS
  <2>1. p - r \in Far
    OBVIOUS
  <2>2. k <= p - r
    BY <1>3, <2>1
  <2> QED
    BY <1>1, <1>4, <2>2
<1>6. f[q].ptr = p
  <2>1. Follows(DOMAIN f, q, f[q].ptr)
    BY DEF GoodFree
  <2> QED
    BY <1>1, <1>4, <1>5, <2>1 DEF Follows
<1>7. Prev(f, p) \in DOMAIN f /\ f[Prev(f, p)].ptr = p
  BY <1>6 DEF Prev
<1>8. \A a \in DOMAIN f : f[a].ptr = p => a < p /\ (\A b \in DOMAIN f : b > a => p <= b)
  BY <1>1 DEF GoodFree, Follows
<1> QED
  BY <1>1, <1>7, <1>8
-----------------------------------------------------------------------------
(* free()                                                                  *)

\* The ring of f with block bp of n units behind p, in the four ways of joining it.
LEMMA FreedFields ==
    ASSUME NEW f, GoodFree(f), NEW p \in DOMAIN f, NEW bp \in Nat \ {0}, NEW n \in Nat \ {0},
           Belongs(f, p, bp),
           NEW r, r = Freed(f, p, bp, n)
    PROVE  LET next  == f[p].ptr
               lower == p + f[p].size = bp
               upper == bp + n = next
           IN  /\ DOMAIN r = (DOMAIN f \ (IF upper THEN {next} ELSE {}))
                              \union (IF lower THEN {} ELSE {bp})
               /\ r = [a \in DOMAIN r |-> [ptr |-> r[a].ptr, size |-> r[a].size]]
               /\ \A a \in DOMAIN r : a \notin {p, bp} => r[a] = f[a]
               /\ lower /\ upper => r[p] = [ptr |-> f[next].ptr,
                                            size |-> f[p].size + (n + f[next].size)]
               /\ lower /\ ~ upper => r[p] = [ptr |-> next, size |-> f[p].size + n]
               /\ ~ lower => r[p] = [ptr |-> bp, size |-> f[p].size]
               /\ ~ lower /\ upper => r[bp] = [ptr |-> f[next].ptr, size |-> n + f[next].size]
               /\ ~ lower /\ ~ upper => r[bp] = [ptr |-> next, size |-> n]
<1> DEFINE next == f[p].ptr
<1> DEFINE g == JoinUpper(f, p, bp, n)
<1>1. p \in Nat /\ p < bp /\ bp \notin DOMAIN f
  BY BelongsBetween DEF GoodFree
<1>2. f[p].size \in Nat /\ \A a \in DOMAIN f : f[a] = [ptr |-> f[a].ptr, size |-> f[a].size]
  BY DEF GoodFree
<1>3. r = JoinLower(g, p, bp)
  BY DEF Freed
<1>4. CASE bp + n = next
  <2>1. p # next
    BY <1>1, <1>4
  <2>2. /\ DOMAIN g = (DOMAIN f \ {next}) \union {bp}
        /\ g = [a \in DOMAIN g |-> IF a = bp THEN [ptr |-> f[next].ptr, size |-> n + f[next].size]
                                   ELSE f[a]]
    BY <1>4 DEF JoinUpper
  <2>3. /\ g[p] = f[p] /\ p \in DOMAIN g /\ bp \in DOMAIN g
        /\ g[bp] = [ptr |-> f[next].ptr, size |-> n + f[next].size]
        /\ \A a \in DOMAIN g : a # bp => g[a] = f[a]
        /\ g = [a \in DOMAIN g |-> [ptr |-> g[a].ptr, size |-> g[a].size]]
    BY <1>1, <1>2, <2>1, <2>2
  <2> HIDE DEF g
  <2>4. CASE p + f[p].size = bp
    <3>1. r = Restrict([g EXCEPT ![p] = [ptr |-> g[bp].ptr, size |-> @.size + g[bp].size]],
                       DOMAIN g \ {bp})
      BY <1>3, <2>3, <2>4 DEF JoinLower
    <3>2. r = [a \in DOMAIN g \ {bp} |->
                  IF a = p THEN [ptr |-> g[bp].ptr, size |-> g[p].size + g[bp].size] ELSE g[a]]
      BY <1>1, <2>3, <3>1 DEF Restrict
    <3> QED
      BY <1>1, <1>2, <1>4, <2>1, <2>2, <2>3, <2>4, <3>2
  <2>5. CASE p + f[p].size # bp
    <3>1. r = [g EXCEPT ![p].ptr = bp]
      BY <1>3, <2>3, <2>5 DEF JoinLower
    <3>2. [g[p] EXCEPT !.ptr = bp] = [ptr |-> bp, size |-> g[p].size]
      BY <1>2, <2>3
    <3>3. r = [g EXCEPT ![p] = [g[p] EXCEPT !.ptr = bp]]
      BY <3>1
    <3>4. r = [a \in DOMAIN g |-> IF a = p THEN [ptr |-> bp, size |-> g[p].size] ELSE g[a]]
      BY <2>3, <3>2, <3>3
    <3> QED
      BY <1>1, <1>2, <1>4, <2>1, <2>2, <2>3, <2>5, <3>4
  <2> QED
    BY <2>4, <2>5
<1>5. CASE bp + n # next
  <2>2. /\ DOMAIN g = DOMAIN f \union {bp}
        /\ g = [a \in DOMAIN g |-> IF a = bp THEN [ptr |-> next, size |-> n] ELSE f[a]]
    BY <1>5 DEF JoinUpper
  <2>3. /\ g[p] = f[p] /\ p \in DOMAIN g /\ bp \in DOMAIN g
        /\ g[bp] = [ptr |-> next, size |-> n]
        /\ \A a \in DOMAIN g : a # bp => g[a] = f[a]
        /\ g = [a \in DOMAIN g |-> [ptr |-> g[a].ptr, size |-> g[a].size]]
    BY <1>1, <1>2, <2>2
  <2> HIDE DEF g
  <2>4. CASE p + f[p].size = bp
    <3>1. r = Restrict([g EXCEPT ![p] = [ptr |-> g[bp].ptr, size |-> @.size + g[bp].size]],
                       DOMAIN g \ {bp})
      BY <1>3, <2>3, <2>4 DEF JoinLower
    <3>2. r = [a \in DOMAIN g \ {bp} |->
                  IF a = p THEN [ptr |-> g[bp].ptr, size |-> g[p].size + g[bp].size] ELSE g[a]]
      BY <1>1, <2>3, <3>1 DEF Restrict
    <3> QED
      BY <1>1, <1>2, <1>5, <2>2, <2>3, <2>4, <3>2
  <2>5. CASE p + f[p].size # bp
    <3>1. r = [g EXCEPT ![p].ptr = bp]
      BY <1>3, <2>3, <2>5 DEF JoinLower
    <3>2. [g[p] EXCEPT !.ptr = bp] = [ptr |-> bp, size |-> g[p].size]
      BY <1>2, <2>3
    <3>3. r = [g EXCEPT ![p] = [g[p] EXCEPT !.ptr = bp]]
      BY <3>1
    <3>4. r = [a \in DOMAIN g |-> IF a = p THEN [ptr |-> bp, size |-> g[p].size] ELSE g[a]]
      BY <2>3, <3>2, <3>3
    <3> QED
      BY <1>1, <1>2, <1>5, <2>2, <2>3, <2>5, <3>4
  <2> QED
    BY <2>4, <2>5
<1> QED
  BY <1>4, <1>5

\* A block of the program or of sbrk(), at bp, is put into the ring: the pieces of the heap are
\* the same, but for those that are joined.
LEMMA FreedGood ==
    ASSUME NEW f, NEW p \in DOMAIN f, NEW g, NEW g1, NEW fo, NEW top \in Nat,
           NEW bp \in DOMAIN g, NEW n, n = g[bp],
           GoodFree(f), Merged(f), Separate(f, g, fo), Tiles(Pieces(f, g, fo), top),
           HeapStart <= top, Belongs(f, p, bp),
           DOMAIN g1 = DOMAIN g \ {bp}, \A a \in DOMAIN g1 : g1[a] = g[a]
    PROVE  GoodHeap(Freed(f, p, bp, n), p, g1, fo, top)
<1> DEFINE h == Pieces(f, g, fo)
           next == f[p].ptr
           r == Freed(f, p, bp, n)
           k == Pieces(r, g1, fo)
           lower == p + f[p].size = bp
           upper == bp + n = next
<1>0. HeapStart \in Nat /\ HeapStart > 0 /\ Base = 0
  BY Xv6MallocAssumption DEF Base
<1>1. /\ DOMAIN h = DOMAIN g \union (DOMAIN f \ {Base}) \union fo
      /\ \A a \in DOMAIN g : h[a] = g[a]
      /\ \A a \in fo : h[a] = 1
      /\ \A a \in DOMAIN f : a # Base => h[a] = f[a].size
  BY DEF Pieces, Separate
<1>2. /\ \A a \in DOMAIN h : a \in Nat /\ h[a] \in Nat \ {0} /\ HeapStart <= a /\ a + h[a] <= top
      /\ \A a, b \in DOMAIN h : a < b => a + h[a] <= b
  <2>1. Tiles(h, top)
    OBVIOUS
  <2> HIDE DEF h
  <2> QED
    BY <2>1 DEF Tiles
<1>3. bp \in Nat \ {0} /\ n \in Nat \ {0} /\ bp \notin DOMAIN f /\ bp \notin fo /\ h[bp] = n
  BY <1>0, <1>1, <1>2 DEF Separate
<1>4. /\ p < bp /\ \A b \in DOMAIN f : b <= p \/ (next <= b /\ bp < b)
      /\ next = Base \/ (next \in DOMAIN f /\ bp < next)
  BY <1>3, BelongsBetween
<1>5. /\ DOMAIN f \subseteq Nat /\ Base \in DOMAIN f /\ IsFiniteSet(DOMAIN f)
      /\ \A a \in DOMAIN f : f[a].size \in Nat /\ (f[a].size = 0 <=> a = Base)
      /\ \A a \in DOMAIN f : Follows(DOMAIN f, a, f[a].ptr)
  BY DEF GoodFree
<1>6. /\ DOMAIN r = (DOMAIN f \ (IF upper THEN {next} ELSE {})) \union (IF lower THEN {} ELSE {bp})
      /\ r = [a \in DOMAIN r |-> [ptr |-> r[a].ptr, size |-> r[a].size]]
      /\ \A a \in DOMAIN r : a \notin {p, bp} => r[a] = f[a]
      /\ lower /\ upper => r[p] = [ptr |-> f[next].ptr, size |-> f[p].size + (n + f[next].size)]
      /\ lower /\ ~ upper => r[p] = [ptr |-> next, size |-> f[p].size + n]
      /\ ~ lower => r[p] = [ptr |-> bp, size |-> f[p].size]
      /\ ~ lower /\ upper => r[bp] = [ptr |-> f[next].ptr, size |-> n + f[next].size]
      /\ ~ lower /\ ~ upper => r[bp] = [ptr |-> next, size |-> n]
  <2>1. r = Freed(f, p, bp, n)
    OBVIOUS
  <2>2. n \in Nat \ {0} /\ bp \in Nat \ {0}
    BY <1>3
  <2> HIDE DEF r
  <2> QED
    BY <2>1, <2>2, FreedFields
<1>7. upper => /\ next \in DOMAIN f /\ next # Base /\ next # p /\ bp < next
               /\ f[next].size \in Nat \ {0}
  BY <1>0, <1>3, <1>4, <1>5
<1>8. lower => p # Base /\ f[p].size \in Nat \ {0}
  BY <1>0, <1>3, <1>5
<1> HIDE DEF h, next, r, lower, upper
<1>9. p \in DOMAIN r /\ Base \in DOMAIN r
  BY <1>5, <1>6, <1>7
<1>10. GoodFree(r)
  <2>1. IsFiniteSet(DOMAIN r)
    <3>1. DOMAIN r \in SUBSET (DOMAIN f \union {bp})
      BY <1>6
    <3> QED
      BY <1>5, <3>1, FS_AddElement, FS_Subset
  <2>2. DOMAIN r \subseteq Nat
    BY <1>3, <1>5, <1>6
  <2>3. \A a \in DOMAIN r : r[a].size \in Nat /\ (r[a].size = 0 <=> a = Base)
    <3> SUFFICES ASSUME NEW a \in DOMAIN r
                 PROVE  r[a].size \in Nat /\ (r[a].size = 0 <=> a = Base)
      OBVIOUS
    <3>1. CASE a \notin {p, bp}
      BY <1>5, <1>6, <3>1
    <3>2. CASE a = p
      BY <1>3, <1>5, <1>6, <1>7, <1>8, <3>2
    <3>3. CASE a = bp
      BY <1>0, <1>3, <1>5, <1>6, <1>7, <3>3
    <3> QED
      BY <3>1, <3>2, <3>3
  <2>4. ASSUME NEW a \in DOMAIN r
        PROVE  Follows(DOMAIN r, a, r[a].ptr)
    <3>1. CASE a \notin {p, bp}
      <4>1. a \in DOMAIN f /\ r[a] = f[a] /\ Follows(DOMAIN f, a, f[a].ptr) /\ a \in Nat
        BY <1>5, <1>6, <3>1
      <4>2. f[a].ptr = Base \/ ~ (upper /\ f[a].ptr = next)
        <5>1. Follows(DOMAIN f, p, next)
          BY <1>5 DEF next
        <5> QED
          BY <1>0, <1>4, <1>5, <1>7, <3>1, <4>1, <5>1 DEF Follows
      <4>3. CASE a < p
        <5>1. f[a].ptr \in DOMAIN f /\ f[a].ptr > a /\ f[a].ptr <= p
              /\ \A b \in DOMAIN f : b > a => f[a].ptr <= b
          BY <1>0, <1>5, <4>1, <4>3 DEF Follows
        <5>2. f[a].ptr \in DOMAIN r
          BY <1>0, <1>5, <1>6, <4>1, <4>2, <5>1
        <5>3. f[a].ptr <= bp
          BY <1>3, <1>4, <1>5, <5>1
        <5> QED
          BY <1>6, <4>1, <5>1, <5>2, <5>3 DEF Follows
      <4>4. CASE p < a
        <5>1. bp < a
          BY <1>3, <1>4, <1>5, <4>1, <4>4
        <5>2. CASE f[a].ptr = Base /\ \A b \in DOMAIN f : b <= a
          BY <1>3, <1>6, <4>1, <5>1, <5>2 DEF Follows
        <5>3. CASE f[a].ptr \in DOMAIN f /\ f[a].ptr > a
                   /\ \A b \in DOMAIN f : b > a => f[a].ptr <= b
          <6>1. f[a].ptr \in DOMAIN r
            BY <1>0, <1>6, <4>1, <4>2, <5>3
          <6> QED
            BY <1>3, <1>6, <4>1, <5>1, <5>3, <6>1 DEF Follows
        <5> QED
          BY <4>1, <5>2, <5>3 DEF Follows
      <4> QED
        BY <1>5, <3>1, <4>1, <4>3, <4>4
    <3>2. upper => /\ f[next].ptr = Base => \A b \in DOMAIN f : b <= next
                   /\ f[next].ptr # Base =>
                        /\ f[next].ptr \in DOMAIN f /\ f[next].ptr > next
                        /\ \A b \in DOMAIN f : b > next => f[next].ptr <= b
      BY <1>0, <1>5, <1>7 DEF Follows
    <3>3. \A b \in DOMAIN f : b <= p \/ (next <= b /\ bp < b)
      BY <1>4
    <3>4. CASE a = p /\ lower /\ upper
      <4>1. \A b \in DOMAIN f : b # next => b <= p \/ b > next
        BY <1>5, <1>7, <3>3, <3>4
      <4> QED
        BY <1>3, <1>4, <1>5, <1>6, <1>7, <3>2, <3>4, <4>1 DEF Follows
    <3>5. CASE a = p /\ lower /\ ~ upper
      BY <1>3, <1>4, <1>5, <1>6, <3>5 DEF Follows, next
    <3>6. CASE a = p /\ ~ lower
      <4>1. r[a].ptr = bp /\ bp \in DOMAIN r /\ \A b \in DOMAIN r : b > p => bp <= b
        BY <1>3, <1>5, <1>6, <3>3, <3>6
      <4> QED
        BY <1>4, <3>6, <4>1 DEF Follows
    <3>7. CASE a = bp /\ a # p /\ upper
      <4>1. \A b \in DOMAIN f : b # next => b <= p \/ b > next
        BY <1>5, <1>7, <3>3, <3>7
      <4>2. ~ lower
        BY <1>3, <1>6, <3>7
      <4> QED
        BY <1>3, <1>4, <1>5, <1>6, <1>7, <3>2, <3>7, <4>1, <4>2 DEF Follows
    <3>8. CASE a = bp /\ a # p /\ ~ upper
      <4>2. ~ lower
        BY <1>3, <1>6, <3>8
      <4>3. r[a].ptr = next /\ DOMAIN r = DOMAIN f \union {bp}
        BY <1>6, <3>8, <4>2
      <4>4. CASE next = Base
        <5>1. \A b \in DOMAIN f : b <= p
          BY <1>0, <1>4, <1>5, <4>4 DEF Follows, next
        <5> QED
          BY <1>3, <1>4, <1>5, <3>8, <4>3, <4>4, <5>1 DEF Follows
      <4>5. CASE next # Base
        BY <1>3, <1>4, <1>5, <3>8, <4>3, <4>5 DEF Follows
      <4> QED
        BY <4>4, <4>5
    <3> QED
      BY <3>1, <3>4, <3>5, <3>6, <3>7, <3>8
  <2> QED
    BY <1>6, <1>9, <2>1, <2>2, <2>3, <2>4 DEF GoodFree
<1>11. /\ f[p].size \in Nat /\ (p # Base => f[p].size = h[p] /\ p \in DOMAIN h)
       /\ upper => next \in DOMAIN h /\ f[next].size = h[next] /\ h[next] \in Nat
       /\ bp \in DOMAIN h /\ p \in Nat
  BY <1>1, <1>2, <1>5, <1>7
<1>12. Merged(r)
  <2> SUFFICES ASSUME NEW a \in DOMAIN r, a # Base
               PROVE  a + r[a].size \notin DOMAIN r
    BY DEF Merged
  <2>1. CASE a \notin {p, bp}
    <3>1. a \in DOMAIN f /\ r[a] = f[a] /\ a \in Nat /\ f[a].size \in Nat
      BY <1>5, <1>6, <2>1
    <3>2. a + f[a].size \notin DOMAIN f
      BY <2>1, <3>1 DEF Merged
    <3>3. a + f[a].size # bp
      <4>1. CASE a < p
        <5>1. p # Base
          BY <1>0, <3>1, <4>1
        <5>2. a + f[a].size <= p
          BY <1>1, <1>2, <1>11, <3>1, <4>1, <5>1
        <5> QED
          BY <1>3, <1>4, <1>11, <3>1, <5>2
      <4>2. CASE p < a
        BY <1>3, <1>4, <1>5, <3>1, <4>2
      <4> QED
        BY <1>11, <2>1, <3>1, <4>1, <4>2
    <3> QED
      BY <1>6, <3>1, <3>2, <3>3
  <2>2. \A b \in DOMAIN f : b > p /\ bp + n >= b => upper
    <3> SUFFICES ASSUME NEW b \in DOMAIN f, b > p, bp + n >= b
                 PROVE  upper
      OBVIOUS
    <3>1. bp < b /\ next <= b /\ b # Base /\ b \in Nat
      BY <1>0, <1>4, <1>5, <1>11
    <3>2. next # Base
      <4>1. ~ (\A c \in DOMAIN f : c <= p)
        BY <1>5, <1>11
      <4> QED
        BY <1>0, <1>5, <1>11, <4>1 DEF Follows, next
    <3>3. next \in DOMAIN f /\ bp < next /\ next \in DOMAIN h
      BY <1>1, <1>4, <3>2
    <3>4. bp + n <= next
      BY <1>2, <1>3, <1>11, <3>3
    <3> QED
      BY <1>3, <1>5, <3>1, <3>3, <3>4 DEF upper
  <2>3. upper => f[next].size \in Nat /\ next + f[next].size \notin DOMAIN f /\ next = bp + n
                 /\ next \in Nat
    BY <1>5, <1>7 DEF Merged, upper
  <2>4. ASSUME upper
        PROVE  bp + (n + f[next].size) \notin DOMAIN r
    <3>1. bp + (n + f[next].size) = next + f[next].size /\ next + f[next].size > bp
      BY <1>3, <2>3, <2>4
    <3> QED
      BY <1>3, <1>6, <2>3, <2>4, <3>1
  <2>5. ASSUME ~ upper
        PROVE  bp + n \notin DOMAIN r
    BY <1>3, <1>4, <1>5, <1>6, <1>11, <2>2, <2>5
  <2>6. CASE a = bp
    <3>1. ~ lower
      BY <1>3, <1>4, <1>6, <1>11, <2>6
    <3> QED
      BY <1>6, <2>4, <2>5, <2>6, <3>1
  <2>7. CASE a = p /\ lower
    <3>1. p + f[p].size = bp
      BY <2>7 DEF lower
    <3>2. CASE upper
      <4>1. p + (f[p].size + (n + f[next].size)) = bp + (n + f[next].size)
        BY <1>3, <1>11, <2>3, <3>1, <3>2
      <4> QED
        BY <1>6, <2>4, <2>7, <3>2, <4>1
    <3>3. CASE ~ upper
      <4>1. p + (f[p].size + n) = bp + n
        BY <1>3, <1>11, <3>1
      <4> QED
        BY <1>6, <2>5, <2>7, <3>3, <4>1
    <3> QED
      BY <3>2, <3>3
  <2>8. CASE a = p /\ ~ lower
    <3>1. r[a].size = f[p].size /\ p + f[p].size # bp
      BY <1>6, <2>8 DEF lower
    <3>2. p + f[p].size \notin DOMAIN f
      BY <2>8 DEF Merged
    <3> QED
      BY <1>6, <2>8, <3>1, <3>2
  <2> QED
    BY <2>1, <2>6, <2>7, <2>8
<1>13. Separate(r, g1, fo)
  BY <1>3, <1>6 DEF Separate
<1> DEFINE m == IF upper THEN n + f[next].size ELSE n
           h1 == [a \in DOMAIN h \ (IF upper THEN {next} ELSE {}) |-> IF a = bp THEN m ELSE h[a]]
<1>14. Tiles(h, top) /\ h = [a \in DOMAIN h |-> h[a]]
  BY DEF h, Pieces
<1>15. Tiles(h1, top)
  <2>1. CASE upper
    <3>1. bp + h[bp] = next
      BY <1>3, <2>1 DEF upper
    <3>2. bp # next /\ m = h[bp] + h[next] /\ DOMAIN h1 = DOMAIN h \ {next}
      BY <1>3, <1>7, <1>11, <2>1
    <3>3. h1[bp] = h[bp] + h[next] /\ \A b \in DOMAIN h1 : b # bp => h1[b] = h[b]
      BY <1>11, <3>2
    <3> HIDE DEF h1, m
    <3> QED
      BY <1>11, <1>14, <2>1, <3>1, <3>2, <3>3, TilesJoin
  <2>2. CASE ~ upper
    <3>1. h1 = h
      BY <1>3, <1>14, <2>2
    <3> QED
      BY <1>14, <3>1
  <2> QED
    BY <2>1, <2>2
<1>16. /\ DOMAIN k = (DOMAIN h \ (IF upper THEN {next} ELSE {})) \ (IF lower THEN {bp} ELSE {})
       /\ \A a \in DOMAIN k : a \notin {p, bp} => k[a] = h[a]
       /\ p # Base => p \in DOMAIN k /\ k[p] = r[p].size
       /\ ~ lower => k[bp] = r[bp].size
       /\ k = [a \in DOMAIN k |-> k[a]]
  <2>1. DOMAIN k = DOMAIN g1 \union (DOMAIN r \ {Base}) \union fo
    BY DEF Pieces
  <2>2. /\ \A a \in DOMAIN g1 : k[a] = g[a]
        /\ \A a \in fo : k[a] = 1
        /\ \A a \in DOMAIN r : a # Base => k[a] = r[a].size
    BY <1>13 DEF Pieces, Separate
  <2>3. k = [a \in DOMAIN k |-> k[a]]
    BY DEF Pieces
  <2> HIDE DEF k
  <2>4. DOMAIN k = (DOMAIN h \ (IF upper THEN {next} ELSE {})) \ (IF lower THEN {bp} ELSE {})
    <3>1. upper => next \notin DOMAIN g /\ next \notin fo
      BY <1>7 DEF Separate
    <3>2. lower => p # bp
      BY <1>3, <1>11, <1>4
    <3> QED
      BY <1>0, <1>1, <1>3, <1>6, <1>7, <2>1, <3>1
  <2>5. \A a \in DOMAIN k : a \notin {p, bp} => k[a] = h[a]
    <3> SUFFICES ASSUME NEW a \in DOMAIN k, a \notin {p, bp}
                 PROVE  k[a] = h[a]
      OBVIOUS
    <3>1. CASE a \in DOMAIN r
      BY <1>1, <1>3, <1>6, <2>1, <2>2, <3>1
    <3>2. CASE a \in DOMAIN g1
      BY <1>1, <2>2, <3>2
    <3>3. CASE a \in fo
      BY <1>1, <2>2, <3>3
    <3> QED
      BY <2>1, <3>1, <3>2, <3>3
  <2>6. p # Base => p \in DOMAIN k /\ k[p] = r[p].size
    BY <1>9, <2>1, <2>2
  <2>7. ~ lower => k[bp] = r[bp].size
    BY <1>0, <1>3, <1>6, <2>2
  <2> QED
    BY <2>3, <2>4, <2>5, <2>6, <2>7
<1>17. m = IF upper THEN n + f[next].size ELSE n
  OBVIOUS
<1>18. /\ DOMAIN h1 = DOMAIN h \ (IF upper THEN {next} ELSE {})
       /\ \A a \in DOMAIN h1 : h1[a] = IF a = bp THEN m ELSE h[a]
       /\ h1 = [a \in DOMAIN h1 |-> h1[a]]
  BY <1>14
<1> HIDE DEF h1, m, k
<1>19. bp \in DOMAIN h1 /\ (p # Base => p \in DOMAIN h1 /\ h1[p] = f[p].size)
  BY <1>3, <1>4, <1>7, <1>11, <1>18
<1>20. Tiles(k, top)
  <2>1. CASE lower
    <3>1. p + h1[p] = bp /\ p \in DOMAIN h1
      BY <1>8, <1>19, <2>1 DEF lower
    <3>2. DOMAIN k = DOMAIN h1 \ {bp}
      BY <1>16, <1>18, <2>1
    <3>3. k[p] = h1[p] + h1[bp]
      <4>1. k[p] = r[p].size /\ h1[p] = f[p].size /\ h1[bp] = m
        BY <1>8, <1>16, <1>18, <1>19, <2>1
      <4> QED
        BY <1>6, <1>17, <2>1, <4>1
    <3>4. \A b \in DOMAIN k : b # p => k[b] = h1[b]
      BY <1>16, <1>18, <3>2
    <3> QED
      BY <1>15, <1>19, <3>1, <3>2, <3>3, <3>4, TilesJoin
  <2>2. CASE ~ lower
    <3>1. DOMAIN k = DOMAIN h1
      BY <1>16, <1>18, <2>2
    <3>2. k[bp] = h1[bp]
      BY <1>6, <1>16, <1>17, <1>18, <1>19, <2>2
    <3>3. \A b \in DOMAIN k : k[b] = h1[b]
      <4> SUFFICES ASSUME NEW b \in DOMAIN k
                   PROVE  k[b] = h1[b]
        OBVIOUS
      <4>1. CASE b = bp
        BY <3>2, <4>1
      <4>2. CASE b = p /\ b # bp
        <5>1. p # Base
          BY <1>0, <1>2, <1>16, <4>2
        <5> QED
          BY <1>6, <1>16, <1>19, <2>2, <4>2, <5>1
      <4>3. CASE b \notin {p, bp}
        BY <1>16, <1>18, <3>1, <4>3
      <4> QED
        BY <4>1, <4>2, <4>3
    <3>4. k = h1
      BY <1>16, <1>18, <3>1, <3>3
    <3> QED
      BY <1>15, <3>4
  <2> QED
    BY <2>1, <2>2
<1> QED
  BY <1>9, <1>10, <1>12, <1>13, <1>20 DEF GoodHeap, r, k
-----------------------------------------------------------------------------
(* malloc()                                                                *)

\* The ring without block p, and with its head only.
Unlinked(f, p) ==
    [a \in DOMAIN f \ {p} |->
        IF a = Prev(f, p) THEN [ptr |-> f[p].ptr, size |-> f[Prev(f, p)].size] ELSE f[a]]
Shortened(f, p, n) ==
    [a \in DOMAIN f |-> IF a = p THEN [ptr |-> f[p].ptr, size |-> f[p].size - n] ELSE f[a]]

\* malloc() takes the whole block out of the ring, or shortens it.
LEMMA TakenFields ==
    ASSUME NEW f, GoodFree(f), NEW p \in DOMAIN f, p # Base, NEW n
    PROVE  /\ f[p].size = n => Taken(f, p, n) = Unlinked(f, p)
           /\ f[p].size # n => Taken(f, p, n) = Shortened(f, p, n)
<1> DEFINE q == Prev(f, p)
           r == Taken(f, p, n)
<1>1. q \in DOMAIN f /\ q # p
  <2>1. q \in DOMAIN f /\ q < p
    BY PrevFacts
  <2> QED
    BY <2>1 DEF GoodFree
<1>2. /\ f = [a \in DOMAIN f |-> f[a]]
      /\ \A a \in DOMAIN f : f[a] = [ptr |-> f[a].ptr, size |-> f[a].size]
  BY DEF GoodFree
<1>3. CASE f[p].size = n
  <2>1. r = Restrict([f EXCEPT ![q].ptr = f[p].ptr], DOMAIN f \ {p})
    BY <1>3 DEF Taken
  <2> HIDE DEF q
  <2>2. [f[q] EXCEPT !.ptr = f[p].ptr] = [ptr |-> f[p].ptr, size |-> f[q].size]
    BY <1>1, <1>2
  <2>3. r = Restrict([f EXCEPT ![q] = [f[q] EXCEPT !.ptr = f[p].ptr]], DOMAIN f \ {p})
    BY <2>1
  <2>4. r = [a \in DOMAIN f \ {p} |->
                IF a = q THEN [ptr |-> f[p].ptr, size |-> f[q].size] ELSE f[a]]
    BY <1>1, <1>2, <2>2, <2>3 DEF Restrict
  <2> QED
    BY <1>3, <2>4 DEF q, Unlinked
<1>4. CASE f[p].size # n
  <2>1. r = [f EXCEPT ![p].size = f[p].size - n]
    BY <1>4 DEF Taken
  <2>2. [f[p] EXCEPT !.size = f[p].size - n] = [ptr |-> f[p].ptr, size |-> f[p].size - n]
    BY <1>2
  <2>3. r = [f EXCEPT ![p] = [f[p] EXCEPT !.size = f[p].size - n]]
    BY <2>1
  <2>4. r = [a \in DOMAIN f |->
                IF a = p THEN [ptr |-> f[p].ptr, size |-> f[p].size - n] ELSE f[a]]
    BY <1>2, <2>2, <2>3
  <2> QED
    BY <1>4, <2>4 DEF Shortened
<1> QED
  BY <1>3, <1>4

\* n units at the end of block p, or the whole block, become a block of the program.
LEMMA TakenGood ==
    ASSUME NEW f, NEW start, NEW g, NEW g1, NEW fo, NEW top, GoodHeap(f, start, g, fo, top),
           NEW p \in DOMAIN f, NEW n \in Nat \ {0}, f[p].size >= n,
           NEW bp, bp = p + f[p].size - n,
           g1 = [a \in DOMAIN g \union {bp} |-> IF a = bp THEN n ELSE g[a]]
    PROVE  GoodHeap(Taken(f, p, n), Prev(f, p), g1, fo, top)
<1> DEFINE r == Taken(f, p, n)
           q == Prev(f, p)
           h == Pieces(f, g, fo)
           k == Pieces(r, g1, fo)
<1>0. HeapStart \in Nat /\ HeapStart > 0 /\ Base = 0
  BY Xv6MallocAssumption DEF Base
<1>1. GoodFree(f) /\ Merged(f) /\ Separate(f, g, fo) /\ Tiles(h, top) /\ top \in Nat /\ HeapStart <= top
  BY DEF GoodHeap
<1>2. /\ DOMAIN f \subseteq Nat /\ Base \in DOMAIN f /\ IsFiniteSet(DOMAIN f)
      /\ \A a \in DOMAIN f : f[a].size \in Nat /\ (f[a].size = 0 <=> a = Base)
      /\ \A a \in DOMAIN f : Follows(DOMAIN f, a, f[a].ptr)
      /\ \A a \in DOMAIN f : f[a] = [ptr |-> f[a].ptr, size |-> f[a].size]
  BY <1>1 DEF GoodFree
<1>3. p # Base /\ p \in Nat /\ f[p].size \in Nat \ {0} /\ bp \in Nat
  BY <1>0, <1>2
<1>4. q \in DOMAIN f /\ f[q].ptr = p /\ q < p /\ q # p
      /\ \A a \in DOMAIN f : f[a].ptr = p => a = q
  BY <1>1, <1>3, PrevFacts
<1>5. /\ f[p].size = n => r = Unlinked(f, p)
      /\ f[p].size # n => r = Shortened(f, p, n)
  BY <1>1, <1>3, TakenFields
<1>6. /\ DOMAIN h = DOMAIN g \union (DOMAIN f \ {Base}) \union fo
      /\ \A a \in DOMAIN g : h[a] = g[a]
      /\ \A a \in fo : h[a] = 1
      /\ \A a \in DOMAIN f : a # Base => h[a] = f[a].size
      /\ h = [a \in DOMAIN h |-> h[a]]
  BY <1>1 DEF Pieces, Separate
<1>7. p \in DOMAIN h /\ h[p] = f[p].size
  BY <1>3, <1>6
<1> HIDE DEF r, q, h
<1>8. CASE f[p].size = n
  <2>1. /\ bp = p /\ DOMAIN r = DOMAIN f \ {p}
        /\ r[q] = [ptr |-> f[p].ptr, size |-> f[q].size]
        /\ \A a \in DOMAIN r : a # q => r[a] = f[a]
        /\ \A a \in DOMAIN r : r[a].size = f[a].size /\ r[a] = [ptr |-> r[a].ptr, size |-> r[a].size]
        /\ r = [a \in DOMAIN r |-> r[a]]
    BY <1>2, <1>3, <1>4, <1>5, <1>8 DEF q, Unlinked
  <2>2. \A a \in DOMAIN r : Follows(DOMAIN r, a, r[a].ptr)
    <3> SUFFICES ASSUME NEW a \in DOMAIN r
                 PROVE  Follows(DOMAIN r, a, r[a].ptr)
      OBVIOUS
    <3>1. a \in DOMAIN f /\ a # p /\ Follows(DOMAIN f, a, f[a].ptr)
      BY <1>2, <2>1
    <3>2. CASE a # q
      BY <1>4, <2>1, <3>1, <3>2 DEF Follows
    <3>3. CASE a = q
      <4>1. \A b \in DOMAIN f : b > q => p <= b
        BY <1>0, <1>2, <1>3, <1>4 DEF Follows
      <4>2. Follows(DOMAIN f, p, f[p].ptr)
        BY <1>2
      <4>3. r[a].ptr = f[p].ptr
        BY <2>1, <3>3
      <4>4. \A b \in DOMAIN r : b \in DOMAIN f /\ b \in Nat /\ (b > q => b > p)
        BY <1>2, <1>3, <2>1, <4>1
      <4>5. CASE f[p].ptr = Base /\ \A b \in DOMAIN f : b <= p
        BY <1>2, <1>3, <1>4, <3>3, <4>3, <4>4, <4>5 DEF Follows
      <4>6. CASE f[p].ptr \in DOMAIN f /\ f[p].ptr > p /\ \A b \in DOMAIN f : b > p => f[p].ptr <= b
        <5>1. f[p].ptr \in DOMAIN r /\ f[p].ptr > q
          BY <1>2, <1>3, <1>4, <2>1, <4>6
        <5> QED
          BY <3>3, <4>3, <4>4, <4>6, <5>1 DEF Follows
      <4> QED
        BY <4>2, <4>5, <4>6 DEF Follows
    <3> QED
      BY <3>2, <3>3
  <2>3. IsFiniteSet(DOMAIN r)
    BY <1>2, <2>1, FS_RemoveElement
  <2>4. GoodFree(r)
    <3>1. r = [a \in DOMAIN r |-> [ptr |-> r[a].ptr, size |-> r[a].size]]
      BY <2>1
    <3>2. \A a \in DOMAIN r : r[a].size \in Nat /\ (r[a].size = 0 <=> a = Base)
      BY <1>2, <2>1
    <3> QED
      BY <1>2, <1>3, <2>1, <2>2, <2>3, <3>1, <3>2 DEF GoodFree
  <2>5. Merged(r)
    BY <1>1, <2>1 DEF Merged
  <2>6. Separate(r, g1, fo)
    BY <1>1, <2>1 DEF Separate
  <2>7. k = h
    <3>1. DOMAIN k = DOMAIN h
      BY <1>3, <1>6, <2>1 DEF Pieces
    <3>2. \A a \in DOMAIN k : k[a] = h[a]
      <4> SUFFICES ASSUME NEW a \in DOMAIN k
                   PROVE  k[a] = h[a]
        OBVIOUS
      <4>1. CASE a = p
        BY <1>7, <1>8, <2>1, <4>1 DEF Pieces
      <4>2. CASE a # p /\ a \in DOMAIN g
        BY <1>6, <2>1, <4>2 DEF Pieces
      <4>3. CASE a # p /\ a \notin DOMAIN g /\ a \in fo
        BY <1>6, <2>1, <4>3 DEF Pieces
      <4>4. CASE a # p /\ a \notin DOMAIN g /\ a \notin fo
        BY <1>6, <2>1, <3>1, <4>4 DEF Pieces
      <4> QED
        BY <4>1, <4>2, <4>3, <4>4
    <3>3. k = [a \in DOMAIN k |-> k[a]]
      BY DEF Pieces
    <3> HIDE DEF k
    <3> QED
      BY <1>6, <3>1, <3>2, <3>3
  <2>8. q \in DOMAIN r
    BY <1>4, <2>1
  <2> QED
    BY <1>1, <2>4, <2>5, <2>6, <2>7, <2>8 DEF GoodHeap, r, q
<1>9. CASE f[p].size # n
  <2> DEFINE m == f[p].size - n
  <2>1. /\ bp = p + m /\ m \in Nat \ {0} /\ m < f[p].size /\ h[p] - m = n
        /\ DOMAIN r = DOMAIN f
        /\ r[p] = [ptr |-> f[p].ptr, size |-> m]
        /\ \A a \in DOMAIN r : a # p => r[a] = f[a]
        /\ \A a \in DOMAIN r : r[a].ptr = f[a].ptr
        /\ \A a \in DOMAIN r : r[a] = [ptr |-> r[a].ptr, size |-> r[a].size]
        /\ r = [a \in DOMAIN r |-> r[a]]
    BY <1>2, <1>3, <1>5, <1>7, <1>9 DEF Shortened
  <2> HIDE DEF m
  <2>2. /\ DOMAIN k = DOMAIN h \union {bp}
        /\ bp # p
        /\ k[bp] = n
        /\ bp \notin DOMAIN h => /\ k[p] = m
                                 /\ \A a \in DOMAIN h : a # p => k[a] = h[a]
    <3>1. bp # p
      BY <1>3, <2>1
    <3>2. DOMAIN k = DOMAIN h \union {bp}
      BY <1>6, <2>1 DEF Pieces
    <3>3. k[bp] = n
      BY DEF Pieces
    <3>4. p \notin DOMAIN g /\ p \notin fo
      BY <1>1 DEF Separate
    <3>5. k[p] = m
      BY <1>3, <2>1, <3>1, <3>4 DEF Pieces
    <3>6. ASSUME NEW a \in DOMAIN h, a # p, a # bp
          PROVE  k[a] = h[a]
      <4>2. CASE a \in DOMAIN g
        BY <1>6, <3>6, <4>2 DEF Pieces
      <4>3. CASE a \notin DOMAIN g /\ a \in fo
        BY <1>6, <3>6, <4>3 DEF Pieces
      <4>4. CASE a \notin DOMAIN g /\ a \notin fo
        BY <1>6, <2>1, <3>6, <4>4 DEF Pieces
      <4> QED
        BY <4>2, <4>3, <4>4
    <3> HIDE DEF k
    <3> QED
      BY <3>1, <3>2, <3>3, <3>5, <3>6
  <2>3. bp \notin DOMAIN h
    <3>1. p < bp /\ bp < p + h[p]
      BY <1>3, <1>7, <2>1
    <3>2. \A a \in DOMAIN h : p < a => p + h[p] <= a
      BY <1>1, <1>7 DEF Tiles
    <3>3. p + h[p] \in Nat
      BY <1>3, <1>7
    <3> QED
      BY <1>3, <3>1, <3>2, <3>3
  <2> HIDE DEF k
  <2>4. Tiles(k, top)
    BY <1>1, <1>7, <2>1, <2>2, <2>3, TilesCut
  <2>5. GoodFree(r)
    <3>1. r = [a \in DOMAIN r |-> [ptr |-> r[a].ptr, size |-> r[a].size]]
      BY <2>1
    <3>2. \A a \in DOMAIN r : r[a].size \in Nat /\ (r[a].size = 0 <=> a = Base)
      BY <1>2, <1>3, <2>1
    <3>3. \A a \in DOMAIN r : Follows(DOMAIN r, a, r[a].ptr)
      BY <1>2, <2>1
    <3> QED
      BY <1>2, <2>1, <3>1, <3>2, <3>3 DEF GoodFree
  <2>6. bp \notin DOMAIN f
    BY <1>0, <1>3, <1>6, <2>1, <2>3
  <2>7. Merged(r)
    <3> SUFFICES ASSUME NEW a \in DOMAIN r, a # Base
                 PROVE  a + r[a].size \notin DOMAIN r
      BY DEF Merged
    <3>1. CASE a = p
      BY <2>1, <2>6, <3>1
    <3>2. CASE a # p
      BY <1>1, <2>1, <3>2 DEF Merged
    <3> QED
      BY <3>1, <3>2
  <2>8. Separate(r, g1, fo)
    <3>1. bp \notin fo
      BY <1>6, <2>3
    <3> QED
      BY <1>1, <2>1, <2>6, <3>1 DEF Separate
  <2>9. q \in DOMAIN r
    BY <1>4, <2>1
  <2> QED
    BY <1>1, <2>4, <2>5, <2>7, <2>8, <2>9 DEF GoodHeap, r, q, k
<1> QED
  BY <1>8, <1>9
-----------------------------------------------------------------------------
(* The steps of the heap                                                   *)

\* malloc() from a good heap leaves a good one.
LEMMA GiveStep ==
    ASSUME NEW f, NEW start, NEW top, NEW n \in Nat \ {0},
           GoodHeap(f, start, given, foreign, top), Give(f, start, top, n)
    PROVE  HeapInv'
<1> DEFINE p == Fit(f, start, n)
           S == {q \in DOMAIN f : f[q].size >= n}
<1>1. p # -1 /\ p = FirstFrom(f, f[start].ptr, S) /\ IsFiniteSet(DOMAIN f)
  BY DEF Give, Fit, GoodHeap, GoodFree
<1>2. p \in S
  <2> HIDE DEF S, p
  <2> QED
    BY <1>1, FoundIsIn
<1>3. p \in DOMAIN f /\ f[p].size >= n
  BY <1>2
<1>4. /\ blocks' = Taken(f, p, n) /\ freep' = Prev(f, p) /\ brk' = top /\ foreign' = foreign
      /\ given' = [a \in DOMAIN given \union {p + f[p].size - n} |->
                      IF a = p + f[p].size - n THEN n ELSE given[a]]
  BY DEF Give, Given
<1> HIDE DEF p
<1>5. GoodHeap(Taken(f, p, n), Prev(f, p), given', foreign, top)
  BY <1>3, <1>4, TakenGood
<1> QED
  BY <1>4, <1>5 DEF HeapInv

\* A block is freed where it belongs.
LEMMA PlaceFits ==
    ASSUME NEW f, IsFiniteSet(DOMAIN f), NEW start, NEW bp, Place(f, start, bp) # -1
    PROVE  Place(f, start, bp) \in DOMAIN f /\ Belongs(f, Place(f, start, bp), bp)
<1> DEFINE S == {q \in DOMAIN f : Belongs(f, q, bp)}
<1>1. Place(f, start, bp) = FirstFrom(f, start, S)
  BY DEF Place
<1>2. Place(f, start, bp) \in S
  <2> HIDE DEF S
  <2> QED
    BY <1>1, FoundIsIn
<1> QED
  BY <1>2

\* free() leaves a good heap.
LEMMA FreeStep ==
    ASSUME HeapInv, NEW bp, FreeBlock(bp)
    PROVE  HeapInv'
<1> DEFINE p == Place(blocks, freep, bp)
<1>1. /\ GoodFree(blocks) /\ Merged(blocks) /\ Separate(blocks, given, foreign)
      /\ Tiles(Pieces(blocks, given, foreign), brk) /\ brk \in Nat /\ HeapStart <= brk
      /\ IsFiniteSet(DOMAIN blocks)
  BY DEF HeapInv, GoodHeap, GoodFree
<1>2. p \in DOMAIN blocks /\ Belongs(blocks, p, bp)
  BY <1>1, PlaceFits DEF FreeBlock
<1>3. /\ bp \in DOMAIN given /\ blocks' = Freed(blocks, p, bp, given[bp]) /\ freep' = p
      /\ DOMAIN given' = DOMAIN given \ {bp} /\ \A a \in DOMAIN given' : given'[a] = given[a]
      /\ brk' = brk /\ foreign' = foreign
  BY DEF FreeBlock, Restrict
<1> HIDE DEF p
<1>4. GoodHeap(Freed(blocks, p, bp, given[bp]), p, given', foreign, brk)
  BY <1>1, <1>2, <1>3, FreedGood
<1> QED
  BY <1>3, <1>4 DEF HeapInv

\* The program's blocks with a piece that sbrk() just returned.
LEMMA GrownHeap ==
    ASSUME HeapInv, NEW n \in Nat \ {0}
    PROVE  /\ Separate(blocks, Given(brk, n), foreign)
           /\ Tiles(Pieces(blocks, Given(brk, n), foreign), brk + n)
           /\ brk \notin DOMAIN blocks \union DOMAIN given \union foreign
<1> DEFINE h == Pieces(blocks, given, foreign)
           k == Pieces(blocks, Given(brk, n), foreign)
<1>1. /\ GoodFree(blocks) /\ Separate(blocks, given, foreign)
      /\ Tiles(h, brk) /\ brk \in Nat /\ HeapStart <= brk
  BY DEF HeapInv, GoodHeap
<1>2. /\ DOMAIN h = DOMAIN given \union (DOMAIN blocks \ {Base}) \union foreign
      /\ DOMAIN k = DOMAIN h \union {brk}
  BY DEF Pieces, Given
<1>3. brk \notin DOMAIN h
  <2>1. \A a \in DOMAIN h : a \in Nat /\ h[a] \in Nat \ {0} /\ a + h[a] <= brk
    BY <1>1 DEF Tiles
  <2> HIDE DEF h
  <2> QED
    BY <1>1, <2>1
<1>4. brk # Base
  BY <1>1, Xv6MallocAssumption DEF Base
<1>5. k[brk] = n
  BY DEF Pieces, Given
<1>6. \A b \in DOMAIN h : k[b] = h[b]
  <2> SUFFICES ASSUME NEW b \in DOMAIN h
               PROVE  k[b] = h[b]
    OBVIOUS
  <2>1. b # brk /\ b \in DOMAIN k
    BY <1>2, <1>3
  <2>2. b \in DOMAIN Given(brk, n) <=> b \in DOMAIN given
    BY <2>1 DEF Given
  <2>3. b \in DOMAIN given => Given(brk, n)[b] = given[b]
    BY <2>1 DEF Given
  <2> QED
    BY <2>1, <2>2, <2>3 DEF Pieces
<1> HIDE DEF h, k
<1>7. Tiles(k, brk + n)
  BY <1>1, <1>2, <1>5, <1>6, TilesGrow
<1>8. brk \notin DOMAIN blocks \union DOMAIN given \union foreign
  BY <1>2, <1>3, <1>4
<1>9. Separate(blocks, Given(brk, n), foreign)
  BY <1>1, <1>8 DEF Separate, Given
<1> QED
  BY <1>7, <1>8, <1>9 DEF k

\* morecore() frees what sbrk() returned, and malloc() takes from that.
LEMMA MoreStep ==
    ASSUME HeapInv, NEW n \in Nat \ {0}, MallocMore(n)
    PROVE  HeapInv'
<1> DEFINE nu == Larger(n, MoreUnits)
           p  == Place(blocks, freep, brk)
           g  == Given(brk, nu)
<1>0. nu \in Nat \ {0}
  BY Xv6MallocAssumption DEF Larger
<1>1. /\ GoodFree(blocks) /\ Merged(blocks) /\ brk \in Nat /\ HeapStart <= brk
      /\ IsFiniteSet(DOMAIN blocks) /\ HeapStart \in Nat
  BY Xv6MallocAssumption DEF HeapInv, GoodHeap, GoodFree
<1>2. p # -1 /\ Give(Freed(blocks, p, brk, nu), p, brk + nu, n)
  BY DEF MallocMore
<1>3. p \in DOMAIN blocks /\ Belongs(blocks, p, brk)
  BY <1>1, <1>2, PlaceFits
<1> HIDE DEF nu, p
<1>4. /\ Separate(blocks, g, foreign) /\ Tiles(Pieces(blocks, g, foreign), brk + nu)
      /\ brk \notin DOMAIN given
  BY <1>0, GrownHeap
<1>5. /\ brk \in DOMAIN g /\ g[brk] = nu
      /\ DOMAIN given = DOMAIN g \ {brk} /\ \A a \in DOMAIN given : given[a] = g[a]
  BY <1>4 DEF Given
<1>6. brk + nu \in Nat /\ HeapStart <= brk + nu
  BY <1>0, <1>1
<1> HIDE DEF g
<1>7. GoodHeap(Freed(blocks, p, brk, nu), p, given, foreign, brk + nu)
  BY <1>1, <1>3, <1>4, <1>5, <1>6, FreedGood
<1> QED
  BY <1>2, <1>7, GiveStep

\* The program takes a unit from sbrk() itself.
LEMMA ForeignStep ==
    ASSUME HeapInv, ForeignSbrk
    PROVE  HeapInv'
<1> DEFINE fo == foreign \union {brk}
           h  == Pieces(blocks, given, foreign)
           k  == Pieces(blocks, given, fo)
<1>1. /\ GoodFree(blocks) /\ Merged(blocks) /\ Separate(blocks, given, foreign)
      /\ freep \in DOMAIN blocks
      /\ Tiles(h, brk) /\ brk \in Nat /\ HeapStart <= brk
  BY DEF HeapInv, GoodHeap
<1>2. /\ blocks' = blocks /\ freep' = freep /\ given' = given /\ foreign' = fo /\ brk' = brk + 1
  BY DEF ForeignSbrk
<1>3. brk \notin DOMAIN blocks \union DOMAIN given \union foreign
  BY GrownHeap, 1 \in Nat \ {0}
<1>4. /\ DOMAIN k = DOMAIN h \union {brk} /\ k[brk] = 1
      /\ \A b \in DOMAIN h : k[b] = h[b]
  <2>1. DOMAIN k = DOMAIN h \union {brk}
    BY DEF Pieces
  <2>2. k[brk] = 1
    BY <1>3 DEF Pieces
  <2>3. \A b \in DOMAIN h : b # brk
    BY <1>3 DEF Pieces
  <2>4. \A b \in DOMAIN h : k[b] = h[b]
    BY <2>3 DEF Pieces
  <2> QED
    BY <2>1, <2>2, <2>4
<1>5. Separate(blocks, given, fo)
  BY <1>1, <1>3 DEF Separate
<1> HIDE DEF h, k, fo
<1>6. Tiles(k, brk + 1)
  BY <1>1, <1>4, TilesGrow, 1 \in Nat \ {0}
<1>7. brk + 1 \in Nat /\ HeapStart <= brk + 1
  BY <1>1, Xv6MallocAssumption
<1>8. GoodHeap(blocks, freep, given, fo, brk + 1)
  BY <1>1, <1>5, <1>6, <1>7 DEF GoodHeap, k
<1> QED
  BY <1>2, <1>8 DEF HeapInv

\* The heap of a new program, with base only.
LEMMA HeapInitially == MallocInit => HeapInv
<1> SUFFICES ASSUME MallocInit
             PROVE  HeapInv
  OBVIOUS
<1>1. /\ DOMAIN blocks = {Base} /\ blocks[Base] = [ptr |-> Base, size |-> 0] /\ Base = 0
      /\ blocks = [a \in {Base} |-> [ptr |-> Base, size |-> 0]]
      /\ freep = Base /\ brk = HeapStart /\ foreign = {} /\ DOMAIN given = {}
  BY DEF MallocInit, Base
<1>2. GoodFree(blocks)
  <2>1. IsFiniteSet(DOMAIN blocks)
    BY <1>1, FS_Singleton
  <2>2. Follows(DOMAIN blocks, Base, blocks[Base].ptr)
    BY <1>1 DEF Follows
  <2> QED
    BY <1>1, <2>1, <2>2 DEF GoodFree
<1>3. Merged(blocks)
  BY <1>1 DEF Merged
<1>4. Separate(blocks, given, foreign)
  BY <1>1 DEF Separate
<1>5. Tiles(Pieces(blocks, given, foreign), brk)
  <2>1. DOMAIN Pieces(blocks, given, foreign) = {}
    BY <1>1 DEF Pieces
  <2>2. HeapStart .. brk - 1 = {}
    BY <1>1, Xv6MallocAssumption
  <2> QED
    BY <2>1, <2>2 DEF Tiles
<1> QED
  BY <1>1, <1>2, <1>3, <1>4, <1>5, Xv6MallocAssumption DEF HeapInv, GoodHeap

\* No operation of the allocator breaks the invariant.
LEMMA HeapStep == HeapInv /\ [MallocNext]_heapVars => HeapInv'
<1> SUFFICES ASSUME HeapInv, [MallocNext]_heapVars
             PROVE  HeapInv'
  OBVIOUS
<1>1. ASSUME NEW n \in Units, Malloc(n)
      PROVE  HeapInv'
  <2>1. n \in Nat \ {0} /\ Give(blocks, freep, brk, n)
    BY <1>1, Xv6MallocAssumption DEF Malloc
  <2>2. GoodHeap(blocks, freep, given, foreign, brk)
    BY DEF HeapInv
  <2> QED
    BY <2>1, <2>2, GiveStep
<1>2. ASSUME NEW n \in Units, MallocMore(n)
      PROVE  HeapInv'
  <2>1. n \in Nat \ {0}
    BY Xv6MallocAssumption
  <2> QED
    BY <1>2, <2>1, MoreStep
<1>3. ASSUME UNCHANGED heapVars
      PROVE  HeapInv'
  BY <1>3 DEF heapVars, HeapInv
<1>4. ASSUME NEW n \in Units, MallocFails(n)
      PROVE  HeapInv'
  BY <1>3, <1>4 DEF MallocFails
<1>5. ASSUME NEW bp \in DOMAIN given, FreeBlock(bp)
      PROVE  HeapInv'
  BY <1>5, FreeStep
<1>6. ASSUME ForeignSbrk
      PROVE  HeapInv'
  BY <1>6, ForeignStep
<1> QED
  BY <1>1, <1>2, <1>3, <1>4, <1>5, <1>6 DEF MallocNext

\* The invariant of malloc() holds for any size of the heap, of the requests and of the pieces
\* that morecore() asks for.
THEOREM HeapInvariant == MallocSpec => []HeapInv
<1> QED
  BY HeapInitially, HeapStep, PTL DEF MallocSpec

\* malloc() and free() neither lose memory nor give it away twice nor leave it in pieces.
THEOREM HeapIsSound == MallocSpec => []HeapSound
<1>1. HeapInv => HeapSound
  <2> SUFFICES ASSUME HeapInv
               PROVE  HeapSound
    OBVIOUS
  <2> DEFINE h == Pieces(blocks, given, foreign)
  <2>1. /\ GoodFree(blocks) /\ Merged(blocks) /\ Separate(blocks, given, foreign)
        /\ freep \in DOMAIN blocks
        /\ Tiles(h, brk) /\ brk \in Nat /\ HeapStart <= brk
    BY DEF HeapInv, GoodHeap
  <2>2. HeapStart \in Nat /\ HeapStart > 0 /\ Base = 0
    BY Xv6MallocAssumption DEF Base
  <2>3. /\ DOMAIN h = DOMAIN given \union (DOMAIN blocks \ {Base}) \union foreign
        /\ \A a \in DOMAIN given : h[a] = given[a]
        /\ \A a \in foreign : h[a] = 1
        /\ \A a \in DOMAIN blocks : a # Base => h[a] = blocks[a].size
    BY <2>1 DEF Pieces, Separate
  <2> HIDE DEF h
  <2>4. \A a \in DOMAIN given : Extent(a, given[a]) \subseteq HeapStart .. brk - 1
    <3> SUFFICES ASSUME NEW a \in DOMAIN given
                 PROVE  Extent(a, given[a]) \subseteq HeapStart .. brk - 1
      OBVIOUS
    <3>1. a \in Nat /\ given[a] \in Nat \ {0} /\ HeapStart <= a /\ a + given[a] <= brk
      BY <2>1, <2>3 DEF Tiles
    <3> QED
      BY <2>1, <2>2, <3>1 DEF Extent
  <2>5. ASSUME NEW u \in HeapStart .. brk - 1
        PROVE  Cardinality(Owners(u)) = 1
    <3>1. PICK a \in DOMAIN h : a <= u /\ u < a + h[a]
      BY <2>1 DEF Tiles
    <3>2. u \in Nat /\ \A b \in DOMAIN h : b \in Nat /\ h[b] \in Nat \ {0}
      BY <2>1, <2>2 DEF Tiles
    <3>3. \A b \in DOMAIN h : b <= u /\ u < b + h[b] => b = a
      <4> SUFFICES ASSUME NEW b \in DOMAIN h, b <= u, u < b + h[b], b # a
                   PROVE  FALSE
        OBVIOUS
      <4>1. CASE a < b
        <5>1. a + h[a] <= b
          BY <2>1, <4>1 DEF Tiles
        <5> QED
          BY <3>1, <3>2, <5>1
      <4>2. CASE b < a
        <5>1. b + h[b] <= a
          BY <2>1, <4>2 DEF Tiles
        <5> QED
          BY <3>1, <3>2, <5>1
      <4> QED
        BY <3>2, <4>1, <4>2
    <3>4. \A b \in DOMAIN given : u \in Extent(b, given[b]) <=> b = a
      <4> SUFFICES ASSUME NEW b \in DOMAIN given
                   PROVE  u \in Extent(b, given[b]) <=> b = a
        OBVIOUS
      <4>1. b \in DOMAIN h /\ h[b] = given[b] /\ b \in Nat /\ h[b] \in Nat \ {0}
        BY <2>3, <3>2
      <4> QED
        BY <3>1, <3>2, <3>3, <4>1 DEF Extent
    <3>5. \A b \in DOMAIN blocks : u \in Extent(b, blocks[b].size) <=> b = a
      <4> SUFFICES ASSUME NEW b \in DOMAIN blocks
                   PROVE  u \in Extent(b, blocks[b].size) <=> b = a
        OBVIOUS
      <4>1. CASE b = Base
        <5>1. blocks[b].size = 0
          BY <2>1, <4>1 DEF GoodFree
        <5>2. a # Base
          BY <2>1, <2>2, <3>1 DEF Tiles
        <5> QED
          BY <2>2, <3>2, <4>1, <5>1, <5>2 DEF Extent
      <4>2. CASE b # Base
        <5>1. b \in DOMAIN h /\ h[b] = blocks[b].size /\ b \in Nat /\ h[b] \in Nat \ {0}
          BY <2>3, <3>2, <4>2
        <5> QED
          BY <3>1, <3>2, <3>3, <5>1 DEF Extent
      <4> QED
        BY <4>1, <4>2
    <3>6. u \in foreign <=> a \in foreign /\ u = a
      <4>1. u \in foreign => u \in DOMAIN h /\ h[u] = 1
        BY <2>3
      <4> QED
        BY <3>2, <3>3, <4>1
    <3>7. a \in foreign => a = u
      BY <2>3, <3>1, <3>2
    <3>8. Owners(u) = {a}
      BY <2>3, <3>1, <3>4, <3>5, <3>6, <3>7 DEF Owners
    <3> QED
      BY <3>8, FS_Singleton
  <2>6. HeapAccounted
    BY <2>1, <2>4, <2>5 DEF HeapAccounted, Separate
  <2>7. ASSUME NEW a \in DOMAIN blocks
        PROVE  LET higher == {b \in DOMAIN blocks : b > a}
               IN  /\ blocks[a].ptr = IF higher = {} THEN Base
                                      ELSE CHOOSE b \in higher : \A c \in higher : b <= c
                   /\ a # Base => a + blocks[a].size \notin DOMAIN blocks
    <3> DEFINE higher == {b \in DOMAIN blocks : b > a}
    <3>1. Follows(DOMAIN blocks, a, blocks[a].ptr) /\ DOMAIN blocks \subseteq Nat
      BY <2>1 DEF GoodFree
    <3>2. CASE higher = {}
      <4>1. blocks[a].ptr = Base
        BY <3>1, <3>2 DEF Follows
      <4> QED
        BY <2>1, <3>2, <4>1 DEF Merged
    <3>3. CASE higher # {}
      <4>1. /\ blocks[a].ptr \in higher /\ \A c \in higher : blocks[a].ptr <= c
        BY <3>1, <3>3 DEF Follows
      <4>2. \A b \in higher : (\A c \in higher : b <= c) => b = blocks[a].ptr
        BY <3>1, <4>1
      <4>3. blocks[a].ptr = CHOOSE b \in higher : \A c \in higher : b <= c
        <5> HIDE DEF higher
        <5> QED
          BY <4>1, <4>2
      <4> QED
        BY <2>1, <3>3, <4>3 DEF Merged
    <3> QED
      BY <3>2, <3>3
  <2> QED
    BY <2>1, <2>6, <2>7 DEF HeapSound, RingMerged
<1> QED
  BY <1>1, HeapInvariant, PTL
=============================================================================
