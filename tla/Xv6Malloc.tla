------------------------------ MODULE Xv6Malloc -----------------------------
(***************************************************************************)
(* The memory allocator of xv6's user programs (user/umalloc.c): a ring of *)
(* free blocks in the order of their addresses, entered at freep.          *)
(*                                                                         *)
(* Addresses and sizes are in units of a header.  The static header base   *)
(* is at address 0, below the heap.  A request for 2^31 bytes or more,     *)
(* which sbrk(int) would take for another number, is outside the model.    *)
(***************************************************************************)
EXTENDS Integers, FiniteSets, Functions

CONSTANTS
    HeapStart,    \* address of the first unit that sbrk() returns
    HeapEnd,      \* address at which sbrk() fails
    MoreUnits,    \* 4096: the least that morecore() asks for
    Units         \* the nunits of the requests, header included

ASSUME Xv6MallocAssumption ==
    /\ HeapStart \in Nat /\ HeapStart > 0
    /\ HeapEnd \in Nat /\ MoreUnits \in Nat \ {0}
    /\ Units \subseteq Nat \ {0}

VARIABLES
    blocks,       \* the free blocks, base included: address -> [ptr, size]
    freep,
    brk,          \* the end of the heap
    given,        \* blocks malloc() returned and free() did not get: address -> size
    foreign       \* units that the program got by sbrk() itself

heapVars == <<blocks, freep, brk, given, foreign>>

Base == 0

\* base is a ring of its own, as the first malloc() makes it.
MallocInit ==
    /\ blocks = [a \in {Base} |-> [ptr |-> Base, size |-> 0]]
    /\ freep = Base
    /\ brk = HeapStart
    /\ given = [a \in {} |-> 0]
    /\ foreign = {}

\* The block k steps behind p in ring f.
Behind(f, p, k) ==
    LET go[n \in 0 .. k] == IF n = 0 THEN p ELSE f[go[n - 1]].ptr
    IN  go[k]

\* The first block from p on, round the ring once, that is in S; -1 if none is.
FirstFrom(f, p, S) ==
    LET found == {k \in 0 .. Cardinality(DOMAIN f) - 1 : Behind(f, p, k) \in S}
    IN  IF found = {} THEN -1
        ELSE Behind(f, p, CHOOSE k \in found : \A j \in found : k <= j)
-----------------------------------------------------------------------------
(* free                                                                    *)

\* Block bp belongs behind p: between p and the next one, or, where the ring goes from
\* the highest block to the lowest, outside.
Belongs(f, p, bp) ==
    \/ bp > p /\ bp < f[p].ptr
    \/ p >= f[p].ptr /\ (bp > p \/ bp < f[p].ptr)

\* Mutant: joined with the next block only.
JoinLower_Never(f, p, bp) == [f EXCEPT ![p].ptr = bp]

\* Block bp is joined with p, or put behind it.
JoinLower(f, p, bp) ==
    IF p + f[p].size = bp
      THEN Restrict([f EXCEPT ![p] = [ptr |-> f[bp].ptr, size |-> @.size + f[bp].size]],
                    DOMAIN f \ {bp})
      ELSE [f EXCEPT ![p].ptr = bp]

\* Block bp of n units before the next one, or joined with it.
JoinUpper(f, p, bp, n) ==
    LET next == f[p].ptr
    IN  IF bp + n = next
          THEN [a \in (DOMAIN f \ {next}) \union {bp} |->
                    IF a = bp THEN [ptr |-> f[next].ptr, size |-> n + f[next].size]
                    ELSE f[a]]
          ELSE [a \in DOMAIN f \union {bp} |->
                    IF a = bp THEN [ptr |-> next, size |-> n] ELSE f[a]]

\* The block that bp goes behind, and the ring with bp in it.
Place(f, p, bp)    == FirstFrom(f, p, {q \in DOMAIN f : Belongs(f, q, bp)})
Freed(f, p, bp, n) == JoinLower(JoinUpper(f, p, bp, n), p, bp)

FreeBlock(bp) ==
    LET p == Place(blocks, freep, bp)
    IN  /\ bp \in DOMAIN given
        /\ p # -1
        /\ blocks' = Freed(blocks, p, bp, given[bp])
        /\ freep' = p
        /\ given' = Restrict(given, DOMAIN given \ {bp})
        /\ UNCHANGED <<brk, foreign>>
-----------------------------------------------------------------------------
(* malloc                                                                  *)

Larger(a, b) == IF a > b THEN a ELSE b

\* The block before p in the ring.
Prev(f, p) == CHOOSE q \in DOMAIN f : f[q].ptr = p

\* The ring after nunits were taken from block p: all of it, or its tail.
Taken(f, p, nunits) ==
    IF f[p].size = nunits
      THEN Restrict([f EXCEPT ![Prev(f, p)].ptr = f[p].ptr], DOMAIN f \ {p})
      ELSE [f EXCEPT ![p].size = @ - nunits]

\* The search ends at the first block that is large enough, from the one behind at.
Fit(f, at, nunits) == FirstFrom(f, f[at].ptr, {q \in DOMAIN f : f[q].size >= nunits})

\* The program's blocks with one more, of n units.
Given(bp, n) == [a \in DOMAIN given \union {bp} |-> IF a = bp THEN n ELSE given[a]]

\* Ring f with freep at, and the heap up to top, after nunits were given to the program.
Give(f, at, top, nunits) ==
    LET p == Fit(f, at, nunits)
    IN  /\ p # -1
        /\ blocks' = Taken(f, p, nunits)
        /\ freep' = Prev(f, p)
        /\ given' = Given(p + f[p].size - nunits, nunits)
        /\ brk' = top
        /\ UNCHANGED foreign

Malloc(nunits) == Fit(blocks, freep, nunits) # -1 /\ Give(blocks, freep, brk, nunits)

\* No block fits: morecore() gets one from sbrk(), frees it, and the search goes on.
MallocMore(nunits) ==
    LET nu == Larger(nunits, MoreUnits)
        p  == Place(blocks, freep, brk)
    IN  /\ Fit(blocks, freep, nunits) = -1
        /\ brk + nu <= HeapEnd /\ p # -1
        /\ Give(Freed(blocks, p, brk, nu), p, brk + nu, nunits)

\* sbrk() fails, and so does malloc(): nothing has changed.
MallocFails(nunits) ==
    /\ Fit(blocks, freep, nunits) = -1
    /\ brk + Larger(nunits, MoreUnits) > HeapEnd
    /\ UNCHANGED heapVars

\* The program itself calls sbrk(): morecore()'s next block is not adjacent.
ForeignSbrk ==
    /\ brk < HeapEnd
    /\ brk' = brk + 1
    /\ foreign' = foreign \union {brk}
    /\ UNCHANGED <<blocks, freep, given>>

MallocNext ==
    \/ \E n \in Units : Malloc(n) \/ MallocMore(n) \/ MallocFails(n)
    \/ \E bp \in DOMAIN given : FreeBlock(bp)
    \/ ForeignSbrk

MallocSpec == MallocInit /\ [][MallocNext]_heapVars
-----------------------------------------------------------------------------
(* Properties                                                              *)

Extent(a, n) == a .. a + n - 1

Owners(u) ==
    {a \in DOMAIN given  : u \in Extent(a, given[a])}
    \union {a \in DOMAIN blocks : u \in Extent(a, blocks[a].size)}
    \union ({u} \intersect foreign)

\* Every unit of the heap is in one block, free or given to the program, or the program
\* got it itself: no two malloc()s return the same memory, however blocks were split and
\* joined, and none is lost.
HeapAccounted ==
    /\ DOMAIN given \intersect DOMAIN blocks = {}
    /\ foreign \intersect (DOMAIN given \union DOMAIN blocks) = {}
    /\ \A u \in HeapStart .. brk - 1 : Cardinality(Owners(u)) = 1
    /\ \A a \in DOMAIN given : Extent(a, given[a]) \subseteq HeapStart .. brk - 1

\* free() finds the place of a block in one round and memory does not stay in pieces:
\* freep is in the ring, the ring passes all free blocks in the order of their addresses,
\* and no two of them are adjacent.
RingMerged ==
    /\ freep \in DOMAIN blocks
    /\ \A a \in DOMAIN blocks :
        LET higher == {b \in DOMAIN blocks : b > a}
        IN  /\ blocks[a].ptr = IF higher = {} THEN Base
                               ELSE CHOOSE b \in higher : \A c \in higher : b <= c
            /\ a # Base => a + blocks[a].size \notin DOMAIN blocks

\* malloc() and free() neither lose memory nor give it away twice nor leave it in pieces.
HeapSound == HeapAccounted /\ RingMerged
=============================================================================
